--------------------------- MODULE ShloOpt_proofs ---------------------------
(***************************************************************************)
(* What the pass pipeline of stage P5 keeps for every graph the builders   *)
(* can make, whatever its size: the use lists mirror the operands, no      *)
(* operator reads the result of an erased one, and fusion groups keep      *)
(* their intermediates to themselves.                                      *)
(***************************************************************************)
EXTENDS ShloOpt, FiniteSetTheorems, WellFoundedInduction, TLAPS

(***************************************************************************)
(* Induction over a set of natural numbers: the library's theorems take an *)
(* operator, which the provers cannot instantiate.                         *)
(***************************************************************************)
\* A set of natural numbers has a least element.
LEMMA LeastNat ==
  ASSUME NEW T, T \subseteq Nat, T # {}
  PROVE  \E x \in T : \A y \in T : x <= y
<1>1. IsWellFoundedOn(OpToRel(<, Nat), Nat)
  BY NatLessThanWellFounded
<1>2. PICK x \in T : \A y \in T : ~(<<y, x>> \in OpToRel(<, Nat))
  BY <1>1, WFMin
<1>3. OpToRel(<, Nat) = {ss \in Nat \X Nat : ss[1] < ss[2]}
  BY Zenon DEF OpToRel
<1> DEFINE Less == {ss \in Nat \X Nat : ss[1] < ss[2]}
<1>4. \A y \in T : <<y, x>> \notin Less
  BY <1>2, <1>3, Zenon
<1>5. \A y \in T : ~(y < x)
  BY <1>4
<1>6. \A y \in T : x <= y
  BY <1>5, x \in Nat
<1>7. QED
  BY <1>6

\* A set with 0 and the successors of its elements up to a bound has the numbers up
\* to the bound.
LEMMA UpTo ==
  ASSUME NEW N \in Nat, NEW P, 0 \in P,
         \A n \in Nat : n < N /\ n \in P => n + 1 \in P
  PROVE  0 .. N \subseteq P
<1> DEFINE Q == (0 .. N) \ P
<1>1. SUFFICES ASSUME Q # {} PROVE FALSE
  OBVIOUS
<1>2. PICK x \in Q : \A y \in Q : x <= y
  <2>1. Q \subseteq Nat
    OBVIOUS
  <2> HIDE DEF Q
  <2>2. QED
    BY <1>1, <2>1, LeastNat
<1>3. x \in 0 .. N /\ x \notin P
  OBVIOUS
<1>4. x # 0
  BY <1>3
<1>5. x - 1 \in 0 .. N /\ x - 1 \in Nat /\ x - 1 < N /\ x - 1 + 1 = x /\ ~(x <= x - 1)
  BY <1>3, <1>4
<1>6. x - 1 \in P
  BY <1>2, <1>5
<1>7. x \in P
  BY <1>5, <1>6
<1>8. QED
  BY <1>3, <1>7

\* f starts with base and goes on by step up to k.
Recursion(f, k, base, step) ==
    /\ \E V : f \in [0 .. k -> V]
    /\ f[0] = base
    /\ \A n \in 0 .. k - 1 : f[n + 1] = step[<<n + 1, f[n]>>]

\* Such a function exists for any first value and any step.
LEMMA RecursionExists ==
  ASSUME NEW N \in Nat, NEW base, NEW step
  PROVE  \E f : Recursion(f, N, base, step)
<1> DEFINE StepsOn(V, f, k) == /\ f \in [0 .. k -> V]
                               /\ f[0] = base
                               /\ \A n \in 0 .. k - 1 : f[n + 1] = step[<<n + 1, f[n]>>]
           P == {k \in Nat : \E V, f : StepsOn(V, f, k)}
<1>1. 0 \in P
  <2> DEFINE first == [n \in 0 .. 0 |-> base]
  <2>1. StepsOn({base}, first, 0)
    OBVIOUS
  <2> HIDE DEF StepsOn, first
  <2>2. QED
    BY <2>1
<1>2. ASSUME NEW k \in Nat, k \in P PROVE k + 1 \in P
  <2>1. PICK V, f : StepsOn(V, f, k)
    BY <1>2
  <2> DEFINE last == step[<<k + 1, f[k]>>]
             W == V \cup {last}
             g == [n \in 0 .. k + 1 |-> IF n = k + 1 THEN last ELSE f[n]]
  <2>2. /\ g \in [0 .. k + 1 -> W]
        /\ g[k + 1] = last
        /\ \A n \in 0 .. k : g[n] = f[n]
    BY <2>1
  <2> HIDE DEF g, W
  <2>3. g[0] = base
    <3>1. 0 \in 0 .. k
      OBVIOUS
    <3>2. QED
      BY <2>1, <2>2, <3>1, Zenon
  <2>4. ASSUME NEW n \in 0 .. k PROVE g[n + 1] = step[<<n + 1, g[n]>>]
    <3>1. CASE n = k
      BY <2>2, <3>1
    <3>2. CASE n # k
      <4>1. n \in 0 .. k - 1 /\ n + 1 \in 0 .. k
        BY <3>2
      <4>2. QED
        BY <2>1, <2>2, <4>1
    <3>3. QED
      BY <3>1, <3>2
  <2>5. StepsOn(W, g, k + 1)
    <3>1. k + 1 - 1 = k
      OBVIOUS
    <3>2. QED
      BY <2>2, <2>3, <2>4, <3>1
  <2> HIDE DEF StepsOn
  <2>6. QED
    BY <2>5
<1> HIDE DEF P, StepsOn
<1>3. N \in P
  <2>1. 0 .. N \subseteq P
    BY <1>1, <1>2, UpTo
  <2>2. QED
    BY <2>1
<1>4. PICK V, f : StepsOn(V, f, N)
  BY <1>3 DEF P
<1>5. QED
  BY <1>4, Zenon DEF Recursion, StepsOn

(***************************************************************************)
(* Sequences of anything, as tables with the domain 1..n.                  *)
(***************************************************************************)
Table(s) == \E n \in Nat : s = [i \in 1 .. n |-> s[i]]

\* A table is a sequence of its own entries.
LEMMA TableIsSeq ==
  ASSUME NEW s, Table(s)
  PROVE  s \in Seq(ToSet(s)) /\ Len(s) \in Nat /\ DOMAIN s = 1 .. Len(s)
<1>1. PICK n \in Nat : s = [i \in 1 .. n |-> s[i]]
  BY DEF Table
<1>2. DOMAIN s = 1 .. n
  BY <1>1
<1>3. \A i \in 1 .. n : s[i] \in ToSet(s)
  BY <1>2 DEF ToSet
<1>4. s \in [1 .. n -> ToSet(s)]
  BY <1>1, <1>3
<1>5. QED
  BY <1>2, <1>4

\* A sequence of anything is a table.
LEMMA SeqIsTable ==
  ASSUME NEW S, NEW s \in Seq(S)
  PROVE  Table(s)
<1>1. Len(s) \in Nat /\ s = [i \in 1 .. Len(s) |-> s[i]]
  OBVIOUS
<1>2. QED
  BY <1>1 DEF Table

\* A function over the positions of a table is a table as long.
LEMMA TableOver ==
  ASSUME NEW s, Table(s), NEW t, t = [i \in DOMAIN s |-> t[i]]
  PROVE  Table(t) /\ Len(t) = Len(s) /\ DOMAIN t = DOMAIN s
<1>1. DOMAIN s = 1 .. Len(s) /\ Len(s) \in Nat
  BY TableIsSeq
<1>2. t = [i \in 1 .. Len(s) |-> t[i]]
  BY <1>1
<1>3. Table(t)
  BY <1>1, <1>2 DEF Table
<1>4. DOMAIN t = 1 .. Len(t) /\ Len(t) \in Nat
  BY <1>3, TableIsSeq
<1>5. DOMAIN t = 1 .. Len(s)
  BY <1>2
<1>6. Len(t) = Len(s)
  BY <1>1, <1>4, <1>5
<1>7. QED
  BY <1>1, <1>3, <1>5, <1>6

\* Append makes a table longer by one entry.
LEMMA TableAppend ==
  ASSUME NEW s, Table(s), NEW e
  PROVE  LET t == Append(s, e) IN
         /\ Table(t)
         /\ Len(t) = Len(s) + 1
         /\ DOMAIN t = (DOMAIN s) \cup {Len(s) + 1}
         /\ \A i \in DOMAIN s : t[i] = s[i]
         /\ t[Len(s) + 1] = e
<1> DEFINE S == ToSet(s) \cup {e}
           t == Append(s, e)
           N == Len(s)
<1>1. s \in Seq(S) /\ N \in Nat /\ DOMAIN s = 1 .. N
  BY TableIsSeq, ToSet(s) \subseteq S
<1>2. t \in Seq(S) /\ Len(t) = N + 1
  BY <1>1
<1>3. Table(t)
  BY <1>2, SeqIsTable
<1>4. DOMAIN t = 1 .. N + 1
  BY <1>1, <1>2
<1>5. (\A i \in 1 .. N : t[i] = s[i]) /\ t[N + 1] = e
  BY <1>1
<1> HIDE DEF t, N
<1>6. 1 .. N + 1 = (1 .. N) \cup {N + 1}
  BY <1>1
<1>7. QED
  BY <1>1, <1>2, <1>3, <1>4, <1>5, <1>6 DEF t, N

\* RemoveAt closes the gap.
LEMMA TableRemove ==
  ASSUME NEW s, Table(s), NEW p \in DOMAIN s
  PROVE  LET t == RemoveAt(s, p) IN
         /\ Table(t)
         /\ Len(t) = Len(s) - 1
         /\ \A i \in DOMAIN t : t[i] = s[IF i < p THEN i ELSE i + 1]
<1> DEFINE S == ToSet(s)
           front == SubSeq(s, 1, p - 1)
           back == SubSeq(s, p + 1, Len(s))
           t == RemoveAt(s, p)
           N == Len(s)
<1>1. s \in Seq(S) /\ N \in Nat /\ p \in 1 .. N
  BY TableIsSeq
<1> HIDE DEF S
<1>2. /\ front \in Seq(S)
      /\ Len(front) = p - 1
      /\ \A k \in 1 .. p - 1 : front[k] = s[k]
  BY <1>1
<1>3. /\ back \in Seq(S)
      /\ Len(back) = N - p
      /\ \A k \in 1 .. N - p : back[k] = s[k + p]
  BY <1>1
<1>4. t = front \o back
  BY DEF RemoveAt
<1> HIDE DEF front, back, t
<1>5. t \in Seq(S) /\ Len(t) = N - 1 /\ DOMAIN t = 1 .. N - 1
  BY <1>1, <1>2, <1>3, <1>4
<1>6. Table(t)
  BY <1>5, SeqIsTable
<1>7. ASSUME NEW i \in 1 .. N - 1 PROVE t[i] = s[IF i < p THEN i ELSE i + 1]
  BY <1>1, <1>2, <1>3, <1>4
<1>8. QED
  BY <1>5, <1>6, <1>7 DEF t

(***************************************************************************)
(* The invariant: a graph is sound if it is built of operators with the    *)
(* operands their mnemonics ask for, lists each once, has use lists that   *)
(* mirror the operands, and reads only what is there.  Definitions may     *)
(* come after uses, so that the absence of cycles is stated by ranks.      *)
(***************************************************************************)
WellAttributed(a) ==
  /\ a = [permutation |-> a.permutation, fusion_group |-> a.fusion_group,
          layout |-> a.layout, input_layout |-> a.input_layout,
          fused_bn |-> a.fused_bn]
  /\ a.permutation \in Rotations

Formed(op) ==
  /\ op = [mnemonic |-> op.mnemonic, operands |-> op.operands, type |-> op.type,
           data |-> op.data, attrs |-> op.attrs, legal |-> op.legal]
  /\ WellAttributed(op.attrs)
  /\ op.mnemonic \in Mnemonics
  /\ op.operands \in Seq(Nat) /\ Len(op.operands) = Arity(op.mnemonic)
  /\ op.type \in Types

Once(g) == \A i, j \in DOMAIN g.ops : g.ops[i] = g.ops[j] => i = j

Arguments(g) == {v \in DOMAIN g.value : g.value[v].mnemonic = "arg"}

Sources(g) == Live(g) \cup Arguments(g)

Tables(g) ==
  /\ g = [value |-> g.value, ops |-> g.ops, users |-> g.users, returns |-> g.returns]
  /\ Table(g.value) /\ Table(g.ops) /\ Table(g.users)
  /\ Len(g.users) = Len(g.value)

Listed(g) ==
  /\ Live(g) \subseteq DOMAIN g.value
  /\ Live(g) \cap Arguments(g) = {}
  /\ Once(g)

AllFormed(g) == \A v \in DOMAIN g.value : Formed(g.value[v])

ReadsSources(g) == \A o \in Live(g) : Operands(g, o) \subseteq Sources(g)

Sound(g) ==
  /\ Tables(g)
  /\ Listed(g)
  /\ AllFormed(g)
  /\ UsersMirror(g)
  /\ ReadsSources(g)

\* Operators rank above what they read.
Ranks(g, rank) ==
  /\ rank \in [DOMAIN g.value -> Nat]
  /\ \A o \in Live(g) : \A v \in Operands(g, o) : rank[v] < rank[o]

Acyclic(g) == \E rank : Ranks(g, rank)

\* What Sound says of the domains.
LEMMA SoundDomains ==
  ASSUME NEW g, Sound(g)
  PROVE  /\ Len(g.value) \in Nat
         /\ DOMAIN g.value = 1 .. Len(g.value)
         /\ DOMAIN g.users = DOMAIN g.value
         /\ Len(g.ops) \in Nat
         /\ DOMAIN g.ops = 1 .. Len(g.ops)
         /\ Sources(g) \subseteq DOMAIN g.value
         /\ \A v \in Sources(g) : v \in Nat
<1>1. Tables(g) /\ Listed(g)
  BY DEF Sound
<1>2. /\ Len(g.value) \in Nat
      /\ DOMAIN g.value = 1 .. Len(g.value)
      /\ DOMAIN g.users = DOMAIN g.value
      /\ Len(g.ops) \in Nat
      /\ DOMAIN g.ops = 1 .. Len(g.ops)
  BY <1>1, TableIsSeq DEF Tables
<1>3. Sources(g) \subseteq DOMAIN g.value
  BY <1>1 DEF Listed, Sources, Arguments
<1>4. QED
  BY <1>2, <1>3

\* Closed in terms of the sources.
LEMMA ClosedIsReadsSources ==
  ASSUME NEW g
  PROVE  Closed(g) <=> ReadsSources(g)
BY DEF Closed, ReadsSources, Sources, Arguments

\* What an operator of the builders is, field by field.
LEMMA OperatorIsFormed ==
  ASSUME NEW op, IsOperator(op)
  PROVE  Formed(op)
<1>1. /\ op \in [mnemonic : Mnemonics, operands : Seq(Nat), type : Types, data : Int,
                attrs : Attributes, legal : BOOLEAN]
      /\ Len(op.operands) = Arity(op.mnemonic)
  BY DEF IsOperator
<1>2. op \in [mnemonic : Mnemonics, operands : Seq(Nat), type : Types, data : Int,
              attrs : Attributes, legal : BOOLEAN]
  BY <1>1
<1>3. /\ op = [mnemonic |-> op.mnemonic, operands |-> op.operands, type |-> op.type,
               data |-> op.data, attrs |-> op.attrs, legal |-> op.legal]
      /\ op.mnemonic \in Mnemonics
      /\ op.operands \in Seq(Nat)
      /\ op.type \in Types
      /\ op.attrs \in Attributes
  BY <1>2
<1>4. WellAttributed(op.attrs)
  BY <1>3 DEF Attributes, WellAttributed
<1>5. QED
  BY <1>1, <1>3, <1>4 DEF Formed

\* The graphs the pipeline is given are sound and ranked by their numbers.
LEMMA BuiltIsSound ==
  ASSUME NEW g, IsBuilt(g)
  PROVE  Sound(g) /\ Acyclic(g)
<1>1. /\ g = [value |-> g.value, ops |-> g.ops, users |-> g.users, returns |-> g.returns]
      /\ g.value \in Seq(ToSet(g.value))
      /\ \A v \in DOMAIN g.value : IsOperator(g.value[v])
      /\ g.ops \in Seq(DOMAIN g.value)
      /\ \A i, j \in DOMAIN g.ops : g.ops[i] = g.ops[j] => i = j
      /\ \A o \in Live(g) :
           /\ g.value[o].mnemonic # "arg"
           /\ \A v \in Operands(g, o) : v < o
      /\ g.users \in Seq(SUBSET Live(g)) /\ Len(g.users) = Len(g.value)
      /\ UsersMirror(g) /\ Closed(g)
  BY DEF IsBuilt
<1>2. Tables(g)
  BY <1>1, SeqIsTable DEF Tables
<1>3. Live(g) \subseteq DOMAIN g.value
  BY <1>1 DEF Live, ToSet
<1>4. Listed(g)
  BY <1>1, <1>3 DEF Listed, Once, Arguments
<1>5. AllFormed(g)
  BY <1>1, OperatorIsFormed DEF AllFormed
<1>6. Sound(g)
  BY <1>1, <1>2, <1>4, <1>5, ClosedIsReadsSources DEF Sound
<1>7. Ranks(g, [v \in DOMAIN g.value |-> v])
  <2>1. \A v \in DOMAIN g.value : v \in Nat
    BY <1>6, SoundDomains
  <2>2. \A o \in Live(g) : o \in DOMAIN g.value /\ Operands(g, o) \subseteq DOMAIN g.value
    BY <1>3, <1>6, SoundDomains DEF Sound, ReadsSources
  <2>3. QED
    BY <1>1, <2>1, <2>2 DEF Ranks
<1>8. QED
  BY <1>6, <1>7 DEF Acyclic

(***************************************************************************)
(* add_op                                                                  *)
(***************************************************************************)
\* Every entry that AddOp leaves, and those it makes.
Added(g, op, h, o) ==
  /\ Tables(h)
  /\ Newest(h) = o
  /\ o \notin DOMAIN g.value
  /\ DOMAIN h.value = (DOMAIN g.value) \cup {o}
  /\ \A v \in DOMAIN g.value : h.value[v] = g.value[v]
  /\ h.value[o] = op
  /\ h.users[o] = {}
  /\ \A v \in DOMAIN g.value :
       h.users[v] = IF v \in ToSet(op.operands) THEN g.users[v] \cup {o}
                    ELSE g.users[v]
  /\ Live(h) = Live(g) \cup {o}
  /\ Len(g.ops) \in Nat
  /\ DOMAIN h.ops = (DOMAIN g.ops) \cup {Len(g.ops) + 1}
  /\ \A i \in DOMAIN g.ops : h.ops[i] = g.ops[i]
  /\ h.ops[Len(g.ops) + 1] = o

\* The lists after an operator has been added.
LEMMA AddOpEntries ==
  ASSUME NEW g, Sound(g), NEW op
  PROVE  Added(g, op, AddOp(g, op), Len(g.value) + 1)
<1> DEFINE h == AddOp(g, op)
           o == Len(g.value) + 1
           us == [v \in DOMAIN g.users |->
                   IF v \in ToSet(op.operands) THEN g.users[v] \cup {o} ELSE g.users[v]]
           vs == Append(g.value, op)
           os == Append(g.ops, o)
           ws == Append(us, {})
<1>1. /\ Tables(g)
      /\ Len(g.value) \in Nat
      /\ DOMAIN g.value = 1 .. Len(g.value)
      /\ DOMAIN g.users = DOMAIN g.value
      /\ Len(g.ops) \in Nat
  BY SoundDomains DEF Sound
<1>2. h = [value |-> vs, ops |-> os, users |-> ws, returns |-> g.returns]
  <2>1. h = [g EXCEPT !.value = vs, !.ops = os, !.users = ws]
    BY Zenon DEF AddOp
  <2>2. g = [value |-> g.value, ops |-> g.ops, users |-> g.users, returns |-> g.returns]
    BY <1>1 DEF Tables
  <2> HIDE DEF h, vs, os, ws
  <2>3. QED
    BY <2>1, <2>2
<1>3. Table(g.value) /\ Table(g.ops) /\ Table(g.users) /\ Len(g.users) = Len(g.value)
  BY <1>1 DEF Tables
<1>4. /\ Table(vs)
      /\ Len(vs) = Len(g.value) + 1
      /\ DOMAIN vs = (DOMAIN g.value) \cup {Len(g.value) + 1}
      /\ \A i \in DOMAIN g.value : vs[i] = g.value[i]
      /\ vs[Len(g.value) + 1] = op
  BY <1>3, TableAppend
<1>5. /\ Table(os)
      /\ DOMAIN os = (DOMAIN g.ops) \cup {Len(g.ops) + 1}
      /\ \A i \in DOMAIN g.ops : os[i] = g.ops[i]
      /\ os[Len(g.ops) + 1] = o
  BY <1>3, TableAppend
<1>6. us = [v \in DOMAIN g.users |-> us[v]]
  OBVIOUS
<1>7. \A v \in DOMAIN g.value :
        us[v] = IF v \in ToSet(op.operands) THEN g.users[v] \cup {o} ELSE g.users[v]
  BY <1>1
<1> HIDE DEF us, h
<1>8. Table(us) /\ Len(us) = Len(g.users) /\ DOMAIN us = DOMAIN g.users
  BY <1>3, <1>6, TableOver
<1>9. /\ Table(ws)
      /\ Len(ws) = Len(us) + 1
      /\ \A i \in DOMAIN us : ws[i] = us[i]
      /\ ws[Len(us) + 1] = {}
  BY <1>8, TableAppend
<1> HIDE DEF vs, os, ws
<1>10. h.value = vs /\ h.ops = os /\ h.users = ws /\ h.returns = g.returns
  BY <1>2
<1>11. Tables(h)
  BY <1>2, <1>3, <1>4, <1>5, <1>8, <1>9, <1>10 DEF Tables
<1>12. Newest(h) = o
  BY <1>4, <1>10 DEF Newest
<1>13. o \notin DOMAIN g.value
  BY <1>1
<1>14. Live(h) = Live(g) \cup {o}
  <2>1. {os[i] : i \in (DOMAIN g.ops) \cup {Len(g.ops) + 1}}
           = {g.ops[i] : i \in DOMAIN g.ops} \cup {o}
    <3> DEFINE D == DOMAIN g.ops
               m == Len(g.ops) + 1
    <3>1. (\A i \in D : os[i] = g.ops[i]) /\ os[m] = o
      BY <1>5
    <3> HIDE DEF D, m, o
    <3>2. {os[i] : i \in D \cup {m}} = {g.ops[i] : i \in D} \cup {o}
      BY <3>1
    <3>3. QED
      BY <3>2 DEF D, m
  <2>2. QED
    BY <1>5, <1>10, <2>1 DEF Live, ToSet
<1>15. (\A i \in DOMAIN g.ops : h.ops[i] = g.ops[i]) /\ h.ops[Len(g.ops) + 1] = o
  BY <1>5, <1>10
<1>16. h.users[o] = {} /\ \A v \in DOMAIN g.value : h.users[v] = us[v]
  BY <1>1, <1>3, <1>8, <1>9, <1>10
<1>17. QED
  BY <1>1, <1>4, <1>5, <1>7, <1>10, <1>11, <1>12, <1>13, <1>14, <1>15, <1>16 DEF h, Added

\* An added operator keeps a graph sound.
LEMMA AddOpSound ==
  ASSUME NEW g, Sound(g), NEW op, Formed(op), op.mnemonic # "arg",
         ToSet(op.operands) \subseteq Sources(g)
  PROVE  /\ Sound(AddOp(g, op))
         /\ Arguments(AddOp(g, op)) = Arguments(g)
         /\ Sources(AddOp(g, op)) = Sources(g) \cup {Len(g.value) + 1}
<1> DEFINE h == AddOp(g, op)
           o == Len(g.value) + 1
<1>1. /\ Tables(h)
      /\ o \notin DOMAIN g.value
      /\ DOMAIN h.value = (DOMAIN g.value) \cup {o}
      /\ \A v \in DOMAIN g.value : h.value[v] = g.value[v]
      /\ h.value[o] = op
      /\ h.users[o] = {}
      /\ \A v \in DOMAIN g.value :
           h.users[v] = IF v \in ToSet(op.operands) THEN g.users[v] \cup {o}
                        ELSE g.users[v]
      /\ Live(h) = Live(g) \cup {o}
      /\ Len(g.ops) \in Nat
      /\ DOMAIN h.ops = (DOMAIN g.ops) \cup {Len(g.ops) + 1}
      /\ \A i \in DOMAIN g.ops : h.ops[i] = g.ops[i]
      /\ h.ops[Len(g.ops) + 1] = o
  <2>1. Added(g, op, h, o)
    BY AddOpEntries
  <2> HIDE DEF h, o
  <2>2. QED
    BY <2>1 DEF Added
<1> HIDE DEF h, o
<1>2. /\ Listed(g) /\ AllFormed(g) /\ UsersMirror(g) /\ ReadsSources(g)
      /\ Sources(g) \subseteq DOMAIN g.value
  BY SoundDomains DEF Sound
<1>3. Live(g) \subseteq DOMAIN g.value /\ Live(g) \cap Arguments(g) = {} /\ Once(g)
  BY <1>2 DEF Listed
<1>4. Arguments(h) = Arguments(g)
  BY <1>1 DEF Arguments
<1>5. Sources(h) = Sources(g) \cup {o}
  BY <1>1, <1>4 DEF Sources
<1>6. /\ \A v \in Live(g) : Operands(h, v) = Operands(g, v)
      /\ Operands(h, o) = ToSet(op.operands)
  BY <1>1, <1>3 DEF Operands
<1>7. Once(h)
  <2>1. \A i \in DOMAIN g.ops : g.ops[i] \in DOMAIN g.value
    BY <1>3 DEF Live, ToSet
  <2>2. QED
    BY <1>1, <1>3, <2>1 DEF Once
<1>8. Listed(h)
  BY <1>1, <1>3, <1>4, <1>7 DEF Listed, Arguments
<1>9. AllFormed(h)
  BY <1>1, <1>2 DEF AllFormed
<1>10. UsersMirror(h)
  <2>1. ASSUME NEW v \in DOMAIN g.value
        PROVE  h.users[v] = {u \in Live(h) : v \in Operands(h, u)}
    <3>1. g.users[v] = {u \in Live(g) : v \in Operands(g, u)}
      BY <1>2 DEF UsersMirror
    <3>2. {u \in Live(h) : v \in Operands(h, u)}
            = {u \in Live(g) : v \in Operands(g, u)}
              \cup {u \in {o} : v \in ToSet(op.operands)}
      BY <1>1, <1>6
    <3>3. QED
      BY <1>1, <3>1, <3>2
  <2>2. h.users[o] = {u \in Live(h) : o \in Operands(h, u)}
    <3>1. \A u \in Live(h) : o \notin Operands(h, u)
      BY <1>1, <1>2, <1>6 DEF ReadsSources
    <3>2. QED
      BY <1>1, <3>1
  <2>3. QED
    BY <1>1, <2>1, <2>2 DEF UsersMirror
<1>11. ReadsSources(h)
  BY <1>1, <1>2, <1>5, <1>6 DEF ReadsSources
<1>12. Sound(h)
  BY <1>1, <1>8, <1>9, <1>10, <1>11 DEF Sound
<1>13. QED
  BY <1>4, <1>5, <1>12 DEF h, o

\* It can be given any rank above those of its operands.
LEMMA AddOpRanks ==
  ASSUME NEW g, Sound(g), NEW op, NEW rank, Ranks(g, rank), NEW n \in Nat,
         ToSet(op.operands) \subseteq Sources(g),
         \A v \in ToSet(op.operands) : rank[v] < n
  PROVE  \E r : /\ Ranks(AddOp(g, op), r)
               /\ r[Len(g.value) + 1] = n
               /\ \A v \in DOMAIN g.value : r[v] = rank[v]
<1> DEFINE h == AddOp(g, op)
           o == Len(g.value) + 1
           r == [v \in DOMAIN h.value |-> IF v = o THEN n ELSE rank[v]]
<1>1. /\ o \notin DOMAIN g.value
      /\ DOMAIN h.value = (DOMAIN g.value) \cup {o}
      /\ \A v \in DOMAIN g.value : h.value[v] = g.value[v]
      /\ h.value[o] = op
      /\ Live(h) = Live(g) \cup {o}
  <2>1. Added(g, op, h, o)
    BY AddOpEntries
  <2> HIDE DEF h, o
  <2>2. QED
    BY <2>1 DEF Added
<1> HIDE DEF h, o
<1>2. /\ Live(g) \subseteq DOMAIN g.value
      /\ ReadsSources(g)
      /\ Sources(g) \subseteq DOMAIN g.value
  BY SoundDomains DEF Sound, Sources
<1>3. /\ \A v \in Live(g) : Operands(h, v) = Operands(g, v)
      /\ Operands(h, o) = ToSet(op.operands)
  BY <1>1, <1>2 DEF Operands
<1>4. /\ rank \in [DOMAIN g.value -> Nat]
      /\ \A u \in Live(g) : \A v \in Operands(g, u) : rank[v] < rank[u]
  BY DEF Ranks
<1>5. r \in [DOMAIN h.value -> Nat]
  BY <1>1, <1>4
<1>6. r[o] = n /\ \A v \in DOMAIN g.value : r[v] = rank[v]
  BY <1>1
<1> HIDE DEF r
<1>7. ASSUME NEW u \in Live(h), NEW v \in Operands(h, u) PROVE r[v] < r[u]
  <2>1. CASE u = o
    BY <1>2, <1>3, <1>6, <2>1
  <2>2. CASE u # o
    <3>1. u \in Live(g) /\ v \in Operands(g, u)
      BY <1>1, <1>3, <2>2
    <3>2. u \in DOMAIN g.value /\ v \in DOMAIN g.value
      BY <1>2, <3>1 DEF ReadsSources
    <3>3. QED
      BY <1>4, <1>6, <3>1, <3>2
  <2>3. QED
    BY <2>1, <2>2
<1>8. Ranks(h, r)
  BY <1>5, <1>7 DEF Ranks
<1>9. QED
  BY <1>6, <1>8 DEF h, o

(***************************************************************************)
(* Edits of operators that leave mnemonics and operands alone.             *)
(***************************************************************************)
Retouched(g, h) ==
  /\ Tables(h)
  /\ h.ops = g.ops /\ h.users = g.users
  /\ DOMAIN h.value = DOMAIN g.value
  /\ \A v \in DOMAIN g.value :
       /\ Formed(h.value[v])
       /\ h.value[v].mnemonic = g.value[v].mnemonic
       /\ h.value[v].operands = g.value[v].operands

\* Such an edit keeps a graph sound and its ranks.
LEMMA RetouchedSound ==
  ASSUME NEW g, Sound(g), NEW h, Retouched(g, h)
  PROVE  /\ Sound(h)
         /\ Live(h) = Live(g) /\ Arguments(h) = Arguments(g) /\ Sources(h) = Sources(g)
         /\ \A u \in DOMAIN g.value : Operands(h, u) = Operands(g, u)
         /\ \A rank : Ranks(g, rank) => Ranks(h, rank)
<1>1. /\ Tables(h)
      /\ h.ops = g.ops /\ h.users = g.users
      /\ DOMAIN h.value = DOMAIN g.value
      /\ \A v \in DOMAIN g.value :
           /\ Formed(h.value[v])
           /\ h.value[v].mnemonic = g.value[v].mnemonic
           /\ h.value[v].operands = g.value[v].operands
  BY DEF Retouched
<1>2. /\ Listed(g) /\ UsersMirror(g) /\ ReadsSources(g)
      /\ Live(g) \subseteq DOMAIN g.value
      /\ Sources(g) \subseteq DOMAIN g.value
  BY SoundDomains DEF Sound, Sources
<1>3. Live(h) = Live(g)
  BY <1>1 DEF Live
<1>4. Arguments(h) = Arguments(g)
  BY <1>1 DEF Arguments
<1>5. Sources(h) = Sources(g)
  BY <1>3, <1>4 DEF Sources
<1>6. \A u \in DOMAIN g.value : Operands(h, u) = Operands(g, u)
  BY <1>1 DEF Operands
<1>7. Listed(h)
  BY <1>1, <1>2, <1>3, <1>4 DEF Listed, Once
<1>8. AllFormed(h)
  BY <1>1 DEF AllFormed
<1>9. \A u \in Live(g) : Operands(h, u) = Operands(g, u)
  BY <1>2, <1>6
<1>10. UsersMirror(h)
  BY <1>1, <1>2, <1>3, <1>9 DEF UsersMirror
<1>11. ReadsSources(h)
  BY <1>2, <1>3, <1>5, <1>9 DEF ReadsSources
<1>12. \A rank : Ranks(g, rank) => Ranks(h, rank)
  BY <1>1, <1>3, <1>9 DEF Ranks
<1>13. QED
  BY <1>1, <1>3, <1>4, <1>5, <1>6, <1>7, <1>8, <1>10, <1>11, <1>12 DEF Sound

(***************************************************************************)
(* erase_op                                                                *)
(***************************************************************************)
\* The lists after the operator has been erased.
Erased(g, o, h) ==
  /\ Tables(h)
  /\ h.value = g.value
  /\ Len(h.ops) = Len(g.ops) - 1
  /\ Live(h) = Live(g) \ {o}
  /\ Once(h)
  /\ \A v \in DOMAIN g.value :
       h.users[v] = IF v \in Operands(g, o) THEN g.users[v] \ {o} ELSE g.users[v]

\* EraseOp takes out the operator at its position.
LEMMA EraseOpEntries ==
  ASSUME NEW g, Sound(g), NEW o \in Live(g)
  PROVE  Erased(g, o, EraseOp(g, o))
<1> DEFINE h == EraseOp(g, o)
           p == Position(g, o)
           os == RemoveAt(g.ops, p)
           us == [v \in DOMAIN g.users |->
                   IF v \in Operands(g, o) THEN g.users[v] \ {o} ELSE g.users[v]]
<1>1. /\ Tables(g)
      /\ Once(g)
      /\ DOMAIN g.users = DOMAIN g.value
      /\ DOMAIN g.ops = 1 .. Len(g.ops)
      /\ Len(g.ops) \in Nat
  BY SoundDomains DEF Sound, Listed
<1>2. /\ g = [value |-> g.value, ops |-> g.ops, users |-> g.users, returns |-> g.returns]
      /\ Table(g.value) /\ Table(g.ops) /\ Table(g.users)
      /\ Len(g.users) = Len(g.value)
  BY <1>1 DEF Tables
<1>3. p \in DOMAIN g.ops /\ g.ops[p] = o
  BY DEF Position, Live, ToSet
<1>4. h = [value |-> g.value, ops |-> os, users |-> us, returns |-> g.returns]
  <2>1. h = [g EXCEPT !.ops = os, !.users = us]
    BY Zenon DEF EraseOp
  <2> HIDE DEF h, os, us
  <2>2. QED
    BY <1>2, <2>1
<1>5. /\ us = [v \in DOMAIN g.users |-> us[v]]
      /\ \A v \in DOMAIN g.value :
           us[v] = IF v \in Operands(g, o) THEN g.users[v] \ {o} ELSE g.users[v]
  BY <1>1
<1> HIDE DEF h, p, us
<1>6. Table(us) /\ Len(us) = Len(g.users)
  BY <1>2, <1>5, TableOver
<1>7. /\ Table(os)
      /\ Len(os) = Len(g.ops) - 1
      /\ \A i \in DOMAIN os : os[i] = g.ops[IF i < p THEN i ELSE i + 1]
  BY <1>2, <1>3, TableRemove
<1> HIDE DEF os
<1>8. DOMAIN os = 1 .. Len(os)
  BY <1>7, TableIsSeq
<1>9. h.value = g.value /\ h.ops = os /\ h.users = us
  BY <1>4
<1>10. Tables(h)
  BY <1>2, <1>4, <1>6, <1>7, <1>9 DEF Tables
<1> DEFINE From(i) == IF i < p THEN i ELSE i + 1
           To(j) == IF j < p THEN j ELSE j - 1
<1>11. /\ \A i \in DOMAIN os : /\ From(i) \in DOMAIN g.ops
                              /\ From(i) # p
                              /\ os[i] = g.ops[From(i)]
                              /\ To(From(i)) = i
       /\ \A j \in DOMAIN g.ops : j # p => To(j) \in DOMAIN os /\ From(To(j)) = j
  BY <1>1, <1>3, <1>7, <1>8
<1> HIDE DEF From, To
<1>12. ToSet(os) = ToSet(g.ops) \ {o}
  <2>1. \A i \in DOMAIN os : os[i] \in ToSet(g.ops) \ {o}
    BY <1>1, <1>3, <1>11 DEF Once, ToSet
  <2>2. \A x \in ToSet(g.ops) \ {o} : x \in ToSet(os)
    BY <1>3, <1>11 DEF ToSet
  <2>3. QED
    BY <2>1, <2>2 DEF ToSet
<1>13. Live(h) = Live(g) \ {o}
  BY <1>9, <1>12 DEF Live
<1>14. Once(h)
  BY <1>1, <1>9, <1>11 DEF Once
<1>15. QED
  BY <1>5, <1>7, <1>9, <1>10, <1>13, <1>14 DEF Erased, h

\* Erasing an operator that no other reads keeps a graph sound.
LEMMA EraseOpSound ==
  ASSUME NEW g, Sound(g), NEW o \in Live(g),
         \A u \in Live(g) \ {o} : o \notin Operands(g, u)
  PROVE  /\ Sound(EraseOp(g, o))
         /\ Live(EraseOp(g, o)) = Live(g) \ {o}
         /\ EraseOp(g, o).value = g.value
         /\ Len(EraseOp(g, o).ops) = Len(g.ops) - 1
         /\ \A rank : Ranks(g, rank) => Ranks(EraseOp(g, o), rank)
<1> DEFINE h == EraseOp(g, o)
<1>1. Erased(g, o, h)
  BY EraseOpEntries
<1> HIDE DEF h
<1>2. /\ Tables(h)
      /\ h.value = g.value
      /\ Len(h.ops) = Len(g.ops) - 1
      /\ Live(h) = Live(g) \ {o}
      /\ Once(h)
      /\ \A v \in DOMAIN g.value :
           h.users[v] = IF v \in Operands(g, o) THEN g.users[v] \ {o} ELSE g.users[v]
  BY <1>1 DEF Erased
<1>3. /\ Listed(g) /\ AllFormed(g) /\ UsersMirror(g) /\ ReadsSources(g)
      /\ Live(g) \subseteq DOMAIN g.value
      /\ Sources(g) \subseteq DOMAIN g.value
  BY SoundDomains DEF Sound, Sources
<1>4. \A u : Operands(h, u) = Operands(g, u)
  BY <1>2 DEF Operands
<1>5. Arguments(h) = Arguments(g)
  BY <1>2 DEF Arguments
<1>6. Listed(h)
  BY <1>2, <1>3, <1>5 DEF Listed
<1>7. UsersMirror(h)
  <2>1. ASSUME NEW v \in DOMAIN g.value
        PROVE  h.users[v] = {u \in Live(h) : v \in Operands(h, u)}
    <3>1. g.users[v] = {u \in Live(g) : v \in Operands(g, u)}
      BY <1>3 DEF UsersMirror
    <3>2. QED
      BY <1>2, <1>4, <3>1
  <2>2. QED
    BY <1>2, <2>1 DEF UsersMirror
<1>8. ReadsSources(h)
  BY <1>2, <1>3, <1>4, <1>5 DEF ReadsSources, Sources
<1>9. AllFormed(h)
  BY <1>2, <1>3 DEF AllFormed
<1>10. \A rank : Ranks(g, rank) => Ranks(h, rank)
  BY <1>2, <1>4 DEF Ranks
<1>11. QED
  BY <1>2, <1>6, <1>7, <1>8, <1>9, <1>10 DEF Sound, h

(***************************************************************************)
(* replace_all_uses                                                        *)
(***************************************************************************)
\* One of the operands of an operator is renamed wherever it occurs.
LEMMA RenamedOperands ==
  ASSUME NEW op, Formed(op), NEW old \in ToSet(op.operands), NEW new \in Nat
  PROVE  LET q == WithOperand(op, old, new) IN
         /\ Formed(q)
         /\ q.mnemonic = op.mnemonic
         /\ ToSet(q.operands) = (ToSet(op.operands) \ {old}) \cup {new}
<1> DEFINE s == op.operands
           t == Renamed(s, old, new)
           q == WithOperand(op, old, new)
<1>1. s \in Seq(Nat) /\ Len(s) = Arity(op.mnemonic)
  BY DEF Formed
<1>2. /\ t \in Seq(Nat) /\ Len(t) = Len(s) /\ DOMAIN t = DOMAIN s
      /\ \A k \in DOMAIN s : t[k] = IF s[k] = old THEN new ELSE s[k]
  <2>1. DOMAIN s = 1 .. Len(s) /\ Len(s) \in Nat /\ \A k \in DOMAIN s : s[k] \in Nat
    BY <1>1
  <2>2. t = [k \in 1 .. Len(s) |-> IF s[k] = old THEN new ELSE s[k]]
    BY <2>1 DEF Renamed
  <2> HIDE DEF s, t
  <2>3. t \in [1 .. Len(s) -> Nat]
    BY <2>1, <2>2
  <2>4. QED
    BY <2>1, <2>2, <2>3
<1>3. ToSet(t) = (ToSet(s) \ {old}) \cup {new}
  <2> HIDE DEF s, t
  <2>1. PICK k \in DOMAIN s : s[k] = old
    BY DEF ToSet, s
  <2>2. new \in ToSet(t)
    BY <1>2, <2>1 DEF ToSet
  <2>3. \A x \in ToSet(s) \ {old} : x \in ToSet(t)
    BY <1>2 DEF ToSet
  <2>4. \A x \in ToSet(t) : x = new \/ x \in ToSet(s) \ {old}
    BY <1>2 DEF ToSet
  <2>5. QED
    BY <2>2, <2>3, <2>4
<1> HIDE DEF t
<1>4. /\ op = [mnemonic |-> op.mnemonic, operands |-> op.operands, type |-> op.type,
               data |-> op.data, attrs |-> op.attrs, legal |-> op.legal]
  BY DEF Formed
<1>5. q = [mnemonic |-> op.mnemonic, operands |-> t, type |-> op.type,
           data |-> op.data, attrs |-> op.attrs, legal |-> op.legal]
  BY <1>4 DEF WithOperand, t
<1> HIDE DEF q
<1>6. /\ q.mnemonic = op.mnemonic /\ q.operands = t /\ q.type = op.type
      /\ q.data = op.data /\ q.attrs = op.attrs /\ q.legal = op.legal
  BY <1>5
<1>7. Formed(q)
  <2>1. q = [mnemonic |-> q.mnemonic, operands |-> q.operands, type |-> q.type,
             data |-> q.data, attrs |-> q.attrs, legal |-> q.legal]
    BY <1>5, <1>6
  <2>2. QED
    BY <1>1, <1>2, <1>6, <2>1 DEF Formed
<1>8. QED
  BY <1>3, <1>6, <1>7 DEF q, t

\* The lists after new has taken the place of old.
Rewired(g, old, new, h) ==
  /\ Tables(h)
  /\ h.ops = g.ops
  /\ DOMAIN h.value = DOMAIN g.value
  /\ \A v \in DOMAIN g.value :
       h.value[v] = IF v \in Live(g) /\ old \in Operands(g, v)
                    THEN WithOperand(g.value[v], old, new)
                    ELSE g.value[v]
  /\ h.users[old] = {}
  /\ h.users[new] = g.users[new] \cup g.users[old]
  /\ \A v \in DOMAIN g.value : v # old /\ v # new => h.users[v] = g.users[v]

\* ReplaceAllUses moves all users.
LEMMA RewiredEntries ==
  ASSUME NEW g, Sound(g), NEW old \in Sources(g), NEW new \in Sources(g), old # new
  PROVE  Rewired(g, old, new, ReplaceAllUses(g, old, new))
<1> DEFINE h == ReplaceAllUses(g, old, new)
           readers == {o \in Live(g) : old \in Operands(g, o)}
           vs == [v \in DOMAIN g.value |->
                   IF v \in readers
                   THEN WithOperand(g.value[v], old, new)
                   ELSE g.value[v]]
           us == [g.users EXCEPT ![old] = @ \ readers, ![new] = @ \cup readers]
           rs == Renamed(g.returns, old, new)
<1>1. /\ Tables(g)
      /\ UsersMirror(g)
      /\ DOMAIN g.users = DOMAIN g.value
      /\ old \in DOMAIN g.value /\ new \in DOMAIN g.value
  BY SoundDomains DEF Sound
<1>2. /\ g = [value |-> g.value, ops |-> g.ops, users |-> g.users, returns |-> g.returns]
      /\ Table(g.value) /\ Table(g.ops) /\ Table(g.users)
      /\ Len(g.users) = Len(g.value)
  BY <1>1 DEF Tables
<1>3. h = [value |-> vs, ops |-> g.ops, users |-> us, returns |-> rs]
  <2> DEFINE k == [g EXCEPT !.value = vs, !.users = us, !.returns = rs]
  <2>0. h = IF old = new THEN g ELSE k
    BY Zenon DEF ReplaceAllUses
  <2> HIDE DEF h, k
  <2>1. h = k
    BY <2>0
  <2> HIDE DEF vs, us, rs
  <2> USE DEF k
  <2>2. QED
    BY <1>2, <2>1
<1>4. readers = g.users[old]
  BY <1>1 DEF UsersMirror
<1>5. /\ vs = [v \in DOMAIN g.value |-> vs[v]]
      /\ \A v \in DOMAIN g.value :
           vs[v] = IF v \in Live(g) /\ old \in Operands(g, v)
                   THEN WithOperand(g.value[v], old, new)
                   ELSE g.value[v]
  BY Zenon
<1> HIDE DEF readers
<1>6. /\ us = [v \in DOMAIN g.users |-> us[v]]
      /\ us[old] = {}
      /\ us[new] = g.users[new] \cup g.users[old]
      /\ \A v \in DOMAIN g.value : v # old /\ v # new => us[v] = g.users[v]
  BY <1>1, <1>4
<1> HIDE DEF h, vs, us, rs
<1>7. Table(vs) /\ Len(vs) = Len(g.value) /\ DOMAIN vs = DOMAIN g.value
  BY <1>2, <1>5, TableOver
<1>8. Table(us) /\ Len(us) = Len(g.users)
  BY <1>2, <1>6, TableOver
<1>9. h.value = vs /\ h.ops = g.ops /\ h.users = us
  BY <1>3
<1>10. Tables(h)
  BY <1>2, <1>3, <1>7, <1>8, <1>9 DEF Tables
<1>11. QED
  BY <1>5, <1>6, <1>7, <1>9, <1>10 DEF Rewired, h

\* Renaming uses keeps a graph sound; nobody reads the old value any more.
LEMMA RewiredSound ==
  ASSUME NEW g, Sound(g), NEW old \in Sources(g), NEW new \in Sources(g), old # new
  PROVE  LET h == ReplaceAllUses(g, old, new) IN
         /\ Sound(h)
         /\ h.ops = g.ops /\ DOMAIN h.value = DOMAIN g.value
         /\ Live(h) = Live(g) /\ Arguments(h) = Arguments(g)
         /\ \A u \in Live(g) :
              /\ h.value[u].mnemonic = g.value[u].mnemonic
              /\ Operands(h, u) = IF old \in Operands(g, u)
                                  THEN (Operands(g, u) \ {old}) \cup {new}
                                  ELSE Operands(g, u)
<1> DEFINE h == ReplaceAllUses(g, old, new)
<1>1. Rewired(g, old, new, h)
  BY RewiredEntries
<1> HIDE DEF h
<1>2. /\ Tables(h)
      /\ h.ops = g.ops
      /\ DOMAIN h.value = DOMAIN g.value
      /\ h.users[old] = {}
      /\ h.users[new] = g.users[new] \cup g.users[old]
      /\ \A v \in DOMAIN g.value : v # old /\ v # new => h.users[v] = g.users[v]
  BY <1>1 DEF Rewired
<1>3. \A v \in DOMAIN g.value :
        h.value[v] = IF v \in Live(g) /\ old \in Operands(g, v)
                     THEN WithOperand(g.value[v], old, new)
                     ELSE g.value[v]
  BY <1>1 DEF Rewired
<1>4. /\ Listed(g) /\ AllFormed(g) /\ UsersMirror(g) /\ ReadsSources(g)
      /\ Live(g) \subseteq DOMAIN g.value
      /\ Sources(g) \subseteq DOMAIN g.value
      /\ old \in DOMAIN g.value /\ new \in DOMAIN g.value /\ new \in Nat
  BY SoundDomains DEF Sound, Sources
<1>5. ASSUME NEW v \in DOMAIN g.value
      PROVE  /\ Formed(h.value[v])
             /\ h.value[v].mnemonic = g.value[v].mnemonic
             /\ Operands(h, v) = IF v \in Live(g) /\ old \in Operands(g, v)
                                 THEN (Operands(g, v) \ {old}) \cup {new}
                                 ELSE Operands(g, v)
  <2>1. CASE v \in Live(g) /\ old \in Operands(g, v)
    <3> DEFINE q == WithOperand(g.value[v], old, new)
    <3>1. h.value[v] = q
      BY <1>3, <2>1
    <3>2. Formed(g.value[v]) /\ old \in ToSet(g.value[v].operands)
      BY <1>4, <2>1 DEF AllFormed, Operands
    <3>3. /\ Formed(q)
          /\ q.mnemonic = g.value[v].mnemonic
          /\ ToSet(q.operands) = (ToSet(g.value[v].operands) \ {old}) \cup {new}
      BY SMTT(30), <1>4, <3>2, RenamedOperands
    <3> HIDE DEF q
    <3>4. QED
      BY <2>1, <3>1, <3>3 DEF Operands
  <2>2. CASE ~(v \in Live(g) /\ old \in Operands(g, v))
    <3>1. h.value[v] = g.value[v]
      BY <1>3, <2>2
    <3>2. QED
      BY <1>4, <2>2, <3>1 DEF Operands, AllFormed
  <2>3. QED
    BY <2>1, <2>2
<1>6. Live(h) = Live(g)
  BY <1>2 DEF Live
<1>7. Arguments(h) = Arguments(g)
  BY <1>2, <1>5 DEF Arguments
<1>8. \A u \in Live(g) :
        Operands(h, u) = IF old \in Operands(g, u)
                         THEN (Operands(g, u) \ {old}) \cup {new}
                         ELSE Operands(g, u)
  BY <1>4, <1>5
<1>9. Listed(h)
  BY <1>2, <1>4, <1>6, <1>7 DEF Listed, Once
<1>10. AllFormed(h)
  BY <1>2, <1>5 DEF AllFormed
<1>11. UsersMirror(h)
  <2>1. ASSUME NEW v \in DOMAIN g.value
        PROVE  g.users[v] = {u \in Live(g) : v \in Operands(g, u)}
    BY <1>4 DEF UsersMirror
  <2>2. \A v \in DOMAIN g.value : h.users[v] = {u \in Live(g) : v \in Operands(h, u)}
    <3>1. h.users[old] = {u \in Live(g) : old \in Operands(h, u)}
      BY <1>2, <1>8
    <3>2. h.users[new] = {u \in Live(g) : new \in Operands(h, u)}
      BY <1>2, <1>4, <1>8, <2>1
    <3>3. \A v \in DOMAIN g.value : v # old /\ v # new =>
            h.users[v] = {u \in Live(g) : v \in Operands(h, u)}
      BY <1>2, <1>8, <2>1
    <3>4. QED
      BY <3>1, <3>2, <3>3
  <2>3. QED
    BY <1>2, <1>6, <2>2 DEF UsersMirror
<1>12. ReadsSources(h)
  BY <1>4, <1>6, <1>7, <1>8 DEF ReadsSources, Sources
<1>13. Sound(h)
  BY <1>2, <1>9, <1>10, <1>11, <1>12 DEF Sound
<1>14. QED
  BY <1>2, <1>4, <1>5, <1>6, <1>7, <1>8, <1>13 DEF h

(***************************************************************************)
(* The pair of calls                                                       *)
(***************************************************************************)
\* Operands of a live operator are there, one for each of its places.
LEMMA OperandFacts ==
  ASSUME NEW g, Sound(g), NEW o \in Live(g)
  PROVE  /\ o \in DOMAIN g.value
         /\ Formed(g.value[o])
         /\ Len(g.value[o].operands) = Arity(g.value[o].mnemonic)
         /\ DOMAIN g.value[o].operands = 1 .. Arity(g.value[o].mnemonic)
         /\ Operands(g, o) \subseteq Sources(g)
         /\ \A k \in 1 .. Arity(g.value[o].mnemonic) :
              g.value[o].operands[k] \in Operands(g, o)
<1>1. o \in DOMAIN g.value /\ Formed(g.value[o]) /\ Operands(g, o) \subseteq Sources(g)
  BY DEF Sound, Listed, AllFormed, ReadsSources
<1>2. /\ g.value[o].operands \in Seq(Nat)
      /\ Len(g.value[o].operands) = Arity(g.value[o].mnemonic)
  BY <1>1 DEF Formed
<1>3. DOMAIN g.value[o].operands = 1 .. Arity(g.value[o].mnemonic)
  BY <1>2
<1>4. QED
  BY <1>1, <1>2, <1>3 DEF Operands, ToSet

\* Ranks are natural numbers and keep an operator from reading itself.
LEMMA RankFacts ==
  ASSUME NEW g, Sound(g), NEW rank, Ranks(g, rank)
  PROVE  /\ \A v \in Sources(g) : rank[v] \in Nat
         /\ \A o \in Live(g) : \A v \in Operands(g, o) : rank[v] < rank[o] /\ v # o
         /\ \A o \in Live(g) : o \notin Operands(g, o)
<1>1. \A v \in Sources(g) : rank[v] \in Nat
  BY SoundDomains DEF Ranks
<1>2. \A o \in Live(g) : \A v \in Operands(g, o) : rank[v] < rank[o]
  BY DEF Ranks
<1>3. \A o \in Live(g) : rank[o] \in Nat
  BY <1>1 DEF Sources
<1>4. QED
  BY <1>1, <1>2, <1>3

\* An operator whose result is replaced leaves a sound graph; ranks stay if the
\* replacement ranks below the readers.
LEMMA ReplacedSound ==
  ASSUME NEW g, Sound(g), NEW o \in Live(g), NEW new \in Sources(g), new # o
  PROVE  LET h == Replaced(g, o, new) IN
         /\ Sound(h)
         /\ Len(h.ops) = Len(g.ops) - 1
         /\ Live(h) = Live(g) \ {o}
         /\ \A u \in Live(g) \ {o} :
              /\ h.value[u].mnemonic = g.value[u].mnemonic
              /\ Operands(h, u) = IF o \in Operands(g, u)
                                  THEN (Operands(g, u) \ {o}) \cup {new}
                                  ELSE Operands(g, u)
         /\ \A rank :
              /\ Ranks(g, rank)
              /\ \A u \in Live(g) : o \in Operands(g, u) => rank[new] < rank[u]
              => Ranks(h, rank)
<1> DEFINE k == ReplaceAllUses(g, o, new)
           h == EraseOp(k, o)
<1>1. /\ Sound(k)
      /\ k.ops = g.ops /\ DOMAIN k.value = DOMAIN g.value
      /\ Live(k) = Live(g)
      /\ \A u \in Live(g) :
           /\ k.value[u].mnemonic = g.value[u].mnemonic
           /\ Operands(k, u) = IF o \in Operands(g, u)
                               THEN (Operands(g, u) \ {o}) \cup {new}
                               ELSE Operands(g, u)
  BY RewiredSound DEF Sources
<1> HIDE DEF k
<1>2. \A u \in Live(k) : o \notin Operands(k, u)
  BY <1>1
<1>3. /\ Sound(h)
      /\ Live(h) = Live(k) \ {o}
      /\ h.value = k.value
      /\ Len(h.ops) = Len(k.ops) - 1
      /\ \A rank : Ranks(k, rank) => Ranks(h, rank)
  BY <1>1, <1>2, EraseOpSound
<1> HIDE DEF h
<1>4. ASSUME NEW rank, Ranks(g, rank),
             \A u \in Live(g) : o \in Operands(g, u) => rank[new] < rank[u]
      PROVE  Ranks(k, rank)
  BY <1>1, <1>4 DEF Ranks
<1>5. \A u : Operands(h, u) = Operands(k, u)
  BY <1>3 DEF Operands
<1>6. Replaced(g, o, new) = h
  BY DEF Replaced, h, k
<1>7. QED
  BY <1>1, <1>3, <1>4, <1>5, <1>6

(***************************************************************************)
(* The scans                                                               *)
(***************************************************************************)
\* Least takes a number from the set.
LEMMA LeastIn ==
  ASSUME NEW S, S \subseteq Nat, S # {}
  PROVE  Least(S) \in S
BY LeastNat DEF Least

\* Greatest takes one, too, if the set has a bound.
LEMMA GreatestIn ==
  ASSUME NEW N \in Nat, NEW S, S \subseteq 1 .. N, S # {}
  PROVE  Greatest(S) \in S
<1> DEFINE T == {n \in Nat : \E i \in S : n = N - i}
<1>1. T \subseteq Nat /\ T # {}
  <2>1. PICK i \in S : TRUE
    OBVIOUS
  <2>2. N - i \in T
    BY <2>1
  <2>3. QED
    BY <2>2
<1>2. PICK n \in T : \A m \in T : n <= m
  BY <1>1, LeastNat
<1>3. PICK i \in S : n = N - i
  BY <1>2
<1>4. ASSUME NEW j \in S PROVE N - j \in T
  OBVIOUS
<1>5. \A j \in S : j <= i
  BY <1>2, <1>3, <1>4
<1>6. \E j \in S : \A k \in S : k <= j
  BY <1>3, <1>5
<1>7. QED
  BY <1>6 DEF Greatest

\* What a pass finds is the position of an operator that it rewrites.
LEMMA FoundFacts ==
  ASSUME Sound(graph), NEW i \in Found
  PROVE  /\ i \in DOMAIN graph.ops
         /\ Matches(graph, Pipeline[pass], i)
         /\ graph.ops[i] \in Live(graph)
         /\ i \in 1 .. Len(graph.ops) /\ Len(graph.ops) \in Nat
<1> DEFINE p == Pipeline[pass]
           N == Len(graph.ops)
           hits == {k \in DOMAIN graph.ops : Matches(graph, p, k)}
           ahead == {k \in hits : k >= next}
<1>1. N \in Nat /\ DOMAIN graph.ops = 1 .. N
  BY SoundDomains
<1>2. i \in CASE p \in {"dce", "shape_subgraph_elim"} /\ hits # {} -> {Greatest(hits)}
              [] p \notin {"dce", "shape_subgraph_elim"} /\ ahead # {} -> {Least(ahead)}
              [] p = "shape_infer" /\ ahead = {} /\ hits # {} -> {Least(hits)}
              [] OTHER -> {}
  BY Zenon DEF Found
<1>3. hits \subseteq 1 .. N /\ ahead \subseteq hits /\ hits \subseteq Nat
  BY <1>1
<1> HIDE DEF hits, ahead, p, N
<1>4. hits # {} => Greatest(hits) \in hits /\ Least(hits) \in hits
  BY <1>1, <1>3, LeastIn, GreatestIn
<1>5. ahead # {} => Least(ahead) \in ahead
  BY <1>3, LeastIn
<1>6. i \in hits
  BY <1>2, <1>3, <1>4, <1>5
<1>7. QED
  BY <1>1, <1>6 DEF hits, p, N, Live, ToSet

(***************************************************************************)
(* What the passes do to a sound graph with ranks, one by one.             *)
(***************************************************************************)
\* A result may be replaced by a value that does not rank higher.
LEMMA ReplacedBelow ==
  ASSUME NEW g, Sound(g), NEW rank, Ranks(g, rank), NEW o \in Live(g),
         NEW new \in Sources(g), new # o, rank[new] <= rank[o]
  PROVE  LET h == Replaced(g, o, new) IN
         /\ Sound(h) /\ Ranks(h, rank)
         /\ Len(h.ops) = Len(g.ops) - 1
         /\ Live(h) = Live(g) \ {o}
         /\ \A u \in Live(g) \ {o} :
              /\ h.value[u].mnemonic = g.value[u].mnemonic
              /\ Operands(h, u) = IF o \in Operands(g, u)
                                  THEN (Operands(g, u) \ {o}) \cup {new}
                                  ELSE Operands(g, u)
<1>1. \A u \in Live(g) : o \in Operands(g, u) => rank[new] < rank[u]
  <2>1. ASSUME NEW u \in Live(g), o \in Operands(g, u) PROVE rank[new] < rank[u]
    <3>1. rank[o] < rank[u]
      BY <2>1, RankFacts
    <3>2. rank[new] \in Nat /\ rank[o] \in Nat /\ rank[u] \in Nat
      BY RankFacts DEF Sources
    <3>3. QED
      BY <3>1, <3>2
  <2>2. QED
    BY <2>1
<1>2. QED
  BY <1>1, ReplacedSound

\* In particular by one of the operands.
LEMMA ReplacedByOperand ==
  ASSUME NEW g, Sound(g), Acyclic(g), NEW o \in Live(g), NEW v \in Operands(g, o)
  PROVE  LET h == Replaced(g, o, v) IN
         /\ Sound(h) /\ Acyclic(h)
         /\ Len(h.ops) = Len(g.ops) - 1
<1>1. PICK rank : Ranks(g, rank)
  BY DEF Acyclic
<1>2. v \in Sources(g)
  BY OperandFacts
<1>3. rank[v] < rank[o] /\ v # o /\ rank[v] \in Nat /\ rank[o] \in Nat
  BY <1>1, <1>2, RankFacts DEF Sources
<1>4. rank[v] <= rank[o]
  BY <1>3
<1>5. /\ Sound(Replaced(g, o, v)) /\ Ranks(Replaced(g, o, v), rank)
      /\ Len(Replaced(g, o, v).ops) = Len(g.ops) - 1
  BY <1>1, <1>2, <1>3, <1>4, ReplacedBelow
<1>6. QED
  BY <1>5 DEF Acyclic

\* pass_algebraic_simplify puts an operand in the place of the result.
LEMMA SimplifiedIsOperand ==
  ASSUME NEW g, Sound(g), NEW o \in Live(g), NEW v \in Simplified(g, o)
  PROVE  v \in Operands(g, o)
<1> DEFINE mn == g.value[o].mnemonic
           l  == g.value[o].operands[1]
           r  == g.value[o].operands[2]
           unit == IF mn = "multiply" THEN 1 ELSE 0
<1>1. v \in IF mn \notin {"add", "multiply", "subtract"} THEN {}
            ELSE IF IsSplat(g, r, unit) THEN {l}
            ELSE IF mn # "subtract" /\ IsSplat(g, l, unit) THEN {r}
            ELSE IF mn = "multiply" /\ IsSplat(g, r, 0) THEN {r}
            ELSE IF mn = "multiply" /\ IsSplat(g, l, 0) THEN {l}
            ELSE {}
  BY Zenon DEF Simplified
<1> HIDE DEF l, r, unit
<1>2. mn \in {"add", "multiply", "subtract"} /\ v \in {l, r}
  BY <1>1
<1>3. Arity(mn) = 2
  BY <1>2 DEF Arity, Binary
<1>4. QED
  BY <1>2, <1>3, OperandFacts DEF l, r

\* pass_identity_elim does so, too.
LEMMA IdentityIsOperand ==
  ASSUME NEW g, Sound(g), NEW o \in Live(g), NEW v \in Identity(g, o)
  PROVE  v \in Operands(g, o)
<1>1. /\ g.value[o].mnemonic \in {"reshape", "transpose", "broadcast_in_dim"}
      /\ v = g.value[o].operands[1]
  BY DEF Identity
<1>2. Arity(g.value[o].mnemonic) = 1
  BY <1>1 DEF Arity, Binary
<1>3. QED
  BY <1>1, <1>2, OperandFacts

\* New operators have the form of those of the builders.
LEMMA OpIsFormed ==
  ASSUME NEW mn \in Mnemonics, NEW operands \in Seq(Nat), Len(operands) = Arity(mn),
         NEW type \in Types, NEW data, NEW attrs, WellAttributed(attrs)
  PROVE  LET op == Op(mn, operands, type, data, attrs) IN
         /\ Formed(op)
         /\ op.mnemonic = mn /\ op.operands = operands /\ op.type = type
         /\ op.attrs = attrs
<1> DEFINE op == Op(mn, operands, type, data, attrs)
<1>1. op = [mnemonic |-> mn, operands |-> operands, type |-> type, data |-> data,
            attrs |-> attrs, legal |-> FALSE]
  BY DEF Op
<1> HIDE DEF op
<1>2. /\ op.mnemonic = mn /\ op.operands = operands /\ op.type = type
      /\ op.data = data /\ op.attrs = attrs /\ op.legal = FALSE
  BY <1>1
<1>3. op = [mnemonic |-> op.mnemonic, operands |-> op.operands, type |-> op.type,
            data |-> op.data, attrs |-> op.attrs, legal |-> op.legal]
  BY <1>1, <1>2
<1>4. Formed(op)
  BY <1>2, <1>3 DEF Formed
<1>5. QED
  BY <1>2, <1>4 DEF op

\* So have the constants.
LEMMA ConstantIsFormed ==
  ASSUME NEW type \in Types, NEW n
  PROVE  Formed(Op("constant", <<>>, type, n, NoAttrs))
<1> DEFINE mn == "constant"
           none == <<>>
<1>1. none \in Seq(Nat) /\ Len(none) = 0
  OBVIOUS
<1>2. mn \in Mnemonics
  BY DEF Mnemonics
<1>3. Arity(mn) = 0
  BY DEF Arity, Binary
<1>4. WellAttributed(NoAttrs)
  BY DEF NoAttrs, Rotations, WellAttributed
<1> HIDE DEF mn, none
<1>5. Formed(Op(mn, none, type, n, NoAttrs))
  BY <1>1, <1>2, <1>3, <1>4, OpIsFormed
<1>6. QED
  BY <1>5 DEF mn, none

\* A new operator may take the place of one that ranks above its operands.
LEMMA AddThenReplace ==
  ASSUME NEW g, Sound(g), NEW rank, Ranks(g, rank), NEW o \in Live(g),
         NEW op, Formed(op), op.mnemonic # "arg",
         ToSet(op.operands) \subseteq Sources(g),
         \A v \in ToSet(op.operands) : rank[v] < rank[o]
  PROVE  LET k == AddOp(g, op)
             h == Replaced(k, o, Newest(k))
         IN  Sound(h) /\ Acyclic(h)
<1> DEFINE k == AddOp(g, op)
           new == Len(g.value) + 1
           n == rank[o]
           h == Replaced(k, o, new)
<1>1. Sound(k) /\ Sources(k) = Sources(g) \cup {new}
  BY AddOpSound
<1>2. Added(g, op, k, new)
  BY AddOpEntries
<1>3. Newest(k) = new /\ new \notin DOMAIN g.value /\ Live(k) = Live(g) \cup {new}
  BY <1>2 DEF Added
<1>4. n \in Nat /\ o \in DOMAIN g.value
  BY RankFacts, OperandFacts DEF Sources
<1>5. PICK r : /\ Ranks(k, r)
               /\ r[new] = n
               /\ \A v \in DOMAIN g.value : r[v] = rank[v]
  <2> HIDE DEF n
  <2>1. \A v \in ToSet(op.operands) : rank[v] < n
    BY DEF n
  <2>2. \E r : /\ Ranks(AddOp(g, op), r)
               /\ r[new] = n
               /\ \A v \in DOMAIN g.value : r[v] = rank[v]
    BY <1>4, <2>1, AddOpRanks
  <2>3. QED
    BY <2>2
<1> HIDE DEF k, new, h
<1>6. o \in Live(k) /\ new \in Sources(k) /\ new # o /\ r[new] <= r[o]
  BY <1>1, <1>3, <1>4, <1>5
<1>7. Sound(h) /\ Ranks(h, r)
  BY <1>1, <1>5, <1>6, ReplacedBelow DEF h
<1>8. Sound(h) /\ Acyclic(h)
  BY <1>7 DEF Acyclic
<1>9. QED
  BY <1>3, <1>8 DEF h, k

\* A constant takes the place of a folded operator.
LEMMA FoldSound ==
  ASSUME NEW g, Sound(g), Acyclic(g), NEW o \in Live(g), NEW n
  PROVE  LET k == AddConstant(g, g.value[o].type, n)
             h == Replaced(k, o, Newest(k))
         IN  Sound(h) /\ Acyclic(h)
<1> DEFINE op == Op("constant", <<>>, g.value[o].type, n, NoAttrs)
<1>1. PICK rank : Ranks(g, rank)
  BY DEF Acyclic
<1>2. g.value[o].type \in Types
  BY OperandFacts DEF Formed
<1>3. Formed(op) /\ op.mnemonic = "constant" /\ op.operands = <<>>
  <2>1. Formed(op)
    BY <1>2, ConstantIsFormed
  <2>2. QED
    BY <2>1 DEF Op
<1>4. AddConstant(g, g.value[o].type, n) = AddOp(g, op)
  BY DEF AddConstant
<1> HIDE DEF op
<1>5. ToSet(op.operands) = {}
  <2>1. DOMAIN op.operands = {}
    BY <1>3
  <2>2. QED
    BY <2>1 DEF ToSet
<1>6. op.mnemonic # "arg"
  BY <1>3
<1>7. QED
  BY <1>1, <1>3, <1>4, <1>5, <1>6, AddThenReplace

\* An edit of types and attributes leaves an operator in form.
LEMMA TouchedIsFormed ==
  ASSUME NEW op, Formed(op), NEW q, NEW type \in Types, NEW attrs, WellAttributed(attrs),
         NEW data, NEW legal,
         q = [mnemonic |-> op.mnemonic, operands |-> op.operands, type |-> type,
              data |-> data, attrs |-> attrs, legal |-> legal]
  PROVE  Formed(q) /\ q.mnemonic = op.mnemonic /\ q.operands = op.operands
<1>1. /\ q.mnemonic = op.mnemonic /\ q.operands = op.operands /\ q.type = type
      /\ q.data = data /\ q.attrs = attrs /\ q.legal = legal
  OBVIOUS
<1>2. q = [mnemonic |-> q.mnemonic, operands |-> q.operands, type |-> q.type,
           data |-> q.data, attrs |-> q.attrs, legal |-> q.legal]
  BY <1>1
<1>3. /\ op.mnemonic \in Mnemonics
      /\ op.operands \in Seq(Nat) /\ Len(op.operands) = Arity(op.mnemonic)
  BY DEF Formed
<1>4. QED
  BY <1>1, <1>2, <1>3 DEF Formed

\* The edits of the passes, one by one.
LEMMA EditsAreFormed ==
  ASSUME NEW op, Formed(op)
  PROVE  /\ \A type \in Types :
              LET q == [op EXCEPT !.type = type] IN
              Formed(q) /\ q.mnemonic = op.mnemonic /\ q.operands = op.operands
         /\ \A id :
              LET q == [op EXCEPT !.attrs.fusion_group = id] IN
              Formed(q) /\ q.mnemonic = op.mnemonic /\ q.operands = op.operands
         /\ \A layout :
              LET q == [op EXCEPT !.attrs.input_layout = layout] IN
              Formed(q) /\ q.mnemonic = op.mnemonic /\ q.operands = op.operands
         /\ \A legal :
              LET q == [op EXCEPT !.legal = legal] IN
              Formed(q) /\ q.mnemonic = op.mnemonic /\ q.operands = op.operands
<1> DEFINE a == op.attrs
<1>1. /\ op = [mnemonic |-> op.mnemonic, operands |-> op.operands, type |-> op.type,
               data |-> op.data, attrs |-> op.attrs, legal |-> op.legal]
      /\ WellAttributed(a)
      /\ op.type \in Types
  BY DEF Formed
<1>2. ASSUME NEW type \in Types
      PROVE  LET q == [op EXCEPT !.type = type] IN
             Formed(q) /\ q.mnemonic = op.mnemonic /\ q.operands = op.operands
  <2> DEFINE q == [op EXCEPT !.type = type]
  <2>1. q = [mnemonic |-> op.mnemonic, operands |-> op.operands, type |-> type,
             data |-> op.data, attrs |-> op.attrs, legal |-> op.legal]
    BY <1>1
  <2> HIDE DEF q
  <2>2. QED
    BY <1>1, <2>1, TouchedIsFormed DEF q
<1>3. ASSUME NEW id
      PROVE  LET q == [op EXCEPT !.attrs.fusion_group = id] IN
             Formed(q) /\ q.mnemonic = op.mnemonic /\ q.operands = op.operands
  <2> DEFINE q == [op EXCEPT !.attrs.fusion_group = id]
             b == [a EXCEPT !.fusion_group = id]
  <2>1. q = [mnemonic |-> op.mnemonic, operands |-> op.operands, type |-> op.type,
             data |-> op.data, attrs |-> b, legal |-> op.legal]
    BY <1>1
  <2>2. WellAttributed(b)
    BY <1>1 DEF WellAttributed
  <2> HIDE DEF q, b
  <2>3. QED
    BY <1>1, <2>1, <2>2, TouchedIsFormed DEF q
<1>4. ASSUME NEW layout
      PROVE  LET q == [op EXCEPT !.attrs.input_layout = layout] IN
             Formed(q) /\ q.mnemonic = op.mnemonic /\ q.operands = op.operands
  <2> DEFINE q == [op EXCEPT !.attrs.input_layout = layout]
             b == [a EXCEPT !.input_layout = layout]
  <2>1. q = [mnemonic |-> op.mnemonic, operands |-> op.operands, type |-> op.type,
             data |-> op.data, attrs |-> b, legal |-> op.legal]
    BY <1>1
  <2>2. WellAttributed(b)
    BY <1>1 DEF WellAttributed
  <2> HIDE DEF q, b
  <2>3. QED
    BY <1>1, <2>1, <2>2, TouchedIsFormed DEF q
<1>5. ASSUME NEW legal
      PROVE  LET q == [op EXCEPT !.legal = legal] IN
             Formed(q) /\ q.mnemonic = op.mnemonic /\ q.operands = op.operands
  <2> DEFINE q == [op EXCEPT !.legal = legal]
  <2>1. q = [mnemonic |-> op.mnemonic, operands |-> op.operands, type |-> op.type,
             data |-> op.data, attrs |-> op.attrs, legal |-> legal]
    BY <1>1
  <2> HIDE DEF q
  <2>2. QED
    BY <1>1, <2>1, TouchedIsFormed DEF q
<1>6. QED
  BY <1>2, <1>3, <1>4, <1>5

\* fused_bn, with the type of the bias addition.
LEMMA WithBnIsFormed ==
  ASSUME NEW op, Formed(op), NEW type \in Types
  PROVE  LET q == WithBn(op, type) IN
         Formed(q) /\ q.mnemonic = op.mnemonic /\ q.operands = op.operands
<1> DEFINE q == WithBn(op, type)
           yes == TRUE
           b == [op.attrs EXCEPT !.fused_bn = yes]
<1>1. /\ op = [mnemonic |-> op.mnemonic, operands |-> op.operands, type |-> op.type,
               data |-> op.data, attrs |-> op.attrs, legal |-> op.legal]
      /\ WellAttributed(op.attrs)
  BY DEF Formed
<1>2. q = [op EXCEPT !.attrs.fused_bn = yes, !.type = type]
  BY Zenon DEF WithBn
<1> HIDE DEF yes
<1>3. WellAttributed(b)
  BY <1>1 DEF WellAttributed
<1> HIDE DEF q
<1>4. q = [mnemonic |-> op.mnemonic, operands |-> op.operands, type |-> type,
           data |-> op.data, attrs |-> b, legal |-> op.legal]
  BY <1>1, <1>2
<1> HIDE DEF b
<1>5. QED
  BY <1>3, <1>4, TouchedIsFormed DEF q

\* A permuted shape is a shape.
LEMMA PermutedIsType ==
  ASSUME NEW type \in Types, NEW p \in Rotations
  PROVE  /\ PermutedDims(type, p) \in Types
         /\ IsStatic(type) => [type EXCEPT !.dims = (@ + p) % 3] \in Types
<1>1. type.elem \in {"F32", "I64"} /\ type.dims \in {-1, 0, 1, 2} /\ p \in {0, 1, 2}
  BY DEF Types, Rotations, Dynamic
<1>2. (type.dims + p) % 3 \in Rotations
  <2>1. type.dims + p \in Int
    BY <1>1
  <2>2. QED
    BY <2>1 DEF Rotations
<1> DEFINE d == (type.dims + p) % 3
<1> HIDE DEF d
<1>3. [type EXCEPT !.dims = d] \in Types
  BY <1>2 DEF Types, d
<1>4. QED
  BY <1>3 DEF PermutedDims, d

\* The output layout, with the permuted type.
LEMMA WithNhwcOutputIsFormed ==
  ASSUME NEW op, Formed(op)
  PROVE  LET q == WithNhwcOutput(op) IN
         Formed(q) /\ q.mnemonic = op.mnemonic /\ q.operands = op.operands
<1> DEFINE q == WithNhwcOutput(op)
           b == [op.attrs EXCEPT !.layout = "NHWC"]
           t == PermutedDims(op.type, NchwToNhwc)
<1>1. /\ op = [mnemonic |-> op.mnemonic, operands |-> op.operands, type |-> op.type,
               data |-> op.data, attrs |-> op.attrs, legal |-> op.legal]
      /\ WellAttributed(op.attrs)
      /\ op.type \in Types
  BY DEF Formed
<1>2. q = [op EXCEPT !.attrs = b, !.type = t]
  BY <1>1 DEF WithNhwcOutput
<1>3. WellAttributed(b)
  BY <1>1 DEF WellAttributed
<1>4. t \in Types
  <2>1. NchwToNhwc \in Rotations
    BY DEF NchwToNhwc, Rotations
  <2>2. QED
    BY <1>1, <2>1, PermutedIsType
<1> HIDE DEF q, b, t
<1>5. q = [mnemonic |-> op.mnemonic, operands |-> op.operands, type |-> t,
           data |-> op.data, attrs |-> b, legal |-> op.legal]
  BY <1>1, <1>2
<1>6. QED
  BY <1>3, <1>4, <1>5, TouchedIsFormed DEF q

\* New values for all, in the same places.
LEMMA RetouchedAll ==
  ASSUME NEW g, Sound(g), NEW vs, vs = [v \in DOMAIN g.value |-> vs[v]],
         \A v \in DOMAIN g.value :
           /\ Formed(vs[v])
           /\ vs[v].mnemonic = g.value[v].mnemonic
           /\ vs[v].operands = g.value[v].operands
  PROVE  LET h == [g EXCEPT !.value = vs] IN
         /\ Retouched(g, h)
         /\ h.ops = g.ops /\ h.value = vs
<1> DEFINE h == [g EXCEPT !.value = vs]
<1>1. /\ g = [value |-> g.value, ops |-> g.ops, users |-> g.users, returns |-> g.returns]
      /\ Table(g.value) /\ Table(g.ops) /\ Table(g.users)
      /\ Len(g.users) = Len(g.value)
  BY DEF Sound, Tables
<1>2. h = [value |-> vs, ops |-> g.ops, users |-> g.users, returns |-> g.returns]
  BY <1>1
<1> HIDE DEF h
<1>3. h.value = vs /\ h.ops = g.ops /\ h.users = g.users /\ h.returns = g.returns
  BY <1>2
<1>4. Table(vs) /\ Len(vs) = Len(g.value) /\ DOMAIN vs = DOMAIN g.value
  BY <1>1, TableOver
<1>5. Tables(h)
  BY <1>1, <1>2, <1>3, <1>4 DEF Tables
<1>6. Retouched(g, h)
  BY <1>3, <1>4, <1>5 DEF Retouched
<1>7. QED
  BY <1>3, <1>6 DEF h

\* A new value for one.
LEMMA RetouchedOne ==
  ASSUME NEW g, Sound(g), NEW o \in DOMAIN g.value, NEW q, Formed(q),
         q.mnemonic = g.value[o].mnemonic, q.operands = g.value[o].operands
  PROVE  LET h == [g EXCEPT !.value = [g.value EXCEPT ![o] = q]] IN
         /\ Retouched(g, h)
         /\ h.ops = g.ops
         /\ \A v \in DOMAIN g.value : v # o => h.value[v] = g.value[v]
<1> DEFINE vs == [g.value EXCEPT ![o] = q]
<1>1. /\ vs = [v \in DOMAIN g.value |-> vs[v]]
      /\ vs[o] = q
      /\ \A v \in DOMAIN g.value : v # o => vs[v] = g.value[v]
  <2>1. Table(g.value)
    BY DEF Sound, Tables
  <2>2. g.value = [v \in DOMAIN g.value |-> g.value[v]]
    BY <2>1 DEF Table
  <2>3. QED
    BY <2>2
<1>2. \A v \in DOMAIN g.value : Formed(g.value[v])
  BY DEF Sound, AllFormed
<1> HIDE DEF vs
<1>3. \A v \in DOMAIN g.value :
        /\ Formed(vs[v])
        /\ vs[v].mnemonic = g.value[v].mnemonic
        /\ vs[v].operands = g.value[v].operands
  BY <1>1, <1>2
<1> DEFINE h == [g EXCEPT !.value = vs]
<1>4. Retouched(g, h) /\ h.ops = g.ops /\ h.value = vs
  BY <1>1, <1>3, RetouchedAll
<1> HIDE DEF h
<1>5. QED
  BY <1>1, <1>4 DEF h, vs

\* pass_dce and pass_shape_subgraph_elim erase what nobody reads.
LEMMA DeadErased ==
  ASSUME NEW g, Sound(g), Acyclic(g), NEW o \in Live(g), IsDead(g, o)
  PROVE  Sound(EraseOp(g, o)) /\ Acyclic(EraseOp(g, o))
<1>1. g.users[o] = {u \in Live(g) : o \in Operands(g, u)}
  BY DEF Sound, UsersMirror, Listed
<1>2. \A u \in Live(g) \ {o} : o \notin Operands(g, u)
  BY <1>1 DEF IsDead
<1>3. /\ Sound(EraseOp(g, o))
      /\ \A rank : Ranks(g, rank) => Ranks(EraseOp(g, o), rank)
  BY <1>2, EraseOpSound
<1>4. QED
  BY <1>3 DEF Acyclic

\* pass_cse: of two operators that read the same, the kept one can rank as low
\* as the other.
LEMMA CseSound ==
  ASSUME NEW g, Sound(g), Acyclic(g), NEW keep \in Live(g), NEW dup \in Live(g),
         keep # dup, g.value[keep].operands = g.value[dup].operands
  PROVE  Sound(Replaced(g, dup, keep)) /\ Acyclic(Replaced(g, dup, keep))
<1>1. PICK rank : Ranks(g, rank)
  BY DEF Acyclic
<1>2. /\ rank \in [DOMAIN g.value -> Nat]
      /\ \A o \in Live(g) : \A v \in Operands(g, o) : rank[v] < rank[o]
  BY <1>1 DEF Ranks
<1>3. keep \in DOMAIN g.value /\ dup \in DOMAIN g.value /\ keep \in Sources(g)
  BY DEF Sound, Listed, Sources
<1>4. Operands(g, keep) = Operands(g, dup)
  BY DEF Operands
<1>5. \A o \in Live(g) : Operands(g, o) \subseteq DOMAIN g.value /\ o \in DOMAIN g.value
  BY SoundDomains DEF Sound, ReadsSources, Sources
<1> DEFINE r == [rank EXCEPT ![keep] = rank[dup]]
<1>6. CASE rank[keep] <= rank[dup]
  <2>1. Sound(Replaced(g, dup, keep)) /\ Ranks(Replaced(g, dup, keep), rank)
    BY <1>1, <1>3, <1>6, ReplacedBelow
  <2>2. QED
    BY <2>1 DEF Acyclic
<1>7. CASE ~(rank[keep] <= rank[dup])
  <2>1. rank[dup] < rank[keep] /\ rank[dup] \in Nat
    BY <1>2, <1>3, <1>7
  <2>2. /\ r \in [DOMAIN g.value -> Nat]
        /\ r[keep] = rank[dup]
        /\ \A v \in DOMAIN g.value : v # keep => r[v] = rank[v]
        /\ \A v \in DOMAIN g.value : rank[v] \in Nat
    BY <1>2, <1>3
  <2> HIDE DEF r
  <2>3. ASSUME NEW o \in Live(g), NEW v \in Operands(g, o)
        PROVE  r[v] < r[o]
    <3>1. rank[v] < rank[o] /\ v \in DOMAIN g.value /\ o \in DOMAIN g.value
      BY <1>2, <1>5, <2>3
    <3>2. CASE o = keep
      <4>1. rank[v] < rank[dup]
        BY <1>2, <1>4, <2>3, <3>2
      <4>2. v # keep
        BY <2>2, <3>1, <3>2
      <4>3. QED
        BY <2>2, <3>1, <3>2, <4>1, <4>2
    <3>3. CASE o # keep
      <4>1. r[v] <= rank[v]
        BY <2>1, <2>2, <3>1
      <4>2. r[v] \in Nat /\ rank[v] \in Nat /\ rank[o] \in Nat /\ r[o] = rank[o]
        BY <2>2, <3>1, <3>3
      <4>3. QED
        BY <3>1, <4>1, <4>2
    <3>4. QED
      BY <3>2, <3>3
  <2>4. Ranks(g, r)
    BY <2>2, <2>3 DEF Ranks
  <2>5. r[keep] <= r[dup]
    BY <1>3, <2>1, <2>2
  <2>6. Sound(Replaced(g, dup, keep)) /\ Ranks(Replaced(g, dup, keep), r)
    BY <1>3, <2>4, <2>5, ReplacedBelow
  <2>7. QED
    BY <2>6 DEF Acyclic
<1>8. QED
  BY <1>6, <1>7

\* A graph has finitely many live operators.
LEMMA LiveFinite ==
  ASSUME NEW g, Sound(g)
  PROVE  IsFiniteSet(Live(g))
<1> DEFINE D == DOMAIN g.ops
           os == g.ops
           f == [i \in D |-> os[i]]
           T == {os[i] : i \in D}
<1>1. IsFiniteSet(D)
  BY SoundDomains, FS_Interval, 1 \in Int, Len(g.ops) \in Int
<1>2. f \in Surjection(D, T)
  BY DEF Surjection
<1> HIDE DEF D, f, T
<1>3. IsFiniteSet(T)
  BY <1>1, <1>2, FS_Surjection
<1>4. QED
  BY <1>3 DEF T, D, Live, ToSet

\* A value with one user and a reader has no other reader.
LEMMA OnlyReader ==
  ASSUME NEW g, Sound(g), NEW v \in DOMAIN g.value, HasOneUser(g, v),
         NEW o \in Live(g), v \in Operands(g, o)
  PROVE  \A u \in Live(g) : v \in Operands(g, u) => u = o
<1>1. g.users[v] = {u \in Live(g) : v \in Operands(g, u)}
  BY DEF Sound, UsersMirror
<1>2. o \in g.users[v] /\ g.users[v] \subseteq Live(g)
  BY <1>1
<1>3. IsFiniteSet(g.users[v]) /\ Cardinality(g.users[v]) = 1
  BY <1>2, LiveFinite, FS_Subset DEF HasOneUser
<1>4. PICK x : g.users[v] = {x}
  BY <1>3, FS_Singleton
<1>5. QED
  BY <1>1, <1>2, <1>4

\* The operand beside a constant one is an operand.
LEMMA SplitIsOperand ==
  ASSUME NEW g, Sound(g), NEW o \in Live(g), Arity(g.value[o].mnemonic) = 2,
         NEW s \in ConstantSplits(g, o)
  PROVE  s.other \in Operands(g, o)
<1> DEFINE in == g.value[o].operands
           k == IF Is(g, in[1], "constant") THEN 1 ELSE 2
           split == [constant |-> in[k], other |-> in[3 - k]]
<1>1. s \in IF Is(g, in[k], "constant") THEN {split} ELSE {}
  BY Zenon DEF ConstantSplits
<1>2. k \in {1, 2}
  OBVIOUS
<1> HIDE DEF in, k
<1>3. s.other = in[3 - k]
  BY <1>1
<1>4. 3 - k \in 1 .. 2
  BY <1>2
<1>5. in[3 - k] \in Operands(g, o)
  BY <1>4, OperandFacts DEF in
<1>6. QED
  BY <1>3, <1>5

\* The pattern that pass_conv_bn_fusion looks for.
LEMMA NormalizedFacts ==
  ASSUME NEW g, Sound(g), NEW o \in Live(g), NEW m \in NormalizedConvolutions(g, o)
  PROVE  /\ g.value[o].mnemonic = "add"
         /\ m.mul \in Operands(g, o) /\ m.mul \in Live(g)
         /\ g.value[m.mul].mnemonic = "multiply"
         /\ HasOneUser(g, m.mul)
         /\ m.conv \in Operands(g, m.mul) /\ m.conv \in Live(g)
         /\ g.value[m.conv].mnemonic = "convolution"
<1> DEFINE As == IF g.value[o].mnemonic = "add" THEN ConstantSplits(g, o) ELSE {}
           M(a, s) == [conv |-> s.other, mul |-> a.other]
           Of(a) == {M(a, s) : s \in ScaledConvolutions(g, a.other)}
<1>1. m \in UNION {Of(a) : a \in As}
  BY Zenon DEF NormalizedConvolutions
<1>2. PICK a \in As : m \in Of(a)
  BY <1>1
<1>3. PICK s \in ScaledConvolutions(g, a.other) : m = M(a, s)
  BY <1>2
<1>4. m.conv = s.other /\ m.mul = a.other
  BY <1>3
<1>5. g.value[o].mnemonic = "add" /\ a \in ConstantSplits(g, o)
  BY <1>2
<1> HIDE DEF As, M, Of
<1>6. Arity("add") = 2 /\ Arity("multiply") = 2
  BY DEF Arity, Binary
<1>7. a.other \in Operands(g, o)
  BY <1>5, <1>6, SplitIsOperand
<1>8. /\ Is(g, a.other, "multiply")
      /\ HasOneUser(g, a.other)
      /\ Is(g, s.other, "convolution")
      /\ s \in ConstantSplits(g, a.other)
  BY <1>3 DEF ScaledConvolutions
<1>9. /\ a.other \in Live(g) /\ g.value[a.other].mnemonic = "multiply"
      /\ s.other \in Live(g) /\ g.value[s.other].mnemonic = "convolution"
  BY <1>8 DEF Is
<1>10. s.other \in Operands(g, a.other)
  BY <1>6, <1>8, <1>9, SplitIsOperand
<1>11. QED
  BY <1>4, <1>5, <1>7, <1>8, <1>9, <1>10

\* It erases the multiplication, too: its only reader was the addition.
LEMMA ConvBnSound ==
  ASSUME NEW g, Sound(g), Acyclic(g), NEW o \in Live(g),
         NEW m \in NormalizedConvolutions(g, o)
  PROVE  LET k == [g EXCEPT !.value[m.conv] = WithBn(@, g.value[o].type)]
             h == EraseOp(Replaced(k, o, m.conv), m.mul)
         IN  Sound(h) /\ Acyclic(h)
<1> DEFINE conv == m.conv
           mul == m.mul
           q == WithBn(g.value[conv], g.value[o].type)
           k == [g EXCEPT !.value = [g.value EXCEPT ![conv] = q]]
           l == Replaced(k, o, conv)
           h == EraseOp(l, mul)
<1>1. /\ g.value[o].mnemonic = "add"
      /\ mul \in Operands(g, o) /\ mul \in Live(g)
      /\ g.value[mul].mnemonic = "multiply"
      /\ HasOneUser(g, mul)
      /\ conv \in Operands(g, mul) /\ conv \in Live(g)
      /\ g.value[conv].mnemonic = "convolution"
  BY NormalizedFacts
<1> HIDE DEF conv, mul
<1>2. PICK rank : Ranks(g, rank)
  BY DEF Acyclic
<1>3. /\ o \in DOMAIN g.value /\ conv \in DOMAIN g.value /\ mul \in DOMAIN g.value
      /\ Formed(g.value[conv]) /\ g.value[o].type \in Types
  BY <1>1, OperandFacts DEF Formed
<1>4. Formed(q) /\ q.mnemonic = g.value[conv].mnemonic
      /\ q.operands = g.value[conv].operands
  BY <1>3, WithBnIsFormed
<1> HIDE DEF q
<1>5. Retouched(g, k)
  BY <1>3, <1>4, RetouchedOne
<1> HIDE DEF k
<1>6. /\ Sound(k) /\ Ranks(k, rank)
      /\ Live(k) = Live(g) /\ Sources(k) = Sources(g)
      /\ \A u \in DOMAIN g.value : Operands(k, u) = Operands(g, u)
  BY <1>2, <1>5, RetouchedSound
<1>7. o # mul /\ o # conv /\ mul # conv
  BY <1>1
<1>8. rank[conv] <= rank[o]
  <2>1. rank[conv] < rank[mul] /\ rank[mul] < rank[o]
    BY <1>1, <1>2, RankFacts
  <2>2. rank[conv] \in Nat /\ rank[mul] \in Nat /\ rank[o] \in Nat
    BY <1>1, <1>2, RankFacts DEF Sources
  <2>3. QED
    BY <2>1, <2>2
<1>9. /\ Sound(l) /\ Ranks(l, rank)
      /\ Live(l) = Live(k) \ {o}
      /\ \A u \in Live(k) \ {o} :
           Operands(l, u) = IF o \in Operands(k, u)
                            THEN (Operands(k, u) \ {o}) \cup {conv}
                            ELSE Operands(k, u)
  BY <1>1, <1>6, <1>7, <1>8, ReplacedBelow DEF Sources
<1> HIDE DEF l
<1>10. ASSUME NEW u \in Live(l) \ {mul} PROVE mul \notin Operands(l, u)
  <2>1. u \in Live(g) /\ u # o /\ u \in DOMAIN g.value
    BY <1>6, <1>9 DEF Sound, Listed
  <2>2. mul \notin Operands(g, u)
    BY <1>1, <1>3, <2>1, OnlyReader
  <2>3. QED
    BY <1>6, <1>7, <1>9, <2>1, <2>2
<1>11. Sound(h) /\ Ranks(h, rank)
  <2>1. mul \in Live(l)
    BY <1>1, <1>6, <1>7, <1>9
  <2>2. QED
    BY <1>9, <1>10, <2>1, EraseOpSound
<1>12. Sound(h) /\ Acyclic(h)
  BY <1>11 DEF Acyclic
<1>13. [g EXCEPT !.value[m.conv] = WithBn(@, g.value[o].type)] = k
  BY DEF k, q, conv
<1>14. QED
  BY <1>12, <1>13 DEF h, l, conv, mul

\* The transposes that the layout passes look through.
LEMMA TransposeFacts ==
  ASSUME NEW g, Sound(g), NEW rank, Ranks(g, rank), NEW t \in Live(g),
         g.value[t].mnemonic = "transpose"
  PROVE  /\ Input(g, t) \in Operands(g, t) /\ Input(g, t) \in Sources(g)
         /\ rank[Input(g, t)] < rank[t]
         /\ rank[Input(g, t)] \in Nat /\ rank[t] \in Nat
         /\ Input(g, t) \in Nat
         /\ Permutation(g, t) \in Rotations
<1>1. Arity("transpose") = 1
  BY DEF Arity, Binary
<1>2. Input(g, t) \in Operands(g, t)
  BY <1>1, OperandFacts DEF Input
<1>3. Input(g, t) \in Sources(g)
  BY <1>2, OperandFacts
<1>4. /\ rank[Input(g, t)] < rank[t]
      /\ rank[Input(g, t)] \in Nat /\ rank[t] \in Nat
  BY <1>2, <1>3, RankFacts DEF Sources
<1>5. Permutation(g, t) \in Rotations
  BY OperandFacts DEF Formed, WellAttributed, Permutation
<1>6. Input(g, t) \in Nat
  BY <1>3, SoundDomains
<1>7. QED
  BY <1>2, <1>3, <1>4, <1>5, <1>6

\* New transposes are in form.
LEMMA TransposeIsFormed ==
  ASSUME NEW x \in Nat, NEW type \in Types, NEW p \in Rotations
  PROVE  LET op == Op("transpose", <<x>>, type, 0, [NoAttrs EXCEPT !.permutation = p]) IN
         /\ Formed(op)
         /\ op.mnemonic = "transpose"
         /\ ToSet(op.operands) = {x}
<1> DEFINE mn == "transpose"
           in == <<x>>
           attrs == [NoAttrs EXCEPT !.permutation = p]
           zero == 0
           op == Op(mn, in, type, zero, attrs)
<1>1. in \in Seq(Nat) /\ Len(in) = 1
  OBVIOUS
<1>2. mn \in Mnemonics
  BY DEF Mnemonics
<1>3. Arity(mn) = 1
  BY DEF Arity, Binary
<1>4. WellAttributed(attrs)
  <2>1. WellAttributed(NoAttrs)
    BY DEF NoAttrs, Rotations, WellAttributed
  <2>2. QED
    BY <2>1 DEF WellAttributed
<1>5. ToSet(in) = {x}
  BY DEF ToSet
<1> HIDE DEF mn, in, attrs, zero
<1>6. Formed(op) /\ op.mnemonic = mn /\ op.operands = in
  <2>1. Formed(op)
    BY <1>1, <1>2, <1>3, <1>4, OpIsFormed
  <2>2. QED
    BY <2>1 DEF Op
<1>7. Formed(op) /\ op.mnemonic = mn /\ ToSet(op.operands) = {x}
  BY <1>5, <1>6
<1>8. QED
  BY <1>7 DEF mn, in, attrs, zero

\* pass_transpose_elim: two transposes that undo each other.
LEMMA TransposePairSound ==
  ASSUME NEW g, Sound(g), Acyclic(g), NEW o \in Live(g), IsTransposePair(g, o)
  PROVE  LET h == Replaced(g, o, Input(g, Input(g, o))) IN
         Sound(h) /\ Acyclic(h)
<1> DEFINE prev == Input(g, o)
           x == Input(g, prev)
<1>1. PICK rank : Ranks(g, rank)
  BY DEF Acyclic
<1>2. /\ g.value[o].mnemonic = "transpose"
      /\ prev \in Live(g) /\ g.value[prev].mnemonic = "transpose"
  BY DEF IsTransposePair, Is
<1>3. rank[prev] < rank[o] /\ rank[prev] \in Nat /\ rank[o] \in Nat
  BY <1>1, <1>2, TransposeFacts
<1>4. x \in Sources(g) /\ rank[x] < rank[prev] /\ rank[x] \in Nat
  BY <1>1, <1>2, TransposeFacts
<1> HIDE DEF prev, x
<1>5. rank[x] <= rank[o] /\ x # o
  BY <1>3, <1>4
<1>6. Sound(Replaced(g, o, x)) /\ Ranks(Replaced(g, o, x), rank)
  BY <1>1, <1>4, <1>5, ReplacedBelow
<1>7. Sound(Replaced(g, o, x)) /\ Acyclic(Replaced(g, o, x))
  BY <1>6 DEF Acyclic
<1>8. QED
  BY <1>7 DEF x, prev

\* Two others become one.
LEMMA TransposeMergeSound ==
  ASSUME NEW g, Sound(g), Acyclic(g), NEW o \in Live(g), IsTransposePair(g, o)
  PROVE  LET composed == (Permutation(g, Input(g, o)) + Permutation(g, o)) % 3
             k == AddOp(g, Op("transpose", <<Input(g, Input(g, o))>>, g.value[o].type, 0,
                              [NoAttrs EXCEPT !.permutation = composed]))
             h == Replaced(k, o, Newest(k))
         IN  Sound(h) /\ Acyclic(h)
<1> DEFINE prev == Input(g, o)
           x == Input(g, prev)
           composed == (Permutation(g, prev) + Permutation(g, o)) % 3
           type == g.value[o].type
           op == Op("transpose", <<x>>, type, 0, [NoAttrs EXCEPT !.permutation = composed])
           k == AddOp(g, op)
<1>1. PICK rank : Ranks(g, rank)
  BY DEF Acyclic
<1>2. /\ g.value[o].mnemonic = "transpose"
      /\ prev \in Live(g) /\ g.value[prev].mnemonic = "transpose"
      /\ type \in Types
  BY OperandFacts DEF IsTransposePair, Is, Formed
<1>3. /\ rank[prev] < rank[o] /\ rank[prev] \in Nat /\ rank[o] \in Nat
      /\ Permutation(g, o) \in Rotations
  BY <1>1, <1>2, TransposeFacts
<1>4. /\ x \in Sources(g) /\ rank[x] < rank[prev] /\ rank[x] \in Nat /\ x \in Nat
      /\ Permutation(g, prev) \in Rotations
  BY <1>1, <1>2, TransposeFacts
<1>5. composed \in Rotations
  <2>1. Permutation(g, prev) + Permutation(g, o) \in Int
    BY <1>3, <1>4 DEF Rotations
  <2>2. QED
    BY <2>1 DEF Rotations
<1> HIDE DEF prev, x, composed, type
<1>6. Formed(op) /\ op.mnemonic = "transpose" /\ ToSet(op.operands) = {x}
  BY <1>2, <1>4, <1>5, TransposeIsFormed
<1> HIDE DEF op
<1>7. op.mnemonic # "arg" /\ ToSet(op.operands) \subseteq Sources(g)
  BY <1>4, <1>6
<1>8. \A v \in ToSet(op.operands) : rank[v] < rank[o]
  BY <1>3, <1>4, <1>6
<1>9. Sound(Replaced(k, o, Newest(k))) /\ Acyclic(Replaced(k, o, Newest(k)))
  BY <1>1, <1>6, <1>7, <1>8, AddThenReplace
<1>10. QED
  BY <1>9 DEF k, op, composed, type, x, prev

\* The binary operator that pass_transpose_push makes is in form.
LEMMA BinaryIsFormed ==
  ASSUME NEW mn \in Binary, NEW l \in Nat, NEW r \in Nat, NEW type \in Types,
         NEW a, WellAttributed(a)
  PROVE  LET op == Op(mn, <<l, r>>, type, 0, [a EXCEPT !.fusion_group = NoGroup]) IN
         /\ Formed(op)
         /\ op.mnemonic = mn
         /\ ToSet(op.operands) = {l, r}
<1> DEFINE in == <<l, r>>
           attrs == [a EXCEPT !.fusion_group = NoGroup]
           zero == 0
           op == Op(mn, in, type, zero, attrs)
<1>1. in \in Seq(Nat) /\ Len(in) = 2
  OBVIOUS
<1>2. mn \in Mnemonics
  BY DEF Mnemonics, Elementwise
<1>3. Arity(mn) = 2
  BY DEF Arity, Binary
<1>4. WellAttributed(attrs)
  BY DEF WellAttributed
<1>5. ToSet(in) = {l, r}
  BY DEF ToSet
<1> HIDE DEF in, attrs, zero
<1>6. Formed(op) /\ op.mnemonic = mn /\ op.operands = in
  <2>1. Formed(op)
    BY ZenonT(40), <1>1, <1>2, <1>3, <1>4, OpIsFormed
  <2>2. QED
    BY <2>1 DEF Op
<1>7. Formed(op) /\ op.mnemonic = mn /\ ToSet(op.operands) = {l, r}
  BY <1>5, <1>6
<1>8. QED
  BY <1>7 DEF in, attrs, zero

\* pass_transpose_push: the operator on the sources of two transposes, and the
\* transpose of its result.
LEMMA TransposePushSound ==
  ASSUME NEW g, Sound(g), Acyclic(g), NEW o \in Live(g), IsPushable(g, o)
  PROVE  LET op == g.value[o]
             l  == Input(g, op.operands[1])
             r  == Input(g, op.operands[2])
             nb == AddOp(g, Op(op.mnemonic, <<l, r>>, g.value[l].type, 0,
                               [op.attrs EXCEPT !.fusion_group = NoGroup]))
             nt == AddOp(nb, Op("transpose", <<Newest(nb)>>, op.type, 0,
                                [NoAttrs EXCEPT !.permutation =
                                   Permutation(g, op.operands[1])]))
             h  == Replaced(nt, o, Newest(nt))
         IN  Sound(h) /\ Acyclic(h)
<1> DEFINE op == g.value[o]
           t1 == op.operands[1]
           t2 == op.operands[2]
           l == Input(g, t1)
           r == Input(g, t2)
           bop == Op(op.mnemonic, <<l, r>>, g.value[l].type, 0,
                     [op.attrs EXCEPT !.fusion_group = NoGroup])
           nb == AddOp(g, bop)
           new == Len(g.value) + 1
           p == Permutation(g, t1)
           top == Op("transpose", <<new>>, op.type, 0, [NoAttrs EXCEPT !.permutation = p])
           nt == AddOp(nb, top)
           h == Replaced(nt, o, Newest(nt))
<1>1. PICK rank : Ranks(g, rank)
  BY DEF Acyclic
<1>2. /\ op.mnemonic \in Binary
      /\ \A v \in Operands(g, o) : v \in Live(g) /\ g.value[v].mnemonic = "transpose"
  BY DEF IsPushable, Is
<1>3. /\ t1 \in Operands(g, o) /\ t2 \in Operands(g, o)
      /\ o \in DOMAIN g.value
      /\ WellAttributed(op.attrs) /\ op.type \in Types
  <2>1. Arity(op.mnemonic) = 2
    BY <1>2 DEF Arity, Binary
  <2>2. /\ o \in DOMAIN g.value /\ Formed(op)
        /\ \A k \in 1 .. Arity(op.mnemonic) : op.operands[k] \in Operands(g, o)
    BY OperandFacts
  <2>3. WellAttributed(op.attrs) /\ op.type \in Types
    BY <2>2 DEF Formed
  <2>4. 1 \in 1 .. Arity(op.mnemonic) /\ 2 \in 1 .. Arity(op.mnemonic)
    BY <2>1
  <2>5. QED
    BY <2>2, <2>3, <2>4
<1>4. /\ rank[t1] < rank[o] /\ rank[t2] < rank[o] /\ rank[o] \in Nat
  BY <1>1, <1>3, RankFacts DEF Sources
<1> HIDE DEF t1, t2
<1>5. /\ t1 \in Live(g) /\ g.value[t1].mnemonic = "transpose"
      /\ t2 \in Live(g) /\ g.value[t2].mnemonic = "transpose"
  BY <1>2, <1>3
<1>6. /\ l \in Sources(g) /\ l \in Nat
      /\ rank[l] < rank[t1] /\ rank[l] \in Nat /\ rank[t1] \in Nat
      /\ p \in Rotations
  BY <1>1, <1>5, TransposeFacts
<1>7. /\ r \in Sources(g) /\ r \in Nat
      /\ rank[r] < rank[t2] /\ rank[r] \in Nat /\ rank[t2] \in Nat
  BY <1>1, <1>5, TransposeFacts
<1> HIDE DEF l, r, p
<1>8. g.value[l].type \in Types
  BY <1>6, SoundDomains DEF Sound, AllFormed, Formed
<1>9. Formed(bop) /\ bop.mnemonic = op.mnemonic /\ ToSet(bop.operands) = {l, r}
  <2> DEFINE mn == op.mnemonic
             a == op.attrs
             type == g.value[l].type
  <2>1. mn \in Binary /\ WellAttributed(a) /\ type \in Types
    BY <1>2, <1>3, <1>8
  <2> HIDE DEF mn, a, type
  <2>2. LET q == Op(mn, <<l, r>>, type, 0, [a EXCEPT !.fusion_group = NoGroup]) IN
        Formed(q) /\ q.mnemonic = mn /\ ToSet(q.operands) = {l, r}
    BY <1>6, <1>7, <2>1, BinaryIsFormed
  <2>3. QED
    BY <2>2 DEF mn, a, type
<1> HIDE DEF bop
<1>10. bop.mnemonic # "arg"
  BY <1>2, <1>9 DEF Binary
<1>11. ToSet(bop.operands) \subseteq Sources(g)
  BY <1>6, <1>7, <1>9
<1> DEFINE n == rank[o] - 1
<1>12. n \in Nat /\ n < rank[o] /\ rank[l] < n /\ rank[r] < n
  BY <1>4, <1>6, <1>7
<1> HIDE DEF n
<1>13. \A v \in ToSet(bop.operands) : rank[v] < n
  BY <1>9, <1>12
<1>14. Sound(nb) /\ Sources(nb) = Sources(g) \cup {new}
  BY <1>9, <1>10, <1>11, AddOpSound
<1>15. Added(g, bop, nb, new)
  BY AddOpEntries
<1>16. Newest(nb) = new /\ Live(nb) = Live(g) \cup {new}
  BY <1>15 DEF Added
<1>17. PICK s : /\ Ranks(nb, s)
                /\ s[new] = n
                /\ \A v \in DOMAIN g.value : s[v] = rank[v]
  BY <1>1, <1>11, <1>12, <1>13, AddOpRanks
<1>18. new \in Nat
  BY SoundDomains
<1> HIDE DEF nb, new
<1>19. Formed(top) /\ top.mnemonic = "transpose" /\ ToSet(top.operands) = {new}
  BY <1>3, <1>6, <1>18, TransposeIsFormed
<1> HIDE DEF top
<1>20. /\ top.mnemonic # "arg"
       /\ ToSet(top.operands) \subseteq Sources(nb)
       /\ o \in Live(nb)
  BY <1>14, <1>16, <1>19
<1>21. \A v \in ToSet(top.operands) : s[v] < s[o]
  BY <1>3, <1>12, <1>17, <1>19
<1>22. Sound(h) /\ Acyclic(h)
  BY <1>14, <1>17, <1>19, <1>20, <1>21, AddThenReplace
<1>23. top = Op("transpose", <<Newest(nb)>>, op.type, 0,
                [NoAttrs EXCEPT !.permutation = p])
  BY <1>16 DEF top
<1>24. QED
  BY <1>22, <1>23 DEF h, nt, nb, bop, l, r, p, t1, t2

\* pass_nchw_nhwc_layout: the convolution takes over from the transpose.
LEMMA OutputLayoutSound ==
  ASSUME NEW g, Sound(g), Acyclic(g), NEW o \in Live(g), IsOutputLayout(g, o)
  PROVE  LET conv == Input(g, o)
             k == [g EXCEPT !.value[conv] = WithNhwcOutput(@)]
             h == Replaced(k, o, conv)
         IN  Sound(h) /\ Acyclic(h) /\ Len(h.ops) = Len(g.ops) - 1
<1> DEFINE conv == Input(g, o)
           q == WithNhwcOutput(g.value[conv])
           k == [g EXCEPT !.value = [g.value EXCEPT ![conv] = q]]
           h == Replaced(k, o, conv)
<1>1. PICK rank : Ranks(g, rank)
  BY DEF Acyclic
<1>2. g.value[o].mnemonic = "transpose" /\ conv \in Live(g)
  BY DEF IsOutputLayout, Is
<1>3. conv \in Operands(g, o)
  BY <1>1, <1>2, TransposeFacts
<1> HIDE DEF conv
<1>4. conv \in DOMAIN g.value /\ Formed(g.value[conv]) /\ o \in DOMAIN g.value
  BY <1>2, OperandFacts
<1>5. Formed(q) /\ q.mnemonic = g.value[conv].mnemonic
      /\ q.operands = g.value[conv].operands
  BY <1>4, WithNhwcOutputIsFormed
<1> HIDE DEF q
<1>6. Retouched(g, k) /\ k.ops = g.ops
  BY <1>4, <1>5, RetouchedOne
<1> HIDE DEF k
<1>7. /\ Sound(k) /\ Ranks(k, rank) /\ Live(k) = Live(g)
      /\ Operands(k, o) = Operands(g, o)
  BY <1>1, <1>4, <1>6, RetouchedSound
<1>8. Sound(k) /\ Acyclic(k) /\ o \in Live(k) /\ conv \in Operands(k, o)
  BY <1>3, <1>7 DEF Acyclic
<1>9. Sound(h) /\ Acyclic(h) /\ Len(h.ops) = Len(g.ops) - 1
  BY <1>6, <1>8, ReplacedByOperand
<1>10. [g EXCEPT !.value[conv] = WithNhwcOutput(@)] = k
  BY DEF k, q
<1>11. QED
  BY <1>9, <1>10 DEF h, conv

\* pass_nhwc_nchw_layout: the convolution reads what was transposed, and the
\* transpose goes if nobody else reads it.
LEMMA InputLayoutSound ==
  ASSUME NEW g, Sound(g), Acyclic(g), NEW conv \in Live(g), IsInputLayout(g, conv)
  PROVE  LET t == Input(g, conv)
             l == ReplaceAllUses([g EXCEPT !.value[conv].attrs.input_layout = "NHWC"],
                                 t, Input(g, t))
             h == IF l.users[t] = {} THEN EraseOp(l, t) ELSE l
         IN  /\ Sound(h) /\ Acyclic(h)
             /\ Len(h.ops) \in {Len(g.ops) - 1, Len(g.ops)}
<1> DEFINE t == Input(g, conv)
           x == Input(g, t)
           q == [g.value[conv] EXCEPT !.attrs.input_layout = "NHWC"]
           k == [g EXCEPT !.value = [g.value EXCEPT ![conv] = q]]
           l == ReplaceAllUses(k, t, x)
           h == IF l.users[t] = {} THEN EraseOp(l, t) ELSE l
<1>1. PICK rank : Ranks(g, rank)
  BY DEF Acyclic
<1>2. /\ g.value[conv].mnemonic = "convolution"
      /\ t \in Live(g) /\ g.value[t].mnemonic = "transpose"
  BY DEF IsInputLayout, Is
<1>3. x \in Sources(g) /\ rank[x] < rank[t] /\ rank[x] \in Nat /\ rank[t] \in Nat
  BY <1>1, <1>2, TransposeFacts
<1> HIDE DEF t, x
<1>4. conv \in DOMAIN g.value /\ Formed(g.value[conv])
  BY OperandFacts
<1>5. Formed(q) /\ q.mnemonic = g.value[conv].mnemonic
      /\ q.operands = g.value[conv].operands
  BY <1>4, EditsAreFormed
<1> HIDE DEF q
<1>6. Retouched(g, k) /\ k.ops = g.ops
  BY <1>4, <1>5, RetouchedOne
<1> HIDE DEF k
<1>7. /\ Sound(k) /\ Ranks(k, rank) /\ Live(k) = Live(g) /\ Sources(k) = Sources(g)
  BY <1>1, <1>6, RetouchedSound
<1>8. t \in Sources(k) /\ x \in Sources(k) /\ t # x /\ t \in Live(k)
  BY <1>2, <1>3, <1>7 DEF Sources
<1>9. /\ Sound(l)
      /\ l.ops = k.ops /\ DOMAIN l.value = DOMAIN k.value
      /\ Live(l) = Live(k)
      /\ \A u \in Live(k) :
           Operands(l, u) = IF t \in Operands(k, u)
                            THEN (Operands(k, u) \ {t}) \cup {x}
                            ELSE Operands(k, u)
  BY <1>7, <1>8, RewiredSound
<1> HIDE DEF l
<1>10. Ranks(l, rank)
  <2>1. /\ rank \in [DOMAIN k.value -> Nat]
        /\ \A o \in Live(k) : \A v \in Operands(k, o) : rank[v] < rank[o]
    BY <1>7 DEF Ranks
  <2>2. ASSUME NEW o \in Live(k), t \in Operands(k, o) PROVE rank[x] < rank[o]
    <3>1. rank[t] < rank[o] /\ rank[o] \in Nat
      BY <1>7, <2>1, <2>2, RankFacts DEF Sources
    <3>2. QED
      BY <1>3, <3>1
  <2>3. QED
    BY <1>9, <2>1, <2>2 DEF Ranks
<1>11. \A u \in Live(l) : t \notin Operands(l, u)
  BY <1>8, <1>9
<1>12. /\ Sound(EraseOp(l, t)) /\ Ranks(EraseOp(l, t), rank)
       /\ Len(EraseOp(l, t).ops) = Len(l.ops) - 1
  BY <1>8, <1>9, <1>10, <1>11, EraseOpSound
<1>13. Sound(h) /\ Acyclic(h) /\ Len(h.ops) \in {Len(g.ops) - 1, Len(g.ops)}
  BY <1>6, <1>9, <1>10, <1>12 DEF Acyclic
<1>14. [g EXCEPT !.value[conv].attrs.input_layout = "NHWC"] = k
  BY DEF k, q
<1>15. QED
  BY <1>13, <1>14 DEF h, l, x, t

(***************************************************************************)
(* The inductive invariant.  GraphConsistent alone is none: that an erased *)
(* operator was read by no other takes the use lists, the arities and, for *)
(* the rewrites that move uses to an operand further up, that operators    *)
(* do not read their own results, however many steps removed.              *)
(***************************************************************************)
IInv ==
  /\ Sound(graph) /\ Acyclic(graph)
  /\ pass \in 1 .. (Len(Pipeline) + 1)
  /\ next \in 1 .. (Len(graph.ops) + 2)

\* The pipeline has a length.
LEMMA PipelineLength == Len(Pipeline) \in Nat
BY DEF Pipeline

\* It holds for the graphs the pipeline is given.
LEMMA InitHolds ==
  ASSUME Init
  PROVE  IInv
<1>1. Sound(graph) /\ Acyclic(graph)
  BY GraphsAssumption, BuiltIsSound DEF Init
<1>2. Len(graph.ops) \in Nat
  BY <1>1, SoundDomains
<1> DEFINE N == Len(Pipeline)
<1>3. N \in Nat
  BY PipelineLength
<1> HIDE DEF N
<1>4. pass \in 1 .. (N + 1)
  BY <1>3 DEF Init
<1>5. next \in 1 .. (Len(graph.ops) + 2)
  BY <1>2 DEF Init
<1>6. QED
  BY <1>1, <1>4, <1>5 DEF IInv, N

\* A pass that starts its scan again on a sound graph keeps the invariant.
LEMMA RestartHolds ==
  ASSUME IInv, NEW g, Sound(g), Acyclic(g), Restart(g)
  PROVE  IInv'
<1>1. graph' = g /\ next' = 1 /\ pass' = pass
  BY DEF Restart
<1>2. Len(g.ops) \in Nat
  BY SoundDomains
<1>3. next' \in 1 .. (Len(graph'.ops) + 2)
  BY <1>1, <1>2
<1>4. pass' \in 1 .. (Len(Pipeline) + 1)
  BY <1>1 DEF IInv
<1>5. Sound(graph') /\ Acyclic(graph')
  BY <1>1
<1>6. QED
  BY <1>3, <1>4, <1>5 DEF IInv

\* So does one that goes on, having erased at most one operator.
LEMMA SweepOnHolds ==
  ASSUME IInv, NEW g, Sound(g), Acyclic(g), NEW i \in 1 .. Len(graph.ops),
         Len(g.ops) \in {Len(graph.ops) - 1, Len(graph.ops)}, SweepOn(g, i)
  PROVE  IInv'
<1>1. graph' = g /\ next' = i + 1 /\ pass' = pass
  BY DEF SweepOn
<1>2. Len(g.ops) \in Nat /\ Len(graph.ops) \in Nat
  BY SoundDomains DEF IInv
<1> DEFINE M == Len(g.ops)
           N == Len(graph.ops)
<1>3. M \in Nat /\ N \in Nat /\ M \in {N - 1, N} /\ i \in 1 .. N
  BY <1>2
<1> HIDE DEF M, N
<1>4. i + 1 \in 1 .. (M + 2)
  BY <1>3
<1>5. next' \in 1 .. (Len(graph'.ops) + 2)
  BY <1>1, <1>4 DEF M
<1>6. pass' \in 1 .. (Len(Pipeline) + 1)
  BY <1>1 DEF IInv
<1>7. Sound(graph') /\ Acyclic(graph')
  BY <1>1
<1>8. QED
  BY <1>5, <1>6, <1>7 DEF IInv

\* The end of a pass that leaves a sound graph.
LEMMA NextPassHolds ==
  ASSUME IInv, ~Finished, Sound(graph'), Acyclic(graph'), pass' = pass + 1, next' = 1
  PROVE  IInv'
<1> DEFINE N == Len(Pipeline)
<1>1. N \in Nat /\ pass \in 1 .. (N + 1) /\ ~(pass > N)
  BY PipelineLength DEF IInv, Finished
<1> HIDE DEF N
<1>2. pass' \in 1 .. (N + 1)
  BY <1>1
<1>3. Len(graph'.ops) \in Nat
  BY SoundDomains
<1>4. next' \in 1 .. (Len(graph'.ops) + 2)
  BY <1>3
<1>5. QED
  BY <1>2, <1>4 DEF IInv, N

\* The operator that a running pass finds, and what it found it by.
LEMMA RunningFinds ==
  ASSUME IInv, NEW p, Running(p), NEW i \in Found
  PROVE  /\ graph.ops[i] \in Live(graph)
         /\ i \in 1 .. Len(graph.ops)
         /\ Matches(graph, p, i)
<1>1. Sound(graph) /\ Pipeline[pass] = p
  BY DEF IInv, Running
<1>2. QED
  BY <1>1, FoundFacts

\* The types that pass_shape_infer computes.
LEMMA InferredIsType ==
  ASSUME NEW g, Sound(g), NEW o \in Live(g)
  PROVE  Inferred(g, o) \in Types
<1> DEFINE op == g.value[o]
           in == g.value[op.operands[1]].type
           last == g.value[Last(op.operands)].type
           ar == Arity(op.mnemonic)
<1>1. /\ op.operands \in Seq(Nat) /\ Len(op.operands) = ar
      /\ Operands(g, o) \subseteq Sources(g)
      /\ \A k \in 1 .. ar : op.operands[k] \in Operands(g, o)
      /\ op.type \in Types /\ WellAttributed(op.attrs)
  BY OperandFacts DEF Formed
<1>2. \A v \in Operands(g, o) : g.value[v].type \in Types
  BY <1>1, SoundDomains DEF Sound, AllFormed, Formed
<1>3. op.mnemonic \in Elementwise => in \in Types /\ last \in Types
  <2>1. op.mnemonic \in Elementwise => ar \in {1, 2}
    BY DEF Arity, Elementwise, Binary
  <2>2. Last(op.operands) = op.operands[ar]
    BY <1>1 DEF Last
  <2> HIDE DEF op, ar
  <2>3. op.mnemonic \in Elementwise =>
          op.operands[1] \in Operands(g, o) /\ op.operands[ar] \in Operands(g, o)
    BY <1>1, <2>1
  <2>4. QED
    BY <1>2, <2>2, <2>3
<1>4. op.mnemonic = "transpose" => in \in Types
  <2>1. op.mnemonic = "transpose" => ar = 1
    BY DEF Arity, Binary
  <2>2. QED
    BY <1>1, <1>2, <2>1
<1>5. op.attrs.permutation \in Rotations
  BY <1>1 DEF WellAttributed
<1> DEFINE shift == [in EXCEPT !.dims = (@ + op.attrs.permutation) % 3]
           some == [op.type EXCEPT !.dims = Dynamic]
           any == BroadcastShapes(in, last)
<1>6. op.mnemonic \in Elementwise => any \in Types
  BY <1>3 DEF BroadcastShapes, Types
<1>7. op.mnemonic = "transpose" /\ IsStatic(in) => shift \in Types
  BY <1>4, <1>5, PermutedIsType
<1>8. some \in Types
  BY <1>1 DEF Types
<1>9. Inferred(g, o) = CASE op.mnemonic \in Elementwise -> any
                         [] op.mnemonic = "transpose" /\ IsStatic(in) -> shift
                         [] OTHER -> some
  BY Zenon DEF Inferred
<1> HIDE DEF op, in, last, shift, some, any
<1>10. QED
  BY <1>6, <1>7, <1>8, <1>9

\* The rewrites that put an operand in the place of a result.
LEMMA AlgebraicSimplifyKeeps ==
  ASSUME IInv, AlgebraicSimplify
  PROVE  IInv'
<1>1. PICK i \in Found : \E v \in Simplified(graph, graph.ops[i]) :
               Restart(Replaced(graph, graph.ops[i], v))
  BY DEF AlgebraicSimplify
<1>2. PICK v \in Simplified(graph, graph.ops[i]) : Restart(Replaced(graph, graph.ops[i], v))
  BY <1>1
<1> DEFINE o == graph.ops[i]
           h == Replaced(graph, o, v)
<1>3. o \in Live(graph) /\ Sound(graph) /\ Acyclic(graph)
  BY FoundFacts DEF IInv
<1>4. v \in Operands(graph, o)
  BY <1>3, SimplifiedIsOperand
<1>5. Sound(h) /\ Acyclic(h)
  BY <1>3, <1>4, ReplacedByOperand
<1> HIDE DEF h
<1>6. Restart(h)
  BY <1>2 DEF h
<1>7. QED
  BY <1>5, <1>6, RestartHolds

\* pass_identity_elim.
LEMMA IdentityElimKeeps ==
  ASSUME IInv, IdentityElim
  PROVE  IInv'
<1>1. PICK i \in Found : \E v \in Identity(graph, graph.ops[i]) :
               Restart(Replaced(graph, graph.ops[i], v))
  BY DEF IdentityElim
<1>2. PICK v \in Identity(graph, graph.ops[i]) : Restart(Replaced(graph, graph.ops[i], v))
  BY <1>1
<1> DEFINE o == graph.ops[i]
           h == Replaced(graph, o, v)
<1>3. o \in Live(graph) /\ Sound(graph) /\ Acyclic(graph)
  BY FoundFacts DEF IInv
<1>4. v \in Operands(graph, o)
  BY <1>3, IdentityIsOperand
<1>5. Sound(h) /\ Acyclic(h)
  BY <1>3, <1>4, ReplacedByOperand
<1> HIDE DEF h
<1>6. Restart(h)
  BY <1>2 DEF h
<1>7. QED
  BY <1>5, <1>6, RestartHolds

\* pass_shape_infer.
LEMMA ShapeInferKeeps ==
  ASSUME IInv, ShapeInfer
  PROVE  IInv'
<1>1. PICK i \in Found :
        SweepOn([graph EXCEPT !.value[graph.ops[i]].type =
                   Inferred(graph, graph.ops[i])], i)
  BY DEF ShapeInfer
<1> DEFINE o == graph.ops[i]
           type == Inferred(graph, o)
           q == [graph.value[o] EXCEPT !.type = type]
           h == [graph EXCEPT !.value = [graph.value EXCEPT ![o] = q]]
<1>2. o \in Live(graph) /\ i \in 1 .. Len(graph.ops) /\ Sound(graph) /\ Acyclic(graph)
  BY FoundFacts DEF IInv
<1>3. type \in Types
  BY <1>2, InferredIsType
<1>4. [graph EXCEPT !.value[graph.ops[i]].type = Inferred(graph, graph.ops[i])] = h
  OBVIOUS
<1> HIDE DEF o, type
<1>5. Formed(graph.value[o]) /\ o \in DOMAIN graph.value
  BY <1>2, OperandFacts
<1>6. Formed(q) /\ q.mnemonic = graph.value[o].mnemonic
      /\ q.operands = graph.value[o].operands
  BY <1>3, <1>5, EditsAreFormed
<1> HIDE DEF q
<1>7. Retouched(graph, h) /\ h.ops = graph.ops
  BY <1>2, <1>5, <1>6, RetouchedOne
<1> HIDE DEF h
<1>8. Sound(h) /\ Acyclic(h)
  BY <1>2, <1>7, RetouchedSound DEF Acyclic
<1>9. SweepOn(h, i) /\ Len(h.ops) \in {Len(graph.ops) - 1, Len(graph.ops)}
  BY <1>1, <1>4, <1>7
<1>10. QED
  BY <1>2, <1>8, <1>9, SweepOnHolds

\* The two passes that fold into constants.
LEMMA FoldIntoKeeps ==
  ASSUME IInv, NEW o \in Live(graph), NEW n, FoldInto(o, n)
  PROVE  IInv'
<1> DEFINE k == AddConstant(graph, graph.value[o].type, n)
           h == Replaced(k, o, Newest(k))
<1>1. Sound(graph) /\ Acyclic(graph)
  BY DEF IInv
<1>2. Restart(h)
  BY DEF FoldInto
<1>3. Sound(h) /\ Acyclic(h)
  BY <1>1, FoldSound
<1> HIDE DEF h
<1>4. QED
  BY <1>2, <1>3, RestartHolds

\* pass_shape_fold and pass_constant_fold.
LEMMA FoldsKeep ==
  ASSUME IInv, ShapeFold \/ ConstantFold
  PROVE  IInv'
<1>1. \A i \in Found : graph.ops[i] \in Live(graph)
  BY FoundFacts DEF IInv
<1>2. \E i \in Found : \E n : FoldInto(graph.ops[i], n)
  BY Zenon DEF ShapeFold, ConstantFold
<1>3. QED
  BY <1>1, <1>2, FoldIntoKeeps

\* pass_dce and pass_shape_subgraph_elim.
LEMMA ErasuresKeep ==
  ASSUME IInv, ShapeSubgraphElim \/ Dce
  PROVE  IInv'
<1>1. Sound(graph) /\ Acyclic(graph)
  BY DEF IInv
<1>2. \E i \in Found : Restart(EraseOp(graph, graph.ops[i])) /\ IsDead(graph, graph.ops[i])
  <2>1. CASE ShapeSubgraphElim
    <3>1. PICK i \in Found : Restart(EraseOp(graph, graph.ops[i]))
      BY <2>1 DEF ShapeSubgraphElim
    <3>2. Running("shape_subgraph_elim")
      BY <2>1 DEF ShapeSubgraphElim
    <3>3. Matches(graph, "shape_subgraph_elim", i)
      BY <3>2, RunningFinds
    <3>4. IsDead(graph, graph.ops[i])
      BY <3>3 DEF Matches
    <3>5. QED
      BY <3>1, <3>4
  <2>2. CASE Dce
    <3>1. PICK i \in Found : Restart(EraseOp(graph, graph.ops[i]))
      BY <2>2 DEF Dce
    <3>2. Running("dce")
      BY <2>2 DEF Dce
    <3>3. Matches(graph, "dce", i)
      BY <3>2, RunningFinds
    <3>4. IsDead(graph, graph.ops[i])
      BY <3>3 DEF Matches
    <3>5. QED
      BY <3>1, <3>4
  <2>3. QED
    BY <2>1, <2>2
<1>3. PICK i \in Found : Restart(EraseOp(graph, graph.ops[i])) /\ IsDead(graph, graph.ops[i])
  BY <1>2
<1>4. graph.ops[i] \in Live(graph)
  BY <1>1, FoundFacts
<1> DEFINE h == EraseOp(graph, graph.ops[i])
<1>5. Sound(h) /\ Acyclic(h)
  BY <1>1, <1>3, <1>4, DeadErased
<1>6. Restart(h)
  BY <1>3
<1> HIDE DEF h
<1>7. QED
  BY <1>5, <1>6, RestartHolds

\* pass_cse.
LEMMA CseKeeps ==
  ASSUME IInv, Cse
  PROVE  IInv'
<1>1. PICK i \in Found :
        Restart(Replaced(graph, graph.ops[Least(Duplicates(graph, i))], graph.ops[i]))
  BY DEF Cse
<1>2. Running("cse")
  BY DEF Cse
<1> DEFINE D == Duplicates(graph, i)
           j == Least(D)
           keep == graph.ops[i]
           dup == graph.ops[j]
           h == Replaced(graph, dup, keep)
<1>3. /\ Sound(graph) /\ Acyclic(graph)
      /\ i \in 1 .. Len(graph.ops) /\ keep \in Live(graph)
      /\ Matches(graph, "cse", i)
  BY <1>2, RunningFinds DEF IInv
<1>4. D # {}
  BY <1>3 DEF Matches
<1>5. /\ Len(graph.ops) \in Nat /\ DOMAIN graph.ops = 1 .. Len(graph.ops)
      /\ \A a, b \in DOMAIN graph.ops : graph.ops[a] = graph.ops[b] => a = b
  BY <1>3, SoundDomains DEF Sound, Listed, Once
<1>6. D = {k \in (i + 1) .. Len(graph.ops) :
             Equivalent(graph.value[graph.ops[i]], graph.value[graph.ops[k]])}
  BY DEF Duplicates
<1> HIDE DEF D
<1>7. j \in D
  <2>1. D \subseteq Nat
    BY <1>3, <1>5, <1>6
  <2>2. QED
    BY <1>4, <2>1, LeastIn
<1> HIDE DEF j
<1>8. /\ j \in DOMAIN graph.ops /\ j # i /\ i \in DOMAIN graph.ops
      /\ Equivalent(graph.value[keep], graph.value[dup])
  BY <1>3, <1>5, <1>6, <1>7
<1>9. dup \in Live(graph) /\ keep # dup
  BY <1>5, <1>8 DEF Live, ToSet
<1>10. graph.value[keep].operands = graph.value[dup].operands
  BY <1>8 DEF Equivalent
<1> HIDE DEF keep, dup
<1>11. Sound(h) /\ Acyclic(h)
  BY <1>3, <1>9, <1>10, CseSound
<1> HIDE DEF h
<1>12. Restart(h)
  BY <1>1 DEF h, keep, dup, j, D
<1>13. QED
  BY <1>11, <1>12, RestartHolds

\* pass_conv_bn_fusion.
LEMMA ConvBnFusionKeeps ==
  ASSUME IInv, ConvBnFusion
  PROVE  IInv'
<1>1. PICK i \in Found :
        \E m \in NormalizedConvolutions(graph, graph.ops[i]) :
          \E marked \in {[graph EXCEPT !.value[m.conv] =
                           WithBn(@, graph.value[graph.ops[i]].type)]} :
          \E g \in {Replaced(marked, graph.ops[i], m.conv)} :
            Restart(EraseOp(g, m.mul))
  BY Zenon DEF ConvBnFusion
<1> DEFINE o == graph.ops[i]
<1>2. PICK m \in NormalizedConvolutions(graph, o) :
        Restart(EraseOp(Replaced([graph EXCEPT !.value[m.conv] =
                                   WithBn(@, graph.value[o].type)],
                                 o, m.conv), m.mul))
  BY <1>1
<1> DEFINE h == EraseOp(Replaced([graph EXCEPT !.value[m.conv] =
                                   WithBn(@, graph.value[o].type)],
                                 o, m.conv), m.mul)
<1>3. o \in Live(graph) /\ Sound(graph) /\ Acyclic(graph)
  BY FoundFacts DEF IInv
<1> HIDE DEF o
<1>4. Sound(h) /\ Acyclic(h)
  BY <1>3, ConvBnSound
<1>5. Restart(h)
  BY <1>2
<1> HIDE DEF h
<1>6. QED
  BY <1>4, <1>5, RestartHolds

\* pass_fusion_detect.
LEMMA FusionDetectKeeps ==
  ASSUME IInv, FusionDetect
  PROVE  IInv'
<1>1. PICK i \in Found :
        LET members == ToSet(Chain(graph, graph.ops[i]))
            id      == Cardinality(FusionGroups(graph))
        IN SweepOn([graph EXCEPT !.value = [v \in DOMAIN @ |->
                     IF v \in members THEN [@[v] EXCEPT !.attrs.fusion_group = id]
                     ELSE @[v]]], i)
  BY Zenon DEF FusionDetect
<1> DEFINE members == ToSet(Chain(graph, graph.ops[i]))
           id == Cardinality(FusionGroups(graph))
<1> HIDE DEF members, id
<1> DEFINE vs == [v \in DOMAIN graph.value |->
                   IF v \in members THEN [graph.value[v] EXCEPT !.attrs.fusion_group = id]
                   ELSE graph.value[v]]
           h == [graph EXCEPT !.value = vs]
<1>2. SweepOn(h, i)
  BY <1>1 DEF members, id
<1>3. i \in 1 .. Len(graph.ops) /\ Sound(graph) /\ Acyclic(graph)
  BY FoundFacts DEF IInv
<1>4. \A v \in DOMAIN graph.value :
        /\ Formed(vs[v])
        /\ vs[v].mnemonic = graph.value[v].mnemonic
        /\ vs[v].operands = graph.value[v].operands
  <2>1. ASSUME NEW v \in DOMAIN graph.value
        PROVE  /\ Formed(vs[v])
               /\ vs[v].mnemonic = graph.value[v].mnemonic
               /\ vs[v].operands = graph.value[v].operands
    <3> DEFINE op == graph.value[v]
               q == [op EXCEPT !.attrs.fusion_group = id]
    <3>1. Formed(op)
      BY <1>3 DEF Sound, AllFormed
    <3>2. vs[v] = IF v \in members THEN q ELSE op
      OBVIOUS
    <3> HIDE DEF op, vs
    <3>3. Formed(q) /\ q.mnemonic = op.mnemonic /\ q.operands = op.operands
      BY <3>1, EditsAreFormed
    <3> HIDE DEF q
    <3>4. QED
      BY <3>1, <3>2, <3>3 DEF op
  <2>2. QED
    BY <2>1
<1>5. vs = [v \in DOMAIN graph.value |-> vs[v]]
  OBVIOUS
<1> HIDE DEF vs
<1>6. Retouched(graph, h) /\ h.ops = graph.ops
  BY <1>3, <1>4, <1>5, RetouchedAll
<1> HIDE DEF h
<1>7. Sound(h) /\ Acyclic(h)
  BY <1>3, <1>6, RetouchedSound DEF Acyclic
<1>8. Len(h.ops) \in {Len(graph.ops) - 1, Len(graph.ops)}
  BY <1>6
<1>9. QED
  BY <1>2, <1>3, <1>7, <1>8, SweepOnHolds

\* pass_transpose_elim.
LEMMA TransposeElimKeeps ==
  ASSUME IInv, TransposeElim
  PROVE  IInv'
<1>1. PICK i \in Found :
       LET o        == graph.ops[i]
           prev     == Input(graph, o)
           composed == (Permutation(graph, prev) + Permutation(graph, o)) % 3
       IN \/ composed = 0 /\ Restart(Replaced(graph, o, Input(graph, prev)))
          \/ /\ composed # 0
             /\ \E g \in {AddOp(graph, Op("transpose", <<Input(graph, prev)>>,
                            graph.value[o].type, 0,
                            [NoAttrs EXCEPT !.permutation = composed]))} :
                  Restart(Replaced(g, o, Newest(g)))
  BY Zenon DEF TransposeElim
<1>2. Running("transpose_elim")
  BY DEF TransposeElim
<1> DEFINE o == graph.ops[i]
           prev == Input(graph, o)
           composed == (Permutation(graph, prev) + Permutation(graph, o)) % 3
           k == AddOp(graph, Op("transpose", <<Input(graph, prev)>>,
                                graph.value[o].type, 0,
                                [NoAttrs EXCEPT !.permutation = composed]))
           pair == Replaced(graph, o, Input(graph, prev))
           merged == Replaced(k, o, Newest(k))
<1>3. Restart(pair) \/ Restart(merged)
  BY <1>1
<1>4. /\ Sound(graph) /\ Acyclic(graph) /\ o \in Live(graph)
      /\ Matches(graph, "transpose_elim", i)
  BY <1>2, RunningFinds DEF IInv
<1>5. IsTransposePair(graph, o)
  BY <1>4 DEF Matches
<1>6. Sound(pair) /\ Acyclic(pair)
  BY <1>4, <1>5, TransposePairSound
<1>7. Sound(merged) /\ Acyclic(merged)
  BY <1>4, <1>5, TransposeMergeSound
<1> HIDE DEF pair, merged
<1>8. QED
  BY <1>3, <1>6, <1>7, RestartHolds

\* pass_transpose_push.
LEMMA TransposePushKeeps ==
  ASSUME IInv, TransposePush
  PROVE  IInv'
<1>1. PICK i \in Found :
       LET o  == graph.ops[i]
           op == graph.value[o]
           l  == Input(graph, op.operands[1])
           r  == Input(graph, op.operands[2])
       IN \E nb \in {AddOp(graph, Op(op.mnemonic, <<l, r>>, graph.value[l].type, 0,
                       [op.attrs EXCEPT !.fusion_group = NoGroup]))} :
          \E nt \in {AddOp(nb, Op("transpose", <<Newest(nb)>>, op.type, 0,
                       [NoAttrs EXCEPT !.permutation =
                          Permutation(graph, op.operands[1])]))} :
            Restart(Replaced(nt, o, Newest(nt)))
  BY Zenon DEF TransposePush
<1>2. Running("transpose_push")
  BY DEF TransposePush
<1> DEFINE o == graph.ops[i]
           op == graph.value[o]
           l  == Input(graph, op.operands[1])
           r  == Input(graph, op.operands[2])
           nb == AddOp(graph, Op(op.mnemonic, <<l, r>>, graph.value[l].type, 0,
                                 [op.attrs EXCEPT !.fusion_group = NoGroup]))
           nt == AddOp(nb, Op("transpose", <<Newest(nb)>>, op.type, 0,
                              [NoAttrs EXCEPT !.permutation =
                                 Permutation(graph, op.operands[1])]))
           h == Replaced(nt, o, Newest(nt))
<1>3. Restart(h)
  BY <1>1
<1>4. /\ Sound(graph) /\ Acyclic(graph) /\ o \in Live(graph)
      /\ Matches(graph, "transpose_push", i)
  BY <1>2, RunningFinds DEF IInv
<1>5. IsPushable(graph, o)
  BY <1>4 DEF Matches
<1>6. Sound(h) /\ Acyclic(h)
  BY <1>4, <1>5, TransposePushSound
<1> HIDE DEF h
<1>7. QED
  BY <1>3, <1>6, RestartHolds

\* pass_nchw_nhwc_layout.
LEMMA NchwNhwcLayoutKeeps ==
  ASSUME IInv, NchwNhwcLayout
  PROVE  IInv'
<1>1. PICK i \in Found :
       LET o    == graph.ops[i]
           conv == Input(graph, o)
           g    == [graph EXCEPT !.value[conv] = WithNhwcOutput(@)]
       IN SweepOn(Replaced(g, o, conv), i)
  BY Zenon DEF NchwNhwcLayout
<1>2. Running("nchw_nhwc_layout")
  BY DEF NchwNhwcLayout
<1> DEFINE o == graph.ops[i]
           conv == Input(graph, o)
           g == [graph EXCEPT !.value[conv] = WithNhwcOutput(@)]
           h == Replaced(g, o, conv)
<1>3. SweepOn(h, i)
  BY <1>1
<1>4. /\ Sound(graph) /\ Acyclic(graph) /\ o \in Live(graph)
      /\ i \in 1 .. Len(graph.ops)
      /\ Matches(graph, "nchw_nhwc_layout", i)
  BY <1>2, RunningFinds DEF IInv
<1>5. IsOutputLayout(graph, o)
  BY <1>4 DEF Matches
<1>6. Sound(h) /\ Acyclic(h) /\ Len(h.ops) = Len(graph.ops) - 1
  BY <1>4, <1>5, OutputLayoutSound
<1> HIDE DEF h
<1>7. QED
  BY <1>3, <1>4, <1>6, SweepOnHolds

\* pass_nhwc_nchw_layout.
LEMMA NhwcNchwLayoutKeeps ==
  ASSUME IInv, NhwcNchwLayout
  PROVE  IInv'
<1>1. PICK i \in Found :
       LET conv == graph.ops[i]
           t    == Input(graph, conv)
           g    == ReplaceAllUses(
                     [graph EXCEPT !.value[conv].attrs.input_layout = "NHWC"],
                     t, Input(graph, t))
       IN SweepOn(IF g.users[t] = {} THEN EraseOp(g, t) ELSE g, i)
  BY Zenon DEF NhwcNchwLayout
<1>2. Running("nhwc_nchw_layout")
  BY DEF NhwcNchwLayout
<1> DEFINE conv == graph.ops[i]
           t == Input(graph, conv)
           g == ReplaceAllUses(
                  [graph EXCEPT !.value[conv].attrs.input_layout = "NHWC"],
                  t, Input(graph, t))
           h == IF g.users[t] = {} THEN EraseOp(g, t) ELSE g
<1>3. SweepOn(h, i)
  BY <1>1
<1>4. /\ Sound(graph) /\ Acyclic(graph) /\ conv \in Live(graph)
      /\ i \in 1 .. Len(graph.ops)
      /\ Matches(graph, "nhwc_nchw_layout", i)
  BY <1>2, RunningFinds DEF IInv
<1>5. IsInputLayout(graph, conv)
  BY <1>4 DEF Matches
<1>6. Sound(h) /\ Acyclic(h) /\ Len(h.ops) \in {Len(graph.ops) - 1, Len(graph.ops)}
  BY <1>4, <1>5, InputLayoutSound
<1> HIDE DEF h
<1>7. QED
  BY <1>3, <1>4, <1>6, SweepOnHolds

\* stage6_legalize.
LEMMA LegalizeKeeps ==
  ASSUME IInv, Legalize
  PROVE  IInv'
<1> DEFINE vs == [v \in DOMAIN graph.value |->
                   [graph.value[v] EXCEPT !.legal =
                      v \in Live(graph) /\ graph.value[v].mnemonic \in Legalizable]]
           h == [graph EXCEPT !.value = vs]
<1>1. graph' = h /\ pass' = pass + 1 /\ next' = 1
  BY DEF Legalize
<1>2. ~Finished
  BY DEF Legalize, Running
<1>3. Sound(graph) /\ Acyclic(graph)
  BY DEF IInv
<1>4. \A v \in DOMAIN graph.value :
        /\ Formed(vs[v])
        /\ vs[v].mnemonic = graph.value[v].mnemonic
        /\ vs[v].operands = graph.value[v].operands
  <2>1. ASSUME NEW v \in DOMAIN graph.value
        PROVE  /\ Formed(vs[v])
               /\ vs[v].mnemonic = graph.value[v].mnemonic
               /\ vs[v].operands = graph.value[v].operands
    <3> DEFINE op == graph.value[v]
               yes == v \in Live(graph) /\ op.mnemonic \in Legalizable
               q == [op EXCEPT !.legal = yes]
    <3>1. Formed(op)
      BY <1>3 DEF Sound, AllFormed
    <3>2. vs[v] = q
      OBVIOUS
    <3> HIDE DEF op, yes, vs
    <3>3. Formed(q) /\ q.mnemonic = op.mnemonic /\ q.operands = op.operands
      BY <3>1, EditsAreFormed
    <3> HIDE DEF q
    <3>4. QED
      BY <3>2, <3>3 DEF op
  <2>2. QED
    BY <2>1
<1>5. vs = [v \in DOMAIN graph.value |-> vs[v]]
  OBVIOUS
<1> HIDE DEF vs
<1>6. Retouched(graph, h)
  BY <1>3, <1>4, <1>5, RetouchedAll
<1> HIDE DEF h
<1>7. Sound(h) /\ Acyclic(h)
  BY <1>3, <1>6, RetouchedSound DEF Acyclic
<1>8. Sound(graph') /\ Acyclic(graph')
  BY <1>1, <1>7
<1>9. QED
  BY <1>1, <1>2, <1>8, NextPassHolds

\* A pass that finds nothing more.
LEMMA EndPassKeeps ==
  ASSUME IInv, EndPass
  PROVE  IInv'
<1>1. graph' = graph /\ pass' = pass + 1 /\ next' = 1 /\ ~Finished
  BY DEF EndPass
<1>2. Sound(graph') /\ Acyclic(graph')
  BY <1>1 DEF IInv
<1>3. QED
  BY <1>1, <1>2, NextPassHolds

\* No pass of the pipeline breaks the invariant.
LEMMA NextKeeps ==
  ASSUME IInv, [Next]_vars
  PROVE  IInv'
<1>1. ASSUME AlgebraicSimplify \/ IdentityElim PROVE IInv'
  BY <1>1, AlgebraicSimplifyKeeps, IdentityElimKeeps
<1>2. ASSUME ShapeInfer \/ ShapeFold \/ ConstantFold PROVE IInv'
  BY <1>2, ShapeInferKeeps, FoldsKeep
<1>3. ASSUME ShapeSubgraphElim \/ Dce PROVE IInv'
  BY <1>3, ErasuresKeep
<1>4. ASSUME Cse \/ ConvBnFusion PROVE IInv'
  BY <1>4, CseKeeps, ConvBnFusionKeeps
<1>5. ASSUME FusionDetect \/ TransposeElim \/ TransposePush PROVE IInv'
  BY <1>5, FusionDetectKeeps, TransposeElimKeeps, TransposePushKeeps
<1>6. ASSUME NchwNhwcLayout \/ NhwcNchwLayout PROVE IInv'
  BY <1>6, NchwNhwcLayoutKeeps, NhwcNchwLayoutKeeps
<1>7. ASSUME Legalize \/ EndPass PROVE IInv'
  BY <1>7, LegalizeKeeps, EndPassKeeps
<1>8. ASSUME UNCHANGED vars PROVE IInv'
  <2>1. graph' = graph /\ pass' = pass /\ next' = next
    BY <1>8 DEF vars
  <2>2. Sound(graph') /\ Acyclic(graph')
    BY <2>1 DEF IInv
  <2>3. pass' \in 1 .. (Len(Pipeline) + 1) /\ next' \in 1 .. (Len(graph'.ops) + 2)
    BY <2>1 DEF IInv
  <2>4. QED
    BY <2>2, <2>3 DEF IInv
<1>9. QED
  BY <1>1, <1>2, <1>3, <1>4, <1>5, <1>6, <1>7, <1>8 DEF Next

\* What the invariant says of a state.
LEMMA InvariantSays ==
  ASSUME IInv
  PROVE  TypeOK /\ GraphConsistent
<1>1. Sound(graph)
  BY DEF IInv
<1>2. UsersMirror(graph) /\ ReadsSources(graph) /\ Listed(graph) /\ AllFormed(graph)
  BY <1>1 DEF Sound
<1>3. Live(graph) \subseteq DOMAIN graph.value
  BY <1>2 DEF Listed
<1>4. ASSUME NEW o \in Live(graph)
      PROVE  /\ graph.value[o].mnemonic \in Mnemonics
             /\ graph.value[o].type \in Types
             /\ graph.users[o] \subseteq Live(graph)
  <2>1. o \in DOMAIN graph.value
    BY <1>3
  <2>2. Formed(graph.value[o])
    BY <1>2, <2>1 DEF AllFormed
  <2>3. graph.users[o] \subseteq Live(graph)
    BY <1>2, <2>1 DEF UsersMirror
  <2>4. QED
    BY <2>2, <2>3 DEF Formed
<1>5. pass \in 1 .. (Len(Pipeline) + 1) /\ next \in 1 .. (Len(graph.ops) + 2)
  BY DEF IInv
<1>6. TypeOK
  BY <1>3, <1>4, <1>5 DEF TypeOK
<1>7. GraphConsistent
  BY <1>2, ClosedIsReadsSources DEF GraphConsistent
<1>8. QED
  BY <1>6, <1>7

\* The invariant holds of every state of the pipeline, for any set of graphs
\* that the builders can make: run_pipeline never leaves a cycle, an operator
\* listed twice or an operator with the wrong number of operands.
THEOREM GraphSound == Spec => []IInv
<1>1. Init => IInv
  BY InitHolds
<1>2. IInv /\ [Next]_vars => IInv'
  BY NextKeeps
<1>3. QED
  BY <1>1, <1>2, PTL DEF Spec

\* The states are what the declarations say; the scan position that two of the
\* layout passes keep over an erasure stays within one of the list's end.
THEOREM TypesCorrect == Spec => []TypeOK
<1>1. IInv => TypeOK
  BY InvariantSays
<1>2. QED
  BY <1>1, GraphSound, PTL

\* Whatever the passes rewrite, the use lists and the operands say the same
\* and no operator reads the result of an erased one, although erase_op does
\* not look whether the result is still in use.
THEOREM UseListsConsistent == Spec => []GraphConsistent
<1>1. IInv => GraphConsistent
  BY InvariantSays
<1>2. QED
  BY <1>1, GraphSound, PTL

(***************************************************************************)
(* Fusion groups.  A group is a path: a member that feeds another member   *)
(* feeds nothing else.  That the later passes keep it so takes more: the   *)
(* one member through which values leave the group ranks above the others. *)
(***************************************************************************)
Group(g, o) == g.value[o].attrs.fusion_group

Readers(g, v) == {u \in Live(g) : v \in Operands(g, u)}

Private(g) ==
  \A o \in Live(g) : Group(g, o) # NoGroup =>
    \A u \in Readers(g, o) : Group(g, u) = Group(g, o) => Readers(g, o) = {u}

\* A member that is read, by none of its group.
Outlet(g, o) ==
  /\ Group(g, o) # NoGroup
  /\ Readers(g, o) # {}
  /\ \A u \in Readers(g, o) : Group(g, u) # Group(g, o)

OutletsLast(g, rank) ==
  \A o, p \in Live(g) :
    Outlet(g, p) /\ o # p /\ Group(g, o) = Group(g, p) => rank[o] < rank[p]

OnlyElementwise(g) ==
  \A o \in Live(g) : Group(g, o) # NoGroup => g.value[o].mnemonic \in Elementwise

Paths(g, rank) ==
  Ranks(g, rank) /\ Private(g) /\ OutletsLast(g, rank) /\ OnlyElementwise(g)

Grouped(g) == \E rank : Paths(g, rank)

Ungrouped(g) == \A o \in Live(g) : Group(g, o) = NoGroup

\* Values that no group can lose by one more reader.
Open(g, v) ==
  \/ v \notin Live(g)
  \/ Group(g, v) = NoGroup
  \/ \E w \in Readers(g, v) : Group(g, w) # Group(g, v)

\* Before fusion detection there is nothing to keep.
LEMMA UngroupedIsGrouped ==
  ASSUME NEW g, Acyclic(g), Ungrouped(g)
  PROVE  Grouped(g)
<1>1. PICK rank : Ranks(g, rank)
  BY DEF Acyclic
<1>2. Private(g) /\ OutletsLast(g, rank) /\ OnlyElementwise(g)
  BY DEF Ungrouped, Private, OutletsLast, OnlyElementwise, Outlet
<1>3. QED
  BY <1>1, <1>2 DEF Grouped, Paths

\* An open member of a group is an outlet.
LEMMA OpenIsOutlet ==
  ASSUME NEW g, Private(g), NEW v \in Live(g), Open(g, v), Group(g, v) # NoGroup
  PROVE  Outlet(g, v)
<1>1. PICK w \in Readers(g, v) : Group(g, w) # Group(g, v)
  BY DEF Open
<1>2. ASSUME NEW u \in Readers(g, v), Group(g, u) = Group(g, v) PROVE FALSE
  <2>1. Readers(g, v) = {u}
    BY <1>2 DEF Private
  <2>2. QED
    BY <1>1, <1>2, <2>1
<1>3. QED
  BY <1>1, <1>2 DEF Outlet

\* The same operators, apart from what groups do not depend on.
LEMMA SameGroups ==
  ASSUME NEW g, NEW h, NEW rank, Paths(g, rank), Ranks(h, rank), Live(h) = Live(g),
         \A u \in Live(g) : /\ h.value[u].mnemonic = g.value[u].mnemonic
                            /\ Operands(h, u) = Operands(g, u)
                            /\ Group(h, u) = Group(g, u)
  PROVE  Paths(h, rank)
<1>1. \A v : Readers(h, v) = Readers(g, v)
  BY DEF Readers
<1>2. \A v : Readers(g, v) \subseteq Live(g)
  BY DEF Readers
<1>3. \A o \in Live(g) : Outlet(h, o) <=> Outlet(g, o)
  BY <1>1, <1>2 DEF Outlet
<1>4. Private(h)
  BY <1>1, <1>2 DEF Private, Paths
<1>5. OutletsLast(h, rank)
  BY <1>3 DEF OutletsLast, Paths
<1>6. OnlyElementwise(h)
  BY DEF OnlyElementwise, Paths
<1>7. QED
  BY <1>4, <1>5, <1>6 DEF Paths

\* Erasing an operator takes a reader away.
LEMMA ErasedGroups ==
  ASSUME NEW g, NEW h, NEW o, NEW rank, Paths(g, rank), Ranks(h, rank),
         Live(h) = Live(g) \ {o}, h.value = g.value
  PROVE  Paths(h, rank)
<1>1. \A v : Readers(h, v) = Readers(g, v) \ {o}
  BY DEF Readers, Operands
<1>2. \A v : Group(h, v) = Group(g, v)
  BY DEF Group
<1>3. Private(g) /\ OutletsLast(g, rank) /\ OnlyElementwise(g)
  BY DEF Paths
<1>4. ASSUME NEW p \in Live(h), Outlet(h, p) PROVE Outlet(g, p)
  <2>1. PICK u \in Readers(g, p) : u # o
    BY <1>1, <1>4 DEF Outlet
  <2>2. Group(g, p) # NoGroup /\ p \in Live(g)
    BY <1>2, <1>4 DEF Outlet
  <2>3. ASSUME NEW w \in Readers(g, p), Group(g, w) = Group(g, p) PROVE FALSE
    <3>1. Readers(g, p) = {w}
      BY <1>3, <2>2, <2>3 DEF Private
    <3>2. w \in Readers(h, p)
      BY <1>1, <2>1, <3>1
    <3>3. QED
      BY <1>2, <1>4, <2>3, <3>2 DEF Outlet
  <2>4. QED
    BY <2>1, <2>2, <2>3 DEF Outlet
<1>5. Private(h)
  <2>1. ASSUME NEW p \in Live(h), Group(h, p) # NoGroup,
               NEW u \in Readers(h, p), Group(h, u) = Group(h, p)
        PROVE  Readers(h, p) = {u}
    <3>1. Readers(g, p) = {u}
      BY <1>1, <1>2, <1>3, <2>1 DEF Private
    <3>2. QED
      BY <1>1, <2>1, <3>1
  <2>2. QED
    BY <2>1 DEF Private
<1>6. OutletsLast(h, rank)
  BY <1>2, <1>3, <1>4 DEF OutletsLast
<1>7. OnlyElementwise(h)
  BY <1>2, <1>3 DEF OnlyElementwise
<1>8. QED
  BY <1>5, <1>6, <1>7 DEF Paths

\* The uses of o have moved to v, and o is gone.
Moved(g, o, v, h) ==
  /\ Live(h) = Live(g) \ {o}
  /\ \A u \in Live(h) :
       /\ h.value[u].mnemonic = g.value[u].mnemonic
       /\ Group(h, u) = Group(g, u)
       /\ Operands(h, u) = IF o \in Operands(g, u)
                           THEN (Operands(g, u) \ {o}) \cup {v} ELSE Operands(g, u)

\* Who reads what then.
LEMMA MovedReaders ==
  ASSUME NEW g, NEW o, NEW v, v # o, NEW h, Moved(g, o, v, h)
  PROVE  /\ \A w : w # o /\ w # v => Readers(h, w) = Readers(g, w) \ {o}
         /\ Readers(h, v) = (Readers(g, v) \cup Readers(g, o)) \ {o}
<1>1. Live(h) = Live(g) \ {o}
  BY DEF Moved
<1>2. \A u \in Live(h) :
        Operands(h, u) = IF o \in Operands(g, u)
                         THEN (Operands(g, u) \ {o}) \cup {v} ELSE Operands(g, u)
  BY DEF Moved
<1>3. ASSUME NEW w, w # o, w # v PROVE Readers(h, w) = Readers(g, w) \ {o}
  <2>1. ASSUME NEW u \in Live(h)
        PROVE  w \in Operands(h, u) <=> w \in Operands(g, u)
    BY <1>2, <1>3
  <2>2. QED
    BY <1>1, <2>1 DEF Readers
<1>4. ASSUME NEW u \in Live(h)
      PROVE  v \in Operands(h, u) <=> v \in Operands(g, u) \/ o \in Operands(g, u)
  BY <1>2
<1>5. QED
  BY <1>1, <1>3, <1>4 DEF Readers

\* No other operator becomes an outlet or less private.
LEMMA MovedElsewhere ==
  ASSUME NEW g, Private(g), NEW o, NEW v, v # o, NEW h, Moved(g, o, v, h),
         NEW p \in Live(h), p # v
  PROVE  /\ Outlet(h, p) => Outlet(g, p)
         /\ Group(h, p) # NoGroup =>
              \A u \in Readers(h, p) : Group(h, u) = Group(h, p) => Readers(h, p) = {u}
<1>1. /\ Live(h) = Live(g) \ {o}
      /\ \A u \in Live(h) : Group(h, u) = Group(g, u)
  BY DEF Moved
<1>2. p # o /\ p \in Live(g) /\ Group(h, p) = Group(g, p)
  BY <1>1
<1>3. Readers(h, p) = Readers(g, p) \ {o}
  BY <1>2, MovedReaders
<1>4. \A u \in Readers(h, p) : Group(h, u) = Group(g, u)
  BY <1>1 DEF Readers
<1>5. ASSUME Outlet(h, p) PROVE Outlet(g, p)
  <2>1. PICK u \in Readers(h, p) : TRUE
    BY <1>5 DEF Outlet
  <2>2. ASSUME NEW w \in Readers(g, p), Group(g, w) = Group(g, p) PROVE FALSE
    <3>1. Readers(g, p) = {w}
      BY <1>2, <1>5, <2>2 DEF Private, Outlet
    <3>2. w \in Readers(h, p)
      BY <1>3, <2>1, <3>1
    <3>3. QED
      BY <1>2, <1>4, <1>5, <2>2, <3>2 DEF Outlet
  <2>3. QED
    BY <1>2, <1>3, <1>5, <2>1, <2>2 DEF Outlet
<1>6. ASSUME Group(h, p) # NoGroup, NEW u \in Readers(h, p), Group(h, u) = Group(h, p)
      PROVE  Readers(h, p) = {u}
  <2>1. u \in Readers(g, p) /\ Group(g, u) = Group(g, p)
    BY <1>2, <1>3, <1>4, <1>6
  <2>2. Readers(g, p) = {u}
    BY <1>2, <1>6, <2>1 DEF Private
  <2>3. QED
    BY <1>3, <1>6, <2>2
<1>7. QED
  BY <1>5, <1>6

\* Uses that move to an open value stay out of its group: what reads o ranks
\* above the outlet.
LEMMA MovedToOpen ==
  ASSUME NEW g, NEW rank, Paths(g, rank), NEW o, NEW v, v # o, Open(g, v),
         NEW h, Moved(g, o, v, h), Ranks(h, rank),
         \A u \in Live(g) : rank[u] \in Nat,
         \A u \in Readers(g, o) : rank[v] < rank[u]
  PROVE  Paths(h, rank)
<1>1. /\ Live(h) = Live(g) \ {o}
      /\ \A u \in Live(h) : /\ h.value[u].mnemonic = g.value[u].mnemonic
                            /\ Group(h, u) = Group(g, u)
  BY DEF Moved
<1>2. Private(g) /\ OutletsLast(g, rank) /\ OnlyElementwise(g)
  BY DEF Paths
<1>3. Readers(h, v) = (Readers(g, v) \cup Readers(g, o)) \ {o}
  BY MovedReaders
<1>4. ASSUME v \in Live(h), Group(g, v) # NoGroup
      PROVE  /\ Outlet(g, v)
             /\ \A u \in Readers(h, v) : Group(g, u) # Group(g, v)
  <2>1. v \in Live(g)
    BY <1>1, <1>4
  <2>2. Outlet(g, v)
    BY <1>2, <1>4, <2>1, OpenIsOutlet
  <2>3. ASSUME NEW u \in Readers(g, o), Group(g, u) = Group(g, v) PROVE FALSE
    <3>1. rank[v] < rank[u] /\ u \in Live(g) /\ rank[v] \in Nat /\ rank[u] \in Nat
      BY <2>1 DEF Readers
    <3>2. u # v
      BY <3>1
    <3>3. rank[u] < rank[v]
      BY <1>2, <2>1, <2>2, <2>3, <3>1, <3>2 DEF OutletsLast
    <3>4. QED
      BY <3>1, <3>3
  <2>4. QED
    BY <1>3, <2>2, <2>3 DEF Outlet
<1>5. \A u \in Readers(h, v) : Group(h, u) = Group(g, u)
  BY <1>1 DEF Readers
<1>6. Private(h)
  <2>1. ASSUME NEW p \in Live(h), Group(h, p) # NoGroup,
               NEW u \in Readers(h, p), Group(h, u) = Group(h, p)
        PROVE  Readers(h, p) = {u}
    <3>1. CASE p = v
      BY <1>1, <1>4, <1>5, <2>1, <3>1
    <3>2. CASE p # v
      BY <1>2, <2>1, <3>2, MovedElsewhere
    <3>3. QED
      BY <3>1, <3>2
  <2>2. QED
    BY <2>1 DEF Private
<1>7. ASSUME NEW p \in Live(h), Outlet(h, p) PROVE Outlet(g, p)
  <2>1. CASE p = v
    BY <1>1, <1>4, <1>7, <2>1 DEF Outlet
  <2>2. CASE p # v
    BY <1>2, <1>7, <2>2, MovedElsewhere
  <2>3. QED
    BY <2>1, <2>2
<1>8. OutletsLast(h, rank)
  BY <1>1, <1>2, <1>7 DEF OutletsLast
<1>9. OnlyElementwise(h)
  BY <1>1, <1>2 DEF OnlyElementwise
<1>10. QED
  BY <1>6, <1>8, <1>9 DEF Paths

\* Uses that move to the one member before o put it in the place of o.
LEMMA MovedWithin ==
  ASSUME NEW g, NEW rank, Paths(g, rank), NEW o \in Live(g), NEW v \in Live(g),
         v \in Operands(g, o), Group(g, v) = Group(g, o), Group(g, o) # NoGroup,
         NEW h, Moved(g, o, v, h), DOMAIN h.value = DOMAIN g.value,
         v \in DOMAIN g.value, o \in DOMAIN g.value,
         \A u \in Live(g) : u \in DOMAIN g.value /\ Operands(g, u) \subseteq DOMAIN g.value
  PROVE  Grouped(h)
<1> DEFINE r == [rank EXCEPT ![v] = rank[o]]
<1>1. /\ rank \in [DOMAIN g.value -> Nat]
      /\ \A u \in Live(g) : \A w \in Operands(g, u) : rank[w] < rank[u]
  BY DEF Paths, Ranks
<1>2. Private(g) /\ OutletsLast(g, rank) /\ OnlyElementwise(g)
  BY DEF Paths
<1>3. /\ r \in [DOMAIN g.value -> Nat]
      /\ r[v] = rank[o]
      /\ \A w \in DOMAIN g.value : w # v => r[w] = rank[w]
      /\ rank[v] < rank[o] /\ rank[v] \in Nat /\ rank[o] \in Nat
      /\ v # o
  <2>1. rank[v] < rank[o] /\ rank[v] \in Nat /\ rank[o] \in Nat
    BY <1>1
  <2>2. v # o
    BY <2>1
  <2>3. QED
    BY <1>1, <2>1, <2>2
<1> HIDE DEF r
<1>4. /\ Live(h) = Live(g) \ {o}
      /\ \A u \in Live(h) :
           /\ h.value[u].mnemonic = g.value[u].mnemonic
           /\ Group(h, u) = Group(g, u)
           /\ Operands(h, u) = IF o \in Operands(g, u)
                               THEN (Operands(g, u) \ {o}) \cup {v} ELSE Operands(g, u)
  BY DEF Moved
<1>5. Readers(g, v) = {o}
  <2>1. o \in Readers(g, v)
    BY DEF Readers
  <2>2. QED
    BY <1>2, <2>1 DEF Private
<1>6. o \notin Readers(g, o) /\ v \notin Readers(g, o)
  <2>1. ASSUME NEW u \in Readers(g, o) PROVE rank[o] < rank[u]
    BY <1>1, <2>1 DEF Readers
  <2>2. QED
    BY <1>3, <2>1
<1>7. Readers(h, v) = Readers(g, o)
  <2>1. Readers(h, v) = (Readers(g, v) \cup Readers(g, o)) \ {o}
    BY <1>3, MovedReaders
  <2>2. QED
    BY <1>5, <1>6, <2>1
<1>8. Ranks(h, r)
  <2>1. ASSUME NEW u \in Live(h), NEW w \in Operands(h, u) PROVE r[w] < r[u]
    <3>1. u \in Live(g) /\ u # o /\ u \in DOMAIN g.value /\ rank[u] \in Nat
      BY <1>1, <1>4
    <3>2. CASE w = v
      <4>1. u \in Readers(g, o)
        BY <1>7, <2>1, <3>2 DEF Readers
      <4>2. rank[o] < rank[u] /\ u # v
        BY <1>1, <1>6, <4>1 DEF Readers
      <4>3. QED
        BY <1>3, <3>1, <3>2, <4>2
    <3>3. CASE w # v
      <4>1. w \in Operands(g, u)
        BY <1>4, <2>1, <3>3
      <4>2. w \in DOMAIN g.value /\ rank[w] < rank[u] /\ rank[w] \in Nat
        BY <1>1, <3>1, <4>1
      <4>3. r[w] = rank[w]
        BY <1>3, <3>3, <4>2
      <4>4. CASE u = v
        BY <1>3, <4>2, <4>3, <4>4
      <4>5. CASE u # v
        BY <1>3, <3>1, <4>2, <4>3, <4>5
      <4>6. QED
        BY <4>4, <4>5
    <3>4. QED
      BY <3>2, <3>3
  <2>2. QED
    BY <1>3, <2>1 DEF Ranks
<1>9. v \in Live(h) /\ Group(h, v) = Group(g, o)
  BY <1>3, <1>4
<1>10. \A u \in Readers(g, o) : u \in Live(h) /\ Group(h, u) = Group(g, u)
  BY <1>4, <1>6 DEF Readers
<1>11. Private(h)
  <2>1. ASSUME NEW p \in Live(h), Group(h, p) # NoGroup,
               NEW u \in Readers(h, p), Group(h, u) = Group(h, p)
        PROVE  Readers(h, p) = {u}
    <3>1. CASE p = v
      <4>1. u \in Readers(g, o) /\ Group(g, u) = Group(g, o)
        BY <1>7, <1>9, <1>10, <2>1, <3>1
      <4>2. Readers(g, o) = {u}
        BY <1>2, <4>1 DEF Private
      <4>3. QED
        BY <1>7, <3>1, <4>2
    <3>2. CASE p # v
      BY <1>2, <1>3, <2>1, <3>2, MovedElsewhere
    <3>3. QED
      BY <3>1, <3>2
  <2>2. QED
    BY <2>1 DEF Private
<1>12. Outlet(h, v) => Outlet(g, o)
  BY <1>7, <1>9, <1>10 DEF Outlet
<1>13. OutletsLast(h, r)
  <2>1. ASSUME NEW m \in Live(h), NEW p \in Live(h), Outlet(h, p), m # p,
               Group(h, m) = Group(h, p)
        PROVE  r[m] < r[p]
    <3>1. /\ m \in Live(g) /\ m # o /\ Group(h, m) = Group(g, m)
          /\ p \in Live(g) /\ p # o /\ Group(h, p) = Group(g, p)
          /\ m \in DOMAIN g.value /\ p \in DOMAIN g.value
      BY <1>4
    <3>2. CASE p = v
      <4>1. Outlet(g, o) /\ Group(g, m) = Group(g, o)
        BY <1>12, <2>1, <3>1, <3>2
      <4>2. rank[m] < rank[o]
        BY <1>2, <3>1, <4>1 DEF OutletsLast
      <4>3. QED
        BY <1>3, <2>1, <3>1, <3>2, <4>2
    <3>3. CASE p # v
      <4>1. Outlet(g, p)
        BY <1>2, <1>3, <2>1, <3>3, MovedElsewhere
      <4>2. CASE m = v
        <5>1. rank[o] < rank[p]
          BY <1>2, <2>1, <3>1, <4>1, <4>2 DEF OutletsLast
        <5>2. QED
          BY <1>3, <3>1, <3>3, <4>2, <5>1
      <4>3. CASE m # v
        <5>1. rank[m] < rank[p]
          BY <1>2, <2>1, <3>1, <4>1 DEF OutletsLast
        <5>2. QED
          BY <1>3, <3>1, <3>3, <4>3, <5>1
      <4>4. QED
        BY <4>2, <4>3
    <3>4. QED
      BY <3>2, <3>3
  <2>2. QED
    BY <2>1 DEF OutletsLast
<1>14. OnlyElementwise(h)
  BY <1>2, <1>4 DEF OnlyElementwise
<1>15. QED
  BY <1>8, <1>11, <1>13, <1>14 DEF Grouped, Paths

\* A new operator without a group may read what is open.
LEMMA AddedGroups ==
  ASSUME NEW g, Sound(g), NEW rank, Paths(g, rank), NEW op, NEW n \in Nat,
         op.attrs.fusion_group = NoGroup,
         ToSet(op.operands) \subseteq Sources(g),
         \A v \in ToSet(op.operands) : rank[v] < n /\ Open(g, v)
  PROVE  \E r : /\ Paths(AddOp(g, op), r)
               /\ r[Len(g.value) + 1] = n
               /\ \A v \in DOMAIN g.value : r[v] = rank[v]
<1> DEFINE h == AddOp(g, op)
           o == Len(g.value) + 1
           in == ToSet(op.operands)
<1>1. Added(g, op, h, o)
  BY AddOpEntries
<1>2. Ranks(g, rank) /\ Private(g) /\ OutletsLast(g, rank) /\ OnlyElementwise(g)
  BY DEF Paths
<1>3. PICK r : /\ Ranks(h, r)
               /\ r[o] = n
               /\ \A v \in DOMAIN g.value : r[v] = rank[v]
  <2>1. \A v \in ToSet(op.operands) : rank[v] < n
    OBVIOUS
  <2>2. \E r : /\ Ranks(AddOp(g, op), r)
               /\ r[Len(g.value) + 1] = n
               /\ \A v \in DOMAIN g.value : r[v] = rank[v]
    BY <1>2, <2>1, AddOpRanks
  <2>3. QED
    BY <2>2
<1> HIDE DEF h, o, in
<1>4. /\ Live(h) = Live(g) \cup {o} /\ o \notin Live(g)
      /\ h.value[o] = op
      /\ \A v \in Live(g) : v \in DOMAIN g.value /\ h.value[v] = g.value[v]
      /\ \A v \in Live(g) : Operands(g, v) \subseteq DOMAIN g.value
      /\ o \notin DOMAIN g.value
  <2>1. \A v \in Live(g) : v \in DOMAIN g.value /\ Operands(g, v) \subseteq DOMAIN g.value
    BY OperandFacts, SoundDomains
  <2>2. QED
    BY <1>1, <2>1 DEF Added
<1>5. /\ Group(h, o) = NoGroup
      /\ \A v \in Live(g) : Group(h, v) = Group(g, v) /\ Operands(h, v) = Operands(g, v)
      /\ Operands(h, o) = in
  BY <1>4 DEF Group, Operands, in
<1>6. ASSUME NEW p \in Live(g)
      PROVE  Readers(h, p) = IF p \in in THEN Readers(g, p) \cup {o} ELSE Readers(g, p)
  BY <1>4, <1>5 DEF Readers
<1>7. \A p : Readers(g, p) \subseteq Live(g)
  BY DEF Readers
<1>8. \A p \in Live(h) : Group(h, p) # NoGroup => p \in Live(g)
  BY <1>4, <1>5
<1>9. Private(h)
  <2>1. ASSUME NEW p \in Live(h), Group(h, p) # NoGroup,
               NEW u \in Readers(h, p), Group(h, u) = Group(h, p)
        PROVE  Readers(h, p) = {u}
    <3>1. p \in Live(g) /\ Group(g, p) = Group(h, p) /\ Group(g, p) # NoGroup
      BY <1>5, <1>8, <2>1
    <3>2. u \in Readers(g, p) /\ Group(g, u) = Group(g, p)
      BY <1>5, <1>6, <1>7, <2>1, <3>1
    <3>3. Readers(g, p) = {u}
      BY <1>2, <3>1, <3>2 DEF Private
    <3>4. p \notin in
      BY <3>1, <3>2, <3>3 DEF Open, in
    <3>5. QED
      BY <1>6, <3>1, <3>3, <3>4
  <2>2. QED
    BY <2>1 DEF Private
<1>10. ASSUME NEW p \in Live(h), Outlet(h, p) PROVE p \in Live(g) /\ Outlet(g, p)
  <2>1. p \in Live(g) /\ Group(g, p) = Group(h, p) /\ Group(g, p) # NoGroup
    BY <1>5, <1>8, <1>10 DEF Outlet
  <2>2. \A u \in Readers(g, p) : Group(g, u) # Group(g, p)
    BY <1>5, <1>6, <1>7, <1>10, <2>1 DEF Outlet
  <2>3. Readers(g, p) # {}
    <3>1. CASE p \in in
      BY <2>1, <3>1 DEF Open, in
    <3>2. CASE p \notin in
      BY <1>6, <1>10, <2>1, <3>2 DEF Outlet
    <3>3. QED
      BY <3>1, <3>2
  <2>4. QED
    BY <2>1, <2>2, <2>3 DEF Outlet
<1>11. OutletsLast(h, r)
  <2>1. ASSUME NEW m \in Live(h), NEW p \in Live(h), Outlet(h, p), m # p,
               Group(h, m) = Group(h, p)
        PROVE  r[m] < r[p]
    <3>1. p \in Live(g) /\ Outlet(g, p) /\ Group(g, p) = Group(h, p)
      BY <1>5, <1>10, <2>1
    <3>2. m \in Live(g) /\ Group(g, m) = Group(g, p)
      BY <1>4, <1>5, <2>1, <3>1 DEF Outlet
    <3>3. rank[m] < rank[p]
      BY <1>2, <2>1, <3>1, <3>2 DEF OutletsLast
    <3>4. QED
      BY <1>3, <1>4, <3>1, <3>2, <3>3
  <2>2. QED
    BY <2>1 DEF OutletsLast
<1>12. OnlyElementwise(h)
  BY <1>2, <1>4, <1>5 DEF OnlyElementwise
<1>13. Paths(h, r)
  BY <1>3, <1>9, <1>11, <1>12 DEF Paths
<1>14. QED
  BY <1>3, <1>13 DEF h, o

\* The pair of calls changes no attribute.
LEMMA ReplacedAttributes ==
  ASSUME NEW g, Sound(g), NEW o \in Live(g), NEW new \in Sources(g), new # o
  PROVE  LET h == Replaced(g, o, new) IN
         /\ DOMAIN h.value = DOMAIN g.value
         /\ \A u \in DOMAIN g.value : h.value[u].attrs = g.value[u].attrs
<1> DEFINE k == ReplaceAllUses(g, o, new)
           h == EraseOp(k, o)
<1>1. o \in Sources(g)
  BY DEF Sources
<1>2. Rewired(g, o, new, k)
  BY <1>1, RewiredEntries
<1>3. Sound(k) /\ Live(k) = Live(g)
  BY <1>1, RewiredSound
<1> HIDE DEF k
<1>4. /\ DOMAIN k.value = DOMAIN g.value
      /\ \A u \in DOMAIN g.value :
           k.value[u] = IF u \in Live(g) /\ o \in Operands(g, u)
                        THEN WithOperand(g.value[u], o, new) ELSE g.value[u]
  BY <1>2 DEF Rewired
<1>5. ASSUME NEW u \in DOMAIN g.value PROVE k.value[u].attrs = g.value[u].attrs
  <2> DEFINE op == g.value[u]
  <2>1. op = [mnemonic |-> op.mnemonic, operands |-> op.operands, type |-> op.type,
              data |-> op.data, attrs |-> op.attrs, legal |-> op.legal]
    BY DEF Sound, AllFormed, Formed
  <2> HIDE DEF op
  <2>2. WithOperand(op, o, new).attrs = op.attrs
    BY <2>1 DEF WithOperand
  <2>3. QED
    BY <1>4, <2>2 DEF op
<1>6. Erased(k, o, h)
  BY <1>3, EraseOpEntries
<1>7. h.value = k.value
  BY <1>6 DEF Erased
<1>8. QED
  BY <1>4, <1>5, <1>7 DEF Replaced, h, k

\* What the calls do in terms of groups.
LEMMA ReplacedMoves ==
  ASSUME NEW g, Sound(g), NEW o \in Live(g), NEW new \in Sources(g), new # o
  PROVE  LET h == Replaced(g, o, new) IN
         Moved(g, o, new, h) /\ DOMAIN h.value = DOMAIN g.value
<1> DEFINE h == Replaced(g, o, new)
<1>1. /\ Live(h) = Live(g) \ {o}
      /\ \A u \in Live(g) \ {o} :
           /\ h.value[u].mnemonic = g.value[u].mnemonic
           /\ Operands(h, u) = IF o \in Operands(g, u)
                               THEN (Operands(g, u) \ {o}) \cup {new} ELSE Operands(g, u)
  BY ReplacedSound
<1>2. /\ DOMAIN h.value = DOMAIN g.value
      /\ \A u \in DOMAIN g.value : h.value[u].attrs = g.value[u].attrs
  BY ReplacedAttributes
<1> HIDE DEF h
<1>3. \A u \in Live(g) : u \in DOMAIN g.value
  BY OperandFacts
<1>4. Moved(g, o, new, h)
  BY <1>1, <1>2, <1>3 DEF Moved, Group
<1>5. QED
  BY <1>2, <1>4 DEF h

\* An open value that ranks no higher may take over.
LEMMA ReplacedByOpen ==
  ASSUME NEW g, Sound(g), NEW rank, Paths(g, rank), NEW o \in Live(g),
         NEW v \in Sources(g), v # o, rank[v] <= rank[o], Open(g, v)
  PROVE  Paths(Replaced(g, o, v), rank)
<1> DEFINE h == Replaced(g, o, v)
<1>1. Ranks(g, rank)
  BY DEF Paths
<1>2. Ranks(h, rank)
  BY <1>1, ReplacedBelow
<1>3. Moved(g, o, v, h)
  BY ReplacedMoves
<1>4. \A u \in Live(g) : rank[u] \in Nat
  BY <1>1, RankFacts DEF Sources
<1>5. ASSUME NEW u \in Readers(g, o) PROVE rank[v] < rank[u]
  <2>1. rank[o] < rank[u]
    BY <1>1, RankFacts DEF Readers
  <2>2. rank[v] \in Nat /\ rank[o] \in Nat /\ rank[u] \in Nat
    BY <1>1, RankFacts DEF Sources, Readers
  <2>3. QED
    BY <2>1, <2>2
<1> HIDE DEF h
<1>6. Paths(h, rank)
  BY <1>2, <1>3, <1>4, <1>5, MovedToOpen
<1>7. QED
  BY <1>6 DEF h

\* So may any operand of o: it is open, or it comes before o in one group.
LEMMA ReplacedByMember ==
  ASSUME NEW g, Sound(g), Grouped(g), NEW o \in Live(g), NEW v \in Operands(g, o)
  PROVE  Grouped(Replaced(g, o, v))
<1> DEFINE h == Replaced(g, o, v)
<1>1. PICK rank : Paths(g, rank)
  BY DEF Grouped
<1>2. Ranks(g, rank)
  BY <1>1 DEF Paths
<1>3. v \in Sources(g) /\ v # o /\ rank[v] <= rank[o]
  <2>1. v \in Sources(g)
    BY OperandFacts
  <2>2. rank[v] < rank[o] /\ v # o /\ rank[v] \in Nat /\ rank[o] \in Nat
    BY <1>2, <2>1, RankFacts DEF Sources
  <2>3. QED
    BY <2>1, <2>2
<1>4. CASE Open(g, v)
  BY <1>1, <1>3, <1>4, ReplacedByOpen DEF Grouped
<1>5. CASE ~Open(g, v)
  <2>1. v \in Live(g) /\ Group(g, v) # NoGroup /\ Group(g, o) = Group(g, v)
    BY <1>5 DEF Open, Readers
  <2>2. Moved(g, o, v, h) /\ DOMAIN h.value = DOMAIN g.value
    BY <1>3, ReplacedMoves
  <2>3. \A u \in Live(g) : u \in DOMAIN g.value /\ Operands(g, u) \subseteq DOMAIN g.value
    BY OperandFacts, SoundDomains
  <2> HIDE DEF h
  <2>4. Grouped(h)
    BY <1>1, <2>1, <2>2, <2>3, MovedWithin
  <2>5. QED
    BY <2>4 DEF h
<1>6. QED
  BY <1>4, <1>5

\* So may a new operator without a group.
LEMMA AddThenReplaceGrouped ==
  ASSUME NEW g, Sound(g), NEW rank, Paths(g, rank), NEW o \in Live(g),
         NEW op, Formed(op), op.mnemonic # "arg", op.attrs.fusion_group = NoGroup,
         ToSet(op.operands) \subseteq Sources(g),
         \A v \in ToSet(op.operands) : rank[v] < rank[o] /\ Open(g, v)
  PROVE  LET k == AddOp(g, op) IN Grouped(Replaced(k, o, Newest(k)))
<1> DEFINE k == AddOp(g, op)
           new == Len(g.value) + 1
           n == rank[o]
<1>1. Sound(k) /\ Sources(k) = Sources(g) \cup {new}
  BY AddOpSound
<1>2. Added(g, op, k, new)
  BY AddOpEntries
<1>3. /\ Newest(k) = new /\ new \notin DOMAIN g.value
      /\ Live(k) = Live(g) \cup {new} /\ k.value[new] = op
  BY <1>2 DEF Added
<1>4. n \in Nat /\ o \in DOMAIN g.value
  BY RankFacts, OperandFacts DEF Sources, Paths
<1>5. PICK r : /\ Paths(k, r)
               /\ r[new] = n
               /\ \A v \in DOMAIN g.value : r[v] = rank[v]
  <2> HIDE DEF n
  <2>1. \A v \in ToSet(op.operands) : rank[v] < n /\ Open(g, v)
    BY DEF n
  <2>2. \E r : /\ Paths(AddOp(g, op), r)
               /\ r[new] = n
               /\ \A v \in DOMAIN g.value : r[v] = rank[v]
    BY <1>4, <2>1, AddedGroups
  <2>3. QED
    BY <2>2
<1> HIDE DEF k, new
<1>6. o \in Live(k) /\ new \in Sources(k) /\ new # o /\ r[new] <= r[o]
  BY <1>1, <1>3, <1>4, <1>5
<1>7. Open(k, new)
  BY <1>3 DEF Open, Group
<1>8. Paths(Replaced(k, o, new), r)
  BY <1>1, <1>5, <1>6, <1>7, ReplacedByOpen
<1>9. QED
  BY <1>3, <1>8 DEF k, Grouped

(***************************************************************************)
(* What pass_fusion_detect follows is a path.                              *)
(***************************************************************************)
Path(g, rank, c) ==
  /\ c \in Seq(Live(g)) /\ Len(c) >= 1
  /\ \A k \in 1 .. Len(c) : IsFusable(g, c[k])
  /\ \A k \in 1 .. Len(c) - 1 :
       Readers(g, c[k]) = {c[k + 1]} /\ rank[c[k]] < rank[c[Len(c)]]

\* The start is one.
LEMMA StartIsPath ==
  ASSUME NEW g, NEW rank, NEW o \in Live(g), IsFusable(g, o)
  PROVE  Path(g, rank, <<o>>)
<1> DEFINE c == <<o>>
<1>1. c \in Seq(Live(g)) /\ Len(c) = 1 /\ c[1] = o
  OBVIOUS
<1> HIDE DEF c
<1>2. Path(g, rank, c)
  BY <1>1 DEF Path
<1>3. QED
  BY <1>2 DEF c

\* So is a longer chain.
LEMMA ExtendedIsPath ==
  ASSUME NEW g, Sound(g), NEW rank, Ranks(g, rank), NEW c, Path(g, rank, c)
  PROVE  Path(g, rank, Extended(g, c))
<1> DEFINE N == Len(c)
           last == Last(c)
           onto == {u \in g.users[last] : IsFusable(g, u)}
           u == CHOOSE x \in onto : TRUE
           d == Append(c, u)
<1>1. Extended(g, c) = IF HasOneUser(g, last) /\ onto # {} THEN d ELSE c
  BY Zenon DEF Extended
<1>2. /\ c \in Seq(Live(g)) /\ N \in Nat /\ N >= 1
      /\ \A k \in 1 .. N : IsFusable(g, c[k])
      /\ \A k \in 1 .. N - 1 : Readers(g, c[k]) = {c[k + 1]} /\ rank[c[k]] < rank[c[N]]
  <2>1. c \in Seq(Live(g)) /\ N >= 1
    BY DEF Path
  <2>2. N \in Nat
    BY <2>1
  <2>3. \A k \in 1 .. N : IsFusable(g, c[k])
    BY Zenon DEF Path
  <2>4. \A k \in 1 .. N - 1 : Readers(g, c[k]) = {c[k + 1]} /\ rank[c[k]] < rank[c[N]]
    BY Zenon DEF Path
  <2>5. QED
    BY <2>1, <2>2, <2>3, <2>4
<1>3. last = c[N]
  BY DEF Last
<1>4. CASE HasOneUser(g, last) /\ onto # {}
  <2>1. u \in onto
    BY <1>4
  <2> HIDE DEF u
  <2>2. u \in g.users[last] /\ IsFusable(g, u)
    BY <2>1
  <2> HIDE DEF onto
  <2>3. last \in Live(g) /\ last \in DOMAIN g.value
    <3>1. c[N] \in Live(g)
      BY <1>2
    <3>2. QED
      BY <1>3, <3>1, OperandFacts
  <2>4. g.users[last] = Readers(g, last)
    BY <2>3 DEF Sound, UsersMirror, Readers
  <2>5. u \in Live(g) /\ last \in Operands(g, u)
    BY <2>2, <2>4 DEF Readers
  <2>6. \A x \in Live(g) : last \in Operands(g, x) => x = u
    BY <1>4, <2>3, <2>5, OnlyReader
  <2>7. Readers(g, last) = {u}
    BY <2>5, <2>6 DEF Readers
  <2>8. rank[last] < rank[u] /\ rank[last] \in Nat /\ rank[u] \in Nat
    BY <2>3, <2>5, RankFacts DEF Sources
  <2>9. \A k \in 1 .. N : c[k] \in Live(g) /\ rank[c[k]] \in Nat
    <3>1. \A k \in 1 .. N : c[k] \in Live(g)
      BY <1>2
    <3>2. QED
      BY <3>1, RankFacts DEF Sources
  <2>10. /\ d \in Seq(Live(g)) /\ Len(d) = N + 1
         /\ d[N + 1] = u
         /\ \A k \in 1 .. N : d[k] = c[k]
    BY <1>2, <2>5
  <2> HIDE DEF d, N, last
  <2>11. \A k \in 1 .. N + 1 : IsFusable(g, d[k])
    <3>1. \A k \in 1 .. N + 1 : k \in 1 .. N \/ k = N + 1
      BY <1>2
    <3>2. QED
      BY <1>2, <2>2, <2>10, <3>1
  <2>12. ASSUME NEW k \in 1 .. N
         PROVE  Readers(g, d[k]) = {d[k + 1]} /\ rank[d[k]] < rank[d[N + 1]]
    <3>1. CASE k = N
      BY <1>3, <2>7, <2>8, <2>10, <3>1
    <3>2. CASE k # N
      <4>1. k \in 1 .. N - 1 /\ k + 1 \in 1 .. N
        BY <1>2, <3>2
      <4>2. Readers(g, d[k]) = {d[k + 1]}
        BY <1>2, <2>10, <4>1
      <4>3. rank[c[k]] < rank[c[N]] /\ rank[c[k]] \in Nat
        BY <1>2, <2>9, <4>1
      <4>4. rank[d[k]] < rank[d[N + 1]]
        BY <1>3, <2>8, <2>10, <4>3
      <4>5. QED
        BY <4>2, <4>4
    <3>3. QED
      BY <3>1, <3>2
  <2>13. Path(g, rank, d)
    <3> DEFINE L == Len(d)
    <3>1. /\ d \in Seq(Live(g)) /\ L >= 1 /\ L = N + 1
          /\ 1 .. L = 1 .. N + 1 /\ 1 .. L - 1 = 1 .. N
      BY <1>2, <2>10
    <3> HIDE DEF L
    <3>2. \A k \in 1 .. L : IsFusable(g, d[k])
      BY <2>11, <3>1
    <3>3. \A k \in 1 .. L - 1 : Readers(g, d[k]) = {d[k + 1]} /\ rank[d[k]] < rank[d[L]]
      BY <2>12, <3>1
    <3>4. QED
      BY Zenon, <3>1, <3>2, <3>3 DEF Path, L
  <2>14. QED
    BY <1>1, <1>4, <2>13
<1>5. CASE ~(HasOneUser(g, last) /\ onto # {})
  <2> HIDE DEF d, u, onto, last, N
  <2>1. Extended(g, c) = c
    BY <1>1, <1>5
  <2>2. QED
    BY <2>1
<1> HIDE DEF d, u, onto, last, N
<1>6. QED
  BY <1>4, <1>5

\* And the chain that the pass collects.
LEMMA ChainIsPath ==
  ASSUME NEW g, Sound(g), NEW rank, Ranks(g, rank), NEW o \in Live(g), IsFusable(g, o)
  PROVE  Path(g, rank, Chain(g, o))
<1> DEFINE N == Len(g.ops)
           M == N - 1
           start == <<o>>
           Q == {c \in Seq(Live(g)) : Path(g, rank, c)}
           step == [p \in (1 .. M) \X Q |-> Extended(g, p[2])]
           Unfolds(f) == f = [n \in 1 .. N |-> IF n = 1 THEN <<o>> ELSE Extended(g, f[n - 1])]
<1>1. N \in Nat /\ M \in Nat /\ M = N - 1 /\ N >= 1
  <2>1. N \in Nat /\ DOMAIN g.ops = 1 .. N
    BY SoundDomains
  <2>2. DOMAIN g.ops # {}
    BY DEF Live, ToSet
  <2>3. QED
    BY <2>1, <2>2
<1>2. start \in Q
  <2>1. Path(g, rank, start)
    BY StartIsPath
  <2>2. QED
    BY <2>1 DEF Path
<1>3. \A c \in Q : Extended(g, c) \in Q
  <2>1. \A c \in Q : Path(g, rank, Extended(g, c))
    BY ExtendedIsPath
  <2>2. QED
    BY <2>1 DEF Path
<1> HIDE DEF Q, start, M, N
<1>4. PICK f : Recursion(f, M, start, step)
  <2> HIDE DEF step
  <2>1. QED
    BY <1>1, RecursionExists
<1>5. /\ \E V : f \in [0 .. M -> V]
      /\ f[0] = start
      /\ \A n \in 0 .. M - 1 : f[n + 1] = step[<<n + 1, f[n]>>]
  <2> HIDE DEF step
  <2>1. QED
    BY <1>4 DEF Recursion
<1>6. ASSUME NEW n \in 0 .. M - 1, f[n] \in Q
      PROVE  f[n + 1] = Extended(g, f[n])
  <2> DEFINE p == <<n + 1, f[n]>>
  <2>1. p \in (1 .. M) \X Q /\ p[2] = f[n]
    BY <1>1, <1>6
  <2> HIDE DEF p
  <2>2. step[p] = Extended(g, f[n])
    BY <2>1
  <2> HIDE DEF step
  <2>3. QED
    BY <1>5, <2>2 DEF p
<1> HIDE DEF step
<1> DEFINE P == {n \in 0 .. M : f[n] \in Q}
<1>7. 0 \in P
  BY <1>1, <1>2, <1>5
<1>8. ASSUME NEW n \in Nat, n < M, n \in P PROVE n + 1 \in P
  <2>1. n \in 0 .. M - 1 /\ n + 1 \in 0 .. M
    BY <1>1, <1>8
  <2>2. f[n] \in Q
    BY <1>8
  <2>3. f[n + 1] = Extended(g, f[n])
    BY <1>6, <2>1, <2>2
  <2>4. QED
    BY <1>3, <2>1, <2>2, <2>3
<1>9. 0 .. M \subseteq P
  <2> HIDE DEF P
  <2>1. QED
    BY <1>1, <1>7, <1>8, UpTo
<1>10. /\ \A n \in 0 .. M : f[n] \in Q
       /\ \A n \in 0 .. M - 1 : f[n + 1] = Extended(g, f[n])
  <2>1. \A n \in 0 .. M : f[n] \in Q
    BY <1>9
  <2>2. \A n \in 0 .. M - 1 : n \in 0 .. M
    BY <1>1
  <2>3. QED
    BY <1>6, <2>1, <2>2
<1> HIDE DEF P
<1> DEFINE F == [n \in 1 .. N |-> f[n - 1]]
<1>11. Unfolds(F)
  <2>1. ASSUME NEW n \in 1 .. N
        PROVE  F[n] = IF n = 1 THEN <<o>> ELSE Extended(g, F[n - 1])
    <3>1. CASE n = 1
      BY <1>1, <1>5, <3>1 DEF start
    <3>2. CASE n # 1
      <4>1. n - 2 \in 0 .. M - 1 /\ n - 2 + 1 = n - 1 /\ n - 1 \in 1 .. N /\ n - 1 - 1 = n - 2
        BY <1>1, <3>2
      <4>2. F[n] = f[n - 1] /\ F[n - 1] = f[n - 2]
        BY <4>1
      <4>3. f[n - 2 + 1] = Extended(g, f[n - 2])
        BY <1>10, <4>1
      <4>4. QED
        BY <3>2, <4>1, <4>2, <4>3
    <3>3. QED
      BY <3>1, <3>2
  <2>2. F = [n \in 1 .. N |-> F[n]]
    OBVIOUS
  <2> HIDE DEF F
  <2>3. F = [n \in 1 .. N |-> IF n = 1 THEN <<o>> ELSE Extended(g, F[n - 1])]
    BY <2>1, <2>2
  <2>4. QED
    BY <2>3
<1> DEFINE h == CHOOSE h : Unfolds(h)
<1>12. Unfolds(h)
  <2> HIDE DEF Unfolds
  <2>1. QED
    BY <1>11
<1>13. Chain(g, o) = h[N]
  BY Zenon DEF Chain, N
<1> HIDE DEF h
<1>14. \A n \in 1 .. N : h[n] = IF n = 1 THEN start ELSE Extended(g, h[n - 1])
  BY <1>12 DEF start
<1> HIDE DEF Unfolds
<1> DEFINE R == {n \in 0 .. M : h[n + 1] \in Q}
<1>15. 0 \in R
  BY <1>1, <1>2, <1>14
<1>16. ASSUME NEW n \in Nat, n < M, n \in R PROVE n + 1 \in R
  <2>1. n + 1 \in 0 .. M /\ n + 1 + 1 \in 1 .. N /\ n + 1 + 1 # 1 /\ n + 1 + 1 - 1 = n + 1
    BY <1>1, <1>16
  <2>2. h[n + 1 + 1] = Extended(g, h[n + 1])
    BY <1>14, <2>1
  <2>3. QED
    BY <1>3, <1>16, <2>1, <2>2
<1>17. 0 .. M \subseteq R
  <2> HIDE DEF R
  <2>1. QED
    BY <1>1, <1>15, <1>16, UpTo
<1>18. h[N] \in Q
  <2>1. M \in R /\ M + 1 = N
    BY <1>1, <1>17
  <2>2. QED
    BY <2>1
<1>19. QED
  BY <1>13, <1>18 DEF Q

\* The operators of a path may become a group of their own.
LEMMA NewGroup ==
  ASSUME NEW g, Sound(g), NEW rank, Paths(g, rank), NEW c, Path(g, rank, c),
         NEW id, id # NoGroup, \A o \in Live(g) : Group(g, o) # id,
         NEW h, Ranks(h, rank), Live(h) = Live(g),
         \A u \in Live(g) : /\ h.value[u].mnemonic = g.value[u].mnemonic
                            /\ Operands(h, u) = Operands(g, u)
                            /\ Group(h, u) = IF u \in ToSet(c) THEN id ELSE Group(g, u)
  PROVE  Paths(h, rank)
<1> DEFINE N == Len(c)
           m == ToSet(c)
           last == c[Len(c)]
<1>1. /\ N \in Nat /\ N >= 1 /\ c \in Seq(Live(g)) /\ m = {c[k] : k \in 1 .. N}
      /\ \A k \in 1 .. N : IsFusable(g, c[k])
      /\ \A k \in 1 .. N - 1 : Readers(g, c[k]) = {c[k + 1]} /\ rank[c[k]] < rank[last]
  <2>1. c \in Seq(Live(g)) /\ N >= 1
    BY DEF Path
  <2>2. N \in Nat /\ m = {c[k] : k \in 1 .. N}
    BY <2>1 DEF ToSet
  <2>3. \A k \in 1 .. N : IsFusable(g, c[k])
    BY Zenon DEF Path
  <2>4. \A k \in 1 .. N - 1 : Readers(g, c[k]) = {c[k + 1]} /\ rank[c[k]] < rank[last]
    BY Zenon DEF Path
  <2>5. QED
    BY <2>1, <2>2, <2>3, <2>4
<1>2. last = c[N]
  OBVIOUS
<1> HIDE DEF N, m, last
<1>3. last \in m
  BY <1>1, <1>2
<1>4. \A o \in m : /\ o \in Live(g) /\ Group(g, o) = NoGroup
                   /\ g.value[o].mnemonic \in Elementwise
  <2>1. ASSUME NEW o \in m PROVE o \in Live(g) /\ IsFusable(g, o)
    <3>1. PICK k \in 1 .. N : o = c[k]
      BY <1>1, <2>1
    <3>2. c[k] \in Live(g)
      BY <1>1 DEF N
    <3>3. IsFusable(g, c[k])
      BY <1>1
    <3>4. QED
      BY <3>1, <3>2, <3>3
  <2>2. QED
    BY Zenon, <2>1 DEF IsFusable, Group
<1>5. ASSUME NEW o \in m, o # last
      PROVE  \E u \in m : Readers(g, o) = {u} /\ rank[o] < rank[last]
  <2>1. PICK k \in 1 .. N : o = c[k]
    BY <1>1
  <2>2. k \in 1 .. N - 1 /\ k + 1 \in 1 .. N
    BY <1>1, <1>2, <1>5, <2>1
  <2>3. c[k + 1] \in m /\ Readers(g, o) = {c[k + 1]} /\ rank[o] < rank[last]
    BY <1>1, <2>1, <2>2
  <2>4. QED
    BY <2>3
<1>6. ASSUME NEW u \in m, u \in Readers(g, last) PROVE FALSE
  <2>1. Ranks(g, rank)
    BY DEF Paths
  <2>2. rank[last] \in Nat /\ rank[u] \in Nat /\ rank[last] < rank[u]
    BY <1>3, <1>4, <1>6, <2>1, RankFacts DEF Sources, Readers
  <2>3. u # last => rank[u] < rank[last]
    BY <1>5
  <2>4. QED
    BY <2>2, <2>3
<1>7. \A v : Readers(h, v) = Readers(g, v) /\ Readers(g, v) \subseteq Live(g)
  BY DEF Readers
<1>8. \A o \in Live(g) : Group(h, o) = IF o \in m THEN id ELSE Group(g, o)
  BY DEF m
<1>9. Private(g) /\ OutletsLast(g, rank) /\ OnlyElementwise(g)
  BY DEF Paths
<1>10. Private(h)
  <2>1. ASSUME NEW o \in Live(g), Group(h, o) # NoGroup,
               NEW u \in Readers(g, o), Group(h, u) = Group(h, o)
        PROVE  Readers(g, o) = {u}
    <3>1. CASE o \in m
      <4>1. u \in m
        BY <1>7, <1>8, <2>1, <3>1
      <4>2. o # last
        BY <1>6, <2>1, <4>1
      <4>3. QED
        BY <1>5, <2>1, <3>1, <4>2
    <3>2. CASE o \notin m
      <4>1. u \notin m /\ Group(g, u) = Group(g, o) /\ Group(g, o) # NoGroup
        BY <1>7, <1>8, <2>1, <3>2
      <4>2. QED
        BY <1>9, <2>1, <4>1 DEF Private
    <3>3. QED
      BY <3>1, <3>2
  <2>2. QED
    BY <1>7, <2>1 DEF Private
<1>11. OutletsLast(h, rank)
  <2>1. ASSUME NEW o \in Live(g), NEW p \in Live(g), Outlet(h, p), o # p,
               Group(h, o) = Group(h, p)
        PROVE  rank[o] < rank[p]
    <3>1. /\ Group(h, p) # NoGroup
          /\ Readers(g, p) # {}
          /\ \A u \in Readers(g, p) : Group(h, u) # Group(h, p)
      BY <1>7, <2>1 DEF Outlet
    <3>2. CASE p \in m
      <4>1. p = last
        BY <1>4, <1>5, <1>8, <3>1, <3>2
      <4>2. o \in m
        BY <1>8, <2>1, <3>2
      <4>3. QED
        BY <1>5, <2>1, <4>1, <4>2
    <3>3. CASE p \notin m
      <4>1. Group(h, p) = Group(g, p) /\ Group(g, p) # NoGroup
        BY <1>8, <3>1, <3>3
      <4>2. \A u \in Readers(g, p) : Group(g, u) # Group(g, p)
        BY <1>4, <1>7, <1>8, <3>1, <4>1
      <4>3. Outlet(g, p)
        BY <3>1, <4>1, <4>2 DEF Outlet
      <4>4. Group(g, o) = Group(g, p)
        BY <1>8, <2>1, <3>3
      <4>5. QED
        BY <1>9, <2>1, <4>3, <4>4 DEF OutletsLast
    <3>4. QED
      BY <3>2, <3>3
  <2>2. QED
    BY <2>1 DEF OutletsLast
<1>12. OnlyElementwise(h)
  BY <1>4, <1>8, <1>9 DEF OnlyElementwise
<1>13. QED
  BY <1>10, <1>11, <1>12 DEF Paths

\* Groups are numbered from 0 on without a gap.
Numbered(g) == \E n \in Nat : FusionGroups(g) = 0 .. (n - 1)

\* The count of the groups is a number no group has.
LEMMA NextNumber ==
  ASSUME NEW g, Numbered(g)
  PROVE  /\ Cardinality(FusionGroups(g)) # NoGroup
         /\ \A o \in Live(g) : Group(g, o) # Cardinality(FusionGroups(g))
         /\ Cardinality(FusionGroups(g)) \in Nat
         /\ FusionGroups(g) = 0 .. (Cardinality(FusionGroups(g)) - 1)
<1>1. PICK n \in Nat : FusionGroups(g) = 0 .. (n - 1)
  BY DEF Numbered
<1>2. Cardinality(0 .. (n - 1)) = n
  <2>1. 0 \in Int /\ n - 1 \in Int
    BY <1>1
  <2>2. Cardinality(0 .. (n - 1)) = IF 0 > n - 1 THEN 0 ELSE n - 1 - 0 + 1
    BY <2>1, FS_Interval
  <2>3. QED
    BY <1>1, <2>2
<1>3. Cardinality(FusionGroups(g)) = n
  BY <1>1, <1>2
<1>4. n # NoGroup /\ n \notin FusionGroups(g)
  BY <1>1 DEF NoGroup
<1>5. \A o \in Live(g) : Group(g, o) # n
  BY <1>4 DEF FusionGroups, Group
<1>6. QED
  BY <1>1, <1>3, <1>4, <1>5

(***************************************************************************)
(* Before fusion detection no operator has a group: the builders and the   *)
(* passes of the first three stages set none.                              *)
(***************************************************************************)
LEMMA BuiltIsUngrouped ==
  ASSUME NEW g, IsBuilt(g)
  PROVE  Ungrouped(g)
<1>1. Sound(g)
  BY BuiltIsSound
<1>2. \A o \in Live(g) : o \in DOMAIN g.value
  BY <1>1, OperandFacts
<1>3. \A o \in Live(g) : IsOperator(g.value[o])
  BY <1>2 DEF IsBuilt
<1>4. \A o \in Live(g) : g.value[o].attrs \in Attributes
  BY <1>3 DEF IsOperator
<1>5. \A o \in Live(g) : g.value[o].attrs.fusion_group \in {NoGroup}
  BY <1>4 DEF Attributes
<1>6. QED
  BY <1>5 DEF Ungrouped, Group

\* A replacement gives none.
LEMMA ReplacedUngrouped ==
  ASSUME NEW g, Sound(g), Ungrouped(g), NEW o \in Live(g), NEW new \in Sources(g), new # o
  PROVE  Ungrouped(Replaced(g, o, new))
<1> DEFINE h == Replaced(g, o, new)
<1>1. Live(h) = Live(g) \ {o}
  BY ReplacedSound
<1>2. \A u \in DOMAIN g.value : h.value[u].attrs = g.value[u].attrs
  BY ReplacedAttributes
<1>3. \A u \in Live(g) : u \in DOMAIN g.value
  BY OperandFacts
<1> HIDE DEF h
<1>4. Ungrouped(h)
  BY <1>1, <1>2, <1>3 DEF Ungrouped, Group
<1>5. QED
  BY <1>4 DEF h

\* Nor does a new operator without a group that then takes another's place.
LEMMA AddThenReplaceUngrouped ==
  ASSUME NEW g, Sound(g), Ungrouped(g), NEW o \in Live(g),
         NEW op, Formed(op), op.mnemonic # "arg", op.attrs.fusion_group = NoGroup,
         ToSet(op.operands) \subseteq Sources(g)
  PROVE  LET k == AddOp(g, op) IN Ungrouped(Replaced(k, o, Newest(k)))
<1> DEFINE k == AddOp(g, op)
           new == Len(g.value) + 1
<1>1. Sound(k) /\ Sources(k) = Sources(g) \cup {new}
  BY AddOpSound
<1>2. Added(g, op, k, new)
  BY AddOpEntries
<1> HIDE DEF k, new
<1>3. /\ Newest(k) = new /\ new \notin DOMAIN g.value
      /\ Live(k) = Live(g) \cup {new} /\ k.value[new] = op
      /\ \A v \in DOMAIN g.value : k.value[v] = g.value[v]
  BY <1>2 DEF Added
<1>4. \A u \in Live(g) : u \in DOMAIN g.value
  BY OperandFacts
<1>5. Ungrouped(k)
  BY <1>3, <1>4 DEF Ungrouped, Group
<1>6. o \in Live(k) /\ new \in Sources(k) /\ new # o
  BY <1>1, <1>3, <1>4
<1>7. Ungrouped(Replaced(k, o, new))
  BY <1>1, <1>5, <1>6, ReplacedUngrouped
<1>8. QED
  BY <1>3, <1>7 DEF k

\* The fold of an operator into a constant.
LEMMA FoldUngrouped ==
  ASSUME NEW g, Sound(g), Ungrouped(g), NEW o \in Live(g), NEW n
  PROVE  LET k == AddConstant(g, g.value[o].type, n) IN
         Ungrouped(Replaced(k, o, Newest(k)))
<1> DEFINE op == Op("constant", <<>>, g.value[o].type, n, NoAttrs)
<1>1. g.value[o].type \in Types
  BY OperandFacts DEF Formed
<1>2. /\ Formed(op) /\ op.mnemonic = "constant" /\ op.operands = <<>>
      /\ op.attrs.fusion_group = NoGroup
  <2>1. Formed(op)
    BY <1>1, ConstantIsFormed
  <2>2. QED
    BY <2>1 DEF Op, NoAttrs
<1>3. AddConstant(g, g.value[o].type, n) = AddOp(g, op)
  BY DEF AddConstant
<1> HIDE DEF op
<1>4. ToSet(op.operands) = {}
  <2>1. DOMAIN op.operands = {}
    BY <1>2
  <2>2. QED
    BY <2>1 DEF ToSet
<1>5. op.mnemonic # "arg"
  BY <1>2
<1>6. QED
  BY <1>2, <1>3, <1>4, <1>5, AddThenReplaceUngrouped

\* An erasure.
LEMMA ErasedUngrouped ==
  ASSUME NEW g, Sound(g), Ungrouped(g), NEW o \in Live(g)
  PROVE  Ungrouped(EraseOp(g, o))
<1>1. Erased(g, o, EraseOp(g, o))
  BY EraseOpEntries
<1>2. QED
  BY <1>1 DEF Erased, Ungrouped, Group

\* WithBn leaves the group of a convolution alone.
LEMMA WithBnGroup ==
  ASSUME NEW op, Formed(op), NEW type
  PROVE  WithBn(op, type).attrs.fusion_group = op.attrs.fusion_group
<1> DEFINE a == op.attrs
           b == [a EXCEPT !.fused_bn = TRUE]
<1>1. /\ op = [mnemonic |-> op.mnemonic, operands |-> op.operands, type |-> op.type,
               data |-> op.data, attrs |-> a, legal |-> op.legal]
      /\ a = [permutation |-> a.permutation, fusion_group |-> a.fusion_group,
              layout |-> a.layout, input_layout |-> a.input_layout,
              fused_bn |-> a.fused_bn]
  BY DEF Formed, WellAttributed
<1>2. WithBn(op, type) = [op EXCEPT !.attrs = b, !.type = type]
  BY Zenon DEF WithBn
<1> DEFINE yes == TRUE
<1>3. b = [a EXCEPT !.fused_bn = yes]
  OBVIOUS
<1> HIDE DEF yes, b
<1>4. b.fusion_group = a.fusion_group
  <2> HIDE DEF a
  <2>1. QED
    BY <1>1, <1>3
<1>5. [op EXCEPT !.attrs = b, !.type = type].attrs = b
  BY <1>1
<1>6. QED
  BY <1>2, <1>4, <1>5 DEF a

\* A retouched graph has none either if the edit sets none.
LEMMA RetouchedGroups ==
  ASSUME NEW g, Sound(g), NEW h, Retouched(g, h),
         \A u \in Live(g) : Group(h, u) = Group(g, u)
  PROVE  /\ Ungrouped(g) => Ungrouped(h)
         /\ \A rank : Paths(g, rank) => Paths(h, rank)
<1>1. /\ Live(h) = Live(g)
      /\ \A u \in DOMAIN g.value : Operands(h, u) = Operands(g, u)
      /\ \A rank : Ranks(g, rank) => Ranks(h, rank)
  BY RetouchedSound
<1>2. \A u \in Live(g) : u \in DOMAIN g.value
  BY OperandFacts
<1>3. \A u \in Live(g) : h.value[u].mnemonic = g.value[u].mnemonic
  BY <1>2 DEF Retouched
<1>4. ASSUME NEW rank, Paths(g, rank) PROVE Paths(h, rank)
  <2>1. Ranks(h, rank)
    BY <1>1, <1>4 DEF Paths
  <2>2. QED
    BY <1>1, <1>2, <1>3, <1>4, <2>1, SameGroups
<1>5. QED
  BY <1>1, <1>4 DEF Ungrouped

\* The fusion of a batch normalization.
LEMMA ConvBnUngrouped ==
  ASSUME NEW g, Sound(g), Acyclic(g), Ungrouped(g), NEW o \in Live(g),
         NEW m \in NormalizedConvolutions(g, o)
  PROVE  LET k == [g EXCEPT !.value[m.conv] = WithBn(@, g.value[o].type)] IN
         Ungrouped(EraseOp(Replaced(k, o, m.conv), m.mul))
<1> DEFINE conv == m.conv
           mul == m.mul
           q == WithBn(g.value[conv], g.value[o].type)
           k == [g EXCEPT !.value = [g.value EXCEPT ![conv] = q]]
           l == Replaced(k, o, conv)
           h == EraseOp(l, mul)
<1>1. /\ g.value[o].mnemonic = "add"
      /\ mul \in Live(g) /\ g.value[mul].mnemonic = "multiply"
      /\ conv \in Live(g) /\ g.value[conv].mnemonic = "convolution"
  BY NormalizedFacts
<1>2. q.attrs.fusion_group = g.value[conv].attrs.fusion_group
  BY <1>1, OperandFacts, WithBnGroup
<1> HIDE DEF conv, mul
<1>3. /\ o \in DOMAIN g.value /\ conv \in DOMAIN g.value
      /\ Formed(g.value[conv]) /\ g.value[o].type \in Types
  BY <1>1, OperandFacts DEF Formed
<1>4. Formed(q) /\ q.mnemonic = g.value[conv].mnemonic
      /\ q.operands = g.value[conv].operands
  BY <1>3, WithBnIsFormed
<1> HIDE DEF q
<1>5. Retouched(g, k)
  BY <1>3, <1>4, RetouchedOne
<1>6. \A u \in Live(g) : Group(k, u) = Group(g, u)
  <2>1. k.value = [g.value EXCEPT ![conv] = q]
    BY DEF Sound, Tables
  <2>2. \A u \in Live(g) : u \in DOMAIN g.value
    BY OperandFacts
  <2> HIDE DEF k
  <2>3. QED
    BY <1>2, <2>1, <2>2 DEF Group
<1> HIDE DEF k
<1>7. Ungrouped(k)
  BY <1>5, <1>6, RetouchedGroups
<1>8. Sound(k) /\ Live(k) = Live(g) /\ Sources(k) = Sources(g)
  BY <1>5, RetouchedSound
<1>9. o # mul /\ o # conv
  BY <1>1
<1>10. conv \in Sources(k) /\ o \in Live(k)
  BY <1>1, <1>8 DEF Sources
<1>11. Ungrouped(l)
  BY <1>7, <1>8, <1>9, <1>10, ReplacedUngrouped
<1>12. Sound(l) /\ Live(l) = Live(k) \ {o}
  BY <1>8, <1>9, <1>10, ReplacedSound
<1> HIDE DEF l
<1>13. mul \in Live(l)
  BY <1>1, <1>8, <1>9, <1>12
<1>14. Ungrouped(h)
  BY <1>11, <1>12, <1>13, ErasedUngrouped
<1>15. [g EXCEPT !.value[m.conv] = WithBn(@, g.value[o].type)] = k
  BY DEF k, q, conv
<1>16. QED
  BY <1>14, <1>15 DEF h, l, conv, mul

\* The rewrites of both halves of the pipeline that put an operand in the
\* place of a result.
LEMMA OperandTakesOver ==
  ASSUME NEW g, Sound(g), Acyclic(g), Grouped(g), NEW o \in Live(g), NEW v \in Operands(g, o)
  PROVE  /\ Grouped(Replaced(g, o, v))
         /\ Ungrouped(g) => Ungrouped(Replaced(g, o, v))
<1>1. PICK rank : Ranks(g, rank)
  BY DEF Acyclic
<1>2. v \in Sources(g) /\ v # o
  BY <1>1, OperandFacts, RankFacts
<1>3. Ungrouped(g) => Ungrouped(Replaced(g, o, v))
  BY <1>2, ReplacedUngrouped
<1>4. QED
  BY <1>3, ReplacedByMember

\* The erasure of dead operators.
LEMMA DeadGroups ==
  ASSUME NEW g, Sound(g), Grouped(g), NEW o \in Live(g), IsDead(g, o)
  PROVE  /\ Grouped(EraseOp(g, o))
         /\ Ungrouped(g) => Ungrouped(EraseOp(g, o))
<1>1. PICK rank : Paths(g, rank)
  BY DEF Grouped
<1>2. g.users[o] = {u \in Live(g) : o \in Operands(g, u)}
  BY DEF Sound, UsersMirror, Listed
<1>3. \A u \in Live(g) \ {o} : o \notin Operands(g, u)
  BY <1>2 DEF IsDead
<1>4. /\ Live(EraseOp(g, o)) = Live(g) \ {o}
      /\ EraseOp(g, o).value = g.value
      /\ \A r : Ranks(g, r) => Ranks(EraseOp(g, o), r)
  BY <1>3, EraseOpSound
<1>5. Ranks(EraseOp(g, o), rank)
  BY <1>1, <1>4 DEF Paths
<1>6. Paths(EraseOp(g, o), rank)
  BY <1>1, <1>4, <1>5, ErasedGroups
<1>7. QED
  BY <1>6, ErasedUngrouped DEF Grouped

(***************************************************************************)
(* The invariant of the groups.  Detection, the tenth pass, gives every    *)
(* new group a number of its own because the numbers up to the count of    *)
(* the groups are the ones in use; later passes may erase whole groups.    *)
(***************************************************************************)
GInv ==
  /\ IInv
  /\ Grouped(graph)
  /\ pass < 10 => Ungrouped(graph)
  /\ pass = 10 => Numbered(graph)

\* When the passes run.
LEMMA Stages ==
  ASSUME IInv, NEW p, Running(p)
  PROVE  /\ pass \in 1 .. 18
         /\ p \in {"shape_infer", "shape_fold", "shape_subgraph_elim", "cse",
                   "constant_fold", "conv_bn_fusion"} => pass < 10
         /\ p = "fusion_detect" => pass = 10
         /\ p \in {"algebraic_simplify", "identity_elim", "dce"} => pass # 10
         /\ p \in {"transpose_elim", "transpose_push", "nchw_nhwc_layout",
                   "nhwc_nchw_layout", "legalize"} => pass > 10
<1>1. Len(Pipeline) = 18
  BY DEF Pipeline
<1>2. pass \in 1 .. 18 /\ Pipeline[pass] = p
  <2> HIDE DEF Pipeline
  <2>1. QED
    BY <1>1 DEF Running, Finished, IInv
<1>3. CASE pass \in 1 .. 9
  <2>1. pass = 1 \/ pass = 2 \/ pass = 3 \/ pass = 4 \/ pass = 5 \/ pass = 6
        \/ pass = 7 \/ pass = 8 \/ pass = 9
    BY <1>3
  <2>2. p \in {"algebraic_simplify", "identity_elim", "shape_infer", "shape_fold",
               "shape_subgraph_elim", "cse", "constant_fold", "conv_bn_fusion", "dce"}
    BY <1>2, <2>1 DEF Pipeline
  <2>3. QED
    BY <1>2, <1>3, <2>2
<1>4. CASE pass = 10
  <2>1. p = "fusion_detect"
    BY <1>2, <1>4 DEF Pipeline
  <2>2. QED
    BY <1>2, <1>4, <2>1
<1>5. CASE pass \in 11 .. 18
  <2>1. pass = 11 \/ pass = 12 \/ pass = 13 \/ pass = 14 \/ pass = 15 \/ pass = 16
        \/ pass = 17 \/ pass = 18
    BY <1>5
  <2>2. p \in {"transpose_elim", "transpose_push", "nchw_nhwc_layout", "nhwc_nchw_layout",
               "algebraic_simplify", "identity_elim", "dce", "legalize"}
    BY <1>2, <2>1 DEF Pipeline
  <2>3. QED
    BY <1>2, <1>5, <2>2
<1>6. QED
  BY <1>2, <1>3, <1>4, <1>5

\* A step of a pass before detection.
LEMMA EarlyStep ==
  ASSUME GInv, IInv', pass < 10, NEW h, graph' = h, pass' = pass, Ungrouped(h)
  PROVE  GInv'
<1>1. pass' < 10 /\ pass' # 10
  BY DEF GInv, IInv
<1>2. Ungrouped(graph') /\ Acyclic(graph')
  BY DEF IInv
<1>3. Grouped(graph')
  BY <1>2, UngroupedIsGrouped
<1>4. QED
  BY <1>1, <1>2, <1>3 DEF GInv

\* A step of any pass but detection.
LEMMA OtherStep ==
  ASSUME GInv, IInv', pass # 10, NEW h, graph' = h, pass' = pass, Grouped(h),
         pass < 10 => Ungrouped(h)
  PROVE  GInv'
<1>1. Grouped(graph') /\ (pass' < 10 => Ungrouped(graph')) /\ pass' # 10
  OBVIOUS
<1>2. QED
  BY <1>1 DEF GInv

\* pass_algebraic_simplify and pass_identity_elim, which run on both sides of
\* detection.
LEMMA SimplifyGroups ==
  ASSUME GInv, IInv', AlgebraicSimplify \/ IdentityElim
  PROVE  GInv'
<1>1. Sound(graph) /\ Acyclic(graph) /\ IInv /\ Grouped(graph)
  BY DEF GInv, IInv
<1>2. /\ pass # 10
      /\ \E i \in Found : \E v \in Operands(graph, graph.ops[i]) :
           Restart(Replaced(graph, graph.ops[i], v))
  <2>1. CASE AlgebraicSimplify
    <3>1. PICK i \in Found : \E v \in Simplified(graph, graph.ops[i]) :
                   Restart(Replaced(graph, graph.ops[i], v))
      BY <2>1 DEF AlgebraicSimplify
    <3>2. graph.ops[i] \in Live(graph)
      BY <1>1, FoundFacts
    <3>3. \A v \in Simplified(graph, graph.ops[i]) : v \in Operands(graph, graph.ops[i])
      BY <1>1, <3>2, SimplifiedIsOperand
    <3>4. Running("algebraic_simplify")
      BY <2>1 DEF AlgebraicSimplify
    <3>5. pass # 10
      BY <1>1, <3>4, Stages
    <3>6. QED
      BY <3>1, <3>3, <3>5
  <2>2. CASE IdentityElim
    <3>1. PICK i \in Found : \E v \in Identity(graph, graph.ops[i]) :
                   Restart(Replaced(graph, graph.ops[i], v))
      BY <2>2 DEF IdentityElim
    <3>2. graph.ops[i] \in Live(graph)
      BY <1>1, FoundFacts
    <3>3. \A v \in Identity(graph, graph.ops[i]) : v \in Operands(graph, graph.ops[i])
      BY <1>1, <3>2, IdentityIsOperand
    <3>4. Running("identity_elim")
      BY <2>2 DEF IdentityElim
    <3>5. pass # 10
      BY <1>1, <3>4, Stages
    <3>6. QED
      BY <3>1, <3>3, <3>5
  <2>3. QED
    BY <2>1, <2>2
<1>3. PICK i \in Found : \E v \in Operands(graph, graph.ops[i]) :
             Restart(Replaced(graph, graph.ops[i], v))
  BY <1>2
<1>4. PICK v \in Operands(graph, graph.ops[i]) : Restart(Replaced(graph, graph.ops[i], v))
  BY <1>3
<1> DEFINE h == Replaced(graph, graph.ops[i], v)
<1>5. graph.ops[i] \in Live(graph)
  BY <1>1, FoundFacts
<1>6. Grouped(h) /\ (Ungrouped(graph) => Ungrouped(h))
  BY <1>1, <1>5, OperandTakesOver
<1>7. graph' = h /\ pass' = pass
  BY <1>4 DEF Restart
<1> HIDE DEF h
<1>8. pass < 10 => Ungrouped(h)
  BY <1>6 DEF GInv
<1>9. QED
  BY <1>2, <1>6, <1>7, <1>8, OtherStep

\* pass_shape_infer.
LEMMA ShapeInferGroups ==
  ASSUME GInv, IInv', ShapeInfer
  PROVE  GInv'
<1>1. PICK i \in Found :
        SweepOn([graph EXCEPT !.value[graph.ops[i]].type =
                   Inferred(graph, graph.ops[i])], i)
  BY DEF ShapeInfer
<1>2. Running("shape_infer")
  BY DEF ShapeInfer
<1> DEFINE o == graph.ops[i]
           type == Inferred(graph, o)
           q == [graph.value[o] EXCEPT !.type = type]
           vs == [graph.value EXCEPT ![o] = q]
           h == [graph EXCEPT !.value = vs]
<1>3. [graph EXCEPT !.value[graph.ops[i]].type = Inferred(graph, graph.ops[i])] = h
  OBVIOUS
<1>4. Sound(graph) /\ IInv /\ o \in Live(graph)
  BY FoundFacts DEF GInv, IInv
<1> HIDE DEF type, o
<1>5. Formed(graph.value[o]) /\ o \in DOMAIN graph.value
  BY <1>4, OperandFacts
<1>6. q.attrs = graph.value[o].attrs
  BY <1>5 DEF Formed
<1> HIDE DEF q
<1>7. \A v \in DOMAIN graph.value : vs[v].attrs = graph.value[v].attrs
  BY <1>6
<1> HIDE DEF vs
<1>8. h.value = vs /\ h.ops = graph.ops
  BY <1>4 DEF Sound, Tables
<1> HIDE DEF h
<1>9. pass < 10
  BY <1>2, <1>4, Stages
<1>10. \A u \in Live(graph) : u \in DOMAIN graph.value
  BY <1>4, OperandFacts
<1>11. Ungrouped(h)
  BY <1>7, <1>8, <1>9, <1>10 DEF GInv, Ungrouped, Group, Live
<1>12. graph' = h /\ pass' = pass
  BY <1>1, <1>3 DEF SweepOn
<1>13. QED
  BY <1>9, <1>11, <1>12, EarlyStep

\* pass_shape_fold and pass_constant_fold.
LEMMA FoldsGroups ==
  ASSUME GInv, IInv', ShapeFold \/ ConstantFold
  PROVE  GInv'
<1>1. Sound(graph) /\ IInv
  BY DEF GInv, IInv
<1>2. \A i \in Found : graph.ops[i] \in Live(graph)
  BY <1>1, FoundFacts
<1>3. \E i \in Found : \E n : FoldInto(graph.ops[i], n)
  BY Zenon DEF ShapeFold, ConstantFold
<1>4. PICK o \in Live(graph) : \E n : FoldInto(o, n)
  BY <1>2, <1>3
<1>5. PICK n : FoldInto(o, n)
  BY <1>4
<1> DEFINE k == AddConstant(graph, graph.value[o].type, n)
           h == Replaced(k, o, Newest(k))
<1>6. graph' = h /\ pass' = pass
  BY <1>5 DEF FoldInto, Restart
<1>7. Running("shape_fold") \/ Running("constant_fold")
  BY Zenon DEF ShapeFold, ConstantFold
<1>8. pass < 10
  BY <1>1, <1>7, Stages
<1>9. Ungrouped(graph)
  BY <1>8 DEF GInv
<1>10. Ungrouped(h)
  BY <1>1, <1>9, FoldUngrouped
<1> HIDE DEF h
<1>11. QED
  BY <1>6, <1>8, <1>10, EarlyStep

\* pass_dce and pass_shape_subgraph_elim.
LEMMA ErasuresGroups ==
  ASSUME GInv, IInv', ShapeSubgraphElim \/ Dce
  PROVE  GInv'
<1>1. Sound(graph) /\ IInv /\ Grouped(graph)
  BY DEF GInv, IInv
<1>2. /\ pass # 10
      /\ \E i \in Found : Restart(EraseOp(graph, graph.ops[i])) /\ IsDead(graph, graph.ops[i])
  <2>1. CASE ShapeSubgraphElim
    <3>1. PICK i \in Found : Restart(EraseOp(graph, graph.ops[i]))
      BY <2>1 DEF ShapeSubgraphElim
    <3>2. Running("shape_subgraph_elim")
      BY <2>1 DEF ShapeSubgraphElim
    <3>3. Matches(graph, "shape_subgraph_elim", i)
      BY <1>1, <3>2, RunningFinds
    <3>4. IsDead(graph, graph.ops[i])
      BY <3>3 DEF Matches
    <3>5. pass < 10 /\ pass \in 1 .. 18
      BY <1>1, <3>2, Stages
    <3>6. QED
      BY <3>1, <3>4, <3>5
  <2>2. CASE Dce
    <3>1. PICK i \in Found : Restart(EraseOp(graph, graph.ops[i]))
      BY <2>2 DEF Dce
    <3>2. Running("dce")
      BY <2>2 DEF Dce
    <3>3. Matches(graph, "dce", i)
      BY <1>1, <3>2, RunningFinds
    <3>4. IsDead(graph, graph.ops[i])
      BY <3>3 DEF Matches
    <3>5. pass # 10
      BY <1>1, <3>2, Stages
    <3>6. QED
      BY <3>1, <3>4, <3>5
  <2>3. QED
    BY <2>1, <2>2
<1>3. PICK i \in Found : Restart(EraseOp(graph, graph.ops[i])) /\ IsDead(graph, graph.ops[i])
  BY <1>2
<1>4. graph.ops[i] \in Live(graph)
  BY <1>1, FoundFacts
<1> DEFINE h == EraseOp(graph, graph.ops[i])
<1>5. Grouped(h) /\ (Ungrouped(graph) => Ungrouped(h))
  BY <1>1, <1>3, <1>4, DeadGroups
<1>6. graph' = h /\ pass' = pass
  BY <1>3 DEF Restart
<1> HIDE DEF h
<1>7. pass < 10 => Ungrouped(h)
  BY <1>5 DEF GInv
<1>8. QED
  BY <1>2, <1>5, <1>6, <1>7, OtherStep

\* pass_cse.
LEMMA CseGroups ==
  ASSUME GInv, IInv', Cse
  PROVE  GInv'
<1>1. PICK i \in Found :
        Restart(Replaced(graph, graph.ops[Least(Duplicates(graph, i))], graph.ops[i]))
  BY DEF Cse
<1>2. Running("cse")
  BY DEF Cse
<1> DEFINE D == Duplicates(graph, i)
           j == Least(D)
           keep == graph.ops[i]
           dup == graph.ops[j]
           h == Replaced(graph, dup, keep)
<1>3. IInv /\ Sound(graph)
  BY DEF GInv, IInv
<1>4. /\ i \in 1 .. Len(graph.ops) /\ keep \in Live(graph)
      /\ Matches(graph, "cse", i)
  BY <1>2, <1>3, RunningFinds
<1>5. D # {}
  BY <1>4 DEF Matches
<1>6. /\ Len(graph.ops) \in Nat /\ DOMAIN graph.ops = 1 .. Len(graph.ops)
      /\ \A a, b \in DOMAIN graph.ops : graph.ops[a] = graph.ops[b] => a = b
  BY <1>3, SoundDomains DEF Sound, Listed, Once
<1>7. D \subseteq (i + 1) .. Len(graph.ops)
  BY DEF Duplicates
<1> HIDE DEF D
<1>8. j \in D
  <2>1. D \subseteq Nat
    BY <1>4, <1>6, <1>7
  <2>2. QED
    BY <1>5, <2>1, LeastIn
<1> HIDE DEF j
<1>9. j \in DOMAIN graph.ops /\ j # i /\ i \in DOMAIN graph.ops
  BY <1>4, <1>6, <1>7, <1>8
<1>10. dup \in Live(graph) /\ keep # dup
  BY <1>6, <1>9 DEF Live, ToSet
<1>11. graph' = h /\ pass' = pass
  BY <1>1 DEF Restart, j, D
<1>12. pass < 10
  BY <1>2, <1>3, Stages
<1>13. Ungrouped(graph)
  BY <1>12 DEF GInv
<1> HIDE DEF keep, dup
<1>14. Ungrouped(h)
  BY <1>3, <1>4, <1>10, <1>13, ReplacedUngrouped DEF Sources
<1> HIDE DEF h
<1>15. QED
  BY <1>11, <1>12, <1>14, EarlyStep

\* pass_conv_bn_fusion.
LEMMA ConvBnGroups ==
  ASSUME GInv, IInv', ConvBnFusion
  PROVE  GInv'
<1>1. PICK i \in Found :
        \E m \in NormalizedConvolutions(graph, graph.ops[i]) :
          \E marked \in {[graph EXCEPT !.value[m.conv] =
                           WithBn(@, graph.value[graph.ops[i]].type)]} :
          \E g \in {Replaced(marked, graph.ops[i], m.conv)} :
            Restart(EraseOp(g, m.mul))
  BY Zenon DEF ConvBnFusion
<1> DEFINE o == graph.ops[i]
<1>2. PICK m \in NormalizedConvolutions(graph, o) :
        Restart(EraseOp(Replaced([graph EXCEPT !.value[m.conv] =
                                   WithBn(@, graph.value[o].type)],
                                 o, m.conv), m.mul))
  BY <1>1
<1> DEFINE h == EraseOp(Replaced([graph EXCEPT !.value[m.conv] =
                                   WithBn(@, graph.value[o].type)],
                                 o, m.conv), m.mul)
<1>3. Sound(graph) /\ Acyclic(graph) /\ IInv
  BY DEF GInv, IInv
<1>4. o \in Live(graph)
  BY <1>3, FoundFacts
<1>5. Running("conv_bn_fusion")
  BY Zenon DEF ConvBnFusion
<1>6. pass < 10
  BY <1>3, <1>5, Stages
<1>7. Ungrouped(graph)
  BY <1>6 DEF GInv
<1> HIDE DEF o
<1>8. Ungrouped(h)
  BY <1>3, <1>4, <1>7, ConvBnUngrouped
<1>9. graph' = h /\ pass' = pass
  BY <1>2 DEF Restart
<1> HIDE DEF h
<1>10. QED
  BY <1>6, <1>8, <1>9, EarlyStep

\* pass_fusion_detect: the chain it assigns becomes a group.
LEMMA FusionDetectGroups ==
  ASSUME GInv, IInv', FusionDetect
  PROVE  GInv'
<1>1. PICK i \in Found :
        LET members == ToSet(Chain(graph, graph.ops[i]))
            id      == Cardinality(FusionGroups(graph))
        IN SweepOn([graph EXCEPT !.value = [v \in DOMAIN @ |->
                     IF v \in members THEN [@[v] EXCEPT !.attrs.fusion_group = id]
                     ELSE @[v]]], i)
  BY Zenon DEF FusionDetect
<1>2. Running("fusion_detect")
  BY Zenon DEF FusionDetect
<1> DEFINE o == graph.ops[i]
           c == Chain(graph, o)
           id == Cardinality(FusionGroups(graph))
           vs == [v \in DOMAIN graph.value |->
                   IF v \in ToSet(c) THEN [graph.value[v] EXCEPT !.attrs.fusion_group = id]
                   ELSE graph.value[v]]
           h == [graph EXCEPT !.value = vs]
<1>3. graph' = h /\ pass' = pass
  BY <1>1 DEF SweepOn
<1>4. Sound(graph) /\ IInv /\ Grouped(graph)
  BY DEF GInv, IInv
<1>5. o \in Live(graph) /\ Matches(graph, "fusion_detect", i)
  BY <1>2, <1>4, RunningFinds
<1>6. IsFusable(graph, o)
  BY <1>5 DEF Matches
<1>7. pass = 10
  BY <1>2, <1>4, Stages
<1>8. Numbered(graph)
  BY <1>7 DEF GInv
<1> HIDE DEF o
<1>9. PICK rank : Paths(graph, rank)
  BY <1>4 DEF Grouped
<1>10. Ranks(graph, rank)
  BY <1>9 DEF Paths
<1>11. Path(graph, rank, c)
  BY <1>4, <1>5, <1>6, <1>10, ChainIsPath
<1>12. /\ id # NoGroup /\ id \in Nat
       /\ \A u \in Live(graph) : Group(graph, u) # id
       /\ FusionGroups(graph) = 0 .. (id - 1)
  BY <1>8, NextNumber
<1> HIDE DEF id, c
<1>13. \A v \in DOMAIN graph.value :
         /\ Formed(vs[v])
         /\ vs[v].mnemonic = graph.value[v].mnemonic
         /\ vs[v].operands = graph.value[v].operands
         /\ vs[v].attrs.fusion_group =
              IF v \in ToSet(c) THEN id ELSE graph.value[v].attrs.fusion_group
  <2>1. ASSUME NEW v \in DOMAIN graph.value
        PROVE  /\ Formed(vs[v])
               /\ vs[v].mnemonic = graph.value[v].mnemonic
               /\ vs[v].operands = graph.value[v].operands
               /\ vs[v].attrs.fusion_group =
                    IF v \in ToSet(c) THEN id ELSE graph.value[v].attrs.fusion_group
    <3> DEFINE op == graph.value[v]
               q == [op EXCEPT !.attrs.fusion_group = id]
    <3>1. Formed(op)
      BY <1>4 DEF Sound, AllFormed
    <3>2. vs[v] = IF v \in ToSet(c) THEN q ELSE op
      OBVIOUS
    <3> HIDE DEF op, vs
    <3>3. Formed(q) /\ q.mnemonic = op.mnemonic /\ q.operands = op.operands
      BY <3>1, EditsAreFormed
    <3>4. q.attrs.fusion_group = id
      BY <3>1 DEF Formed, WellAttributed
    <3> HIDE DEF q
    <3>5. QED
      BY <3>1, <3>2, <3>3, <3>4 DEF op
  <2>2. QED
    BY <2>1
<1>14. vs = [v \in DOMAIN graph.value |-> vs[v]]
  OBVIOUS
<1> HIDE DEF vs
<1>15. Retouched(graph, h) /\ h.ops = graph.ops /\ h.value = vs
  BY <1>4, <1>13, <1>14, RetouchedAll
<1> HIDE DEF h
<1>16. /\ Live(h) = Live(graph)
       /\ \A u \in DOMAIN graph.value : Operands(h, u) = Operands(graph, u)
       /\ Ranks(h, rank)
  BY <1>4, <1>10, <1>15, RetouchedSound
<1>17. \A u \in Live(graph) :
         /\ h.value[u].mnemonic = graph.value[u].mnemonic
         /\ Operands(h, u) = Operands(graph, u)
         /\ Group(h, u) = IF u \in ToSet(c) THEN id ELSE Group(graph, u)
  <2>1. \A u \in Live(graph) : u \in DOMAIN graph.value
    BY <1>4, OperandFacts
  <2>2. QED
    BY <1>13, <1>15, <1>16, <2>1 DEF Group
<1>18. Paths(h, rank)
  BY <1>4, <1>9, <1>11, <1>12, <1>16, <1>17, NewGroup
<1>19. Numbered(h)
  <2>1. \E u \in Live(graph) : u \in ToSet(c) /\ Group(graph, u) = NoGroup
    <3>1. c \in Seq(Live(graph)) /\ Len(c) >= 1
      BY <1>11 DEF Path
    <3>2. 1 \in 1 .. Len(c) /\ c[1] \in Live(graph) /\ c[1] \in ToSet(c)
      BY <3>1 DEF ToSet
    <3>3. \A k \in 1 .. Len(c) : IsFusable(graph, c[k])
      BY <1>11 DEF Path
    <3>4. IsFusable(graph, c[1])
      BY <3>2, <3>3
    <3>5. QED
      BY <3>2, <3>4 DEF IsFusable, Group
  <2>2. \A u \in ToSet(c) : u \in Live(graph) /\ Group(graph, u) = NoGroup
    <3>1. c \in Seq(Live(graph)) /\ \A k \in 1 .. Len(c) : IsFusable(graph, c[k])
      BY <1>11 DEF Path
    <3>2. ASSUME NEW u \in ToSet(c) PROVE u \in Live(graph) /\ IsFusable(graph, u)
      <4>1. PICK k \in 1 .. Len(c) : u = c[k]
        BY <3>1 DEF ToSet
      <4>2. QED
        BY <3>1, <4>1
    <3>3. QED
      BY <3>2 DEF IsFusable, Group
  <2>3. FusionGroups(h) = FusionGroups(graph) \cup {id}
    <3>1. FusionGroups(h) = {Group(h, u) : u \in Live(graph)} \ {NoGroup}
      BY <1>16 DEF FusionGroups, Group
    <3>2. FusionGroups(graph) = {Group(graph, u) : u \in Live(graph)} \ {NoGroup}
      BY DEF FusionGroups, Group
    <3>3. QED
      BY <1>12, <1>17, <2>1, <2>2, <3>1, <3>2
  <2>4. FusionGroups(h) = 0 .. (id + 1 - 1)
    BY <1>12, <2>3
  <2>5. QED
    BY <1>12, <2>4 DEF Numbered
<1>20. Grouped(graph') /\ Numbered(graph') /\ pass' = 10
  BY <1>3, <1>7, <1>18, <1>19 DEF Grouped
<1>21. QED
  BY <1>20 DEF GInv

(***************************************************************************)
(* The layout passes.  What a transpose reads has a reader outside of its  *)
(* group, since groups hold elementwise operators only.                    *)
(***************************************************************************)
LEMMA BehindTranspose ==
  ASSUME NEW g, Sound(g), NEW rank, Paths(g, rank), NEW t \in Live(g),
         g.value[t].mnemonic = "transpose"
  PROVE  Open(g, Input(g, t)) /\ Group(g, t) = NoGroup
<1>1. Ranks(g, rank) /\ OnlyElementwise(g)
  BY DEF Paths
<1>2. "transpose" \notin Elementwise
  BY DEF Elementwise, Binary
<1>3. Group(g, t) = NoGroup
  BY <1>1, <1>2 DEF OnlyElementwise
<1>4. Input(g, t) \in Operands(g, t)
  BY <1>1, TransposeFacts
<1>5. t \in Readers(g, Input(g, t))
  BY <1>4 DEF Readers
<1>6. QED
  BY <1>3, <1>5 DEF Open

\* pass_transpose_elim: two transposes that undo each other.
LEMMA TransposePairGroups ==
  ASSUME NEW g, Sound(g), Grouped(g), NEW o \in Live(g), IsTransposePair(g, o)
  PROVE  Grouped(Replaced(g, o, Input(g, Input(g, o))))
<1> DEFINE prev == Input(g, o)
           x == Input(g, prev)
<1>1. PICK rank : Paths(g, rank)
  BY DEF Grouped
<1>2. Ranks(g, rank)
  BY <1>1 DEF Paths
<1>3. /\ g.value[o].mnemonic = "transpose"
      /\ prev \in Live(g) /\ g.value[prev].mnemonic = "transpose"
  BY DEF IsTransposePair, Is
<1>4. rank[prev] < rank[o] /\ rank[prev] \in Nat /\ rank[o] \in Nat
  BY <1>2, <1>3, TransposeFacts
<1>5. x \in Sources(g) /\ rank[x] < rank[prev] /\ rank[x] \in Nat
  BY <1>2, <1>3, TransposeFacts
<1>6. Open(g, x)
  BY <1>1, <1>3, BehindTranspose
<1> HIDE DEF prev, x
<1>7. rank[x] <= rank[o] /\ x # o
  BY <1>4, <1>5
<1>8. Paths(Replaced(g, o, x), rank)
  BY <1>1, <1>5, <1>6, <1>7, ReplacedByOpen
<1>9. Grouped(Replaced(g, o, x))
  BY <1>8 DEF Grouped
<1>10. QED
  BY <1>9 DEF x, prev

\* Two others become one.
LEMMA TransposeMergeGroups ==
  ASSUME NEW g, Sound(g), Grouped(g), NEW o \in Live(g), IsTransposePair(g, o)
  PROVE  LET composed == (Permutation(g, Input(g, o)) + Permutation(g, o)) % 3
             k == AddOp(g, Op("transpose", <<Input(g, Input(g, o))>>, g.value[o].type, 0,
                              [NoAttrs EXCEPT !.permutation = composed]))
         IN  Grouped(Replaced(k, o, Newest(k)))
<1> DEFINE prev == Input(g, o)
           x == Input(g, prev)
           composed == (Permutation(g, prev) + Permutation(g, o)) % 3
           type == g.value[o].type
           op == Op("transpose", <<x>>, type, 0, [NoAttrs EXCEPT !.permutation = composed])
           k == AddOp(g, op)
<1>1. PICK rank : Paths(g, rank)
  BY DEF Grouped
<1>2. Ranks(g, rank)
  BY <1>1 DEF Paths
<1>3. /\ g.value[o].mnemonic = "transpose"
      /\ prev \in Live(g) /\ g.value[prev].mnemonic = "transpose"
      /\ type \in Types
  BY OperandFacts DEF IsTransposePair, Is, Formed
<1>4. /\ rank[prev] < rank[o] /\ rank[prev] \in Nat /\ rank[o] \in Nat
      /\ Permutation(g, o) \in Rotations
  BY <1>2, <1>3, TransposeFacts
<1>5. /\ x \in Sources(g) /\ rank[x] < rank[prev] /\ rank[x] \in Nat /\ x \in Nat
      /\ Permutation(g, prev) \in Rotations
  BY <1>2, <1>3, TransposeFacts
<1>6. Open(g, x)
  BY <1>1, <1>3, BehindTranspose
<1>7. composed \in Rotations
  <2>1. Permutation(g, prev) + Permutation(g, o) \in Int
    BY <1>4, <1>5 DEF Rotations
  <2>2. QED
    BY <2>1 DEF Rotations
<1> HIDE DEF prev, x, composed, type
<1>8. Formed(op) /\ op.mnemonic = "transpose" /\ ToSet(op.operands) = {x}
  BY <1>3, <1>5, <1>7, TransposeIsFormed
<1>9. op.attrs.fusion_group = NoGroup
  BY DEF Op, NoAttrs
<1> HIDE DEF op
<1>10. op.mnemonic # "arg" /\ ToSet(op.operands) \subseteq Sources(g)
  BY <1>5, <1>8
<1>11. \A v \in ToSet(op.operands) : rank[v] < rank[o] /\ Open(g, v)
  BY <1>4, <1>5, <1>6, <1>8
<1>12. Grouped(Replaced(k, o, Newest(k)))
  BY <1>1, <1>8, <1>9, <1>10, <1>11, AddThenReplaceGrouped
<1>13. QED
  BY <1>12 DEF k, op, composed, type, x, prev

\* pass_transpose_push.
LEMMA TransposePushGroups ==
  ASSUME NEW g, Sound(g), Grouped(g), NEW o \in Live(g), IsPushable(g, o)
  PROVE  LET op == g.value[o]
             l  == Input(g, op.operands[1])
             r  == Input(g, op.operands[2])
             nb == AddOp(g, Op(op.mnemonic, <<l, r>>, g.value[l].type, 0,
                               [op.attrs EXCEPT !.fusion_group = NoGroup]))
             nt == AddOp(nb, Op("transpose", <<Newest(nb)>>, op.type, 0,
                                [NoAttrs EXCEPT !.permutation =
                                   Permutation(g, op.operands[1])]))
         IN  Grouped(Replaced(nt, o, Newest(nt)))
<1> DEFINE op == g.value[o]
           t1 == op.operands[1]
           t2 == op.operands[2]
           l == Input(g, t1)
           r == Input(g, t2)
           bop == Op(op.mnemonic, <<l, r>>, g.value[l].type, 0,
                     [op.attrs EXCEPT !.fusion_group = NoGroup])
           nb == AddOp(g, bop)
           new == Len(g.value) + 1
           p == Permutation(g, t1)
           top == Op("transpose", <<new>>, op.type, 0, [NoAttrs EXCEPT !.permutation = p])
           nt == AddOp(nb, top)
           h == Replaced(nt, o, Newest(nt))
<1>1. PICK rank : Paths(g, rank)
  BY DEF Grouped
<1>2. Ranks(g, rank)
  BY <1>1 DEF Paths
<1>3. /\ op.mnemonic \in Binary
      /\ \A v \in Operands(g, o) : v \in Live(g) /\ g.value[v].mnemonic = "transpose"
  BY DEF IsPushable, Is
<1>4. /\ t1 \in Operands(g, o) /\ t2 \in Operands(g, o)
      /\ o \in DOMAIN g.value
      /\ WellAttributed(op.attrs) /\ op.type \in Types
  <2>1. Arity(op.mnemonic) = 2
    BY <1>3 DEF Arity, Binary
  <2>2. /\ o \in DOMAIN g.value /\ Formed(op)
        /\ \A k \in 1 .. Arity(op.mnemonic) : op.operands[k] \in Operands(g, o)
    BY OperandFacts
  <2>3. WellAttributed(op.attrs) /\ op.type \in Types
    BY <2>2 DEF Formed
  <2>4. 1 \in 1 .. Arity(op.mnemonic) /\ 2 \in 1 .. Arity(op.mnemonic)
    BY <2>1
  <2>5. QED
    BY <2>2, <2>3, <2>4
<1>5. /\ rank[t1] < rank[o] /\ rank[t2] < rank[o] /\ rank[o] \in Nat
  BY <1>2, <1>4, RankFacts DEF Sources
<1> HIDE DEF t1, t2
<1>6. /\ t1 \in Live(g) /\ g.value[t1].mnemonic = "transpose"
      /\ t2 \in Live(g) /\ g.value[t2].mnemonic = "transpose"
  BY <1>3, <1>4
<1>7. /\ l \in Sources(g) /\ l \in Nat
      /\ rank[l] < rank[t1] /\ rank[l] \in Nat /\ rank[t1] \in Nat
      /\ p \in Rotations
  BY <1>2, <1>6, TransposeFacts
<1>8. /\ r \in Sources(g) /\ r \in Nat
      /\ rank[r] < rank[t2] /\ rank[r] \in Nat /\ rank[t2] \in Nat
  BY <1>2, <1>6, TransposeFacts
<1>9. Open(g, l) /\ Open(g, r)
  BY <1>1, <1>6, BehindTranspose
<1> HIDE DEF l, r, p
<1>10. g.value[l].type \in Types
  BY <1>7, SoundDomains DEF Sound, AllFormed, Formed
<1>11. Formed(bop) /\ bop.mnemonic = op.mnemonic /\ ToSet(bop.operands) = {l, r}
  <2> DEFINE mn == op.mnemonic
             a == op.attrs
             type == g.value[l].type
  <2>1. mn \in Binary /\ WellAttributed(a) /\ type \in Types
    BY <1>3, <1>4, <1>10
  <2> HIDE DEF mn, a, type
  <2>2. LET q == Op(mn, <<l, r>>, type, 0, [a EXCEPT !.fusion_group = NoGroup]) IN
        Formed(q) /\ q.mnemonic = mn /\ ToSet(q.operands) = {l, r}
    BY <1>7, <1>8, <2>1, BinaryIsFormed
  <2>3. QED
    BY <2>2 DEF mn, a, type
<1>12. bop.attrs.fusion_group = NoGroup
  BY <1>4 DEF Op, WellAttributed
<1> HIDE DEF bop
<1>13. bop.mnemonic # "arg"
  BY <1>3, <1>11 DEF Binary
<1>14. ToSet(bop.operands) \subseteq Sources(g)
  BY <1>7, <1>8, <1>11
<1> DEFINE n == rank[o] - 1
<1>15. n \in Nat /\ n < rank[o] /\ rank[l] < n /\ rank[r] < n
  BY <1>5, <1>7, <1>8
<1> HIDE DEF n
<1>16. \A v \in ToSet(bop.operands) : rank[v] < n /\ Open(g, v)
  BY <1>9, <1>11, <1>15
<1>17. Sound(nb) /\ Sources(nb) = Sources(g) \cup {new}
  BY <1>11, <1>13, <1>14, AddOpSound
<1>18. Added(g, bop, nb, new)
  BY AddOpEntries
<1>19. Newest(nb) = new /\ Live(nb) = Live(g) \cup {new} /\ nb.value[new] = bop
  BY <1>18 DEF Added
<1>20. PICK s : /\ Paths(nb, s)
                /\ s[new] = n
                /\ \A v \in DOMAIN g.value : s[v] = rank[v]
  <2>1. n \in Nat
    BY <1>15
  <2>2. \E s : /\ Paths(AddOp(g, bop), s)
               /\ s[Len(g.value) + 1] = n
               /\ \A v \in DOMAIN g.value : s[v] = rank[v]
    BY <1>1, <1>12, <1>14, <1>16, <2>1, AddedGroups
  <2>3. QED
    BY <2>2
<1>21. new \in Nat
  BY SoundDomains
<1> HIDE DEF nb, new
<1>22. Formed(top) /\ top.mnemonic = "transpose" /\ ToSet(top.operands) = {new}
  BY <1>4, <1>7, <1>21, TransposeIsFormed
<1>23. top.attrs.fusion_group = NoGroup
  BY DEF Op, NoAttrs
<1> HIDE DEF top
<1>24. /\ top.mnemonic # "arg"
       /\ ToSet(top.operands) \subseteq Sources(nb)
       /\ o \in Live(nb)
  BY <1>17, <1>19, <1>22
<1>25. Open(nb, new)
  BY <1>12, <1>19 DEF Open, Group
<1>26. \A v \in ToSet(top.operands) : s[v] < s[o] /\ Open(nb, v)
  BY <1>4, <1>15, <1>20, <1>22, <1>25
<1>27. Grouped(h)
  BY <1>17, <1>20, <1>22, <1>23, <1>24, <1>26, AddThenReplaceGrouped
<1>28. top = Op("transpose", <<Newest(nb)>>, op.type, 0,
                [NoAttrs EXCEPT !.permutation = p])
  BY <1>19 DEF top
<1>29. QED
  BY <1>27, <1>28 DEF h, nt, nb, bop, l, r, p, t1, t2

\* pass_nchw_nhwc_layout.
LEMMA OutputLayoutGroups ==
  ASSUME NEW g, Sound(g), Grouped(g), NEW o \in Live(g), IsOutputLayout(g, o)
  PROVE  LET conv == Input(g, o)
             k == [g EXCEPT !.value[conv] = WithNhwcOutput(@)]
         IN  Grouped(Replaced(k, o, conv))
<1> DEFINE conv == Input(g, o)
           q == WithNhwcOutput(g.value[conv])
           k == [g EXCEPT !.value = [g.value EXCEPT ![conv] = q]]
           h == Replaced(k, o, conv)
<1>1. PICK rank : Paths(g, rank)
  BY DEF Grouped
<1>2. g.value[o].mnemonic = "transpose" /\ conv \in Live(g)
  BY DEF IsOutputLayout, Is
<1>3. conv \in Operands(g, o)
  BY <1>1, <1>2, TransposeFacts DEF Paths
<1> HIDE DEF conv
<1>4. conv \in DOMAIN g.value /\ Formed(g.value[conv]) /\ o \in DOMAIN g.value
  BY <1>2, OperandFacts
<1>5. Formed(q) /\ q.mnemonic = g.value[conv].mnemonic
      /\ q.operands = g.value[conv].operands
  BY <1>4, WithNhwcOutputIsFormed
<1>6. q.attrs.fusion_group = g.value[conv].attrs.fusion_group
  BY <1>4 DEF WithNhwcOutput, Formed, WellAttributed
<1> HIDE DEF q
<1>7. Retouched(g, k) /\ k.ops = g.ops
  BY <1>4, <1>5, RetouchedOne
<1>8. \A u \in Live(g) : Group(k, u) = Group(g, u)
  <2>1. k.value = [g.value EXCEPT ![conv] = q]
    BY DEF Sound, Tables
  <2>2. \A u \in Live(g) : u \in DOMAIN g.value
    BY OperandFacts
  <2> HIDE DEF k
  <2>3. QED
    BY <1>6, <2>1, <2>2 DEF Group
<1> HIDE DEF k
<1>9. Paths(k, rank)
  BY <1>1, <1>7, <1>8, RetouchedGroups
<1>10. Sound(k) /\ Live(k) = Live(g) /\ Operands(k, o) = Operands(g, o)
  BY <1>4, <1>7, RetouchedSound
<1>11. Grouped(k)
  BY <1>9 DEF Grouped
<1>12. Grouped(h)
  BY <1>2, <1>3, <1>10, <1>11, ReplacedByMember
<1>13. [g EXCEPT !.value[conv] = WithNhwcOutput(@)] = k
  BY DEF k, q
<1>14. QED
  BY <1>12, <1>13 DEF h, conv

\* pass_nhwc_nchw_layout: with the readers of the transpose moved to its
\* input, the transpose has none and goes.
LEMMA InputLayoutGroups ==
  ASSUME NEW g, Sound(g), Grouped(g), NEW conv \in Live(g), IsInputLayout(g, conv)
  PROVE  LET t == Input(g, conv)
             l == ReplaceAllUses([g EXCEPT !.value[conv].attrs.input_layout = "NHWC"],
                                 t, Input(g, t))
         IN  Grouped(IF l.users[t] = {} THEN EraseOp(l, t) ELSE l)
<1> DEFINE t == Input(g, conv)
           x == Input(g, t)
           q == [g.value[conv] EXCEPT !.attrs.input_layout = "NHWC"]
           k == [g EXCEPT !.value = [g.value EXCEPT ![conv] = q]]
           l == ReplaceAllUses(k, t, x)
           h == IF l.users[t] = {} THEN EraseOp(l, t) ELSE l
<1>1. PICK rank : Paths(g, rank)
  BY DEF Grouped
<1>2. /\ g.value[conv].mnemonic = "convolution"
      /\ t \in Live(g) /\ g.value[t].mnemonic = "transpose"
  BY DEF IsInputLayout, Is
<1>3. x \in Sources(g) /\ x \in Operands(g, t)
      /\ rank[x] < rank[t] /\ rank[x] \in Nat /\ rank[t] \in Nat
  BY <1>1, <1>2, TransposeFacts DEF Paths
<1> HIDE DEF t, x
<1>4. conv \in DOMAIN g.value /\ Formed(g.value[conv]) /\ t \in DOMAIN g.value
  BY <1>2, OperandFacts
<1>5. Formed(q) /\ q.mnemonic = g.value[conv].mnemonic
      /\ q.operands = g.value[conv].operands
  BY <1>4, EditsAreFormed
<1>6. q.attrs.fusion_group = g.value[conv].attrs.fusion_group
  BY <1>4 DEF Formed, WellAttributed
<1> HIDE DEF q
<1>7. Retouched(g, k) /\ k.ops = g.ops
  BY <1>4, <1>5, RetouchedOne
<1>8. \A u \in Live(g) : Group(k, u) = Group(g, u)
  <2>1. k.value = [g.value EXCEPT ![conv] = q]
    BY DEF Sound, Tables
  <2>2. \A u \in Live(g) : u \in DOMAIN g.value
    BY OperandFacts
  <2> HIDE DEF k
  <2>3. QED
    BY <1>6, <2>1, <2>2 DEF Group
<1>9. [g EXCEPT !.value[conv].attrs.input_layout = "NHWC"] = k
  BY DEF q
<1> HIDE DEF k
<1>10. Paths(k, rank)
  BY <1>1, <1>7, <1>8, RetouchedGroups
<1>11. /\ Sound(k) /\ Live(k) = Live(g) /\ Sources(k) = Sources(g)
       /\ Operands(k, t) = Operands(g, t)
  BY <1>4, <1>7, RetouchedSound
<1>12. t \in Sources(k) /\ x \in Sources(k) /\ t # x /\ t \in Live(k)
  BY <1>2, <1>3, <1>11 DEF Sources
<1>13. l.users[t] = {}
  BY <1>11, <1>12, RewiredEntries DEF Rewired
<1>14. h = Replaced(k, t, x)
  BY <1>13 DEF Replaced
<1>15. x \in Operands(k, t) /\ Grouped(k)
  BY <1>3, <1>10, <1>11 DEF Grouped
<1> HIDE DEF h
<1>16. Grouped(h)
  BY <1>11, <1>12, <1>14, <1>15, ReplacedByMember
<1>17. QED
  BY <1>9, <1>16 DEF h, l, t, x

\* Steps of these passes.
LEMMA TransposeGroups ==
  ASSUME GInv, IInv', TransposeElim \/ TransposePush
  PROVE  GInv'
<1>1. Sound(graph) /\ IInv /\ Grouped(graph)
  BY DEF GInv, IInv
<1>2. /\ pass > 10 /\ pass \in 1 .. 18
      /\ \E h : Grouped(h) /\ Restart(h)
  <2>1. CASE TransposeElim
    <3>1. PICK i \in Found :
           LET o        == graph.ops[i]
               prev     == Input(graph, o)
               composed == (Permutation(graph, prev) + Permutation(graph, o)) % 3
           IN \/ composed = 0 /\ Restart(Replaced(graph, o, Input(graph, prev)))
              \/ /\ composed # 0
                 /\ \E g \in {AddOp(graph, Op("transpose", <<Input(graph, prev)>>,
                                graph.value[o].type, 0,
                                [NoAttrs EXCEPT !.permutation = composed]))} :
                      Restart(Replaced(g, o, Newest(g)))
      BY <2>1, Zenon DEF TransposeElim
    <3>2. Running("transpose_elim")
      BY <2>1, Zenon DEF TransposeElim
    <3> DEFINE o == graph.ops[i]
               prev == Input(graph, o)
               composed == (Permutation(graph, prev) + Permutation(graph, o)) % 3
               k == AddOp(graph, Op("transpose", <<Input(graph, prev)>>,
                                    graph.value[o].type, 0,
                                    [NoAttrs EXCEPT !.permutation = composed]))
               pair == Replaced(graph, o, Input(graph, prev))
               merged == Replaced(k, o, Newest(k))
    <3>3. Restart(pair) \/ Restart(merged)
      BY <3>1
    <3>4. o \in Live(graph) /\ Matches(graph, "transpose_elim", i)
      BY <1>1, <3>2, RunningFinds
    <3>5. IsTransposePair(graph, o)
      BY <3>4 DEF Matches
    <3>6. Grouped(pair)
      BY <1>1, <3>4, <3>5, TransposePairGroups
    <3>7. Grouped(merged)
      BY <1>1, <3>4, <3>5, TransposeMergeGroups
    <3>8. pass > 10 /\ pass \in 1 .. 18
      BY <1>1, <3>2, Stages
    <3> HIDE DEF pair, merged
    <3>9. QED
      BY <3>3, <3>6, <3>7, <3>8
  <2>2. CASE TransposePush
    <3>1. PICK i \in Found :
           LET o  == graph.ops[i]
               op == graph.value[o]
               l  == Input(graph, op.operands[1])
               r  == Input(graph, op.operands[2])
           IN \E nb \in {AddOp(graph, Op(op.mnemonic, <<l, r>>, graph.value[l].type, 0,
                           [op.attrs EXCEPT !.fusion_group = NoGroup]))} :
              \E nt \in {AddOp(nb, Op("transpose", <<Newest(nb)>>, op.type, 0,
                           [NoAttrs EXCEPT !.permutation =
                              Permutation(graph, op.operands[1])]))} :
                Restart(Replaced(nt, o, Newest(nt)))
      BY <2>2, Zenon DEF TransposePush
    <3>2. Running("transpose_push")
      BY <2>2, Zenon DEF TransposePush
    <3> DEFINE o == graph.ops[i]
               op == graph.value[o]
               l  == Input(graph, op.operands[1])
               r  == Input(graph, op.operands[2])
               nb == AddOp(graph, Op(op.mnemonic, <<l, r>>, graph.value[l].type, 0,
                                     [op.attrs EXCEPT !.fusion_group = NoGroup]))
               nt == AddOp(nb, Op("transpose", <<Newest(nb)>>, op.type, 0,
                                  [NoAttrs EXCEPT !.permutation =
                                     Permutation(graph, op.operands[1])]))
               h == Replaced(nt, o, Newest(nt))
    <3>3. Restart(h)
      BY <3>1
    <3>4. o \in Live(graph) /\ Matches(graph, "transpose_push", i)
      BY <1>1, <3>2, RunningFinds
    <3>5. IsPushable(graph, o)
      BY <3>4 DEF Matches
    <3>6. Grouped(h)
      BY <1>1, <3>4, <3>5, TransposePushGroups
    <3>7. pass > 10 /\ pass \in 1 .. 18
      BY <1>1, <3>2, Stages
    <3> HIDE DEF h
    <3>8. QED
      BY <3>3, <3>6, <3>7
  <2>3. QED
    BY <2>1, <2>2
<1>3. PICK h : Grouped(h) /\ Restart(h)
  BY <1>2
<1>4. graph' = h /\ pass' = pass /\ pass # 10 /\ ~(pass < 10)
  BY <1>2, <1>3 DEF Restart
<1>5. QED
  BY <1>3, <1>4, OtherStep

\* pass_nchw_nhwc_layout and pass_nhwc_nchw_layout.
LEMMA LayoutGroups ==
  ASSUME GInv, IInv', NchwNhwcLayout \/ NhwcNchwLayout
  PROVE  GInv'
<1>1. Sound(graph) /\ IInv /\ Grouped(graph)
  BY DEF GInv, IInv
<1>2. /\ pass > 10 /\ pass \in 1 .. 18
      /\ \E h : Grouped(h) /\ graph' = h /\ pass' = pass
  <2>1. CASE NchwNhwcLayout
    <3>1. PICK i \in Found :
           LET o    == graph.ops[i]
               conv == Input(graph, o)
               g    == [graph EXCEPT !.value[conv] = WithNhwcOutput(@)]
           IN SweepOn(Replaced(g, o, conv), i)
      BY <2>1, Zenon DEF NchwNhwcLayout
    <3>2. Running("nchw_nhwc_layout")
      BY <2>1, Zenon DEF NchwNhwcLayout
    <3> DEFINE o == graph.ops[i]
               conv == Input(graph, o)
               g == [graph EXCEPT !.value[conv] = WithNhwcOutput(@)]
               h == Replaced(g, o, conv)
    <3>3. SweepOn(h, i)
      BY <3>1
    <3>4. o \in Live(graph) /\ Matches(graph, "nchw_nhwc_layout", i)
      BY <1>1, <3>2, RunningFinds
    <3>5. IsOutputLayout(graph, o)
      BY <3>4 DEF Matches
    <3>6. Grouped(h)
      BY <1>1, <3>4, <3>5, OutputLayoutGroups
    <3>7. pass > 10 /\ pass \in 1 .. 18
      BY <1>1, <3>2, Stages
    <3> HIDE DEF h
    <3>8. QED
      BY <3>3, <3>6, <3>7 DEF SweepOn
  <2>2. CASE NhwcNchwLayout
    <3>1. PICK i \in Found :
           LET conv == graph.ops[i]
               t    == Input(graph, conv)
               g    == ReplaceAllUses(
                         [graph EXCEPT !.value[conv].attrs.input_layout = "NHWC"],
                         t, Input(graph, t))
           IN SweepOn(IF g.users[t] = {} THEN EraseOp(g, t) ELSE g, i)
      BY <2>2, Zenon DEF NhwcNchwLayout
    <3>2. Running("nhwc_nchw_layout")
      BY <2>2, Zenon DEF NhwcNchwLayout
    <3> DEFINE conv == graph.ops[i]
               t == Input(graph, conv)
               g == ReplaceAllUses(
                      [graph EXCEPT !.value[conv].attrs.input_layout = "NHWC"],
                      t, Input(graph, t))
               h == IF g.users[t] = {} THEN EraseOp(g, t) ELSE g
    <3>3. SweepOn(h, i)
      BY <3>1
    <3>4. conv \in Live(graph) /\ Matches(graph, "nhwc_nchw_layout", i)
      BY <1>1, <3>2, RunningFinds
    <3>5. IsInputLayout(graph, conv)
      BY <3>4 DEF Matches
    <3>6. Grouped(h)
      BY <1>1, <3>4, <3>5, InputLayoutGroups
    <3>7. pass > 10 /\ pass \in 1 .. 18
      BY <1>1, <3>2, Stages
    <3> HIDE DEF h
    <3>8. QED
      BY <3>3, <3>6, <3>7 DEF SweepOn
  <2>3. QED
    BY <2>1, <2>2
<1>3. PICK h : Grouped(h) /\ graph' = h /\ pass' = pass
  BY <1>2
<1>4. pass # 10 /\ ~(pass < 10)
  BY <1>2
<1>5. QED
  BY <1>3, <1>4, OtherStep

\* stage6_legalize.
LEMMA LegalizeGroups ==
  ASSUME GInv, IInv', Legalize
  PROVE  GInv'
<1> DEFINE legal(v) == v \in Live(graph) /\ graph.value[v].mnemonic \in Legalizable
           vs == [v \in DOMAIN graph.value |-> [graph.value[v] EXCEPT !.legal = legal(v)]]
           h == [graph EXCEPT !.value = vs]
<1>1. graph' = h /\ pass' = pass + 1
  BY DEF Legalize
<1>2. Running("legalize")
  BY Zenon DEF Legalize
<1>3. Sound(graph) /\ IInv /\ Grouped(graph)
  BY DEF GInv, IInv
<1>4. pass > 10 /\ pass \in 1 .. 18
  BY <1>2, <1>3, Stages
<1>5. \A v \in DOMAIN graph.value :
        /\ Formed(vs[v])
        /\ vs[v].mnemonic = graph.value[v].mnemonic
        /\ vs[v].operands = graph.value[v].operands
        /\ vs[v].attrs = graph.value[v].attrs
  <2>1. ASSUME NEW v \in DOMAIN graph.value
        PROVE  /\ Formed(vs[v])
               /\ vs[v].mnemonic = graph.value[v].mnemonic
               /\ vs[v].operands = graph.value[v].operands
               /\ vs[v].attrs = graph.value[v].attrs
    <3> DEFINE op == graph.value[v]
               yes == legal(v)
               q == [op EXCEPT !.legal = yes]
    <3>1. Formed(op)
      BY <1>3 DEF Sound, AllFormed
    <3>2. vs[v] = q
      OBVIOUS
    <3> HIDE DEF op, yes, vs
    <3>3. Formed(q) /\ q.mnemonic = op.mnemonic /\ q.operands = op.operands
      BY <3>1, EditsAreFormed
    <3>4. q.attrs = op.attrs
      BY <3>1 DEF Formed
    <3> HIDE DEF q
    <3>5. QED
      BY <3>2, <3>3, <3>4 DEF op
  <2>2. QED
    BY <2>1
<1>6. vs = [v \in DOMAIN graph.value |-> vs[v]]
  OBVIOUS
<1> HIDE DEF vs
<1>7. Retouched(graph, h) /\ h.value = vs
  BY <1>3, <1>5, <1>6, RetouchedAll
<1> HIDE DEF h
<1>8. \A u \in Live(graph) : Group(h, u) = Group(graph, u)
  BY <1>3, <1>5, <1>7, OperandFacts DEF Group
<1>9. \A rank : Paths(graph, rank) => Paths(h, rank)
  BY <1>3, <1>7, <1>8, RetouchedGroups
<1>10. Grouped(h)
  BY <1>3, <1>9 DEF Grouped
<1>11. Grouped(graph') /\ ~(pass' < 10) /\ pass' # 10
  BY <1>1, <1>4, <1>10
<1>12. QED
  BY <1>11 DEF GInv

\* A pass that finds nothing more.  Where detection is to start, no number is
\* in use.
LEMMA EndPassGroups ==
  ASSUME GInv, IInv', EndPass
  PROVE  GInv'
<1>1. graph' = graph /\ pass' = pass + 1
  BY DEF EndPass
<1>2. Grouped(graph') /\ pass \in Nat
  <2>1. Len(Pipeline) \in Nat
    BY PipelineLength
  <2>2. pass \in 1 .. (Len(Pipeline) + 1)
    BY DEF GInv, IInv
  <2> HIDE DEF Pipeline
  <2>3. pass \in Nat
    BY <2>1, <2>2
  <2>4. QED
    BY <1>1, <2>3 DEF GInv
<1>3. pass' < 10 => Ungrouped(graph')
  BY <1>1, <1>2 DEF GInv
<1>4. ASSUME pass' = 10 PROVE Numbered(graph')
  <2>1. Ungrouped(graph)
    BY <1>1, <1>2, <1>4 DEF GInv
  <2>2. FusionGroups(graph) = {}
    BY <2>1 DEF FusionGroups, Ungrouped, Group
  <2>3. FusionGroups(graph) = 0 .. (0 - 1)
    BY <2>2
  <2>4. Numbered(graph)
    BY <2>3 DEF Numbered
  <2>5. QED
    BY <1>1, <2>4
<1>5. QED
  BY <1>2, <1>3, <1>4 DEF GInv

\* The groups are paths at the start, where there are none.
LEMMA InitGroups ==
  ASSUME Init
  PROVE  GInv
<1>1. IInv
  BY InitHolds
<1>2. Ungrouped(graph)
  BY GraphsAssumption, BuiltIsUngrouped DEF Init
<1>3. Grouped(graph)
  BY <1>1, <1>2, UngroupedIsGrouped DEF IInv
<1>4. pass # 10
  BY DEF Init
<1>5. QED
  BY <1>1, <1>2, <1>3, <1>4 DEF GInv

\* No pass breaks them.
LEMMA NextGroups ==
  ASSUME GInv, [Next]_vars
  PROVE  GInv'
<1>1. IInv
  BY DEF GInv
<1>2. IInv'
  BY <1>1, NextKeeps
<1>3. ASSUME AlgebraicSimplify \/ IdentityElim PROVE GInv'
  BY <1>2, <1>3, SimplifyGroups
<1>4. ASSUME ShapeInfer \/ ShapeFold \/ ConstantFold PROVE GInv'
  BY <1>2, <1>4, ShapeInferGroups, FoldsGroups
<1>5. ASSUME ShapeSubgraphElim \/ Dce PROVE GInv'
  BY <1>2, <1>5, ErasuresGroups
<1>6. ASSUME Cse \/ ConvBnFusion PROVE GInv'
  BY <1>2, <1>6, CseGroups, ConvBnGroups
<1>7. ASSUME FusionDetect PROVE GInv'
  BY <1>2, <1>7, FusionDetectGroups
<1>8. ASSUME TransposeElim \/ TransposePush PROVE GInv'
  BY <1>2, <1>8, TransposeGroups
<1>9. ASSUME NchwNhwcLayout \/ NhwcNchwLayout PROVE GInv'
  BY <1>2, <1>9, LayoutGroups
<1>10. ASSUME Legalize \/ EndPass PROVE GInv'
  BY <1>2, <1>10, LegalizeGroups, EndPassGroups
<1>11. ASSUME UNCHANGED vars PROVE GInv'
  <2>1. graph' = graph /\ pass' = pass
    BY <1>11 DEF vars
  <2>2. QED
    BY <1>2, <2>1 DEF GInv
<1>12. QED
  BY <1>3, <1>4, <1>5, <1>6, <1>7, <1>8, <1>9, <1>10, <1>11 DEF Next

\* What the invariant says of the intermediates of a group.
LEMMA GroupsSay ==
  ASSUME GInv
  PROVE  FusedIntermediatesPrivate
<1>1. Sound(graph) /\ Private(graph)
  BY DEF GInv, IInv, Grouped, Paths
<1>2. ASSUME NEW o \in Live(graph),
             graph.value[o].attrs.fusion_group # NoGroup,
             NEW u \in graph.users[o],
             graph.value[u].attrs.fusion_group = graph.value[o].attrs.fusion_group
      PROVE  Cardinality(graph.users[o]) = 1
  <2>1. o \in DOMAIN graph.value
    BY <1>1, OperandFacts
  <2>2. graph.users[o] = Readers(graph, o)
    BY <1>1, <2>1 DEF Sound, UsersMirror, Readers
  <2>3. graph.users[o] = {u}
    BY <1>1, <1>2, <2>2 DEF Private, Group
  <2>4. QED
    BY <2>3, FS_Singleton
<1>3. QED
  BY <1>2 DEF FusedIntermediatesPrivate

\* In every fusion group that pass_fusion_detect has made, what one member
\* feeds to another goes to nobody else, whatever the layout and the clean-up
\* passes make of the group's operators.
THEOREM GroupsArePrivate == Spec => []FusedIntermediatesPrivate
<1>1. Init => GInv
  BY InitGroups
<1>2. GInv /\ [Next]_vars => GInv'
  BY NextGroups
<1>3. GInv => FusedIntermediatesPrivate
  BY GroupsSay
<1>4. QED
  BY <1>1, <1>2, <1>3, PTL DEF Spec
=============================================================================
