-------------------------- MODULE Lowering_proofs --------------------------
(***************************************************************************)
(* The three tiers of P4 name every operation once, read nothing that was  *)
(* not computed before, leave nothing of a node they fail on, and return   *)
(* every output when they report success, for every graph and every type.  *)
(*                                                                         *)
(* The argument.  A pattern is a chain of Emit calls, and one such call    *)
(* keeps a well-named program well named: the new name is the length of    *)
(* the program.  Operands come from the value map, which holds arguments   *)
(* and results only, so only the first tier, which asks for nothing, can   *)
(* read a value that is missing.  A map of names that only grows, with one *)
(* node per name, makes success a matter of counting errors.               *)
(*                                                                         *)
(* They also emit a program that type-checks unless the code's own lapses  *)
(* are met.  The invariant behind it: while there is no lapse, every name  *)
(* in the value map is a tensor, every converted node has the shape ONNX   *)
(* gives to its output, and the operands it reads are in the map.  Each    *)
(* pattern, from such operands, emits operations that type-check and ends  *)
(* with one that has that shape.                                           *)
(***************************************************************************)
EXTENDS Lowering, WellFoundedInduction, FiniteSetTheorems, TLAPS

-----------------------------------------------------------------------------
(***************************************************************************)
(* Induction over a set of natural numbers: the library's theorems take an *)
(* operator, which the provers cannot instantiate.                         *)
(***************************************************************************)
\* A set of natural numbers has a least element.
LEMMA LeastNat ==
  ASSUME NEW T, T \subseteq Nat, T # {}
  PROVE  \E x \in T : \A y \in T : x <= y
<1>1. IsWellFoundedOn(OpToRel(<, Nat), Nat)
  BY NatLessThanWellFounded
<1>2. PICK x \in T : \A y \in T : ~(<<y, x>> \in OpToRel(<, Nat))
  BY <1>1, WFMin
<1>3. OpToRel(<, Nat) = {ss \in Nat \X Nat : ss[1] < ss[2]}
  BY Zenon DEF OpToRel
<1> DEFINE Less == {ss \in Nat \X Nat : ss[1] < ss[2]}
<1>4. \A y \in T : <<y, x>> \notin Less
  BY <1>2, <1>3, Zenon
<1>5. \A y \in T : ~(y < x)
  BY <1>4
<1>6. \A y \in T : x <= y
  BY <1>5, x \in Nat
<1>7. QED
  BY <1>6

\* A set with 0 and the successors of its elements up to a bound has the numbers up
\* to the bound.
LEMMA UpTo ==
  ASSUME NEW N \in Nat, NEW P, 0 \in P,
         \A n \in Nat : n < N /\ n \in P => n + 1 \in P
  PROVE  0 .. N \subseteq P
<1> DEFINE Q == (0 .. N) \ P
<1>1. SUFFICES ASSUME Q # {} PROVE FALSE
  OBVIOUS
<1>2. PICK x \in Q : \A y \in Q : x <= y
  <2>1. Q \subseteq Nat
    OBVIOUS
  <2> HIDE DEF Q
  <2>2. QED
    BY <1>1, <2>1, LeastNat
<1>3. x \in 0 .. N /\ x \notin P
  OBVIOUS
<1>4. x # 0
  BY <1>3
<1>5. x - 1 \in 0 .. N /\ x - 1 \in Nat /\ x - 1 < N /\ x - 1 + 1 = x /\ ~(x <= x - 1)
  BY <1>3, <1>4
<1>6. x - 1 \in P
  BY <1>2, <1>5
<1>7. x \in P
  BY <1>5, <1>6
<1>8. QED
  BY <1>3, <1>7

\* f starts with base and goes on by step up to k.
Recursion(f, k, base, step) ==
    /\ \E V : f \in [0 .. k -> V]
    /\ f[0] = base
    /\ \A n \in 0 .. k - 1 : f[n + 1] = step[<<n + 1, f[n]>>]

\* Such a function exists for any first value and any step.
LEMMA RecursionExists ==
  ASSUME NEW N \in Nat, NEW base, NEW step
  PROVE  \E f : Recursion(f, N, base, step)
<1> DEFINE StepsOn(V, f, k) == /\ f \in [0 .. k -> V]
                               /\ f[0] = base
                               /\ \A n \in 0 .. k - 1 : f[n + 1] = step[<<n + 1, f[n]>>]
           P == {k \in Nat : \E V, f : StepsOn(V, f, k)}
<1>1. 0 \in P
  <2> DEFINE first == [n \in 0 .. 0 |-> base]
  <2>1. StepsOn({base}, first, 0)
    OBVIOUS
  <2> HIDE DEF StepsOn, first
  <2>2. QED
    BY <2>1
<1>2. ASSUME NEW k \in Nat, k \in P PROVE k + 1 \in P
  <2>1. PICK V, f : StepsOn(V, f, k)
    BY <1>2
  <2> DEFINE last == step[<<k + 1, f[k]>>]
             W == V \cup {last}
             g == [n \in 0 .. k + 1 |-> IF n = k + 1 THEN last ELSE f[n]]
  <2>2. /\ g \in [0 .. k + 1 -> W]
        /\ g[k + 1] = last
        /\ \A n \in 0 .. k : g[n] = f[n]
    BY <2>1
  <2> HIDE DEF g, W
  <2>3. g[0] = base
    <3>1. 0 \in 0 .. k
      OBVIOUS
    <3>2. QED
      BY <2>1, <2>2, <3>1, Zenon
  <2>4. ASSUME NEW n \in 0 .. k PROVE g[n + 1] = step[<<n + 1, g[n]>>]
    <3>1. CASE n = k
      BY <2>2, <3>1
    <3>2. CASE n # k
      BY <3>2, <2>1, <2>2
    <3>3. QED
      BY <3>1, <3>2
  <2>5. StepsOn(W, g, k + 1)
    BY <2>2, <2>3, <2>4
  <2> HIDE DEF StepsOn
  <2>6. QED
    BY <2>5
<1> HIDE DEF P, StepsOn
<1>3. N \in P
  <2>1. 0 .. N \subseteq P
    BY <1>1, <1>2, UpTo
  <2>2. QED
    BY <2>1
<1>4. PICK V, f : StepsOn(V, f, N)
  BY <1>3 DEF P
<1>5. QED
  BY <1>4, Zenon DEF Recursion, StepsOn

(***************************************************************************)
(* Programs and the values in them.                                        *)
(***************************************************************************)
\* v is an argument, or the result of one of the first n operations of b.
KnownTo(b, n, v) ==
  \/ v.name # <<>> /\ v.name[1] = "arg"
  \/ \E k \in 1 .. n : v = Value(b[k].name, b[k].type)

\* Operations may read v next; loose says whether a missing value will do.
Usable(b, v, loose) == (v = Invalid /\ loose) \/ KnownTo(b, Len(b), v)

IsSequence(b) == \E S : b \in Seq(S)

\* Every operation is named by its place and reads what is there before it.
Program(b, loose) ==
  /\ IsSequence(b)
  /\ \A i \in DOMAIN b :
       /\ b[i].name = <<"ssa", i - 1>>
       /\ \A v \in ToSet(b[i].operands) : (v = Invalid /\ loose) \/ KnownTo(b, i - 1, v)

\* c is b with operations appended.
Longer(b, c) == Len(b) <= Len(c) /\ \A i \in DOMAIN b : c[i] = b[i]

\* p holds a program that goes on from b, and a value of it.
Builds(b, p, loose) ==
  /\ Program(p.body, loose)
  /\ Longer(b, p.body)
  /\ KnownTo(p.body, Len(p.body), p.value)

\* A sequence is a function on its positions.
LEMMA SequenceFacts ==
  ASSUME NEW b, IsSequence(b)
  PROVE  Len(b) \in Nat /\ DOMAIN b = 1 .. Len(b)
  BY DEF IsSequence

\* Appending keeps a sequence one, and its entries.
LEMMA AppendFacts ==
  ASSUME NEW b, IsSequence(b), NEW e
  PROVE  /\ IsSequence(Append(b, e))
         /\ Len(Append(b, e)) = Len(b) + 1
         /\ Append(b, e)[Len(b) + 1] = e
         /\ \A i \in 1 .. Len(b) : Append(b, e)[i] = b[i]
<1>1. PICK S : b \in Seq(S)
  BY DEF IsSequence
<1>2. b \in Seq(S \cup {e})
  BY <1>1
<1>3. Append(b, e) \in Seq(S \cup {e})
  BY <1>2
<1>4. IsSequence(Append(b, e))
  BY <1>3 DEF IsSequence
<1>5. QED
  BY <1>2, <1>4

\* A value that is known is not Invalid.
LEMMA KnownValid ==
  ASSUME NEW b, NEW loose, Program(b, loose), NEW v, KnownTo(b, Len(b), v)
  PROVE  valid(v) /\ v # Invalid
<1>1. CASE v.name # <<>> /\ v.name[1] = "arg"
  BY <1>1 DEF valid, Invalid, Value
<1>2. CASE \E k \in 1 .. Len(b) : v = Value(b[k].name, b[k].type)
  <2>1. PICK k \in 1 .. Len(b) : v = Value(b[k].name, b[k].type)
    BY <1>2
  <2>2. v.name = <<"ssa", k - 1>>
    BY <2>1, SequenceFacts DEF Program, Value
  <2>3. Len(v.name) = 2
    BY <2>2
  <2>4. v.name # <<>>
    BY <2>3
  <2>5. QED
    BY <2>4 DEF valid, Invalid, Value
<1>3. QED
  BY <1>1, <1>2 DEF KnownTo

\* What is known stays known.
LEMMA KnownLonger ==
  ASSUME NEW b, NEW c, IsSequence(b), IsSequence(c), Longer(b, c), NEW v, KnownTo(b, Len(b), v)
  PROVE  KnownTo(c, Len(c), v)
<1>1. Len(b) \in Nat /\ Len(c) \in Nat /\ DOMAIN b = 1 .. Len(b)
  BY SequenceFacts
<1>2. CASE v.name # <<>> /\ v.name[1] = "arg"
  BY <1>2 DEF KnownTo
<1>3. CASE \E k \in 1 .. Len(b) : v = Value(b[k].name, b[k].type)
  <2>1. PICK k \in 1 .. Len(b) : v = Value(b[k].name, b[k].type)
    BY <1>3
  <2>2. k \in 1 .. Len(c) /\ c[k] = b[k]
    BY <1>1 DEF Longer
  <2>3. QED
    BY <2>1, <2>2 DEF KnownTo
<1>4. QED
  BY <1>2, <1>3 DEF KnownTo

\* What can be read stays readable.
LEMMA UsableLonger ==
  ASSUME NEW b, NEW c, IsSequence(b), IsSequence(c), Longer(b, c),
         NEW loose, NEW v, Usable(b, v, loose)
  PROVE  Usable(c, v, loose)
  BY KnownLonger DEF Usable

\* Going on from what goes on.
LEMMA LongerTransitive ==
  ASSUME NEW a, NEW b, NEW c, IsSequence(a), IsSequence(b), IsSequence(c), Longer(a, b), Longer(b, c)
  PROVE  Longer(a, c)
<1>1. /\ Len(a) \in Nat /\ Len(b) \in Nat /\ Len(c) \in Nat
      /\ DOMAIN a = 1 .. Len(a) /\ DOMAIN b = 1 .. Len(b)
  BY SequenceFacts
<1>2. QED
  BY <1>1 DEF Longer

\* Emit appends one operation that reads usable values, and gives its result.
LEMMA EmitBuilds ==
  ASSUME NEW b, NEW loose, Program(b, loose),
         NEW mnemonic, NEW operands, NEW lists, NEW type,
         \A v \in ToSet(operands) : Usable(b, v, loose)
  PROVE  Builds(b, Emit(b, mnemonic, operands, lists, type), loose)
<1> DEFINE op == Operation(fresh_ssa(b), mnemonic, operands, lists, type)
           c == Append(b, op)
           p == Emit(b, mnemonic, operands, lists, type)
<1>1. IsSequence(b) /\ Len(b) \in Nat /\ DOMAIN b = 1 .. Len(b)
  BY SequenceFacts DEF Program
<1>2. /\ op.name = <<"ssa", Len(b)>> /\ op.operands = operands /\ op.type = type
  BY DEF Operation, fresh_ssa
<1> HIDE DEF op
<1>3. p.body = c /\ p.value = Value(c[Len(c)].name, c[Len(c)].type)
  <2>1. p = Built(c)
    BY Zenon DEF Emit, op
  <2> HIDE DEF c, p
  <2>2. Built(c).body = c /\ Built(c).value = Value(Last(c).name, Last(c).type)
    BY DEF Built
  <2>3. Last(c) = c[Len(c)]
    BY Zenon DEF Last
  <2>4. QED
    BY <2>1, <2>2, <2>3
<1>4. /\ IsSequence(c) /\ Len(c) = Len(b) + 1 /\ c[Len(b) + 1] = op
      /\ \A i \in 1 .. Len(b) : c[i] = b[i]
  BY <1>1, AppendFacts
<1>5. DOMAIN c = 1 .. Len(b) + 1
  BY <1>4, SequenceFacts
<1> HIDE DEF c, p
<1>6. Longer(b, c)
  BY <1>1, <1>4 DEF Longer
<1>7. KnownTo(c, Len(c), p.value)
  BY <1>1, <1>3, <1>4 DEF KnownTo
<1>8. ASSUME NEW i \in DOMAIN c
      PROVE  /\ c[i].name = <<"ssa", i - 1>>
             /\ \A v \in ToSet(c[i].operands) : (v = Invalid /\ loose) \/ KnownTo(c, i - 1, v)
  <2>1. CASE i \in 1 .. Len(b)
    <3>1. c[i] = b[i] /\ i \in DOMAIN b /\ i - 1 <= Len(b)
      BY <1>1, <1>4, <2>1
    <3>2. ASSUME NEW v, KnownTo(b, i - 1, v) PROVE KnownTo(c, i - 1, v)
      <4>1. ASSUME NEW k \in 1 .. i - 1 PROVE c[k] = b[k]
        BY <1>1, <1>4, <2>1
      <4>2. QED
        BY <3>2, <4>1 DEF KnownTo
    <3>3. QED
      BY <3>1, <3>2 DEF Program
  <2>2. CASE i = Len(b) + 1
    <3>1. c[i] = op /\ i - 1 = Len(b)
      BY <1>1, <1>4, <2>2
    <3>2. ASSUME NEW v, KnownTo(b, Len(b), v) PROVE KnownTo(c, Len(b), v)
      BY <1>4, <3>2 DEF KnownTo
    <3>3. QED
      BY <1>2, <3>1, <3>2 DEF Usable
  <2>3. QED
    BY <1>1, <1>5, <2>1, <2>2
<1>9. Program(c, loose)
  BY <1>4, <1>8 DEF Program
<1>10. QED
  BY <1>3, <1>6, <1>7, <1>9 DEF Builds, p

\* c is a program that goes on from b.
GoesOn(b, c, loose) == Program(c, loose) /\ Longer(b, c)

\* q was emitted behind c, which goes on from b.
Follows(b, c, q, loose) ==
  /\ q = [body |-> q.body, value |-> q.value]
  /\ Builds(b, q, loose)
  /\ GoesOn(b, q.body, loose)
  /\ KnownTo(q.body, Len(q.body), q.value)
  /\ \A v : Usable(c, v, loose) => Usable(q.body, v, loose)
  /\ \A v : KnownTo(c, Len(c), v) => KnownTo(q.body, Len(q.body), v)

\* A program goes on from itself.
LEMMA GoesOnSelf ==
  ASSUME NEW b, NEW loose, Program(b, loose)
  PROVE  GoesOn(b, b, loose)
<1>1. Len(b) \in Nat
  BY SequenceFacts DEF Program
<1>2. QED
  BY <1>1 DEF GoesOn, Longer

\* What a chain of Emit calls has built so far, and one call more.
LEMMA EmitFollows ==
  ASSUME NEW b, NEW loose, Program(b, loose), NEW c, GoesOn(b, c, loose),
         NEW mnemonic, NEW operands, NEW lists, NEW type,
         \A v \in ToSet(operands) : Usable(c, v, loose)
  PROVE  Follows(b, c, Emit(c, mnemonic, operands, lists, type), loose)
<1> DEFINE q == Emit(c, mnemonic, operands, lists, type)
           d == Append(c, Operation(fresh_ssa(c), mnemonic, operands, lists, type))
<1>1. Builds(c, q, loose)
  BY EmitBuilds DEF GoesOn
<1>2. q = Built(d)
  BY Zenon DEF Emit
<1> HIDE DEF d, q
<1>3. q = [body |-> q.body, value |-> q.value]
  BY <1>2 DEF Built
<1>4. IsSequence(b) /\ IsSequence(c) /\ IsSequence(q.body)
  BY <1>1 DEF Builds, Program, GoesOn
<1>5. Longer(c, q.body) /\ Longer(b, q.body)
  BY <1>1, <1>4, LongerTransitive DEF Builds, GoesOn
<1>6. Builds(b, q, loose) /\ GoesOn(b, q.body, loose) /\ KnownTo(q.body, Len(q.body), q.value)
  BY <1>1, <1>5 DEF Builds, GoesOn
<1>7. \A v : Usable(c, v, loose) => Usable(q.body, v, loose)
  BY <1>4, <1>5, UsableLonger
<1>8. \A v : KnownTo(c, Len(c), v) => KnownTo(q.body, Len(q.body), v)
  BY <1>4, <1>5, KnownLonger
<1>9. Follows(b, c, q, loose)
  BY <1>3, <1>6, <1>7, <1>8 DEF Follows
<1>10. QED
  BY <1>9 DEF q

\* One Emit call more, without operands.
LEMMA EmitNone ==
  ASSUME NEW b, NEW loose, Program(b, loose), NEW c, GoesOn(b, c, loose),
         NEW mnemonic, NEW lists, NEW type
  PROVE  Follows(b, c, Emit(c, mnemonic, <<>>, lists, type), loose)
<1>1. ToSet(<<>>) = {}
  BY DEF ToSet
<1>2. QED
  BY <1>1, EmitFollows

\* The same with one operand.
LEMMA EmitOne ==
  ASSUME NEW b, NEW loose, Program(b, loose), NEW c, GoesOn(b, c, loose),
         NEW mnemonic, NEW v, NEW lists, NEW type, Usable(c, v, loose)
  PROVE  Follows(b, c, Emit(c, mnemonic, <<v>>, lists, type), loose)
<1>1. ToSet(<<v>>) = {v}
  BY DEF ToSet
<1>2. QED
  BY <1>1, EmitFollows

\* The same with two.
LEMMA EmitTwo ==
  ASSUME NEW b, NEW loose, Program(b, loose), NEW c, GoesOn(b, c, loose),
         NEW mnemonic, NEW v, NEW w, NEW lists, NEW type,
         Usable(c, v, loose), Usable(c, w, loose)
  PROVE  Follows(b, c, Emit(c, mnemonic, <<v, w>>, lists, type), loose)
<1>1. ToSet(<<v, w>>) = {v, w}
  BY DEF ToSet
<1>2. QED
  BY <1>1, EmitFollows

\* A value that is wanted in another shape, or as it is.
LEMMA BroadcastFollows ==
  ASSUME NEW b, NEW loose, Program(b, loose), NEW p, p = [body |-> p.body, value |-> p.value],
         GoesOn(b, p.body, loose), NEW v, KnownTo(p.body, Len(p.body), v), NEW t
  PROVE  Follows(b, p.body, maybe_broadcast(p, v, t), loose)
<1>1. CASE v.type = t
  <2> DEFINE q == [p EXCEPT !.value = v]
  <2>1. maybe_broadcast(p, v, t) = q
    BY <1>1 DEF maybe_broadcast
  <2>2. q = [body |-> p.body, value |-> v]
    OBVIOUS
  <2>3. q.body = p.body /\ q.value = v
    BY <2>2
  <2> HIDE DEF q
  <2>4. Follows(b, p.body, q, loose)
    BY <2>2, <2>3 DEF Follows, Builds, GoesOn
  <2>5. QED
    BY <2>1, <2>4
<1>2. CASE v.type # t
  <2>1. Usable(p.body, v, loose)
    BY DEF Usable
  <2>2. maybe_broadcast(p, v, t) =
          Emit(p.body, "stablehlo.broadcast_in_dim", <<v>>,
               <<[i \in 1 .. rank(v.type) |-> rank(t) - rank(v.type) + i - 1]>>, t)
    BY <1>2, Zenon DEF maybe_broadcast
  <2>3. QED
    BY <2>1, <2>2, EmitOne
<1>3. QED
  BY <1>1, <1>2

-----------------------------------------------------------------------------
(***************************************************************************)
(* The converters and patterns, one by one.                                *)
(***************************************************************************)
\* The value map holds arguments and results.
MapKnown == \A name \in DOMAIN value_map : KnownTo(body, Len(body), value_map[name])

\* A converter that fails leaves the program as it was; one that succeeds has
\* gone on from it.
Outcome(r, loose) ==
  \/ r.ok = FALSE /\ r.body = body /\ (r.value = Invalid \/ KnownTo(body, Len(body), r.value))
  \/ r.ok = TRUE /\ Builds(body, r, loose)

\* An operand is a known value, or missing.
LEMMA OperandKnown ==
  ASSUME MapKnown, NEW n, NEW i
  PROVE  KnownTo(body, Len(body), Operand(n, i)) \/ Operand(n, i) = Invalid
  BY DEF MapKnown, Operand, lookup

\* A valid operand is known.
LEMMA ValidKnown ==
  ASSUME MapKnown, NEW n, NEW i, valid(Operand(n, i))
  PROVE  KnownTo(body, Len(body), Operand(n, i))
  BY OperandKnown DEF valid, Invalid, Value

\* An operation may read what is valid, or anything in the loose tier.
LEMMA OperandUsable ==
  ASSUME MapKnown, NEW n, NEW i, NEW loose, valid(Operand(n, i)) \/ loose
  PROVE  Usable(body, Operand(n, i), loose)
  BY OperandKnown, ValidKnown DEF Usable

\* Failure leaves the program alone.
LEMMA FailureOutcome == ASSUME NEW loose PROVE Outcome(Failure, loose)
  BY DEF Outcome, Failure

\* Success ends a chain of Emit calls.
LEMMA SuccessOutcome ==
  ASSUME NEW loose, NEW p, Builds(body, p, loose)
  PROVE  Outcome(Success(p), loose)
<1>1. /\ Success(p).ok = TRUE /\ Success(p).body = p.body /\ Success(p).value = p.value
  BY DEF Success
<1>2. Builds(body, Success(p), loose)
  BY <1>1 DEF Builds
<1>3. QED
  BY <1>1, <1>2 DEF Outcome

\* Operands are brought to one type and combined.
LEMMA CombineOutcome ==
  ASSUME NEW loose, Program(body, loose), NEW mnemonic, NEW l, NEW r, NEW t,
         KnownTo(body, Len(body), l), KnownTo(body, Len(body), r)
  PROVE  Outcome(Combine(mnemonic, l, r, t), loose)
<1> DEFINE bl == maybe_broadcast(Start, l, t)
           br == maybe_broadcast(bl, r, t)
           e  == Emit(br.body, mnemonic, <<bl.value, br.value>>, <<>>, t)
<1>1. Combine(mnemonic, l, r, t) = Success(e)
  BY Zenon DEF Combine
<1>2. Start = [body |-> Start.body, value |-> Start.value] /\ Start.body = body
  BY DEF Start
<1>3. Follows(body, Start.body, bl, loose)
  BY <1>2, BroadcastFollows, GoesOnSelf
<1> HIDE DEF bl
<1>4. KnownTo(bl.body, Len(bl.body), r) /\ KnownTo(bl.body, Len(bl.body), bl.value)
  BY <1>2, <1>3 DEF Follows
<1>5. Follows(body, bl.body, br, loose)
  BY <1>3, <1>4, BroadcastFollows DEF Follows
<1> HIDE DEF br
<1>6. Usable(br.body, bl.value, loose) /\ Usable(br.body, br.value, loose)
  BY <1>4, <1>5 DEF Follows, Usable
<1>7. Follows(body, br.body, e, loose)
  BY <1>5, <1>6, EmitTwo DEF Follows
<1> HIDE DEF e
<1>8. QED
  BY <1>1, <1>7, SuccessOutcome DEF Follows

\* A single operation.
LEMMA OneOutcome ==
  ASSUME NEW loose, Program(body, loose), NEW mnemonic, NEW v, NEW lists, NEW type,
         Usable(body, v, loose)
  PROVE  Outcome(Success(Emit(body, mnemonic, <<v>>, lists, type)), loose)
<1> DEFINE e == Emit(body, mnemonic, <<v>>, lists, type)
<1>1. Follows(body, body, e, loose)
  BY EmitOne, GoesOnSelf
<1> HIDE DEF e
<1>2. Outcome(Success(e), loose)
  BY <1>1, SuccessOutcome DEF Follows
<1>3. QED
  BY <1>2 DEF e

\* A single operation on two operands.
LEMMA TwoOutcome ==
  ASSUME NEW loose, Program(body, loose), NEW mnemonic, NEW v, NEW w, NEW lists, NEW type,
         Usable(body, v, loose), Usable(body, w, loose)
  PROVE  Outcome(Success(Emit(body, mnemonic, <<v, w>>, lists, type)), loose)
<1> DEFINE e == Emit(body, mnemonic, <<v, w>>, lists, type)
<1>1. Follows(body, body, e, loose)
  BY EmitTwo, GoesOnSelf
<1> HIDE DEF e
<1>2. Outcome(Success(e), loose)
  BY <1>1, SuccessOutcome DEF Follows
<1>3. QED
  BY <1>2 DEF e

\* The patterns of the third tier that ask for their operands and emit at most
\* one operation after broadcasting them.
LEMMA SimpleOutcomes ==
  ASSUME MapKnown, NEW loose, Program(body, loose), NEW n, NEW mnemonic, NEW stray
  PROVE  /\ Outcome(BinaryConversion(n, mnemonic), loose)
         /\ Outcome(DivOpConversion(n), loose)
         /\ Outcome(PowOpConversion(n), loose)
         /\ Outcome(UnaryConversion(n, mnemonic), loose)
         /\ Outcome(SliceOpConversion(n, stray), loose)
         /\ Outcome(MatMulOpConversion(n), loose)
         /\ Outcome(ReshapeOpConversion(n), loose)
<1> DEFINE x == Operand(n, 1)
           y == Operand(n, 2)
<1>1. /\ valid(x) => KnownTo(body, Len(body), x) /\ Usable(body, x, loose)
      /\ valid(y) => KnownTo(body, Len(body), y) /\ Usable(body, y, loose)
  BY ValidKnown, OperandUsable
<1>2. Outcome(BinaryConversion(n, mnemonic), loose)
  <2>1. \/ BinaryConversion(n, mnemonic) = Failure
        \/ valid(x) /\ valid(y) /\ \E t : BinaryConversion(n, mnemonic) = Combine(mnemonic, x, y, t)
    BY Zenon DEF BinaryConversion
  <2>2. QED
    BY <1>1, <2>1, FailureOutcome, CombineOutcome
<1>3. Outcome(DivOpConversion(n), loose)
  <2>1. \/ DivOpConversion(n) = Failure
        \/ valid(x) /\ valid(y) /\ \E t : DivOpConversion(n) = Combine("stablehlo.divide", x, y, t)
    BY Zenon DEF DivOpConversion
  <2>2. QED
    BY <1>1, <2>1, FailureOutcome, CombineOutcome
<1>4. Outcome(PowOpConversion(n), loose)
  <2>1. \/ PowOpConversion(n) = Failure
        \/ /\ valid(x)
           /\ PowOpConversion(n) = Success(Emit(body, "stablehlo.multiply", <<x, x>>, <<>>, x.type))
    BY Zenon DEF PowOpConversion
  <2>2. QED
    BY <1>1, <2>1, FailureOutcome, TwoOutcome
<1>5. Outcome(UnaryConversion(n, mnemonic), loose)
  <2>1. \/ UnaryConversion(n, mnemonic) = Failure
        \/ /\ valid(x)
           /\ UnaryConversion(n, mnemonic) = Success(Emit(body, mnemonic, <<x>>, <<>>, x.type))
    BY Zenon DEF UnaryConversion
  <2>2. QED
    BY <1>1, <2>1, FailureOutcome, OneOutcome
<1>6. Outcome(SliceOpConversion(n, stray), loose)
  <2>1. \/ SliceOpConversion(n, stray) = Failure
        \/ /\ valid(x)
           /\ \E lists, t : SliceOpConversion(n, stray) = Success(Emit(body, "stablehlo.slice", <<x>>, lists, t))
    BY Zenon DEF SliceOpConversion
  <2>2. QED
    BY <1>1, <2>1, FailureOutcome, OneOutcome
<1>7. Outcome(MatMulOpConversion(n), loose)
  <2>1. \/ MatMulOpConversion(n) = Failure
        \/ /\ valid(x) /\ valid(y)
           /\ \E lists, t :
                MatMulOpConversion(n) = Success(Emit(body, "stablehlo.dot_general", <<x, y>>, lists, t))
    BY Zenon DEF MatMulOpConversion
  <2>2. QED
    BY <1>1, <2>1, FailureOutcome, TwoOutcome
<1>8. Outcome(ReshapeOpConversion(n), loose)
  <2>1. \/ ReshapeOpConversion(n) = Failure
        \/ /\ valid(x)
           /\ \E t : ReshapeOpConversion(n) = Success(Emit(body, "stablehlo.reshape", <<x>>, <<>>, t))
    BY Zenon DEF ReshapeOpConversion
  <2>2. QED
    BY <1>1, <2>1, FailureOutcome, OneOutcome
<1>9. QED
  BY <1>2, <1>3, <1>4, <1>5, <1>6, <1>7, <1>8

\* Concatenation reads all the inputs.
LEMMA ConcatOutcome ==
  ASSUME MapKnown, NEW loose, Program(body, loose), NEW n
  PROVE  Outcome(ConcatOpConversion(n), loose)
<1> DEFINE xs == [i \in DOMAIN n.inputs |-> Operand(n, i)]
<1>1. \/ ConcatOpConversion(n) = Failure
      \/ /\ \A x \in ToSet(xs) : valid(x)
         /\ \E lists, t :
              ConcatOpConversion(n) = Success(Emit(body, "stablehlo.concatenate", xs, lists, t))
  BY Zenon DEF ConcatOpConversion
<1>2. CASE ConcatOpConversion(n) = Failure
  BY <1>2, FailureOutcome
<1>3. CASE ConcatOpConversion(n) # Failure
  <2>1. ASSUME NEW x \in ToSet(xs) PROVE Usable(body, x, loose)
    <3>1. PICK i \in DOMAIN n.inputs : x = Operand(n, i)
      BY DEF ToSet
    <3>2. QED
      BY <1>1, <1>3, <3>1, OperandUsable
  <2> HIDE DEF xs
  <2>2. PICK lists, t :
          ConcatOpConversion(n) = Success(Emit(body, "stablehlo.concatenate", xs, lists, t))
    BY <1>1, <1>3
  <2> DEFINE e == Emit(body, "stablehlo.concatenate", xs, lists, t)
  <2>3. Follows(body, body, e, loose)
    BY <2>1, EmitFollows, GoesOnSelf
  <2> HIDE DEF e
  <2>4. Outcome(Success(e), loose)
    BY <2>3, SuccessOutcome DEF Follows
  <2>5. QED
    BY <2>2, <2>4 DEF e
<1>4. QED
  BY <1>2, <1>3

\* A convolution, and its bias when there is one.
LEMMA ConvolveOutcome ==
  ASSUME MapKnown, NEW loose, Program(body, loose), NEW n, NEW x, NEW k, NEW lists, NEW t,
         Usable(body, x, loose), Usable(body, k, loose)
  PROVE  Outcome(Convolve(n, x, k, lists, t), loose)
<1> DEFINE conv == Emit(body, "stablehlo.convolution", <<x, k>>, lists, t)
           spread == Emit(conv.body, "stablehlo.broadcast_in_dim", <<Operand(n, 3)>>, <<<<1>>>>, t)
           sum == Emit(spread.body, "stablehlo.add", <<conv.value, spread.value>>, <<>>, t)
<1>1. \/ Convolve(n, x, k, lists, t) = Success(conv)
      \/ valid(Operand(n, 3)) /\ Convolve(n, x, k, lists, t) = Success(sum)
  BY Zenon DEF Convolve
<1>2. Follows(body, body, conv, loose)
  BY EmitTwo, GoesOnSelf
<1> HIDE DEF conv
<1>3. CASE Convolve(n, x, k, lists, t) = Success(conv)
  BY <1>2, <1>3, SuccessOutcome DEF Follows
<1>4. CASE valid(Operand(n, 3)) /\ Convolve(n, x, k, lists, t) = Success(sum)
  <2>1. Usable(conv.body, Operand(n, 3), loose) /\ Usable(conv.body, conv.value, loose)
    BY <1>2, <1>4, OperandUsable DEF Follows, Usable
  <2>2. Follows(body, conv.body, spread, loose)
    BY <1>2, <2>1, EmitOne DEF Follows
  <2> HIDE DEF spread
  <2>3. Usable(spread.body, conv.value, loose) /\ Usable(spread.body, spread.value, loose)
    BY <2>1, <2>2 DEF Follows, Usable
  <2>4. Follows(body, spread.body, sum, loose)
    BY <2>2, <2>3, EmitTwo DEF Follows
  <2> HIDE DEF sum
  <2>5. QED
    BY <1>4, <2>4, SuccessOutcome DEF Follows
<1>5. QED
  BY <1>1, <1>3, <1>4

\* ConvOpConversion asks for its two operands.
LEMMA ConvOutcome ==
  ASSUME MapKnown, NEW loose, Program(body, loose), NEW n
  PROVE  Outcome(ConvOpConversion(n), loose)
<1>1. \/ ConvOpConversion(n) = Failure
      \/ /\ valid(Operand(n, 1)) /\ valid(Operand(n, 2))
         /\ ConvOpConversion(n) = Convolve(n, Operand(n, 1), Operand(n, 2), ConvLists(n), ConvType(n))
  BY Zenon DEF ConvOpConversion
<1>2. QED
  BY <1>1, FailureOutcome, ConvolveOutcome, OperandUsable

\* The mean is a sum divided by a count.
LEMMA ReduceMeanOutcome ==
  ASSUME MapKnown, NEW loose, Program(body, loose), NEW n
  PROVE  Outcome(ReduceMeanOpConversion(n), loose)
<1> DEFINE x == Operand(n, 1)
           r == rank(x.type)
           axes == ReducedAxes(n)
           keep == get_int_attr(n, "keepdims", 1) # 0
           t == IF Declared(n).dims = <<>> /\ r # Len(axes)
                THEN Type(MeanDims(x.type, axes, keep), x.type.elem) ELSE Declared(n)
           scalar == Scalar(x.type.elem)
           reduced == Type(Without(x.type, ToSet(axes)), x.type.elem)
           zero == Emit(body, "stablehlo.constant", <<>>, <<>>, scalar)
           sum == Emit(zero.body, "stablehlo.reduce", <<x, zero.value>>, <<axes>>, reduced)
           shaped == IF keep THEN Emit(sum.body, "stablehlo.reshape", <<sum.value>>, <<>>, t)
                     ELSE sum
           count == Emit(shaped.body, "stablehlo.constant", <<>>, <<>>, scalar)
           spread == maybe_broadcast(count, count.value, t)
           e == Emit(spread.body, "stablehlo.divide", <<shaped.value, spread.value>>, <<>>, t)
<1>1. \/ ReduceMeanOpConversion(n) = Failure
      \/ valid(x) /\ ReduceMeanOpConversion(n) = Success(e)
  BY Zenon DEF ReduceMeanOpConversion
<1> HIDE DEF x, r, axes, keep, t, scalar, reduced
<1>2. CASE ReduceMeanOpConversion(n) = Failure
  BY <1>2, FailureOutcome
<1>3. CASE valid(x) /\ ReduceMeanOpConversion(n) = Success(e)
  <2>1. Follows(body, body, zero, loose)
    BY EmitNone, GoesOnSelf
  <2>2. Usable(body, x, loose)
    BY <1>3, OperandUsable DEF x
  <2> HIDE DEF zero
  <2>3. Usable(zero.body, x, loose) /\ Usable(zero.body, zero.value, loose)
    BY <2>1, <2>2 DEF Follows, Usable
  <2>4. Follows(body, zero.body, sum, loose)
    BY <2>1, <2>3, EmitTwo DEF Follows
  <2> HIDE DEF sum
  <2>5. Follows(body, sum.body, shaped, loose)
    <3>1. Usable(sum.body, sum.value, loose)
      BY <2>4 DEF Follows, Usable
    <3>2. CASE keep
      BY <2>4, <3>1, <3>2, EmitOne DEF Follows
    <3>3. CASE ~keep
      BY <2>4, <3>3 DEF Follows
    <3>4. QED
      BY <3>2, <3>3
  <2> HIDE DEF shaped
  <2>6. Follows(body, shaped.body, count, loose)
    BY <2>5, EmitNone DEF Follows
  <2> HIDE DEF count
  <2>7. Follows(body, count.body, spread, loose)
    BY <2>6, BroadcastFollows DEF Follows
  <2> HIDE DEF spread
  <2>8. Usable(spread.body, shaped.value, loose) /\ Usable(spread.body, spread.value, loose)
    BY <2>5, <2>6, <2>7 DEF Follows, Usable
  <2>9. Follows(body, spread.body, e, loose)
    BY <2>7, <2>8, EmitTwo DEF Follows
  <2> HIDE DEF e
  <2>10. QED
    BY <1>3, <2>9, SuccessOutcome DEF Follows
<1>4. QED
  BY <1>1, <1>2, <1>3

\* Softmax: eight operations, of which three results are used twice.
LEMMA SoftmaxOutcome ==
  ASSUME MapKnown, NEW loose, Program(body, loose), NEW n
  PROVE  Outcome(SoftmaxOpConversion(n), loose)
<1> DEFINE x == Operand(n, 1)
           t == x.type
           axis == AxisOf(get_int_attr(n, "axis", -1), rank(t))
           reduced == Type(Without(t, {axis}), t.elem)
           kept == <<OtherAxes(rank(t), {axis})>>
           scalar == Scalar(t.elem)
           low == Emit(body, "stablehlo.constant", <<>>, <<>>, scalar)
           zero == Emit(low.body, "stablehlo.constant", <<>>, <<>>, scalar)
           top == Emit(zero.body, "stablehlo.reduce", <<x, low.value>>, <<<<axis>>>>, reduced)
           max == Emit(top.body, "stablehlo.broadcast_in_dim", <<top.value>>, kept, t)
           shifted == Emit(max.body, "stablehlo.subtract", <<x, max.value>>, <<>>, t)
           exp == Emit(shifted.body, "stablehlo.exponential", <<shifted.value>>, <<>>, t)
           all == Emit(exp.body, "stablehlo.reduce", <<exp.value, zero.value>>, <<<<axis>>>>, reduced)
           sum == Emit(all.body, "stablehlo.broadcast_in_dim", <<all.value>>, kept, t)
           e == Emit(sum.body, "stablehlo.divide", <<exp.value, sum.value>>, <<>>, t)
<1>1. \/ SoftmaxOpConversion(n) = Failure
      \/ valid(x) /\ SoftmaxOpConversion(n) = Success(e)
  BY Zenon DEF SoftmaxOpConversion
<1> HIDE DEF x, t, axis, reduced, kept, scalar
<1>2. CASE SoftmaxOpConversion(n) = Failure
  BY <1>2, FailureOutcome
<1>3. CASE valid(x) /\ SoftmaxOpConversion(n) = Success(e)
  <2>1. Follows(body, body, low, loose)
    BY EmitNone, GoesOnSelf
  <2>2. Usable(body, x, loose)
    BY <1>3, OperandUsable DEF x
  <2> HIDE DEF low
  <2>3. Usable(low.body, x, loose) /\ Usable(low.body, low.value, loose)
    BY <2>1, <2>2 DEF Follows, Usable
  <2>4. Follows(body, low.body, zero, loose)
    BY <2>1, EmitNone DEF Follows
  <2> HIDE DEF zero
  <2>5. /\ Usable(zero.body, x, loose) /\ Usable(zero.body, low.value, loose)
        /\ Usable(zero.body, zero.value, loose)
    BY <2>3, <2>4 DEF Follows, Usable
  <2>6. Follows(body, zero.body, top, loose)
    BY <2>4, <2>5, EmitTwo DEF Follows
  <2> HIDE DEF top
  <2>7. /\ Usable(top.body, x, loose) /\ Usable(top.body, zero.value, loose)
        /\ Usable(top.body, top.value, loose)
    BY <2>5, <2>6 DEF Follows, Usable
  <2>8. Follows(body, top.body, max, loose)
    BY <2>6, <2>7, EmitOne DEF Follows
  <2> HIDE DEF max
  <2>9. /\ Usable(max.body, x, loose) /\ Usable(max.body, zero.value, loose)
        /\ Usable(max.body, max.value, loose)
    BY <2>7, <2>8 DEF Follows, Usable
  <2>10. Follows(body, max.body, shifted, loose)
    BY <2>8, <2>9, EmitTwo DEF Follows
  <2> HIDE DEF shifted
  <2>11. Usable(shifted.body, zero.value, loose) /\ Usable(shifted.body, shifted.value, loose)
    BY <2>9, <2>10 DEF Follows, Usable
  <2>12. Follows(body, shifted.body, exp, loose)
    BY <2>10, <2>11, EmitOne DEF Follows
  <2> HIDE DEF exp
  <2>13. Usable(exp.body, zero.value, loose) /\ Usable(exp.body, exp.value, loose)
    BY <2>11, <2>12 DEF Follows, Usable
  <2>14. Follows(body, exp.body, all, loose)
    BY <2>12, <2>13, EmitTwo DEF Follows
  <2> HIDE DEF all
  <2>15. Usable(all.body, exp.value, loose) /\ Usable(all.body, all.value, loose)
    BY <2>13, <2>14 DEF Follows, Usable
  <2>16. Follows(body, all.body, sum, loose)
    BY <2>14, <2>15, EmitOne DEF Follows
  <2> HIDE DEF sum
  <2>17. Usable(sum.body, exp.value, loose) /\ Usable(sum.body, sum.value, loose)
    BY <2>15, <2>16 DEF Follows, Usable
  <2>18. Follows(body, sum.body, e, loose)
    BY <2>16, <2>17, EmitTwo DEF Follows
  <2> HIDE DEF e
  <2>19. QED
    BY <1>3, <2>18, SuccessOutcome DEF Follows
<1>4. QED
  BY <1>1, <1>2, <1>3

\* Two parts of a chain are one.
LEMMA FollowsTransitive ==
  ASSUME NEW b, NEW c, NEW p, NEW q, NEW loose, Follows(b, c, p, loose), Follows(b, p.body, q, loose)
  PROVE  Follows(b, c, q, loose)
  BY DEF Follows

\* A value as f32, and as a scalar.
LEMMA ToF32Follows ==
  ASSUME NEW b, NEW loose, Program(b, loose), NEW c, GoesOn(b, c, loose),
         NEW v, KnownTo(c, Len(c), v)
  PROVE  Follows(b, c, to_f32(c, v), loose)
<1>1. CASE v.type.elem = "f32"
  <2> DEFINE q == [body |-> c, value |-> v]
  <2>1. to_f32(c, v) = q
    BY <1>1 DEF to_f32
  <2>2. q.body = c /\ q.value = v /\ q = [body |-> q.body, value |-> q.value]
    OBVIOUS
  <2> HIDE DEF q
  <2>3. Follows(b, c, q, loose)
    BY <2>2 DEF Follows, Builds, GoesOn
  <2>4. QED
    BY <2>1, <2>3
<1>2. CASE v.type.elem # "f32"
  <2>1. to_f32(c, v) = Emit(c, "stablehlo.convert", <<v>>, <<>>, Type(v.type.dims, "f32"))
    BY <1>2, Zenon DEF to_f32
  <2>2. Usable(c, v, loose)
    BY DEF Usable
  <2>3. QED
    BY <2>1, <2>2, EmitOne
<1>3. QED
  BY <1>1, <1>2

\* The conversion to a scalar of type f32.
LEMMA ToF32ScalarFollows ==
  ASSUME NEW b, NEW loose, Program(b, loose), NEW c, GoesOn(b, c, loose),
         NEW v, KnownTo(c, Len(c), v)
  PROVE  Follows(b, c, to_f32_scalar(c, v), loose)
<1> DEFINE f == to_f32(c, v)
           e == Emit(f.body, "stablehlo.broadcast_in_dim", <<f.value>>, <<<<>>>>, Scalar("f32"))
<1>1. to_f32_scalar(c, v) = f \/ to_f32_scalar(c, v) = e
  BY Zenon DEF to_f32_scalar
<1>2. Follows(b, c, f, loose)
  BY ToF32Follows
<1> HIDE DEF f
<1>3. Usable(f.body, f.value, loose)
  BY <1>2 DEF Follows, Usable
<1>4. Follows(b, f.body, e, loose)
  BY <1>2, <1>3, EmitOne DEF Follows
<1> HIDE DEF e
<1>5. Follows(b, c, e, loose)
  BY <1>2, <1>4, FollowsTransitive
<1>6. QED
  BY <1>1, <1>2, <1>5

\* The difference to the zero point times the scale.
LEMMA DequantizeOutcome ==
  ASSUME MapKnown, NEW loose, Program(body, loose), NEW n
  PROVE  Outcome(DequantizeLinearOpConversion(n), loose)
<1> DEFINE q == to_f32(body, Operand(n, 1))
           t == q.value.type
           zp == to_f32_scalar(q.body, Operand(n, 3))
           scale == to_f32_scalar(zp.body, Operand(n, 2))
           zp_b == Emit(scale.body, "stablehlo.broadcast_in_dim", <<zp.value>>, <<<<>>>>, t)
           scale_b == Emit(zp_b.body, "stablehlo.broadcast_in_dim", <<scale.value>>, <<<<>>>>, t)
           sub == Emit(scale_b.body, "stablehlo.subtract", <<q.value, zp_b.value>>, <<>>, t)
           e == Emit(sub.body, "stablehlo.multiply", <<sub.value, scale_b.value>>, <<>>, t)
<1>1. \/ DequantizeLinearOpConversion(n) = Failure
      \/ /\ \A i \in 1 .. 3 : valid(Operand(n, i))
         /\ DequantizeLinearOpConversion(n) = Success(e)
  BY Zenon DEF DequantizeLinearOpConversion
<1>2. CASE DequantizeLinearOpConversion(n) = Failure
  BY <1>2, FailureOutcome
<1>3. CASE /\ \A i \in 1 .. 3 : valid(Operand(n, i))
           /\ DequantizeLinearOpConversion(n) = Success(e)
  <2>1. /\ KnownTo(body, Len(body), Operand(n, 1)) /\ KnownTo(body, Len(body), Operand(n, 2))
        /\ KnownTo(body, Len(body), Operand(n, 3))
    <3> HIDE DEF q, t, zp, scale, zp_b, scale_b, sub, e
    <3>1. valid(Operand(n, 1)) /\ valid(Operand(n, 2)) /\ valid(Operand(n, 3))
      BY <1>3
    <3>2. QED
      BY <3>1, ValidKnown
  <2>2. Follows(body, body, q, loose)
    BY <2>1, ToF32Follows, GoesOnSelf
  <2> HIDE DEF q
  <2>3. /\ KnownTo(q.body, Len(q.body), Operand(n, 2)) /\ KnownTo(q.body, Len(q.body), Operand(n, 3))
        /\ KnownTo(q.body, Len(q.body), q.value)
    BY <2>1, <2>2 DEF Follows
  <2> HIDE DEF t
  <2>4. Follows(body, q.body, zp, loose)
    BY <2>2, <2>3, ToF32ScalarFollows DEF Follows
  <2> HIDE DEF zp
  <2>5. /\ KnownTo(zp.body, Len(zp.body), Operand(n, 2)) /\ KnownTo(zp.body, Len(zp.body), q.value)
        /\ KnownTo(zp.body, Len(zp.body), zp.value)
    BY <2>3, <2>4 DEF Follows
  <2>6. Follows(body, zp.body, scale, loose)
    BY <2>4, <2>5, ToF32ScalarFollows DEF Follows
  <2> HIDE DEF scale
  <2>7. /\ Usable(scale.body, q.value, loose) /\ Usable(scale.body, zp.value, loose)
        /\ Usable(scale.body, scale.value, loose)
    BY <2>5, <2>6 DEF Follows, Usable
  <2>8. Follows(body, scale.body, zp_b, loose)
    BY <2>6, <2>7, EmitOne DEF Follows
  <2> HIDE DEF zp_b
  <2>9. /\ Usable(zp_b.body, q.value, loose) /\ Usable(zp_b.body, scale.value, loose)
        /\ Usable(zp_b.body, zp_b.value, loose)
    BY <2>7, <2>8 DEF Follows, Usable
  <2>10. Follows(body, zp_b.body, scale_b, loose)
    BY <2>8, <2>9, EmitOne DEF Follows
  <2> HIDE DEF scale_b
  <2>11. /\ Usable(scale_b.body, q.value, loose) /\ Usable(scale_b.body, zp_b.value, loose)
         /\ Usable(scale_b.body, scale_b.value, loose)
    BY <2>9, <2>10 DEF Follows, Usable
  <2>12. Follows(body, scale_b.body, sub, loose)
    BY <2>10, <2>11, EmitTwo DEF Follows
  <2> HIDE DEF sub
  <2>13. Usable(sub.body, sub.value, loose) /\ Usable(sub.body, scale_b.value, loose)
    BY <2>11, <2>12 DEF Follows, Usable
  <2>14. Follows(body, sub.body, e, loose)
    BY <2>12, <2>13, EmitTwo DEF Follows
  <2> HIDE DEF e
  <2>15. QED
    BY <1>3, <2>14, SuccessOutcome DEF Follows
<1>4. QED
  BY <1>1, <1>2, <1>3

\* A transposition reads its operand whatever it is.
LEMMA TransposedOutcome ==
  ASSUME NEW loose, Program(body, loose), NEW n, NEW stray, Usable(body, Operand(n, 1), loose)
  PROVE  Outcome(Transposed(n, stray), loose)
<1>1. \E lists, t : Transposed(n, stray) =
                      Success(Emit(body, "stablehlo.transpose", <<Operand(n, 1)>>, lists, t))
  BY Zenon DEF Transposed
<1>2. QED
  BY <1>1, OneOutcome

\* TransposeOpConversion asks for its operand.
LEMMA TransposeOutcome ==
  ASSUME MapKnown, NEW loose, Program(body, loose), NEW n, NEW stray
  PROVE  Outcome(TransposeOpConversion(n, stray), loose)
<1>1. CASE valid(Operand(n, 1))
  BY <1>1, TransposedOutcome, OperandUsable DEF TransposeOpConversion
<1>2. CASE ~valid(Operand(n, 1))
  BY <1>2, FailureOutcome DEF TransposeOpConversion
<1>3. QED
  BY <1>1, <1>2

\* QuantizeLinear emits nothing.
LEMMA QuantizeOutcome ==
  ASSUME MapKnown, NEW loose, Program(body, loose), NEW n
  PROVE  Outcome(QuantizeLinearOpConversion(n), loose)
<1>1. CASE valid(Operand(n, 1))
  <2> DEFINE p == [body |-> body, value |-> Operand(n, 1)]
  <2>1. QuantizeLinearOpConversion(n) = Success(p)
    BY <1>1, Zenon DEF QuantizeLinearOpConversion
  <2>2. p.body = body /\ p.value = Operand(n, 1)
    OBVIOUS
  <2> HIDE DEF p
  <2>3. Builds(body, p, loose)
    BY <1>1, <2>2, ValidKnown, GoesOnSelf DEF Builds, GoesOn
  <2>4. QED
    BY <2>1, <2>3, SuccessOutcome
<1>2. CASE ~valid(Operand(n, 1))
  BY <1>2, FailureOutcome DEF QuantizeLinearOpConversion
<1>3. QED
  BY <1>1, <1>2

-----------------------------------------------------------------------------
(***************************************************************************)
(* What each tier does with a node.                                        *)
(***************************************************************************)
\* The third tier.
LEMMA PatternOutcome ==
  ASSUME MapKnown, NEW loose, Program(body, loose), NEW n, n.op_type \in Patterns, NEW stray
  PROVE  Outcome(matchAndRewrite(n, stray), loose)
<1> DEFINE op == n.op_type
           r == matchAndRewrite(n, stray)
<1>1. /\ DOMAIN BinaryMnemonic = {"Add", "Mul", "Sub"}
      /\ DOMAIN UnaryMnemonic = {"Sqrt", "Exp", "Sin", "Cos", "Neg", "Erf"}
  BY DEF BinaryMnemonic, UnaryMnemonic
<1>2. CASE op \in DOMAIN BinaryMnemonic
  BY <1>1, <1>2, SimpleOutcomes DEF matchAndRewrite
<1>3. CASE op \in DOMAIN UnaryMnemonic
  BY <1>1, <1>3, SimpleOutcomes DEF matchAndRewrite
<1>4. CASE op \in {"Div", "Pow", "Slice", "MatMul", "Reshape"}
  BY <1>1, <1>4, SimpleOutcomes DEF matchAndRewrite
<1>5. CASE op \in {"Concat", "ReduceMean", "Conv", "Softmax"}
  BY <1>1, <1>5, ConcatOutcome, ReduceMeanOutcome, ConvOutcome, SoftmaxOutcome DEF matchAndRewrite
<1>6. CASE op \in {"Transpose", "QuantizeLinear", "DequantizeLinear"}
  BY <1>1, <1>6, TransposeOutcome, QuantizeOutcome, DequantizeOutcome DEF matchAndRewrite
<1>7. QED
  BY <1>2, <1>3, <1>4, <1>5, <1>6 DEF Patterns

\* The first tier, which may read what is missing.
LEMMA DispatchOutcome ==
  ASSUME MapKnown, NEW loose, Program(body, loose), NEW n, n.op_type \in FirstTier, NEW stray,
         valid(Operand(n, 1)) \/ loose,
         n.op_type \in {"Reshape", "Transpose"} \/ valid(Operand(n, 2)) \/ loose
  PROVE  Outcome(dispatch(n, stray), loose)
<1> DEFINE op == n.op_type
           r == dispatch(n, stray)
           x == Operand(n, 1)
           y == Operand(n, 2)
<1>1. Usable(body, x, loose)
  BY OperandUsable
<1>2. CASE op \in {"Add", "Mul", "MatMul"}
  <2>1. Usable(body, y, loose)
    BY <1>2, OperandUsable
  <2>2. r = convert_same_shape(n, BinaryMnemonic[op]) \/ r = convert_matmul(n, stray)
    BY <1>2 DEF dispatch
  <2>3. \A mnemonic : convert_same_shape(n, mnemonic) =
                        Success(Emit(body, mnemonic, <<x, y>>, <<>>, x.type))
    BY Zenon DEF convert_same_shape
  <2>4. \E lists, t : convert_matmul(n, stray) =
                        Success(Emit(body, "stablehlo.dot_general", <<x, y>>, lists, t))
    BY Zenon DEF convert_matmul
  <2>5. QED
    BY <1>1, <2>1, <2>2, <2>3, <2>4, TwoOutcome
<1>3. CASE op = "Conv"
  <2>1. Usable(body, y, loose)
    BY <1>3, OperandUsable
  <2>2. r = convert_conv(n, stray)
    BY <1>3 DEF dispatch
  <2>3. \E lists, t : convert_conv(n, stray) = Convolve(n, x, y, lists, t)
    BY Zenon DEF convert_conv
  <2>4. QED
    BY <1>1, <2>1, <2>2, <2>3, ConvolveOutcome
<1>4. CASE op = "Reshape"
  <2>1. r = convert_reshape(n)
    BY <1>4 DEF dispatch
  <2>2. \E t : convert_reshape(n) = Success(Emit(body, "stablehlo.reshape", <<x>>, <<>>, t))
    BY Zenon DEF convert_reshape
  <2>3. QED
    BY <1>1, <2>1, <2>2, OneOutcome
<1>5. CASE op = "Transpose"
  <2>1. r = Transposed(n, stray)
    BY <1>5 DEF dispatch
  <2>2. QED
    BY <1>1, <2>1, TransposedOutcome
<1>6. QED
  BY <1>2, <1>3, <1>4, <1>5 DEF FirstTier

\* The second tier.
LEMMA DispatchL2Outcome ==
  ASSUME MapKnown, NEW loose, Program(body, loose), NEW n, n.op_type \in SecondTier, NEW stray
  PROVE  Outcome(dispatch_l2(n, stray), loose)
<1> DEFINE op == n.op_type
           r == dispatch_l2(n, stray)
           x == Operand(n, 1)
           y == Operand(n, 2)
<1>1. /\ valid(x) => KnownTo(body, Len(body), x) /\ Usable(body, x, loose)
      /\ valid(y) => KnownTo(body, Len(body), y) /\ Usable(body, y, loose)
  BY ValidKnown, OperandUsable
<1>2. CASE op \in {"Add", "Mul", "Sub"}
  <2> DEFINE mnemonic == BinaryMnemonic[op]
             clash == [Failure EXCEPT !.value = x]
  <2>1. r = convert_binary_l2(n)
    BY <1>2 DEF dispatch_l2
  <2>2. \/ r = Failure
        \/ valid(x) /\ valid(y) /\ r = emit_broadcast_binary(x, y, mnemonic)
    BY <2>1, Zenon DEF convert_binary_l2
  <2>3. \/ emit_broadcast_binary(x, y, mnemonic) = clash
        \/ \E t : emit_broadcast_binary(x, y, mnemonic) = Combine(mnemonic, x, y, t)
    BY Zenon DEF emit_broadcast_binary
  <2>4. clash.ok = FALSE /\ clash.body = body /\ clash.value = x
    BY DEF Failure
  <2> HIDE DEF mnemonic, clash
  <2>5. ASSUME valid(x) PROVE Outcome(clash, loose)
    BY <1>1, <2>4, <2>5 DEF Outcome
  <2>6. QED
    BY <1>1, <2>2, <2>3, <2>5, FailureOutcome, CombineOutcome
<1>3. CASE op = "MatMul"
  <2>1. r = convert_matmul_l2(n)
    BY <1>3 DEF dispatch_l2
  <2>2. r = Failure \/ r = MatMulOpConversion(n)
    BY <2>1, Zenon DEF convert_matmul_l2
  <2>3. QED
    BY <2>2, FailureOutcome, SimpleOutcomes
<1>4. CASE op = "Conv"
  <2>1. r = convert_conv_l2(n)
    BY <1>4 DEF dispatch_l2
  <2>2. \E m : r = ConvOpConversion(m)
    BY <2>1, Zenon DEF convert_conv_l2
  <2>3. QED
    BY <2>2, ConvOutcome
<1>5. CASE op = "Reshape"
  <2> DEFINE shape == lookup(n.inputs[2])
  <2>1. r = convert_reshape_l2(n)
    BY <1>5 DEF dispatch_l2
  <2>2. shape = y
    BY DEF Operand
  <2>3. \/ r = Failure
        \/ /\ valid(x) /\ valid(shape)
           /\ \E t : r = Success(Emit(body, "stablehlo.dynamic_reshape", <<x, shape>>, <<>>, t))
        \/ /\ valid(x)
           /\ \E t : r = Success(Emit(body, "stablehlo.reshape", <<x>>, <<>>, t))
    BY <2>1, Zenon DEF convert_reshape_l2
  <2>4. QED
    BY <1>1, <2>2, <2>3, FailureOutcome, OneOutcome, TwoOutcome
<1>6. CASE op = "Transpose"
  <2>1. r = convert_transpose_l2(n, stray)
    BY <1>6 DEF dispatch_l2
  <2>2. r = Failure \/ r = TransposeOpConversion(n, stray)
    BY <2>1, Zenon DEF convert_transpose_l2
  <2>3. QED
    BY <2>2, FailureOutcome, TransposeOutcome
<1>7. QED
  BY <1>2, <1>3, <1>4, <1>5, <1>6 DEF SecondTier, FirstTier

-----------------------------------------------------------------------------
(***************************************************************************)
(* Kept takes the entries of a sequence that are in a set.                 *)
(***************************************************************************)
\* Entry by entry, what Kept collects.
Collects(s, S, f) ==
  /\ f[0] = <<>>
  /\ \A n \in 0 .. Len(s) - 1 :
       f[n + 1] = IF s[n + 1] \in S THEN Append(f[n], s[n + 1]) ELSE f[n]
  /\ Kept(s, S) = f[Len(s)]

\* There is such a function: Kept is defined for every sequence.
LEMMA CollectsExists ==
  ASSUME NEW s, IsSequence(s), NEW S
  PROVE  \E f : Collects(s, S, f)
<1>1. PICK T : s \in Seq(T)
  BY DEF IsSequence
<1> DEFINE N == Len(s)
           Take(n, c) == IF s[n] \in S THEN Append(c, s[n]) ELSE c
           step == [p \in (1 .. N) \X Seq(T) |-> Take(p[1], p[2])]
           Unfolds(f) == f = [n \in 0 .. N |->
                                IF n = 0 THEN <<>>
                                ELSE IF s[n] \in S THEN Append(f[n - 1], s[n]) ELSE f[n - 1]]
<1>2. N \in Nat /\ \A n \in 1 .. N : s[n] \in T
  BY <1>1
<1>3. PICK f : Recursion(f, N, <<>>, step)
  <2> HIDE DEF step
  <2>1. QED
    BY <1>2, RecursionExists
<1>4. /\ \E V : f \in [0 .. N -> V]
      /\ f[0] = <<>>
      /\ \A n \in 0 .. N - 1 : f[n + 1] = step[<<n + 1, f[n]>>]
  <2> HIDE DEF step
  <2>1. QED
    BY <1>3 DEF Recursion
<1>5. ASSUME NEW n \in 0 .. N - 1, f[n] \in Seq(T)
      PROVE  f[n + 1] = Take(n + 1, f[n]) /\ f[n + 1] \in Seq(T)
  <2> DEFINE p == <<n + 1, f[n]>>
  <2>1. p \in (1 .. N) \X Seq(T) /\ p[1] = n + 1 /\ p[2] = f[n]
    BY <1>2, <1>5
  <2> HIDE DEF p
  <2>2. step[p] = Take(n + 1, f[n])
    BY <2>1
  <2> HIDE DEF step
  <2>3. f[n + 1] = Take(n + 1, f[n])
    BY <1>4, <2>2 DEF p
  <2>4. s[n + 1] \in T
    BY <1>2
  <2>5. Take(n + 1, f[n]) \in Seq(T)
    BY <1>5, <2>4
  <2>6. QED
    BY <2>3, <2>5
<1> HIDE DEF step
<1> DEFINE P == {n \in 0 .. N : f[n] \in Seq(T)}
<1>6. 0 \in P
  <2>1. <<>> \in Seq(T)
    OBVIOUS
  <2>2. QED
    BY <1>2, <1>4, <2>1
<1>7. ASSUME NEW n \in Nat, n < N, n \in P PROVE n + 1 \in P
  <2>1. n \in 0 .. N - 1 /\ n + 1 \in 0 .. N
    BY <1>2, <1>7
  <2>2. f[n] \in Seq(T)
    BY <1>7
  <2>3. f[n + 1] \in Seq(T)
    <3> HIDE DEF Take
    <3>1. QED
      BY <1>5, <2>1, <2>2
  <2>4. QED
    BY <2>1, <2>3
<1>8. 0 .. N \subseteq P
  <2> HIDE DEF P
  <2>1. QED
    BY <1>2, <1>6, <1>7, UpTo
<1>9. \A n \in 0 .. N - 1 : f[n + 1] = Take(n + 1, f[n])
  <2> HIDE DEF Take
  <2>1. \A n \in 0 .. N - 1 : f[n] \in Seq(T)
    BY <1>2, <1>8
  <2>2. QED
    BY <1>5, <2>1
<1>10. Unfolds(f)
  <2>1. \A n \in 0 .. N : f[n] = IF n = 0 THEN <<>> ELSE Take(n, f[n - 1])
    <3> HIDE DEF Take
    <3>1. \A n \in 0 .. N : n # 0 => n - 1 \in 0 .. N - 1 /\ n - 1 + 1 = n
      BY <1>2
    <3>2. QED
      BY <1>4, <1>9, <3>1
  <2>2. f = [n \in 0 .. N |-> f[n]]
    BY <1>4
  <2>3. QED
    BY <2>1, <2>2
<1> DEFINE g == CHOOSE g : Unfolds(g)
<1>11. Unfolds(g)
  <2> HIDE DEF Unfolds
  <2>1. QED
    BY <1>10
<1>12. Kept(s, S) = g[N]
  BY Zenon DEF Kept
<1> HIDE DEF g
<1>13. /\ g[0] = <<>>
       /\ \A n \in 0 .. N - 1 : g[n + 1] = IF s[n + 1] \in S THEN Append(g[n], s[n + 1]) ELSE g[n]
  <2>1. \A n \in 0 .. N : g[n] = IF n = 0 THEN <<>>
                                 ELSE IF s[n] \in S THEN Append(g[n - 1], s[n]) ELSE g[n - 1]
    BY <1>11
  <2>2. 0 \in 0 .. N
    BY <1>2
  <2>3. ASSUME NEW n \in 0 .. N - 1 PROVE n + 1 \in 0 .. N /\ n + 1 # 0 /\ n + 1 - 1 = n
    BY <1>2
  <2>4. g[0] = <<>>
    BY <2>1, <2>2
  <2>5. ASSUME NEW n \in 0 .. N - 1
        PROVE  g[n + 1] = IF s[n + 1] \in S THEN Append(g[n], s[n + 1]) ELSE g[n]
    BY <2>1, <2>3
  <2>6. QED
    BY <2>4, <2>5
<1>14. QED
  BY <1>12, <1>13, Zenon DEF Collects

\* c has the entries of s up to n that are in S.
HasKept(s, S, n, c) ==
  /\ c \in Seq({s[j] : j \in 1 .. Len(s)})
  /\ Len(c) <= n
  /\ \A i \in DOMAIN c : c[i] \in S
  /\ \A j \in 1 .. n : s[j] \in S => \E i \in DOMAIN c : c[i] = s[j]
  /\ Len(c) = n <=> \A j \in 1 .. n : s[j] \in S

\* What Kept gives.
LEMMA KeptFacts ==
  ASSUME NEW s, IsSequence(s), NEW S
  PROVE  HasKept(s, S, Len(s), Kept(s, S))
<1> DEFINE N == Len(s)
           T == {s[j] : j \in 1 .. N}
<1>1. N \in Nat
  BY SequenceFacts
<1>2. PICK f : Collects(s, S, f)
  BY CollectsExists
<1>3. HasKept(s, S, 0, f[0])
  BY <1>2 DEF Collects, HasKept
<1>4. ASSUME NEW n \in 0 .. N - 1, HasKept(s, S, n, f[n]) PROVE HasKept(s, S, n + 1, f[n + 1])
  <2> DEFINE c == f[n]
             d == f[n + 1]
             e == s[n + 1]
  <2>1. n \in Nat /\ n + 1 \in 1 .. N /\ e \in T
    BY <1>1
  <2>2. c \in Seq(T) /\ Len(c) \in Nat /\ Len(c) <= n /\ DOMAIN c = 1 .. Len(c)
    BY <1>4 DEF HasKept
  <2>3. d = IF e \in S THEN Append(c, e) ELSE c
    BY <1>2 DEF Collects
  <2>4. 1 .. n + 1 = (1 .. n) \cup {n + 1}
    BY <2>1
  <2>5. CASE e \in S
    <3>1. d = Append(c, e)
      BY <2>3, <2>5
    <3>2. /\ d \in Seq(T) /\ Len(d) = Len(c) + 1 /\ DOMAIN d = 1 .. Len(c) + 1
          /\ d[Len(c) + 1] = e /\ \A i \in 1 .. Len(c) : d[i] = c[i]
      BY <2>1, <2>2, <3>1
    <3> HIDE DEF c, d, e, T, N
    <3>3. /\ \A i \in 1 .. Len(c) : c[i] \in S
          /\ \A j \in 1 .. n : s[j] \in S => \E i \in 1 .. Len(c) : c[i] = s[j]
          /\ Len(c) = n <=> \A j \in 1 .. n : s[j] \in S
      BY <1>4, <2>2 DEF HasKept, c
    <3>4. \A i \in DOMAIN d : d[i] \in S
      BY <2>2, <2>5, <3>2, <3>3
    <3>5. \A j \in 1 .. n + 1 : s[j] \in S => \E i \in DOMAIN d : d[i] = s[j]
      <4>1. \E i \in DOMAIN d : d[i] = s[n + 1]
        BY <2>2, <3>2 DEF e
      <4>2. \A i \in 1 .. Len(c) : i \in DOMAIN d
        BY <2>2, <3>2
      <4>3. QED
        BY <2>4, <3>2, <3>3, <4>1, <4>2
    <3>6. ASSUME Len(d) = n + 1, NEW j \in 1 .. n + 1 PROVE s[j] \in S
      <4>1. Len(c) = n
        <5>1. Len(d) = Len(c) + 1
          BY <3>2
        <5>2. Len(c) + 1 = n + 1 /\ n \in Nat /\ Len(c) \in Nat
          BY <2>1, <2>2, <3>6, <5>1
        <5>3. QED
          BY <5>2
      <4>2. CASE j \in 1 .. n
        BY <3>3, <4>1, <4>2
      <4>3. CASE j = n + 1
        BY <2>5, <4>3 DEF e
      <4>4. QED
        BY <2>4, <4>2, <4>3
    <3>7. d \in Seq({s[j] : j \in 1 .. Len(s)}) /\ Len(d) <= n + 1
      BY <2>1, <2>2, <3>2 DEF T, N
    <3>8. ASSUME \A j \in 1 .. n + 1 : s[j] \in S PROVE Len(d) = n + 1
      <4>1. Len(c) = n
        BY <1>4, <2>4, <3>8 DEF HasKept, c
      <4>2. QED
        BY <3>2, <4>1
    <3>9. HasKept(s, S, n + 1, d)
      BY <3>4, <3>5, <3>6, <3>7, <3>8 DEF HasKept
    <3>10. QED
      BY <3>9 DEF d
  <2>6. CASE e \notin S
    <3>1. d = c
      BY <2>3, <2>6
    <3>2. Len(c) # n + 1
      BY <2>1, <2>2
    <3>3. HasKept(s, S, n + 1, c)
      BY <1>4, <2>4, <2>6, <2>1, <2>2, <3>2 DEF HasKept
    <3>4. QED
      BY <3>1, <3>3
  <2>7. QED
    BY <2>5, <2>6
<1> DEFINE P == {n \in 0 .. N : HasKept(s, S, n, f[n])}
<1>5. 0 \in P
  BY <1>1, <1>3
<1>6. ASSUME NEW n \in Nat, n < N, n \in P PROVE n + 1 \in P
  BY <1>1, <1>6, <1>4
<1> HIDE DEF P
<1>7. 0 .. N \subseteq P
  BY <1>1, <1>5, <1>6, UpTo
<1>8. HasKept(s, S, N, f[N])
  BY <1>1, <1>7 DEF P
<1>9. QED
  BY <1>2, <1>8 DEF Collects

-----------------------------------------------------------------------------
(***************************************************************************)
(* The invariant.                                                          *)
(***************************************************************************)
Missing == "missing" \in lapses

\* Where the run is, and what it has counted.
CountInv ==
  /\ graph \in Graphs
  /\ stage \in {"init", "nodes", "done", "crashed"}
  /\ tier \in 1 .. 3
  /\ next \in 1 .. Len(graph.nodes) + 1
  /\ stats \in [total : Nat, converted : Nat, already_legal : Nat, failed : Nat]
  /\ counts \in [converted : Nat, skipped : Nat]
  /\ next - 1 = IF tier = 3 THEN stats.total ELSE counts.converted + counts.skipped
  /\ stats.total = stats.converted + stats.already_legal + stats.failed
  /\ errors \in Nat

\* The function ends with a return of known values.
HasReturned ==
  \E b, found :
    /\ Program(b, Missing)
    /\ body = Append(b, Operation(<<>>, "func.return", found, <<>>, Unknown))
    /\ \A v \in ToSet(found) : KnownTo(b, Len(b), v)

BodyInv ==
  /\ stage # "done" => Program(body, Missing) /\ MapKnown
  /\ stage = "done" => HasReturned

LInv == CountInv /\ BodyInv

\* What ONNX's checker has seen to.
LEMMA GraphFacts ==
  ASSUME NEW g \in Graphs
  PROVE  /\ IsSequence(g.inputs) /\ IsSequence(g.outputs) /\ IsSequence(g.initializers)
         /\ IsSequence(g.nodes) /\ Len(g.nodes) \in Nat
         /\ DOMAIN g.nodes = 1 .. Len(g.nodes)
         /\ DOMAIN g.data = NamesOf(g.initializers)
<1>1. IsOnnxGraph(g)
  BY GraphsAssumption
<1>2. /\ g.inputs \in Seq(ValueInfoProto) /\ g.outputs \in Seq(ValueInfoProto)
      /\ g.initializers \in Seq(ValueInfoProto) /\ g.nodes \in Seq(NodeProto)
      /\ DOMAIN g.data = NamesOf(g.initializers)
  BY <1>1, Zenon DEF IsOnnxGraph
<1>3. QED
  BY <1>2, SequenceFacts DEF IsSequence

\* What a missing value may do later it may do earlier.
LEMMA ProgramLooser ==
  ASSUME NEW b, NEW loose, Program(b, loose), NEW looser, loose => looser
  PROVE  Program(b, looser)
  BY DEF Program

\* A name is given a value of a longer program.
LEMMA EnteredKnown ==
  ASSUME MapKnown, IsSequence(body), NEW c, IsSequence(c), Longer(body, c),
         NEW name, NEW v, NEW m,
         m = value_map \/ (m = Entered(name, v) /\ KnownTo(c, Len(c), v))
  PROVE  \A x \in DOMAIN m : KnownTo(c, Len(c), m[x])
<1>1. \A x \in DOMAIN value_map : KnownTo(c, Len(c), value_map[x])
  BY KnownLonger DEF MapKnown
<1>2. CASE m = value_map
  BY <1>1, <1>2
<1>3. CASE m = Entered(name, v) /\ KnownTo(c, Len(c), v)
  BY <1>3, <1>1 DEF Entered
<1>4. QED
  BY <1>2, <1>3

\* A node's outcome, entered under its output or not.
LEMMA OutcomeKeepsBody ==
  ASSUME MapKnown, NEW loose, Program(body, loose), NEW r, Outcome(r, loose),
         NEW name, NEW m, m = value_map \/ (m = Entered(name, r.value) /\ r.value # Invalid)
  PROVE  /\ Program(r.body, loose)
         /\ \A x \in DOMAIN m : KnownTo(r.body, Len(r.body), m[x])
<1>1. IsSequence(body)
  BY DEF Program
<1>2. CASE r.ok = TRUE /\ Builds(body, r, loose)
  BY <1>2, <1>1, EnteredKnown DEF Builds, Program
<1>3. CASE r.ok = FALSE /\ r.body = body /\ (r.value = Invalid \/ KnownTo(body, Len(body), r.value))
  BY GoesOnSelf, <1>3, <1>1, EnteredKnown DEF GoesOn
<1>4. QED
  BY <1>2, <1>3 DEF Outcome

\* Counting a node.
LEMMA CountedFacts ==
  ASSUME CountInv, NEW field \in {"converted", "already_legal", "failed"}
  PROVE  /\ Counted(field) \in [total : Nat, converted : Nat, already_legal : Nat, failed : Nat]
         /\ Counted(field).total = stats.total + 1
         /\ Counted(field).total = Counted(field).converted + Counted(field).already_legal
                                     + Counted(field).failed
         /\ Counted(field).failed = IF field = "failed" THEN stats.failed + 1 ELSE stats.failed
<1>1. /\ stats \in [total : Nat, converted : Nat, already_legal : Nat, failed : Nat]
      /\ stats.total = stats.converted + stats.already_legal + stats.failed
  BY DEF CountInv
<1>2. /\ stats.total \in Nat /\ stats.converted \in Nat /\ stats.already_legal \in Nat
      /\ stats.failed \in Nat
  BY <1>1
<1> DEFINE one == [stats EXCEPT !.total = stats.total + 1]
           c == [one EXCEPT ![field] = one[field] + 1]
<1>3. Counted(field) = c
  BY <1>1 DEF Counted
<1>4. /\ one \in [total : Nat, converted : Nat, already_legal : Nat, failed : Nat]
      /\ one.total = stats.total + 1 /\ one.converted = stats.converted
      /\ one.already_legal = stats.already_legal /\ one.failed = stats.failed
  BY <1>1, <1>2
<1> HIDE DEF one
<1>5. /\ c \in [total : Nat, converted : Nat, already_legal : Nat, failed : Nat]
      /\ c.total = stats.total + 1
      /\ c.total = c.converted + c.already_legal + c.failed
      /\ c.failed = IF field = "failed" THEN stats.failed + 1 ELSE stats.failed
  <2>1. CASE field = "converted"
    BY <1>1, <1>2, <1>4, <2>1
  <2>2. CASE field = "already_legal"
    BY <1>1, <1>2, <1>4, <2>2
  <2>3. CASE field = "failed"
    BY <1>1, <1>2, <1>4, <2>3
  <2>4. QED
    BY <2>1, <2>2, <2>3
<1> HIDE DEF c
<1>6. QED
  BY <1>3, <1>5

-----------------------------------------------------------------------------
(***************************************************************************)
(* The steps keep the counts.                                              *)
(***************************************************************************)
\* A run starts with nothing counted.
LEMMA CountInit == ASSUME LoweringInit PROVE CountInv
<1>1. graph \in Graphs /\ stage = "init" /\ next = 1 /\ stats = NoStats /\ errors = 0
  BY DEF LoweringInit, Init
<1>2. tier \in 1 .. 3 /\ counts = [converted |-> 0, skipped |-> 0]
  BY DEF LoweringInit
<1>3. Len(graph.nodes) \in Nat
  BY <1>1, GraphFacts
<1>4. /\ stats \in [total : Nat, converted : Nat, already_legal : Nat, failed : Nat]
      /\ stats.total = 0 /\ stats.converted = 0 /\ stats.already_legal = 0 /\ stats.failed = 0
  BY <1>1 DEF NoStats
<1>5. counts \in [converted : Nat, skipped : Nat] /\ counts.converted = 0 /\ counts.skipped = 0
  BY <1>2
<1>6. QED
  BY <1>1, <1>2, <1>3, <1>4, <1>5 DEF CountInv

\* One node of the third tier.
LEMMA CountNode ==
  ASSUME CountInv, tier = 3, stage = "nodes", next <= Len(graph.nodes),
         NEW field \in {"converted", "already_legal", "failed"}, stats' = Counted(field),
         next' = next + 1, errors' \in Nat, UNCHANGED <<graph, stage, tier, counts>>
  PROVE  CountInv'
<1>1. /\ stats' \in [total : Nat, converted : Nat, already_legal : Nat, failed : Nat]
      /\ stats'.total = stats.total + 1
      /\ stats'.total = stats'.converted + stats'.already_legal + stats'.failed
  BY CountedFacts
<1>2. graph \in Graphs /\ Len(graph.nodes) \in Nat
  BY GraphFacts DEF CountInv
<1>3. next' \in 1 .. Len(graph.nodes) + 1
  BY <1>2 DEF CountInv
<1>4. next \in Int /\ next - 1 = stats.total /\ stats.total \in Nat
  BY <1>2 DEF CountInv
<1>5. next' - 1 = stats'.total
  BY <1>1, <1>4
<1>6. QED
  BY <1>1, <1>2, <1>3, <1>5 DEF CountInv

\* One node of the other two.
LEMMA CountTier ==
  ASSUME CountInv, tier # 3, stage = "nodes", next <= Len(graph.nodes),
         \/ counts' = [counts EXCEPT !.converted = @ + 1]
         \/ counts' = [counts EXCEPT !.skipped = @ + 1],
         next' = next + 1, errors' \in Nat, UNCHANGED <<graph, stage, tier, stats>>
  PROVE  CountInv'
<1>1. counts \in [converted : Nat, skipped : Nat] /\ counts.converted \in Nat /\ counts.skipped \in Nat
  BY DEF CountInv
<1>2. /\ counts' \in [converted : Nat, skipped : Nat]
      /\ counts'.converted + counts'.skipped = counts.converted + counts.skipped + 1
  <2>1. CASE counts' = [counts EXCEPT !.converted = @ + 1]
    BY <1>1, <2>1
  <2>2. CASE counts' = [counts EXCEPT !.skipped = @ + 1]
    BY <1>1, <2>2
  <2>3. QED
    BY <2>1, <2>2
<1>3. graph \in Graphs /\ Len(graph.nodes) \in Nat
  BY GraphFacts DEF CountInv
<1>4. next' \in 1 .. Len(graph.nodes) + 1
  BY <1>3, SMTT(30) DEF CountInv
<1>5. next \in Int /\ next - 1 = counts.converted + counts.skipped
  BY <1>3 DEF CountInv
<1>6. next' - 1 = counts'.converted + counts'.skipped
  BY <1>1, <1>2, <1>5
<1>7. QED
  BY <1>2, <1>3, <1>4, <1>6 DEF CountInv

\* Every step counts what it does.
LEMMA CountStep == ASSUME LInv, LoweringNext PROVE CountInv'
<1>0. CountInv /\ errors \in Nat
  BY DEF LInv, CountInv
<1>1. ASSUME SkipUnsupported PROVE CountInv'
  BY <1>0, <1>1, CountTier DEF SkipUnsupported, AtNode, CountInv
<1>2. ASSUME AtNode, NEW result, Enter(result) PROVE CountInv'
  BY <1>0, <1>2, CountTier, SMTT(30) DEF Enter, AtNode, CountInv, Reported
<1>3. CASE Dispatch \/ DispatchL2
  BY <1>2, <1>3 DEF Dispatch, DispatchL2
<1>4. CASE Stop
  BY <1>0, <1>4 DEF Stop, CountInv
<1>5. ASSUME tier = 3, SkipLegal \/ NoPattern \/ Convert, UNCHANGED <<tier, counts>> PROVE CountInv'
  BY <1>5, <1>0, CountNode DEF SkipLegal, NoPattern, Convert, NoPatternStats
<1>6. ASSUME Prepare \/ ReadBeyondInputs \/ Terminating, UNCHANGED <<tier, counts>> PROVE CountInv'
  BY <1>0, <1>6 DEF Prepare, ReadBeyondInputs, Terminating, vars, CountInv
<1>7. ASSUME Finalize, UNCHANGED <<tier, counts>> PROVE CountInv'
  <2> DEFINE outs == [i \in DOMAIN graph.outputs |-> lookup(graph.outputs[i].name)]
             found == Kept(outs, {v \in ToSet(outs) : valid(v)})
  <2>1. /\ UNCHANGED <<graph, next, stats, tier, counts>> /\ stage' = "done"
        /\ errors' = errors + Len(outs) - Len(found)
    BY <1>7, Zenon DEF Finalize
  <2>2. IsSequence(graph.outputs)
    BY <1>0, GraphFacts DEF CountInv
  <2>3. IsSequence(outs)
    <3>1. DOMAIN graph.outputs = 1 .. Len(graph.outputs) /\ Len(graph.outputs) \in Nat
      BY <2>2, SequenceFacts
    <3>2. outs \in Seq({outs[i] : i \in DOMAIN graph.outputs})
      BY <3>1
    <3>3. QED
      BY <3>2 DEF IsSequence
  <2> DEFINE S == {v \in ToSet(outs) : valid(v)}
  <2>4. HasKept(outs, S, Len(outs), Kept(outs, S))
    <3> HIDE DEF S, outs
    <3>1. QED
      BY <2>3, KeptFacts
  <2>5. Len(found) \in Nat /\ Len(found) <= Len(outs) /\ Len(outs) \in Nat
    <3>1. found = Kept(outs, S)
      OBVIOUS
    <3> HIDE DEF S, outs, found
    <3>2. QED
      BY <2>3, <2>4, <3>1, SequenceFacts DEF HasKept
  <2> HIDE DEF outs, found
  <2>6. errors' \in Nat
    BY <1>0, <2>1, <2>5
  <2>7. QED
    BY <1>0, <2>1, <2>6 DEF CountInv
<1>8. QED
  BY <1>1, <1>3, <1>4, <1>5, <1>6, <1>7 DEF LoweringNext, Shared, Framework

-----------------------------------------------------------------------------
(***************************************************************************)
(* The steps keep the program and the value map.                           *)
(***************************************************************************)
\* The empty program.
LEMMA EmptyProgram == ASSUME NEW loose PROVE Program(<<>>, loose)
<1>1. <<>> \in Seq({}) /\ DOMAIN <<>> = {}
  OBVIOUS
<1>2. QED
  BY <1>1, Zenon DEF Program, IsSequence

\* The initializers become constants, and the names of the context known.
LEMMA PrepareBody ==
  ASSUME graph \in Graphs, Prepare, NEW loose
  PROVE  /\ Program(body', loose)
         /\ \A x \in DOMAIN value_map' : KnownTo(body', Len(body'), value_map'[x])
         /\ DOMAIN value_map' = NamesOf(graph.inputs) \cup NamesOf(graph.initializers)
         /\ \A x \in DOMAIN value_map' : value_map'[x].type = AllTypes(graph)[x]
<1> DEFINE types == AllTypes(graph)
           inits == graph.initializers
           S == {x \in ToSet(graph.inputs) : ~IsInitializer(x.name)}
           args == Kept(graph.inputs, S)
           N == Len(inits)
           Op(i) == Operation(<<"ssa", i - 1>>, "stablehlo.constant", <<>>, <<>>, types[inits[i].name])
<1>1. /\ IsSequence(graph.inputs) /\ IsSequence(inits) /\ N \in Nat /\ DOMAIN inits = 1 .. N
      /\ DOMAIN graph.data = NamesOf(inits)
  BY GraphFacts, SequenceFacts
<1>2. /\ body' = [i \in DOMAIN inits |-> Op(i)]
      /\ value_map' =
           [name \in NamesOf(args) \cup NamesOf(inits) |->
              IF IsInitializer(name)
              THEN Value(<<"ssa", (CHOOSE k \in DOMAIN inits : inits[k].name = name) - 1>>, types[name])
              ELSE [i \in DOMAIN args |-> Value(<<"arg", i - 1>>, types[args[i].name])]
                     [CHOOSE k \in DOMAIN args : args[k].name = name]]
  BY Zenon DEF Prepare
<1>3. HasKept(graph.inputs, S, Len(graph.inputs), args)
  <2> HIDE DEF S
  <2>1. QED
    BY <1>1, KeptFacts
<1>4. \A name : IsInitializer(name) <=> name \in NamesOf(inits)
  BY <1>1 DEF IsInitializer
<1>5. NamesOf(args) \cup NamesOf(inits) = NamesOf(graph.inputs) \cup NamesOf(inits)
  <2>1. ASSUME NEW name \in NamesOf(args) PROVE name \in NamesOf(graph.inputs)
    <3>1. PICK i \in DOMAIN args : name = args[i].name
      BY DEF NamesOf
    <3>2. args[i] \in S
      BY <1>3 DEF HasKept
    <3>3. QED
      BY <3>1, <3>2 DEF NamesOf, ToSet
  <2>2. ASSUME NEW name \in NamesOf(graph.inputs), name \notin NamesOf(inits)
        PROVE  name \in NamesOf(args)
    <3>1. PICK j \in DOMAIN graph.inputs : name = graph.inputs[j].name
      BY DEF NamesOf
    <3>2. j \in 1 .. Len(graph.inputs)
      BY <1>1, SequenceFacts
    <3>3. graph.inputs[j] \in S
      BY <1>4, <2>2, <3>1 DEF ToSet
    <3>4. \E i \in DOMAIN args : args[i] = graph.inputs[j]
      BY <1>3, <3>2, <3>3 DEF HasKept
    <3>5. QED
      BY <3>1, <3>4 DEF NamesOf
  <2>3. QED
    BY <2>1, <2>2
<1>6. IsSequence(body') /\ Len(body') = N /\ DOMAIN body' = 1 .. N
  <2> DEFINE T == {Op(i) : i \in 1 .. N}
  <2>1. body' \in Seq(T)
    <3>1. body' = [i \in 1 .. N |-> Op(i)] /\ \A i \in 1 .. N : Op(i) \in T
      BY <1>1, <1>2
    <3> HIDE DEF Op, T, N
    <3>2. [i \in 1 .. N |-> Op(i)] \in Seq(T)
      BY <1>1, <3>1
    <3>3. QED
      BY <3>1, <3>2
  <2>2. IsSequence(body') /\ DOMAIN body' = 1 .. N
    BY <1>1, <1>2, <2>1 DEF IsSequence
  <2>3. QED
    BY <1>1, <2>2, SequenceFacts
<1>7. ASSUME NEW i \in 1 .. N
      PROVE  /\ body'[i].name = <<"ssa", i - 1>> /\ body'[i].type = types[inits[i].name]
             /\ ToSet(body'[i].operands) = {}
  <2>1. body'[i] = Op(i)
    BY <1>1, <1>2
  <2>2. /\ Op(i).name = <<"ssa", i - 1>> /\ Op(i).type = types[inits[i].name]
        /\ Op(i).operands = <<>>
    BY DEF Operation
  <2>3. ToSet(<<>>) = {}
    BY DEF ToSet
  <2> HIDE DEF Op
  <2>4. QED
    BY <2>1, <2>2, <2>3
<1>8. Program(body', loose)
  BY <1>6, <1>7 DEF Program
<1>9. ASSUME NEW name \in DOMAIN value_map'
      PROVE  KnownTo(body', Len(body'), value_map'[name]) /\ value_map'[name].type = types[name]
  <2> DEFINE k == CHOOSE k \in DOMAIN inits : inits[k].name = name
             a == CHOOSE a \in DOMAIN args : args[a].name = name
             v == value_map'[name]
  <2>1. CASE IsInitializer(name)
    <3>1. \E i \in DOMAIN inits : inits[i].name = name
      BY <1>4, <2>1 DEF NamesOf
    <3>2. k \in DOMAIN inits /\ inits[k].name = name
      BY <3>1
    <3>3. v = Value(<<"ssa", k - 1>>, types[name])
      BY <1>2, <2>1
    <3> HIDE DEF k, v, types
    <3>4. k \in 1 .. Len(body') /\ v = Value(body'[k].name, body'[k].type)
      BY <1>1, <1>6, <1>7, <3>2, <3>3
    <3>5. KnownTo(body', Len(body'), v)
      BY <3>4 DEF KnownTo
    <3>6. QED
      BY <3>3, <3>5 DEF v, Value
  <2>2. CASE ~IsInitializer(name)
    <3>1. name \in NamesOf(args)
      BY <1>2, <1>4, <2>2
    <3>2. \E i \in DOMAIN args : args[i].name = name
      BY <3>1 DEF NamesOf
    <3>3. a \in DOMAIN args /\ args[a].name = name
      BY <3>2
    <3>4. v = [i \in DOMAIN args |-> Value(<<"arg", i - 1>>, types[args[i].name])][a]
      BY <1>2, <2>2
    <3> HIDE DEF a, v, types, args
    <3>5. v = Value(<<"arg", a - 1>>, types[args[a].name])
      BY <3>3, <3>4
    <3>6. v.name = <<"arg", a - 1>>
      BY <3>5 DEF Value
    <3>7. Len(v.name) = 2 /\ v.name[1] = "arg"
      BY <3>6
    <3>8. v.name # <<>>
      BY <3>7
    <3>9. KnownTo(body', Len(body'), v)
      BY <3>7, <3>8 DEF KnownTo
    <3>10. QED
      BY <3>3, <3>5, <3>9 DEF v, Value
  <2>3. QED
    BY <2>1, <2>2
<1>10. DOMAIN value_map' = NamesOf(graph.inputs) \cup NamesOf(inits)
  BY <1>2, <1>5
<1>11. QED
  BY <1>8, <1>9, <1>10

\* A missing operand of the first tier is remembered.
LEMMA MissingLapse ==
  ASSUME tier = 1, NEW n, NEW result,
         ~valid(Operand(n, 1)) \/ (Len(n.inputs) > 1 /\ ~valid(Operand(n, 2)))
  PROVE  "missing" \in TierLapses(n, result)
<1>1. "missing" \in FirstLapses(n)
  BY Zenon DEF FirstLapses
<1>2. QED
  BY <1>1 DEF TierLapses

\* How many inputs the nodes have that the first two tiers look at.
LEMMA NodeArity ==
  ASSUME NEW g \in Graphs, NEW i \in DOMAIN g.nodes
  PROVE  /\ g.nodes[i].op_type \in {"Add", "Mul", "Sub", "MatMul", "Reshape"}
              => Len(g.nodes[i].inputs) = 2
         /\ g.nodes[i].op_type = "Transpose" => Len(g.nodes[i].inputs) = 1
         /\ g.nodes[i].op_type = "Conv" => Len(g.nodes[i].inputs) \in 2 .. 3
<1> DEFINE n == g.nodes[i]
<1>1. IsOnnxGraph(g)
  BY GraphsAssumption
<1>2. Len(n.inputs) \in Arity(n.op_type)
  BY <1>1, Zenon DEF IsOnnxGraph
<1> HIDE DEF n
<1>3. n.op_type \in {"Add", "Mul", "Sub", "MatMul", "Reshape"} => Arity(n.op_type) = {2}
  BY DEF Arity
<1>4. n.op_type = "Transpose" => Arity(n.op_type) = {1}
  BY DEF Arity
<1>5. n.op_type = "Conv" => Arity(n.op_type) = 2 .. 3
  BY DEF Arity
<1>6. QED
  BY <1>2, <1>3, <1>4, <1>5 DEF n

\* A step that leaves the program and the value map alone, and forgets nothing.
LEMMA BodyKept ==
  ASSUME BodyInv, stage # "done", stage' # "done", UNCHANGED <<body, value_map>>,
         lapses \subseteq lapses'
  PROVE  BodyInv'
<1>1. Program(body, Missing) /\ MapKnown
  BY DEF BodyInv
<1>2. Missing => Missing'
  BY DEF Missing
<1>3. Program(body, Missing')
  BY <1>1, <1>2, ProgramLooser
<1>4. Program(body', Missing') /\ MapKnown'
  BY <1>1, <1>3 DEF MapKnown
<1>5. QED
  BY <1>4 DEF BodyInv

\* A node whose outcome is entered.
LEMMA BodyNode ==
  ASSUME MapKnown, Program(body, Missing'), NEW r, Outcome(r, Missing'), stage' = "nodes",
         body' = r.body, NEW name,
         value_map' = value_map \/ (value_map' = Entered(name, r.value) /\ r.value # Invalid)
  PROVE  BodyInv'
<1>1. /\ Program(r.body, Missing')
      /\ \A x \in DOMAIN value_map' : KnownTo(r.body, Len(r.body), value_map'[x])
  BY OutcomeKeepsBody
<1>2. Program(body', Missing') /\ MapKnown'
  BY <1>1 DEF MapKnown
<1>3. QED
  BY <1>2 DEF BodyInv

\* A node of the first or second tier.
LEMMA BodyTier ==
  ASSUME CountInv, BodyInv, AtNode, NEW stray, NEW result, Enter(result),
         \/ tier = 1 /\ Current.op_type \in FirstTier /\ result = dispatch(Current, stray)
         \/ tier = 2 /\ Current.op_type \in SecondTier /\ result = dispatch_l2(Current, stray)
  PROVE  BodyInv'
<1> DEFINE n == Current
<1>1. /\ stage = "nodes" /\ stage' = "nodes" /\ tier' = tier
      /\ body' = result.body
      /\ value_map' = IF valid(result.value) THEN Entered(n.output, result.value) ELSE value_map
      /\ lapses' = lapses \cup TierLapses(n, result)
  BY DEF Enter, AtNode
<1>2. MapKnown /\ Program(body, Missing)
  BY <1>1 DEF BodyInv
<1>3. Missing => Missing'
  BY <1>1 DEF Missing
<1>4. Program(body, Missing')
  BY <1>2, <1>3, ProgramLooser
<1>5. graph \in Graphs /\ next \in DOMAIN graph.nodes
  BY GraphFacts DEF CountInv, AtNode
<1>6. Outcome(result, Missing')
  <2>1. CASE tier = 1
    <3>1. n.op_type \in FirstTier /\ result = dispatch(n, stray)
      BY <2>1
    <3>2. n.op_type \notin {"Reshape", "Transpose"} => Len(n.inputs) > 1
      BY <1>5, NodeArity, <3>1 DEF Current, FirstTier
    <3>3. valid(Operand(n, 1)) \/ Missing'
      BY <1>1, <2>1, MissingLapse DEF Missing
    <3>4. n.op_type \in {"Reshape", "Transpose"} \/ valid(Operand(n, 2)) \/ Missing'
      BY <1>1, <2>1, <3>2, MissingLapse DEF Missing
    <3> HIDE DEF n
    <3>5. QED
      BY <1>2, <1>4, <3>1, <3>3, <3>4, DispatchOutcome
  <2>2. CASE tier = 2
    <3>1. n.op_type \in SecondTier /\ result = dispatch_l2(n, stray)
      BY <2>2
    <3> HIDE DEF n
    <3>2. QED
      BY <1>2, <1>4, <3>1, DispatchL2Outcome
  <2>3. QED
    BY <2>1, <2>2
<1>7. value_map' = value_map \/ (value_map' = Entered(n.output, result.value) /\ result.value # Invalid)
  BY <1>1 DEF valid, Invalid, Value
<1> HIDE DEF n
<1>8. QED
  BY <1>1, <1>2, <1>4, <1>6, <1>7, BodyNode

\* A node of the third tier.
LEMMA BodyConvert ==
  ASSUME BodyInv, Convert
  PROVE  BodyInv'
<1> DEFINE n == Current
<1>1. PICK stray \in Stray : \E result \in {matchAndRewrite(n, stray)} :
        /\ body' = result.body
        /\ value_map' = Mapped(n, result)
        /\ lapses' = lapses \cup (IF result.ok THEN Lapses(n) ELSE {})
  BY Zenon DEF Convert
<1> DEFINE r == matchAndRewrite(n, stray)
<1>2. /\ body' = r.body /\ value_map' = Mapped(n, r)
      /\ lapses' = lapses \cup (IF r.ok THEN Lapses(n) ELSE {})
  BY <1>1
<1>3. n.op_type \in Patterns /\ stage = "nodes" /\ stage' = "nodes"
  BY DEF Convert
<1>4. MapKnown /\ Program(body, Missing)
  BY <1>3 DEF BodyInv
<1>5. Missing => Missing'
  BY <1>2 DEF Missing
<1>6. Program(body, Missing')
  BY <1>4, <1>5, ProgramLooser
<1>7. Outcome(r, Missing')
  <2> HIDE DEF n
  <2>1. QED
    BY <1>3, <1>4, <1>6, PatternOutcome
<1> HIDE DEF r, n
<1>8. value_map' = value_map \/ (value_map' = Entered(n.output, r.value) /\ r.value # Invalid)
  <2>1. CASE r.ok = TRUE /\ Builds(body, r, Missing')
    BY <2>1, KnownValid, <1>2 DEF Builds, Mapped
  <2>2. CASE r.ok = FALSE
    BY <1>2, <2>2 DEF Mapped
  <2>3. QED
    BY <1>7, <2>1, <2>2 DEF Outcome
<1>9. QED
  BY <1>2, <1>3, <1>4, <1>6, <1>7, <1>8, BodyNode

\* What Finalize returns.
Outs == [i \in DOMAIN graph.outputs |-> lookup(graph.outputs[i].name)]

Found == Kept(Outs, {v \in ToSet(Outs) : valid(v)})

\* The values found are the valid ones among those looked up, one per output.
LEMMA FoundFacts ==
  ASSUME graph \in Graphs
  PROVE  /\ IsSequence(Outs) /\ DOMAIN Outs = DOMAIN graph.outputs
         /\ Len(Outs) = Len(graph.outputs) /\ Len(Outs) \in Nat
         /\ HasKept(Outs, {v \in ToSet(Outs) : valid(v)}, Len(Outs), Found)
<1> DEFINE S == {v \in ToSet(Outs) : valid(v)}
<1>1. IsSequence(graph.outputs)
  BY GraphFacts
<1>2. DOMAIN graph.outputs = 1 .. Len(graph.outputs) /\ Len(graph.outputs) \in Nat
  BY <1>1, SequenceFacts
<1>3. Outs \in Seq({Outs[i] : i \in DOMAIN graph.outputs}) /\ DOMAIN Outs = DOMAIN graph.outputs
  BY <1>2 DEF Outs
<1>4. IsSequence(Outs)
  BY <1>3 DEF IsSequence
<1>5. Len(Outs) = Len(graph.outputs) /\ Len(Outs) \in Nat
  BY <1>2, <1>3, <1>4, SequenceFacts
<1>6. Found = Kept(Outs, S)
  BY DEF Found
<1> HIDE DEF S
<1>7. HasKept(Outs, S, Len(Outs), Found)
  BY <1>4, <1>6, KeptFacts
<1>8. QED
  BY <1>3, <1>4, <1>5, <1>7 DEF S

\* The values that are returned are known.
LEMMA BodyFinalize ==
  ASSUME CountInv, BodyInv, Finalize
  PROVE  BodyInv'
<1>1. /\ body' = Append(body, Operation(<<>>, "func.return", Found, <<>>, Unknown))
      /\ stage = "nodes" /\ stage' = "done" /\ lapses' = lapses
  BY Zenon DEF Finalize, Found, Outs
<1>2. Program(body, Missing') /\ MapKnown
  BY <1>1 DEF BodyInv, Missing
<1>3. HasKept(Outs, {v \in ToSet(Outs) : valid(v)}, Len(Outs), Found)
  BY FoundFacts DEF CountInv
<1>4. ASSUME NEW v \in ToSet(Found) PROVE KnownTo(body, Len(body), v)
  <2>1. v \in ToSet(Outs) /\ valid(v)
    BY <1>3 DEF HasKept, ToSet
  <2>2. PICK i \in DOMAIN graph.outputs : v = lookup(graph.outputs[i].name)
    BY <2>1 DEF ToSet, Outs
  <2>3. QED
    BY <1>2, <2>1, <2>2 DEF lookup, MapKnown, valid, Invalid, Value
<1>5. HasReturned'
  BY <1>1, <1>2, <1>4 DEF HasReturned
<1>6. QED
  BY <1>1, <1>5 DEF BodyInv

\* Every step keeps the program well named.
LEMMA BodyStep == ASSUME LInv, LoweringNext PROVE BodyInv'
<1>0. CountInv /\ BodyInv
  BY DEF LInv
<1>1. CASE Prepare
  BY <1>0, <1>1, PrepareBody DEF CountInv, MapKnown, Prepare, BodyInv
<1>2. CASE SkipUnsupported \/ Stop \/ SkipLegal \/ NoPattern \/ ReadBeyondInputs
  BY <1>2, <1>0, BodyKept DEF SkipUnsupported, Stop, SkipLegal, NoPattern, ReadBeyondInputs,
     AtNode
<1>3. CASE Dispatch
  <2>1. PICK stray \in Stray : \E result \in {dispatch(Current, stray)} : Enter(result)
    BY <1>3, Zenon DEF Dispatch
  <2>2. Enter(dispatch(Current, stray)) /\ AtNode /\ tier = 1 /\ Current.op_type \in FirstTier
    BY <1>3, <2>1 DEF Dispatch
  <2>3. QED
    BY <1>0, <2>2, BodyTier
<1>4. CASE DispatchL2
  <2>1. PICK stray \in Stray : \E result \in {dispatch_l2(Current, stray)} : Enter(result)
    BY <1>4, Zenon DEF DispatchL2
  <2>2. Enter(dispatch_l2(Current, stray)) /\ AtNode /\ tier = 2 /\ Current.op_type \in SecondTier
    BY <1>4, <2>1 DEF DispatchL2
  <2>3. QED
    BY <1>0, <2>2, BodyTier
<1>5. CASE Convert
  BY <1>0, <1>5, BodyConvert
<1>6. CASE Finalize
  BY <1>0, <1>6, BodyFinalize
<1>7. CASE Terminating
  BY <1>7, <1>0 DEF Terminating, vars, BodyInv, MapKnown, HasReturned, Missing
<1>8. QED
  BY <1>1, <1>2, <1>3, <1>4, <1>5, <1>6, <1>7 DEF LoweringNext, Shared, Framework

-----------------------------------------------------------------------------
(***************************************************************************)
(* The theorems.                                                           *)
(***************************************************************************)
\* The invariant of every run.
LEMMA LoweringInvariant == LoweringSpec => []LInv
<1>1. LoweringInit => LInv
  <2>1. ASSUME LoweringInit PROVE LInv
    BY <2>1, CountInit, EmptyProgram DEF LoweringInit, Init, BodyInv, MapKnown, LInv
  <2>2. QED
    BY <2>1
<1>2. LInv /\ [LoweringNext]_loweringVars => LInv'
  <2>1. CASE LoweringNext
    BY <2>1, CountStep, BodyStep DEF LInv
  <2>2. CASE UNCHANGED loweringVars
    BY <2>2 DEF LInv, CountInv, BodyInv, MapKnown, HasReturned, Missing, loweringVars, vars
  <2>3. QED
    BY <2>1, <2>2
<1>3. QED
  BY <1>1, <1>2, PTL DEF LoweringSpec

\* The operands of the operations of a program, as TypeOK reads them.
ReadsEarlier(b, i, loose) ==
  \A v \in ToSet(b[i].operands) :
     \/ v = Invalid /\ loose
     \/ v.name # <<>> /\ v.name[1] = "arg"
     \/ \E k \in 1 .. i - 1 : v = Value(b[k].name, b[k].type)

NamedOnce(b) == IsInjective([i \in DOMAIN b |-> b[i].name])

\* A program names its operations once.
LEMMA ProgramNamed ==
  ASSUME NEW b, NEW loose, Program(b, loose)
  PROVE  /\ NamedOnce(b)
         /\ \A i \in DOMAIN b : ReadsEarlier(b, i, loose)
<1>1. DOMAIN b = 1 .. Len(b) /\ Len(b) \in Nat
  BY SequenceFacts DEF Program
<1>2. \A i \in DOMAIN b : ReadsEarlier(b, i, loose)
  BY DEF Program, KnownTo, ReadsEarlier
<1> DEFINE f == [i \in DOMAIN b |-> b[i].name]
<1>3. ASSUME NEW i \in DOMAIN f, NEW k \in DOMAIN f, f[i] = f[k] PROVE i = k
  BY <1>3, <1>1 DEF Program
<1>4. IsInjective(f)
  <2> HIDE DEF f
  <2>1. QED
    BY <1>3, Zenon DEF IsInjective
<1>5. QED
  BY <1>2, <1>4 DEF NamedOnce

\* So does a function that has returned.
LEMMA ReturnNamed ==
  ASSUME HasReturned
  PROVE  /\ NamedOnce(body)
         /\ \A i \in DOMAIN body : ReadsEarlier(body, i, Missing)
<1>1. PICK b, found :
        /\ Program(b, Missing)
        /\ body = Append(b, Operation(<<>>, "func.return", found, <<>>, Unknown))
        /\ \A v \in ToSet(found) : KnownTo(b, Len(b), v)
  BY DEF HasReturned
<1> DEFINE ret == Operation(<<>>, "func.return", found, <<>>, Unknown)
<1>2. ret.name = <<>> /\ ret.operands = found
  BY DEF Operation
<1> HIDE DEF ret
<1>3. IsSequence(b) /\ Len(b) \in Nat /\ DOMAIN b = 1 .. Len(b)
  BY <1>1, SequenceFacts DEF Program
<1>4. /\ IsSequence(body) /\ Len(body) = Len(b) + 1 /\ body[Len(b) + 1] = ret
      /\ \A i \in 1 .. Len(b) : body[i] = b[i]
  BY <1>1, <1>3, AppendFacts DEF ret
<1>5. DOMAIN body = 1 .. Len(b) + 1 /\ DOMAIN body = (1 .. Len(b)) \cup {Len(b) + 1}
  BY <1>3, <1>4, SequenceFacts
<1>6. \A i \in 1 .. Len(b) : body[i].name = <<"ssa", i - 1>>
  BY <1>1, <1>3, <1>4 DEF Program
<1>7. body[Len(b) + 1].name = <<>>
  BY <1>2, <1>4
<1>8. NamedOnce(body)
  <2> DEFINE f == [i \in DOMAIN body |-> body[i].name]
  <2>1. ASSUME NEW i \in DOMAIN body, NEW k \in DOMAIN body, body[i].name = body[k].name PROVE i = k
    <3>1. CASE i \in 1 .. Len(b) /\ k \in 1 .. Len(b)
      BY <1>6, <2>1, <3>1, <1>3
    <3>2. CASE i = Len(b) + 1 /\ k = Len(b) + 1
      BY <3>2
    <3>3. ASSUME NEW j \in 1 .. Len(b), body[j].name = <<>> PROVE FALSE
      BY <1>6, <3>3, SMTT(30)
    <3>4. QED
      BY <1>5, <1>7, <2>1, <3>1, <3>2, <3>3
  <2>2. \A i, k \in DOMAIN f : f[i] = f[k] => i = k
    BY <2>1
  <2>3. IsInjective(f)
    <3> HIDE DEF f
    <3>1. QED
      BY <2>2, Zenon DEF IsInjective
  <2>4. QED
    BY <2>3 DEF NamedOnce
<1>9. ASSUME NEW i \in DOMAIN body PROVE ReadsEarlier(body, i, Missing)
  <2>1. CASE i \in 1 .. Len(b)
    BY <1>1, <1>3, <2>1, ProgramNamed, <1>4 DEF ReadsEarlier
  <2>2. CASE i = Len(b) + 1
    BY <1>3, <2>2, <1>2, <1>4, <1>1 DEF KnownTo, ReadsEarlier
  <2>3. QED
    BY <1>5, <2>1, <2>2
<1>10. QED
  BY <1>8, <1>9

\* Every node seen is counted once, every operation is named once and reads what
\* was computed before it: fresh_ssa, value_map and the three main loops.
THEOREM TypesCorrect == LoweringSpec => []TypeOK
<1>1. LInv => TypeOK
  <2>1. ASSUME LInv PROVE TypeOK
    <3>1. CountInv /\ BodyInv
      BY <2>1 DEF LInv
    <3>2. NamedOnce(body) /\ \A i \in DOMAIN body : ReadsEarlier(body, i, Missing)
      BY <3>1, ProgramNamed, ReturnNamed DEF BodyInv
    <3>3. \A i \in DOMAIN body : \A v \in ToSet(body[i].operands) :
            \/ v = Invalid /\ "missing" \in lapses
            \/ v.name # <<>> /\ v.name[1] = "arg"
            \/ \E k \in 1 .. i - 1 : v = Value(body[k].name, body[k].type)
      BY <3>2 DEF ReadsEarlier, Missing
    <3>4. /\ stage \in {"init", "nodes", "done", "crashed"}
          /\ next \in 1 .. Len(graph.nodes) + 1
          /\ next - 1 = IF tier = 3 THEN stats.total ELSE counts.converted + counts.skipped
          /\ stats.total = stats.converted + stats.already_legal + stats.failed
          /\ errors \in Nat
      BY <3>1 DEF CountInv
    <3>5. QED
      BY <3>2, <3>3, <3>4, Zenon DEF TypeOK, NamedOnce
  <2>2. QED
    BY <2>1
<1>2. QED
  BY <1>1, LoweringInvariant, PTL

\* What one node does to the program when its converter reports an error.
LEMMA TierFailure ==
  ASSUME BodyInv, AtNode, Dispatch \/ DispatchL2, errors \in Nat, errors' > errors
  PROVE  body' = body
<1>1. MapKnown /\ Program(body, TRUE)
  BY ProgramLooser DEF AtNode, BodyInv
<1>2. ASSUME NEW result, Enter(result), Outcome(result, TRUE) PROVE body' = body
  <2>1. errors' = errors + Reported(result) /\ body' = result.body
    BY <1>2 DEF Enter
  <2>2. Reported(result) # 0
    BY <2>1
  <2>3. result.ok # TRUE
    BY <2>2 DEF Reported
  <2>4. QED
    BY <1>2, <2>1, <2>3 DEF Outcome
<1>3. CASE Dispatch
  <2>1. PICK stray \in Stray : \E result \in {dispatch(Current, stray)} : Enter(result)
    BY <1>3, Zenon DEF Dispatch
  <2>2. Outcome(dispatch(Current, stray), TRUE)
    BY <1>1, <1>3, DispatchOutcome DEF Dispatch
  <2>3. QED
    BY <1>2, <2>1, <2>2
<1>4. CASE DispatchL2
  <2>1. PICK stray \in Stray : \E result \in {dispatch_l2(Current, stray)} : Enter(result)
    BY <1>4, Zenon DEF DispatchL2
  <2>2. Outcome(dispatch_l2(Current, stray), TRUE)
    BY <1>1, <1>4, DispatchL2Outcome DEF DispatchL2
  <2>3. QED
    BY <1>2, <2>1, <2>2
<1>5. QED
  BY <1>3, <1>4

\* A pattern either succeeds, and is counted as converted, or leaves all as it is.
LEMMA ConvertFailure ==
  ASSUME CountInv, BodyInv, Convert
  PROVE  \/ stats'.failed = stats.failed /\ errors' = errors
         \/ body' = body /\ value_map' = value_map
<1>1. MapKnown /\ Program(body, TRUE)
  BY ProgramLooser DEF Convert, BodyInv
<1>2. PICK stray \in Stray : \E result \in {matchAndRewrite(Current, stray)} :
        /\ body' = result.body
        /\ value_map' = Mapped(Current, result)
        /\ stats' = Counted(IF result.ok THEN "converted" ELSE "failed")
        /\ errors' = IF result.ok THEN errors ELSE errors + 1
  BY Zenon DEF Convert
<1> DEFINE r == matchAndRewrite(Current, stray)
<1>3. Outcome(r, TRUE)
  BY <1>1, PatternOutcome DEF Convert
<1>4. /\ body' = r.body /\ value_map' = Mapped(Current, r)
      /\ stats' = Counted(IF r.ok THEN "converted" ELSE "failed")
      /\ errors' = IF r.ok THEN errors ELSE errors + 1
  BY <1>2
<1> HIDE DEF r
<1>5. CASE r.ok = TRUE
  BY <1>4, <1>5, CountedFacts
<1>6. CASE r.ok = FALSE /\ r.body = body
  BY <1>4, <1>6 DEF Mapped
<1>7. QED
  BY <1>3, <1>5, <1>6 DEF Outcome

\* "rollback -- omitted here": nothing of a node that failed is ever there to be
\* rolled back, neither an operation nor a value of applyFullConversion's.
THEOREM FailuresLeaveNothing == LoweringSpec => NoRollbackNeeded
<1> DEFINE A == /\ stats'.failed > stats.failed => UNCHANGED <<body, value_map>>
                /\ stage' = "nodes" /\ errors' > errors => UNCHANGED body
<1>1. LInv /\ [LoweringNext]_loweringVars => [A]_vars
  <2>1. ASSUME LInv, LoweringNext PROVE A
    <3>0. CountInv /\ BodyInv /\ stats.failed \in Nat /\ errors \in Nat
      BY <2>1 DEF LInv, CountInv
    <3>1. CASE Prepare \/ SkipUnsupported \/ Stop \/ ReadBeyondInputs \/ Terminating
      <4>1. stats' = stats /\ errors' = errors
        BY <3>1, Zenon DEF Prepare, SkipUnsupported, Stop, ReadBeyondInputs, Terminating, vars
      <4>2. QED
        BY <3>0, <4>1
    <3>2. CASE Dispatch \/ DispatchL2
      BY <3>2, <3>0, TierFailure DEF Dispatch, DispatchL2, Enter
    <3>3. CASE NoPattern
      BY <3>3 DEF NoPattern
    <3>4. CASE SkipLegal
      BY <3>0, <3>4, CountedFacts DEF SkipLegal
    <3>5. CASE Convert
      BY <3>0, <3>5, ConvertFailure
    <3>6. CASE Finalize
      BY <3>6, <3>0 DEF Finalize
    <3>7. QED
      BY <2>1, <3>1, <3>2, <3>3, <3>4, <3>5, <3>6 DEF LoweringNext, Shared, Framework
  <2>2. ASSUME UNCHANGED loweringVars PROVE UNCHANGED vars
    BY <2>2 DEF loweringVars
  <2>3. QED
    BY <2>1, <2>2
<1>2. QED
  BY <1>1, LoweringInvariant, PTL DEF LoweringSpec, NoRollbackNeeded

-----------------------------------------------------------------------------
(***************************************************************************)
(* Success.  What the outputs are computed from, node by node from the     *)
(* last one.                                                               *)
(***************************************************************************)
\* What the last k nodes of g and its outputs need.
Needs(g, f) ==
  /\ f[0] = NamesOf(g.outputs)
  /\ \A k \in 0 .. Len(g.nodes) - 1 :
       f[k + 1] = NeededBefore(g.nodes[Len(g.nodes) - k], f[k])
  /\ Needed(g) = f[Len(g.nodes)]

\* Needed is such a function's last value: there is one.
LEMMA NeedsExists ==
  ASSUME NEW g \in Graphs
  PROVE  \E f : Needs(g, f)
<1> DEFINE N == Len(g.nodes)
           outs == NamesOf(g.outputs)
           U == outs \cup UNION {DataInputs(g.nodes[i]) : i \in 1 .. N}
           Take(k, c) == NeededBefore(g.nodes[N + 1 - k], c)
           step == [p \in (1 .. N) \X SUBSET U |-> Take(p[1], p[2])]
           Unfolds(f) == f = [k \in 0 .. N |-> IF k = 0 THEN NamesOf(g.outputs)
                                               ELSE NeededBefore(g.nodes[N + 1 - k], f[k - 1])]
<1>1. N \in Nat
  BY GraphFacts
<1>2. PICK f : Recursion(f, N, outs, step)
  <2> HIDE DEF step, outs
  <2>1. QED
    BY <1>1, RecursionExists
<1>3. /\ \E V : f \in [0 .. N -> V]
      /\ f[0] = outs
      /\ \A n \in 0 .. N - 1 : f[n + 1] = step[<<n + 1, f[n]>>]
  <2> HIDE DEF step, outs
  <2>1. QED
    BY <1>2 DEF Recursion
<1>4. ASSUME NEW k \in 1 .. N, NEW c \in SUBSET U PROVE Take(k, c) \in SUBSET U
  <2>1. N + 1 - k \in 1 .. N
    BY <1>1
  <2>2. DataInputs(g.nodes[N + 1 - k]) \subseteq U
    BY <2>1
  <2> HIDE DEF U
  <2>3. QED
    BY <2>2 DEF NeededBefore
<1>5. outs \in SUBSET U
  OBVIOUS
<1> HIDE DEF U, outs
<1>6. ASSUME NEW n \in 0 .. N - 1, f[n] \in SUBSET U
      PROVE  f[n + 1] = Take(n + 1, f[n]) /\ f[n + 1] \in SUBSET U
  <2> DEFINE p == <<n + 1, f[n]>>
  <2>1. p \in (1 .. N) \X SUBSET U /\ p[1] = n + 1 /\ p[2] = f[n]
    BY <1>1, <1>6
  <2> HIDE DEF p
  <2>2. step[p] = Take(n + 1, f[n])
    <3> HIDE DEF Take
    <3>1. QED
      BY <2>1
  <2> HIDE DEF step
  <2>3. f[n + 1] = Take(n + 1, f[n])
    BY <1>3, <2>2 DEF p
  <2>4. n + 1 \in 1 .. N
    BY <1>1
  <2>5. Take(n + 1, f[n]) \in SUBSET U
    <3> HIDE DEF Take
    <3>1. QED
      BY <1>4, <1>6, <2>4
  <2>6. QED
    BY <2>3, <2>5
<1> HIDE DEF step, Take
<1> DEFINE P == {n \in 0 .. N : f[n] \in SUBSET U}
<1>7. 0 \in P
  BY <1>1, <1>3, <1>5
<1>8. ASSUME NEW n \in Nat, n < N, n \in P PROVE n + 1 \in P
  BY <1>1, <1>8, <1>6
<1>9. 0 .. N \subseteq P
  <2> HIDE DEF P
  <2>1. QED
    BY <1>1, <1>7, <1>8, UpTo
<1>10. \A n \in 0 .. N - 1 : f[n + 1] = Take(n + 1, f[n])
  BY <1>1, <1>9, <1>6
<1> HIDE DEF P
<1>11. Unfolds(f)
  BY <1>1, <1>3, <1>10 DEF outs, Take
<1> DEFINE h == CHOOSE h : Unfolds(h)
<1>12. Unfolds(h)
  <2> HIDE DEF Unfolds
  <2>1. QED
    BY <1>11
<1>13. Needed(g) = h[N]
  BY Zenon DEF Needed
<1> HIDE DEF h
<1>14. \A n \in 0 .. N : h[n] = IF n = 0 THEN outs ELSE Take(n, h[n - 1])
  BY <1>12 DEF outs, Take
<1>15. h[0] = outs /\ \A n \in 0 .. N - 1 : h[n + 1] = Take(n + 1, h[n])
  <2>1. 0 \in 0 .. N
    BY <1>1
  <2>2. ASSUME NEW n \in 0 .. N - 1 PROVE n + 1 \in 0 .. N /\ n + 1 # 0 /\ n + 1 - 1 = n
    BY <1>1
  <2>3. QED
    BY <1>14, <2>1, <2>2
<1>16. ASSUME NEW n \in 0 .. N - 1 PROVE Take(n + 1, h[n]) = NeededBefore(g.nodes[N - n], h[n])
  <2>1. N + 1 - (n + 1) = N - n
    <3> HIDE DEF N, h
    <3>1. QED
      BY <1>1
  <2>2. QED
    BY <2>1 DEF Take
<1>17. QED
  BY <1>13, <1>15, <1>16 DEF Needs, outs

\* E has the outputs of g and, with a node's output, what the node computes from.
Closed(g, E) ==
  /\ NamesOf(g.outputs) \subseteq E
  /\ \A i \in 1 .. Len(g.nodes) :
       g.nodes[i].output \in E => DataInputs(g.nodes[i]) \subseteq E

\* Such a set has all that is needed.
LEMMA NeededWithin ==
  ASSUME NEW g \in Graphs, NEW E, Closed(g, E)
  PROVE  Needed(g) \subseteq E
<1> DEFINE N == Len(g.nodes)
<1>1. N \in Nat
  BY GraphFacts
<1>2. PICK f : Needs(g, f)
  BY NeedsExists
<1>3. /\ f[0] \in SUBSET E /\ Needed(g) = f[N]
      /\ \A k \in 0 .. N - 1 : f[k + 1] = NeededBefore(g.nodes[N - k], f[k])
  BY <1>2 DEF Needs, Closed
<1>4. \A i \in 1 .. N : g.nodes[i].output \in E => DataInputs(g.nodes[i]) \subseteq E
  BY DEF Closed
<1> DEFINE P == {n \in 0 .. N : f[n] \in SUBSET E}
<1> HIDE DEF N
<1>5. 0 \in P
  BY <1>1, <1>3
<1>6. ASSUME NEW n \in Nat, n < N, n \in P PROVE n + 1 \in P
  BY <1>1, <1>6, <1>3, <1>4 DEF NeededBefore
<1>7. 0 .. N \subseteq P
  <2> HIDE DEF P
  <2>1. QED
    BY <1>1, <1>5, <1>6, UpTo
<1>8. f[N] \in SUBSET E
  BY <1>1, <1>7
<1>9. QED
  BY <1>3, <1>8

\* What the graph is given.
Sources(g) == NamesOf(g.inputs) \cup NamesOf(g.initializers)

\* What ONNX's checker has seen to about names.
LEMMA NameFacts ==
  ASSUME NEW g \in Graphs
  PROVE  /\ \A i \in DOMAIN g.nodes : g.nodes[i].output # "" /\ g.nodes[i].output \notin Sources(g)
         /\ \A i, k \in DOMAIN g.nodes : g.nodes[k].output = g.nodes[i].output => k = i
         /\ NamesOf(g.outputs) \subseteq Sources(g) \cup {g.nodes[i].output : i \in DOMAIN g.nodes}
<1>1. IsOnnxGraph(g)
  BY GraphsAssumption
<1>2. /\ \A i \in DOMAIN g.nodes :
           /\ g.nodes[i].output \notin {""} \cup NamesOf(g.inputs) \cup NamesOf(g.initializers)
           /\ \A k \in DOMAIN g.nodes : g.nodes[k].output = g.nodes[i].output => k = i
      /\ NamesOf(g.outputs) \subseteq NamesOf(g.inputs) \cup NamesOf(g.initializers)
                                       \cup {g.nodes[i].output : i \in DOMAIN g.nodes}
  BY <1>1, Zenon DEF IsOnnxGraph
<1>3. QED
  BY <1>2 DEF Sources

\* The nodes from next on have no value yet.
Fresh == \A i \in DOMAIN graph.nodes : i >= next => graph.nodes[i].output \notin DOMAIN value_map

\* The nodes before next all have a value.
Complete == \A i \in DOMAIN graph.nodes : i < next => graph.nodes[i].output \in DOMAIN value_map

\* A node before next with a value has been computed from values.
Fed ==
  \A i \in DOMAIN graph.nodes :
    i < next /\ graph.nodes[i].output \in DOMAIN value_map =>
      DataInputs(graph.nodes[i]) \subseteq DOMAIN value_map \cup {""}

Flawless == errors = 0 /\ "missing" \notin lapses /\ "bias" \notin lapses

\* What the counters and lapses say of the nodes before next.
Progress ==
  /\ tier = 3 => errors <= stats.failed
  /\ stage = "init" => next = 1
  /\ stage = "nodes" =>
       /\ Sources(graph) \subseteq DOMAIN value_map
       /\ Fresh
       /\ tier = 3 /\ stats.failed = 0 /\ "skipped" \notin lapses => Complete
       /\ tier # 3 /\ Flawless => Fed

SInv == LInv /\ (stage # "done" => Progress) /\ SuccessReturnsAll

\* A node is done with: its output has a value now, or still none.
LEMMA ProgressNode ==
  ASSUME CountInv, stage = "nodes", next \in DOMAIN graph.nodes, Fresh,
         Sources(graph) \subseteq DOMAIN value_map,
         UNCHANGED graph, next' = next + 1,
         \/ DOMAIN value_map' = DOMAIN value_map
         \/ DOMAIN value_map' = {Current.output} \cup DOMAIN value_map
  PROVE  /\ Sources(graph') \subseteq DOMAIN value_map'
         /\ Fresh'
         /\ Complete /\ Current.output \in DOMAIN value_map' => Complete'
         /\ Fed /\ (Current.output \in DOMAIN value_map' =>
                      DataInputs(Current) \subseteq DOMAIN value_map \cup {""}) => Fed'
<1>1. graph \in Graphs /\ DOMAIN graph.nodes = 1 .. Len(graph.nodes) /\ Len(graph.nodes) \in Nat
  BY GraphFacts DEF CountInv
<1>2. DOMAIN graph.nodes \subseteq Int /\ next \in Int
  BY <1>1
<1>3. \A i, k \in DOMAIN graph.nodes : graph.nodes[k].output = graph.nodes[i].output => k = i
  BY <1>1, NameFacts
<1> DEFINE D == DOMAIN value_map
           E == DOMAIN value_map'
           out == Current.output
           Out(i) == graph.nodes[i].output
<1>4. D \subseteq E /\ E \subseteq D \cup {out} /\ out = Out(next)
  BY DEF Current
<1>5. ASSUME NEW i \in DOMAIN graph.nodes PROVE i < next + 1 <=> i < next \/ i = next
  BY <1>2
<1>6. ASSUME NEW i \in DOMAIN graph.nodes PROVE i >= next + 1 <=> i >= next /\ i # next
  BY <1>2
<1>7. ASSUME NEW i \in DOMAIN graph.nodes, i # next PROVE Out(i) \in E <=> Out(i) \in D
  BY <1>3, <1>4, <1>7
<1>8. Fresh'
  BY <1>6, <1>7 DEF Fresh
<1>9. ASSUME Complete, out \in E PROVE Complete'
  BY <1>4, <1>5, <1>9 DEF Complete
<1>10. ASSUME Fed, out \in E => DataInputs(Current) \subseteq D \cup {""} PROVE Fed'
  <2>1. ASSUME NEW i \in DOMAIN graph.nodes, i < next', Out(i) \in E
        PROVE  DataInputs(graph.nodes[i]) \subseteq E \cup {""}
    <3>1. CASE i = next
      BY <1>4, <1>10, <2>1, <3>1 DEF Current
    <3>2. CASE i # next
      BY <1>5, <1>7, <2>1, <3>2, <1>10, <1>4 DEF Fed
    <3>3. QED
      BY <3>1, <3>2
  <2>2. QED
    BY <2>1 DEF Fed
<1>11. QED
  BY <1>4, <1>8, <1>9, <1>10

\* A node that is legal already is remembered.
LEMMA SkippedLapse ==
  ASSUME NEW n, isLegal(n.op_type)
  PROVE  "skipped" \in Lapses(n)
  BY Zenon DEF Lapses

\* A value that is found is found under its name.
LEMMA ValidMapped ==
  ASSUME NEW name, valid(lookup(name))
  PROVE  name \in DOMAIN value_map
  BY DEF lookup, valid, Invalid, Value

\* A node of the graph is a record of the kind that ONNX defines.
LEMMA NodeFacts ==
  ASSUME NEW g \in Graphs, NEW i \in DOMAIN g.nodes
  PROVE  /\ g.nodes[i] \in NodeProto
         /\ IsSequence(g.nodes[i].inputs)
<1>1. g.nodes \in Seq(NodeProto)
  <2>1. IsOnnxGraph(g)
    BY GraphsAssumption
  <2>2. QED
    BY <2>1, Zenon DEF IsOnnxGraph
<1>2. g.nodes[i] \in NodeProto
  <2> HIDE DEF NodeProto
  <2>1. QED
    BY <1>1
<1>3. g.nodes[i].inputs \in Seq(STRING)
  BY <1>2 DEF NodeProto
<1>4. QED
  BY <1>2, <1>3 DEF IsSequence

\* The second tier reports an error rather than convert what has no operands.
LEMMA ReadsL2 ==
  ASSUME NEW n \in NodeProto, n.op_type \in SecondTier, NEW stray, dispatch_l2(n, stray).ok
  PROVE  /\ valid(Operand(n, 1))
         /\ n.op_type \notin {"Reshape", "Transpose"} => valid(Operand(n, 2))
<1> DEFINE op == n.op_type
           r == dispatch_l2(n, stray)
           x == Operand(n, 1)
           y == Operand(n, 2)
<1>1. Failure.ok = FALSE
  BY DEF Failure
<1>2. CASE op \in {"Add", "Mul", "Sub"}
  <2>1. r = convert_binary_l2(n)
    BY <1>2 DEF dispatch_l2
  <2>2. (valid(x) /\ valid(y)) \/ r = Failure
    BY <2>1, Zenon DEF convert_binary_l2
  <2> HIDE DEF r, x, y
  <2>3. QED
    BY <1>1, <2>2 DEF r, x, y
<1>3. CASE op = "MatMul"
  <2>1. r = convert_matmul_l2(n)
    BY <1>3 DEF dispatch_l2
  <2>2. (valid(x) /\ valid(y)) \/ r = Failure
    BY <2>1, Zenon DEF convert_matmul_l2, MatMulOpConversion
  <2> HIDE DEF r, x, y
  <2>3. QED
    BY <1>1, <2>2 DEF r, x, y
<1>4. CASE op = "Conv"
  <2> DEFINE m == [n EXCEPT !.at.pads = <<>>]
  <2>1. r = convert_conv_l2(n)
    BY <1>4 DEF dispatch_l2
  <2>2. r = ConvOpConversion(n) \/ r = ConvOpConversion(m)
    BY <2>1, Zenon DEF convert_conv_l2
  <2>3. m.inputs = n.inputs
    BY DEF NodeProto
  <2> HIDE DEF m
  <2>4. Operand(m, 1) = x /\ Operand(m, 2) = y
    BY <2>3 DEF Operand
  <2>5. ASSUME NEW k PROVE (valid(Operand(k, 1)) /\ valid(Operand(k, 2))) \/ ConvOpConversion(k) = Failure
    BY Zenon DEF ConvOpConversion
  <2>6. (valid(x) /\ valid(y)) \/ r = Failure
    BY <2>2, <2>4, <2>5
  <2> HIDE DEF r, x, y
  <2>7. QED
    BY <1>1, <2>6 DEF r, x, y
<1>5. CASE op = "Reshape"
  <2>1. r = convert_reshape_l2(n)
    BY <1>5 DEF dispatch_l2
  <2>2. valid(x) \/ r = Failure
    BY <2>1, Zenon DEF convert_reshape_l2
  <2> HIDE DEF r, x, y
  <2>3. QED
    BY <1>1, <1>5, <2>2 DEF r, x, y
<1>6. CASE op = "Transpose"
  <2>1. r = convert_transpose_l2(n, stray)
    BY <1>6 DEF dispatch_l2
  <2>2. valid(x) \/ r = Failure
    BY <2>1, Zenon DEF convert_transpose_l2, TransposeOpConversion
  <2> HIDE DEF r, x, y
  <2>3. QED
    BY <1>1, <1>6, <2>2 DEF r, x, y
<1>7. QED
  BY <1>2, <1>3, <1>4, <1>5, <1>6 DEF SecondTier, FirstTier

\* A node of the first two tiers that nothing is amiss with has its data.
LEMMA TierFed ==
  ASSUME CountInv, AtNode, NEW stray, NEW result, Enter(result), Flawless',
         \/ tier = 1 /\ Current.op_type \in FirstTier /\ result = dispatch(Current, stray)
         \/ tier = 2 /\ Current.op_type \in SecondTier /\ result = dispatch_l2(Current, stray)
  PROVE  DataInputs(Current) \subseteq DOMAIN value_map \cup {""}
<1> DEFINE n == Current
           D == DOMAIN value_map
<1>1. graph \in Graphs /\ next \in DOMAIN graph.nodes /\ n = graph.nodes[next]
  BY GraphFacts DEF CountInv, AtNode, Current
<1>2. /\ n \in NodeProto /\ IsSequence(n.inputs)
      /\ n.op_type \in {"Add", "Mul", "Sub", "MatMul", "Reshape"} => Len(n.inputs) = 2
      /\ n.op_type = "Transpose" => Len(n.inputs) = 1
      /\ n.op_type = "Conv" => Len(n.inputs) \in 2 .. 3
  BY <1>1, NodeFacts, NodeArity
<1>3. /\ lapses' = lapses \cup TierLapses(n, result)
      /\ errors' = errors + Reported(result) /\ errors \in Nat
  BY DEF Enter, CountInv
<1> HIDE DEF n
<1>4. n.op_type \in SecondTier
  BY DEF SecondTier, n
<1>5. valid(Operand(n, 1)) /\ (n.op_type \notin {"Reshape", "Transpose"} => valid(Operand(n, 2)))
  <2>1. CASE tier = 1
    BY <1>3, <2>1, MissingLapse, <1>2, <1>4 DEF Flawless, SecondTier, FirstTier
  <2>2. CASE tier = 2
    BY <2>2, <1>3, <1>2, <1>4, ReadsL2 DEF n, Flawless, Reported
  <2>3. QED
    BY <2>1, <2>2
<1>6. n.op_type = "Conv" /\ HasInput(n, 3) => valid(Operand(n, 3))
  <2>1. "bias" \notin TierLapses(n, result)
    BY <1>3 DEF Flawless
  <2>2. ~BiasDropped(n)
    <3>1. BiasDropped(n) => "bias" \in TierLapses(n, result)
      BY Zenon DEF TierLapses
    <3>2. QED
      BY <2>1, <3>1
  <2>3. QED
    BY <2>2 DEF BiasDropped
<1>7. ASSUME NEW i, valid(Operand(n, i)) PROVE n.inputs[i] \in D
  BY <1>7, ValidMapped DEF Operand
<1>8. DOMAIN n.inputs = 1 .. Len(n.inputs)
  BY <1>2, SequenceFacts
<1>9. CASE n.op_type = "Reshape"
  BY <1>5, <1>7, <1>9 DEF DataInputs, n
<1>10. CASE n.op_type # "Reshape"
  <2>1. ASSUME NEW i \in DOMAIN n.inputs PROVE n.inputs[i] \in D \cup {""}
    <3>1. CASE n.op_type = "Transpose"
      <4>1. i = 1
        <5>1. Len(n.inputs) = 1 /\ i \in 1 .. Len(n.inputs)
          BY <1>2, <1>8, <3>1
        <5>2. QED
          BY <5>1
      <4>2. QED
        BY <1>5, <1>7, <4>1
    <3>2. CASE n.op_type \in {"Add", "Mul", "Sub", "MatMul"}
      <4>1. i = 1 \/ i = 2
        BY <1>2, <1>8, <3>2
      <4>2. QED
        BY <1>5, <1>7, <3>2, <4>1
    <3>3. CASE n.op_type = "Conv"
      <4>1. i = 1 \/ i = 2 \/ (i = 3 /\ Len(n.inputs) >= 3)
        <5>1. Len(n.inputs) \in 2 .. 3 /\ i \in 1 .. Len(n.inputs)
          BY <1>2, <1>8, <3>3
        <5>2. QED
          BY <5>1
      <4>2. n.inputs[3] # "" /\ Len(n.inputs) >= 3 => valid(Operand(n, 3))
        BY <1>6, <3>3 DEF HasInput
      <4>3. QED
        BY <1>5, <1>7, <3>3, <4>1, <4>2
    <3>4. QED
      BY <1>4, <1>10, <3>1, <3>2, <3>3 DEF SecondTier, FirstTier
  <2>2. DataInputs(n) = ToSet(n.inputs)
    BY <1>10 DEF DataInputs
  <2>3. DataInputs(n) \subseteq D \cup {""}
    BY <2>1, <2>2 DEF ToSet
  <2>4. QED
    BY <2>3 DEF n
<1>11. QED
  BY <1>9, <1>10

\* One node of the first two tiers.
LEMMA ProgressTier ==
  ASSUME CountInv, Progress, AtNode, NEW stray, NEW result, Enter(result),
         \/ tier = 1 /\ Current.op_type \in FirstTier /\ result = dispatch(Current, stray)
         \/ tier = 2 /\ Current.op_type \in SecondTier /\ result = dispatch_l2(Current, stray)
  PROVE  Progress'
<1>1. /\ stage = "nodes" /\ stage' = "nodes" /\ tier # 3 /\ tier' # 3
      /\ UNCHANGED graph /\ next' = next + 1
      /\ value_map' = IF valid(result.value) THEN Entered(Current.output, result.value) ELSE value_map
      /\ lapses' = lapses \cup TierLapses(Current, result)
      /\ errors' = errors + Reported(result)
  BY DEF Enter, AtNode
<1>2. next \in DOMAIN graph.nodes
  BY GraphFacts DEF CountInv, AtNode
<1>3. Sources(graph) \subseteq DOMAIN value_map /\ Fresh
  BY <1>1 DEF Progress
<1>4. \/ DOMAIN value_map' = DOMAIN value_map
      \/ DOMAIN value_map' = {Current.output} \cup DOMAIN value_map
  BY <1>1 DEF Entered
<1>5. /\ Sources(graph') \subseteq DOMAIN value_map'
      /\ Fresh'
      /\ Fed /\ (Current.output \in DOMAIN value_map' =>
                   DataInputs(Current) \subseteq DOMAIN value_map \cup {""}) => Fed'
  BY <1>1, <1>2, <1>3, <1>4, ProgressNode
<1>6. ASSUME Flawless' PROVE Fed'
  <2>1. Flawless
    BY <1>1, <1>6 DEF CountInv, Reported, Flawless
  <2>2. Fed
    BY <1>1, <2>1 DEF Progress
  <2>3. DataInputs(Current) \subseteq DOMAIN value_map \cup {""}
    BY <1>6, TierFed
  <2>4. QED
    BY <1>5, <2>2, <2>3
<1>7. QED
  BY <1>1, <1>5, <1>6 DEF Progress

\* One node that the first two tiers do not know.
LEMMA ProgressUnsupported ==
  ASSUME CountInv, Progress, SkipUnsupported
  PROVE  Progress'
<1>1. /\ stage = "nodes" /\ stage' = "nodes" /\ tier # 3 /\ tier' # 3
      /\ UNCHANGED <<graph, value_map, lapses, errors>> /\ next' = next + 1
  BY DEF SkipUnsupported, AtNode, CountInv
<1>2. next \in DOMAIN graph.nodes
  BY GraphFacts DEF CountInv, AtNode, SkipUnsupported
<1>3. Sources(graph) \subseteq DOMAIN value_map /\ Fresh
  BY <1>1 DEF Progress
<1>4. Current.output \notin DOMAIN value_map
  <2>1. next >= next
    BY <1>2, GraphFacts DEF CountInv
  <2>2. QED
    BY <1>2, <1>3, <2>1 DEF Fresh, Current
<1>5. /\ Sources(graph') \subseteq DOMAIN value_map'
      /\ Fresh'
      /\ Fed => Fed'
  BY <1>1, <1>2, <1>3, <1>4, ProgressNode
<1>6. Flawless' => Flawless
  BY <1>1 DEF Flawless
<1>7. QED
  BY <1>1, <1>5, <1>6 DEF Progress

\* One node of the third tier.
LEMMA ProgressFramework ==
  ASSUME CountInv, Progress, tier = 3, tier' = tier, SkipLegal \/ NoPattern \/ Convert
  PROVE  Progress'
<1>1. /\ stage = "nodes" /\ stage' = "nodes" /\ tier' = 3
      /\ UNCHANGED graph /\ next' = next + 1 /\ lapses \subseteq lapses'
  BY DEF SkipLegal, NoPattern, Convert
<1>2. next \in DOMAIN graph.nodes
  BY GraphFacts DEF CountInv, SkipLegal, NoPattern, Convert
<1>3. /\ Sources(graph) \subseteq DOMAIN value_map /\ Fresh
      /\ stats.failed = 0 /\ "skipped" \notin lapses => Complete
      /\ errors <= stats.failed /\ errors \in Nat /\ stats.failed \in Nat
  BY <1>1 DEF Progress, CountInv
<1>4. /\ \/ DOMAIN value_map' = DOMAIN value_map
         \/ DOMAIN value_map' = {Current.output} \cup DOMAIN value_map
      /\ errors' <= stats'.failed
      /\ stats'.failed = 0 /\ "skipped" \notin lapses' =>
           stats.failed = 0 /\ Current.output \in DOMAIN value_map'
  <2>1. CASE SkipLegal
    BY <2>1, SkippedLapse, CountedFacts, <1>3 DEF SkipLegal
  <2>2. CASE NoPattern
    BY <2>2, CountedFacts, <1>3, SMTT(30) DEF NoPattern, NoPatternStats
  <2>3. CASE Convert
    <3>1. PICK stray \in Stray : \E result \in {matchAndRewrite(Current, stray)} :
            /\ value_map' = Mapped(Current, result)
            /\ stats' = Counted(IF result.ok THEN "converted" ELSE "failed")
            /\ errors' = IF result.ok THEN errors ELSE errors + 1
      BY <2>3, Zenon DEF Convert
    <3> DEFINE r == matchAndRewrite(Current, stray)
    <3>2. /\ value_map' = Mapped(Current, r)
          /\ stats' = Counted(IF r.ok THEN "converted" ELSE "failed")
          /\ errors' = IF r.ok THEN errors ELSE errors + 1
      BY <3>1
    <3> HIDE DEF r
    <3>3. CASE r.ok
      BY <3>2, <3>3, CountedFacts, <1>3 DEF Mapped, Entered
    <3>4. CASE ~r.ok
      BY <3>2, <3>4, CountedFacts, <1>3 DEF Mapped
    <3>5. QED
      BY <3>3, <3>4
  <2>4. QED
    BY <2>1, <2>2, <2>3
<1>5. /\ Sources(graph') \subseteq DOMAIN value_map'
      /\ Fresh'
      /\ Complete /\ Current.output \in DOMAIN value_map' => Complete'
  BY <1>1, <1>2, <1>3, <1>4, ProgressNode
<1>6. ASSUME stats'.failed = 0, "skipped" \notin lapses' PROVE Complete'
  BY <1>1, <1>3, <1>4, <1>5, <1>6
<1>7. QED
  BY <1>1, <1>4, <1>5, <1>6 DEF Progress

\* What the end of a run adds to the errors, and what it returns.
LEMMA SuccessAtEnd ==
  ASSUME CountInv, BodyInv, Progress, Finalize, tier' = tier, ExitStatusZero',
         lapses' \cap {"skipped", "missing", "bias"} = {}
  PROVE  /\ errors' = 0 /\ Len(results') = Len(graph.outputs)
         /\ \A i \in DOMAIN graph.nodes :
              tier = 3 \/ graph.nodes[i].output \in Needed(graph)
                => graph.nodes[i].output \in DOMAIN value_map
<1>1. /\ stage = "nodes" /\ next > Len(graph.nodes)
      /\ results' = Found /\ errors' = errors + Len(Outs) - Len(Found)
      /\ UNCHANGED <<graph, value_map, stats, lapses>>
  BY Zenon DEF Finalize, Found, Outs
<1>2. /\ IsSequence(Outs) /\ DOMAIN Outs = DOMAIN graph.outputs /\ Len(Outs) = Len(graph.outputs)
      /\ Len(Outs) \in Nat /\ DOMAIN Outs = 1 .. Len(Outs)
      /\ HasKept(Outs, {v \in ToSet(Outs) : valid(v)}, Len(Outs), Found)
  BY FoundFacts, SequenceFacts DEF CountInv
<1>3. Len(Found) \in Nat /\ Len(Found) <= Len(Outs)
  BY <1>2 DEF HasKept
<1>4. Len(Found) = Len(Outs) <=> \A j \in DOMAIN graph.outputs : valid(lookup(graph.outputs[j].name))
  <2>1. ASSUME NEW j \in DOMAIN Outs
        PROVE  Outs[j] \in {v \in ToSet(Outs) : valid(v)} <=> valid(lookup(graph.outputs[j].name))
    BY <1>2 DEF Outs, ToSet
  <2>2. QED
    BY <1>2, <2>1 DEF HasKept
<1>5. /\ graph \in Graphs /\ DOMAIN graph.nodes = 1 .. Len(graph.nodes) /\ Len(graph.nodes) \in Nat
      /\ errors \in Nat /\ stats.failed \in Nat /\ next \in Int
  BY GraphFacts DEF CountInv
<1>6. \A i \in DOMAIN graph.nodes : i < next
  BY <1>1, <1>5
<1>7. MapKnown /\ Program(body, Missing)
  BY <1>1 DEF BodyInv
<1>8. Sources(graph) \subseteq DOMAIN value_map
  BY <1>1 DEF Progress
<1>9. CASE tier = 3
  <2>1. stats.failed = 0 /\ "skipped" \notin lapses
    BY <1>1, <1>9 DEF ExitStatusZero, ExitZero
  <2>2. errors = 0 /\ Complete
    BY <1>1, <1>5, <1>9, <2>1 DEF Progress
  <2>3. \A i \in DOMAIN graph.nodes : graph.nodes[i].output \in DOMAIN value_map
    BY <1>6, <2>2 DEF Complete
  <2>4. NamesOf(graph.outputs) \subseteq DOMAIN value_map
    <3>1. NamesOf(graph.outputs) \subseteq Sources(graph) \cup {graph.nodes[i].output : i \in DOMAIN graph.nodes}
      BY <1>5, NameFacts
    <3>2. QED
      BY <1>8, <2>3, <3>1
  <2>5. ASSUME NEW j \in DOMAIN graph.outputs PROVE valid(lookup(graph.outputs[j].name))
    BY <2>4, <1>7, KnownValid DEF NamesOf, MapKnown, lookup
  <2>6. Len(Found) = Len(Outs)
    BY <1>4, <2>5
  <2>7. errors' = 0 /\ Len(results') = Len(graph.outputs)
    BY <1>1, <1>2, <2>2, <2>6
  <2>8. QED
    BY <2>3, <2>7
<1>10. CASE tier # 3
  <2>1. errors' = 0
    BY <1>10 DEF ExitStatusZero
  <2>2. errors = 0 /\ Len(Found) = Len(Outs)
    BY <1>1, <1>2, <1>3, <1>5, <2>1
  <2>3. Flawless
    BY <1>1, <2>2 DEF Flawless
  <2>4. Fed
    BY <1>1, <1>10, <2>3 DEF Progress
  <2>5. NamesOf(graph.outputs) \subseteq DOMAIN value_map
    BY <1>4, <2>2, ValidMapped DEF NamesOf
  <2>6. \A i \in DOMAIN graph.nodes : graph.nodes[i].output # ""
    BY <1>5, NameFacts
  <2>7. Closed(graph, DOMAIN value_map \cup {""})
    BY <1>5, <1>6, <2>4, <2>5, <2>6 DEF Closed, Fed
  <2>8. Needed(graph) \subseteq DOMAIN value_map \cup {""}
    BY <1>5, <2>7, NeededWithin
  <2>9. QED
    BY <1>1, <1>2, <1>10, <2>1, <2>2, <2>6, <2>8
<1>11. QED
  BY <1>9, <1>10

\* What the counters and lapses say, at every step.
LEMMA SuccessInvariant == LoweringSpec => []SInv
<1>1. LoweringInit => SInv
  <2>1. ASSUME LoweringInit PROVE SInv
    BY <2>1, CountInit, EmptyProgram DEF LoweringInit, Init, BodyInv, MapKnown, LInv, NoStats,
       SInv, Progress, SuccessReturnsAll
  <2>2. QED
    BY <2>1
<1>2. SInv /\ [LoweringNext]_loweringVars => SInv'
  <2>1. ASSUME SInv, LoweringNext PROVE SInv'
    <3>0. CountInv /\ BodyInv /\ LInv' /\ (stage # "done" => Progress)
      BY <2>1, CountStep, BodyStep DEF SInv, LInv
    <3>1. ASSUME stage' # "done", Progress' PROVE SInv'
      BY <3>0, <3>1 DEF SInv, SuccessReturnsAll
    <3>2. CASE Prepare /\ UNCHANGED <<tier, counts>>
      <4>1. /\ DOMAIN value_map' = Sources(graph) /\ UNCHANGED <<graph, next, errors, stats, tier>>
            /\ stage = "init" /\ stage' = "nodes"
        BY <3>0, <3>2, PrepareBody DEF CountInv, Sources, Prepare
      <4>2. next = 1 /\ (tier = 3 => errors <= stats.failed)
        BY <3>0, <4>1 DEF Progress
      <4>3. \A i \in DOMAIN graph.nodes : ~(i < 1) /\ graph.nodes[i].output \notin Sources(graph)
        <5>1. graph \in Graphs
          BY <3>0 DEF CountInv
        <5>2. DOMAIN graph.nodes = 1 .. Len(graph.nodes) /\ Len(graph.nodes) \in Nat
          BY <5>1, GraphFacts
        <5>3. \A i \in DOMAIN graph.nodes : graph.nodes[i].output \notin Sources(graph)
          BY <5>1, NameFacts
        <5>4. QED
          BY <5>2, <5>3
      <4>4. Fresh' /\ Complete' /\ Fed' /\ Sources(graph') \subseteq DOMAIN value_map'
        BY <4>1, <4>2, <4>3 DEF Fresh, Complete, Fed
      <4>5. Progress'
        BY <4>1, <4>2, <4>4 DEF Progress
      <4>6. QED
        BY <3>1, <4>1, <4>5
    <3>3. CASE SkipUnsupported
      BY <3>0, <3>3, ProgressUnsupported, <3>1 DEF SkipUnsupported, AtNode
    <3>4. CASE Dispatch
      <4>1. PICK stray \in Stray : \E result \in {dispatch(Current, stray)} : Enter(result)
        BY <3>4, Zenon DEF Dispatch
      <4>2. Enter(dispatch(Current, stray)) /\ AtNode /\ tier = 1 /\ Current.op_type \in FirstTier
        BY <3>4, <4>1 DEF Dispatch
      <4>3. stage = "nodes" /\ stage' = "nodes"
        BY <4>2 DEF AtNode, Enter
      <4>4. Progress'
        BY <3>0, <4>2, <4>3, ProgressTier
      <4>5. QED
        BY <3>1, <4>3, <4>4
    <3>5. CASE DispatchL2
      <4>1. PICK stray \in Stray : \E result \in {dispatch_l2(Current, stray)} : Enter(result)
        BY <3>5, Zenon DEF DispatchL2
      <4>2. Enter(dispatch_l2(Current, stray)) /\ AtNode /\ tier = 2 /\ Current.op_type \in SecondTier
        BY <3>5, <4>1 DEF DispatchL2
      <4>3. stage = "nodes" /\ stage' = "nodes"
        BY <4>2 DEF AtNode, Enter
      <4>4. Progress'
        BY <3>0, <4>2, <4>3, ProgressTier
      <4>5. QED
        BY <3>1, <4>3, <4>4
    <3>6. CASE Framework /\ UNCHANGED <<tier, counts>> /\ (SkipLegal \/ NoPattern \/ Convert)
      BY <3>6, <3>0, ProgressFramework, <3>1 DEF Framework, SkipLegal, NoPattern, Convert
    <3>7. CASE Stop \/ (ReadBeyondInputs /\ UNCHANGED <<tier, counts>>)
      BY <3>7, <3>0, <3>1 DEF Stop, AtNode, ReadBeyondInputs, Progress
    <3>8. CASE Finalize /\ UNCHANGED <<tier, counts>>
      <4>1. stage = "nodes" /\ stage' = "done" /\ UNCHANGED <<graph, value_map>>
        BY <3>8 DEF Finalize
      <4>2. ASSUME ExitStatusZero', lapses' \cap {"skipped", "missing", "bias"} = {}
            PROVE  /\ errors' = 0 /\ Len(results') = Len(graph.outputs)
                   /\ \A i \in DOMAIN graph.nodes :
                        tier = 3 \/ graph.nodes[i].output \in Needed(graph)
                          => graph.nodes[i].output \in DOMAIN value_map
        BY <3>0, <3>8, <4>1, <4>2, SuccessAtEnd
      <4>3. SuccessReturnsAll'
        BY <3>8, <4>1, <4>2 DEF SuccessReturnsAll
      <4>4. QED
        BY <3>0, <4>1, <4>3 DEF SInv
    <3>9. CASE Terminating /\ UNCHANGED <<tier, counts>>
      BY <3>9, <2>1, <3>0 DEF Terminating, loweringVars, SInv, vars, SuccessReturnsAll,
         ExitStatusZero, ExitZero, verifyLegality, Progress, Fresh, Complete, Fed, Flawless
    <3>10. QED
      BY <2>1, <3>2, <3>3, <3>4, <3>5, <3>6, <3>7, <3>8, <3>9 DEF LoweringNext, Shared, Framework
  <2>2. ASSUME SInv, UNCHANGED loweringVars PROVE SInv'
    BY <2>2 DEF SInv, LInv, CountInv, BodyInv, MapKnown, HasReturned, Missing, loweringVars, vars,
       SuccessReturnsAll, ExitStatusZero, ExitZero, verifyLegality, Progress, Fresh, Complete, Fed,
       Flawless
  <2>3. QED
    BY <2>1, <2>2
<1>3. QED
  BY <1>1, <1>2, PTL DEF LoweringSpec

\* The exit status: what failed is in stats.failed or in errors, so a run that
\* reports success has computed and returned every output, from nodes that were
\* all converted; what each tier ignores without a word is in lapses.
THEOREM SuccessIsComplete == LoweringSpec => []SuccessReturnsAll
<1>1. SInv => SuccessReturnsAll
  BY DEF SInv
<1>2. QED
  BY <1>1, SuccessInvariant, PTL

-----------------------------------------------------------------------------
(***************************************************************************)
(* Shapes: products, sums, and shapes with axes left out.                  *)
(***************************************************************************)
\* f starts with base and goes on by step, on integers.
IntegerRun(f, N, base, step) ==
  f \in [0 .. N -> Int] /\ f[0] = base /\ \A n \in 1 .. N : f[n] = step[<<n, f[n - 1]>>]

\* A recursion on integers has integer values.
LEMMA IntegerRecursion ==
  ASSUME NEW N \in Nat, NEW base \in Int, NEW step \in [(1 .. N) \X Int -> Int]
  PROVE  \E f : IntegerRun(f, N, base, step)
<1>1. PICK f : Recursion(f, N, base, step)
  BY RecursionExists
<1>2. /\ \E V : f \in [0 .. N -> V]
      /\ f[0] = base
      /\ \A n \in 0 .. N - 1 : f[n + 1] = step[<<n + 1, f[n]>>]
  BY <1>1 DEF Recursion
<1> DEFINE P == {n \in 0 .. N : f[n] \in Int}
<1>3. 0 \in P
  BY <1>2
<1>4. ASSUME NEW n \in Nat, n < N, n \in P PROVE n + 1 \in P
  <2>1. n \in 0 .. N - 1 /\ n + 1 \in 1 .. N /\ n + 1 \in 0 .. N /\ f[n] \in Int
    BY <1>4
  <2>2. step[<<n + 1, f[n]>>] \in Int
    BY <2>1
  <2>3. f[n + 1] \in Int
    BY <1>2, <2>1, <2>2
  <2>4. QED
    BY <2>1, <2>3
<1> HIDE DEF P
<1>5. 0 .. N \subseteq P
  BY <1>3, <1>4, UpTo
<1>6. \A n \in 0 .. N : f[n] \in Int
  BY <1>5 DEF P
<1>7. f \in [0 .. N -> Int]
  BY <1>2, <1>6
<1>8. ASSUME NEW n \in 1 .. N PROVE f[n] = step[<<n, f[n - 1]>>]
  BY <1>2
<1>9. QED
  BY <1>2, <1>7, <1>8 DEF IntegerRun

\* The values of f are the products of the first entries of dims.
Multiplies(dims, f) ==
  /\ f \in [0 .. Len(dims) -> Int]
  /\ f[0] = 1
  /\ \A n \in 1 .. Len(dims) : f[n] = f[n - 1] * dims[n]
  /\ Product(dims) = f[Len(dims)]

\* Product is defined on every shape.
LEMMA ProductUnfolds ==
  ASSUME NEW dims \in Seq(Int)
  PROVE  \E f : Multiplies(dims, f)
<1> DEFINE N == Len(dims)
           step == [p \in (1 .. N) \X Int |-> p[2] * dims[p[1]]]
           Unfolds(f) == f = [k \in 0 .. N |-> IF k = 0 THEN 1 ELSE f[k - 1] * dims[k]]
<1>1. N \in Nat /\ \A n \in 1 .. N : dims[n] \in Int
  OBVIOUS
<1>2. step \in [(1 .. N) \X Int -> Int]
  BY <1>1
<1>3. PICK f : IntegerRun(f, N, 1, step)
  <2>1. N \in Nat /\ 1 \in Int
    BY <1>1
  <2> HIDE DEF step, N
  <2>2. QED
    BY <1>2, <2>1, IntegerRecursion, Zenon
<1>4. f \in [0 .. N -> Int] /\ f[0] = 1 /\ \A n \in 1 .. N : f[n] = step[<<n, f[n - 1]>>]
  <2> HIDE DEF step
  <2>1. QED
    BY <1>3 DEF IntegerRun
<1>5. Unfolds(f)
  <2>1. ASSUME NEW n \in 1 .. N PROVE f[n] = f[n - 1] * dims[n]
    <3> DEFINE p == <<n, f[n - 1]>>
    <3>1. n - 1 \in 0 .. N
      BY <1>1
    <3>2. p \in (1 .. N) \X Int /\ p[1] = n /\ p[2] = f[n - 1]
      BY <1>4, <3>1
    <3> HIDE DEF p
    <3>3. step[p] = f[n - 1] * dims[n]
      BY <3>2
    <3> HIDE DEF step
    <3>4. QED
      BY <1>4, <3>3 DEF p
  <2> HIDE DEF step
  <2>2. \A n \in 0 .. N : f[n] = IF n = 0 THEN 1 ELSE f[n - 1] * dims[n]
    BY <1>1, <1>4, <2>1
  <2>3. f = [n \in 0 .. N |-> f[n]]
    BY <1>4
  <2>4. QED
    BY <2>2, <2>3
<1> HIDE DEF step
<1> DEFINE g == CHOOSE g : Unfolds(g)
<1>6. Unfolds(g)
  <2> HIDE DEF Unfolds
  <2>1. QED
    BY <1>5
<1>7. Product(dims) = g[N]
  BY Zenon DEF Product
<1> HIDE DEF g
<1>8. g = [k \in 0 .. N |-> IF k = 0 THEN 1 ELSE g[k - 1] * dims[k]]
  BY <1>6
<1>9. g[0] = 1 /\ \A n \in 1 .. N : g[n] = g[n - 1] * dims[n]
  BY <1>8, <1>1
<1> DEFINE P == {n \in 0 .. N : g[n] \in Int}
<1>10. 0 \in P
  BY <1>1, <1>9
<1>11. ASSUME NEW n \in Nat, n < N, n \in P PROVE n + 1 \in P
  <2>1. n + 1 \in 1 .. N /\ n + 1 \in 0 .. N /\ g[n] \in Int /\ n + 1 - 1 = n
    BY <1>1, <1>11
  <2>2. g[n + 1] = g[n] * dims[n + 1] /\ dims[n + 1] \in Int
    BY <1>1, <1>9, <2>1
  <2>3. QED
    BY <2>1, <2>2
<1>12. 0 .. N \subseteq P
  <2> HIDE DEF P
  <2>1. QED
    BY <1>1, <1>10, <1>11, UpTo
<1>13. g \in [0 .. N -> Int]
  BY <1>12, <1>8
<1>14. QED
  BY <1>7, <1>9, <1>13 DEF Multiplies

\* Products are integers, and those of positive numbers positive.
LEMMA ProductFacts ==
  ASSUME NEW dims \in Seq(Int)
  PROVE  /\ Product(dims) \in Int
         /\ (\A k \in DOMAIN dims : dims[k] > 0) => Product(dims) > 0
<1> DEFINE N == Len(dims)
<1>1. PICK f : Multiplies(dims, f)
  BY ProductUnfolds
<1>2. /\ N \in Nat /\ DOMAIN dims = 1 .. N /\ \A n \in 1 .. N : dims[n] \in Int
      /\ f \in [0 .. N -> Int] /\ f[0] = 1 /\ \A n \in 1 .. N : f[n] = f[n - 1] * dims[n]
      /\ Product(dims) = f[N]
  BY <1>1 DEF Multiplies
<1>3. ASSUME \A k \in DOMAIN dims : dims[k] > 0 PROVE f[N] > 0
  <2> DEFINE P == {n \in 0 .. N : f[n] > 0}
  <2>1. 0 \in P
    BY <1>2
  <2>2. ASSUME NEW n \in Nat, n < N, n \in P PROVE n + 1 \in P
    BY <1>2, <2>2, <1>3
  <2> HIDE DEF P
  <2>3. 0 .. N \subseteq P
    BY <1>2, <2>1, <2>2, UpTo
  <2>4. QED
    BY <1>2, <2>3 DEF P
<1>4. QED
  BY <1>2, <1>3

\* One factor more.
LEMMA ProductAppend ==
  ASSUME NEW dims \in Seq(Int), NEW e \in Int
  PROVE  Product(Append(dims, e)) = Product(dims) * e
<1> DEFINE N == Len(dims)
           more == Append(dims, e)
<1>1. /\ more \in Seq(Int) /\ N \in Nat /\ Len(more) = N + 1 /\ more[N + 1] = e
      /\ \A n \in 1 .. N : more[n] = dims[n]
  OBVIOUS
<1> HIDE DEF more
<1>2. PICK f : Multiplies(dims, f)
  BY ProductUnfolds
<1>3. PICK g : Multiplies(more, g)
  BY <1>1, ProductUnfolds
<1>4. /\ f[0] = 1 /\ \A n \in 1 .. N : f[n] = f[n - 1] * dims[n]
      /\ Product(dims) = f[N]
  BY <1>2 DEF Multiplies
<1>5. /\ g[0] = 1 /\ \A n \in 1 .. N + 1 : g[n] = g[n - 1] * more[n]
      /\ Product(more) = g[N + 1]
  BY <1>1, <1>3 DEF Multiplies
<1> DEFINE P == {n \in 0 .. N : g[n] = f[n]}
<1>6. 0 \in P
  BY <1>1, <1>4, <1>5
<1>7. ASSUME NEW n \in Nat, n < N, n \in P PROVE n + 1 \in P
  BY <1>1, <1>7, <1>4, <1>5
<1> HIDE DEF P
<1>8. 0 .. N \subseteq P
  BY <1>1, <1>6, <1>7, UpTo
<1>9. g[N] = f[N]
  BY <1>1, <1>8 DEF P
<1>10. g[N + 1] = g[N] * e
  BY <1>1, <1>5
<1>11. QED
  BY <1>4, <1>5, <1>9, <1>10 DEF more

\* A sum of integers is one.
LEMMA TotalInt ==
  ASSUME NEW sizes \in Seq(Int)
  PROVE  Total(sizes) \in Int
<1> DEFINE N == Len(sizes)
           step == [p \in (1 .. N) \X Int |-> p[2] + sizes[p[1]]]
           Unfolds(f) == f = [k \in 0 .. N |-> IF k = 0 THEN 0 ELSE f[k - 1] + sizes[k]]
<1>1. N \in Nat /\ \A n \in 1 .. N : sizes[n] \in Int
  OBVIOUS
<1>2. step \in [(1 .. N) \X Int -> Int]
  BY <1>1
<1>3. PICK f : IntegerRun(f, N, 0, step)
  <2>1. N \in Nat /\ 0 \in Int
    BY <1>1
  <2> HIDE DEF step, N
  <2>2. QED
    BY <1>2, <2>1, IntegerRecursion, Zenon
<1>4. f \in [0 .. N -> Int] /\ f[0] = 0 /\ \A n \in 1 .. N : f[n] = step[<<n, f[n - 1]>>]
  <2> HIDE DEF step
  <2>1. QED
    BY <1>3 DEF IntegerRun
<1>5. Unfolds(f)
  <2>1. ASSUME NEW n \in 1 .. N PROVE f[n] = f[n - 1] + sizes[n]
    <3> DEFINE p == <<n, f[n - 1]>>
    <3>1. n - 1 \in 0 .. N
      BY <1>1
    <3>2. p \in (1 .. N) \X Int /\ p[1] = n /\ p[2] = f[n - 1]
      BY <1>4, <3>1
    <3> HIDE DEF p
    <3>3. step[p] = f[n - 1] + sizes[n]
      BY <3>2
    <3> HIDE DEF step
    <3>4. QED
      BY <1>4, <3>3 DEF p
  <2> HIDE DEF step
  <2>2. \A n \in 0 .. N : f[n] = IF n = 0 THEN 0 ELSE f[n - 1] + sizes[n]
    BY <1>1, <1>4, <2>1
  <2>3. f = [n \in 0 .. N |-> f[n]]
    BY <1>4
  <2>4. QED
    BY <2>2, <2>3
<1> HIDE DEF step
<1> DEFINE g == CHOOSE g : Unfolds(g)
<1>6. Unfolds(g)
  <2> HIDE DEF Unfolds
  <2>1. QED
    BY <1>5
<1>7. Total(sizes) = g[N]
  BY Zenon DEF Total
<1> HIDE DEF g
<1>8. \A k \in 0 .. N : g[k] = IF k = 0 THEN 0 ELSE g[k - 1] + sizes[k]
  BY <1>6
<1> HIDE DEF Unfolds
<1> DEFINE P == {n \in 0 .. N : g[n] \in Int}
<1>9. 0 \in P
  BY <1>1, <1>8
<1>10. ASSUME NEW n \in Nat, n < N, n \in P PROVE n + 1 \in P
  <2>1. n + 1 \in 1 .. N /\ n + 1 \in 0 .. N /\ g[n] \in Int /\ n + 1 - 1 = n /\ n + 1 # 0
    BY <1>1, <1>10
  <2>2. g[n + 1] = g[n] + sizes[n + 1] /\ sizes[n + 1] \in Int
    BY <1>1, <1>8, <2>1
  <2>3. QED
    BY <2>1, <2>2
<1> HIDE DEF P
<1>11. 0 .. N \subseteq P
  BY <1>1, <1>9, <1>10, UpTo
<1>12. g[N] \in Int
  BY <1>1, <1>11 DEF P
<1>13. QED
  BY <1>7, <1>12

\* The axes outside T, gathered from the front.
Gathers(r, T, f) ==
  /\ f[0] = <<>>
  /\ \A n \in 0 .. r - 1 : f[n + 1] = IF n \in T THEN f[n] ELSE Append(f[n], n)
  /\ OtherAxes(r, T) = f[r]

\* OtherAxes is defined for every rank.
LEMMA AxesGathered ==
  ASSUME NEW r \in Nat, NEW T
  PROVE  \E f : Gathers(r, T, f)
<1> DEFINE s == AllAxes(r)
           S == (0 .. r - 1) \ T
<1>1. s \in Seq(Int) /\ Len(s) = r /\ \A n \in 0 .. r - 1 : s[n + 1] = n
  <2>1. s = [i \in 1 .. r |-> i - 1]
    BY DEF AllAxes
  <2>2. s \in Seq(Int) /\ Len(s) = r
    BY <2>1
  <2>3. ASSUME NEW n \in 0 .. r - 1 PROVE s[n + 1] = n
    BY <2>1
  <2>4. QED
    BY <2>2, <2>3
<1> HIDE DEF s
<1>2. PICK f : Collects(s, S, f)
  <2>1. IsSequence(s)
    BY <1>1 DEF IsSequence
  <2> HIDE DEF S
  <2>2. QED
    BY <2>1, CollectsExists
<1>3. /\ f[0] = <<>>
      /\ \A n \in 0 .. Len(s) - 1 : f[n + 1] = IF s[n + 1] \in S THEN Append(f[n], s[n + 1]) ELSE f[n]
      /\ Kept(s, S) = f[Len(s)]
  <2> HIDE DEF S
  <2>1. QED
    BY <1>2, Zenon DEF Collects
<1>4. ASSUME NEW n \in 0 .. r - 1
      PROVE  f[n + 1] = IF n \in T THEN f[n] ELSE Append(f[n], n)
  <2>1. s[n + 1] = n /\ (n \in S <=> n \notin T)
    BY <1>1
  <2> HIDE DEF S
  <2>2. f[n + 1] = IF s[n + 1] \in S THEN Append(f[n], s[n + 1]) ELSE f[n]
    BY <1>1, <1>3
  <2>3. QED
    BY <2>1, <2>2
<1>5. OtherAxes(r, T) = f[r]
  BY <1>1, <1>3 DEF OtherAxes, s
<1>6. QED
  BY <1>3, <1>4, <1>5 DEF Gathers

\* c lists axes below n outside T, none twice.
ListsAxes(c, n, T) ==
  /\ c \in Seq(Int)
  /\ \A i \in DOMAIN c : c[i] \in 0 .. n - 1 /\ c[i] \notin T
  /\ \A i, k \in DOMAIN c : c[i] = c[k] => i = k

\* One axis more, or none.
LEMMA ListsMore ==
  ASSUME NEW n \in Nat, NEW T, NEW c, ListsAxes(c, n, T)
  PROVE  /\ n \in T => ListsAxes(c, n + 1, T)
         /\ n \notin T => ListsAxes(Append(c, n), n + 1, T)
<1>1. /\ c \in Seq(Int) /\ Len(c) \in Nat /\ DOMAIN c = 1 .. Len(c)
      /\ \A i \in DOMAIN c : c[i] \in 0 .. n - 1 /\ c[i] \notin T
      /\ \A i, k \in DOMAIN c : c[i] = c[k] => i = k
  BY DEF ListsAxes
<1>2. \A i \in DOMAIN c : c[i] \in 0 .. n + 1 - 1
  BY <1>1
<1>3. ListsAxes(c, n + 1, T)
  BY <1>1, <1>2 DEF ListsAxes
<1>4. ASSUME n \notin T PROVE ListsAxes(Append(c, n), n + 1, T)
  <2> DEFINE d == Append(c, n)
  <2>1. /\ d \in Seq(Int) /\ DOMAIN d = 1 .. Len(c) + 1 /\ d[Len(c) + 1] = n
        /\ \A i \in 1 .. Len(c) : d[i] = c[i]
    BY <1>1
  <2> HIDE DEF d
  <2>2. \A i \in DOMAIN d : i \in DOMAIN c \/ i = Len(c) + 1
    BY <1>1, <2>1
  <2>3. \A i \in DOMAIN d : d[i] \in 0 .. n + 1 - 1 /\ d[i] \notin T
    BY <1>1, <1>2, <1>4, <2>1, <2>2
  <2>4. ASSUME NEW i \in DOMAIN d, NEW k \in DOMAIN d, d[i] = d[k] PROVE i = k
    BY <1>1, <2>1, <2>2, <2>4
  <2>5. ListsAxes(d, n + 1, T)
    BY <2>1, <2>3, <2>4 DEF ListsAxes
  <2>6. QED
    BY <2>5 DEF d
<1>5. QED
  BY <1>3, <1>4

\* The axes that are left are axes outside T, each listed once.
LEMMA OtherAxesFacts ==
  ASSUME NEW r \in Nat, NEW T
  PROVE  ListsAxes(OtherAxes(r, T), r, T)
<1>1. PICK f : Gathers(r, T, f)
  BY AxesGathered
<1>2. /\ f[0] = <<>> /\ OtherAxes(r, T) = f[r]
      /\ \A n \in 0 .. r - 1 : f[n + 1] = IF n \in T THEN f[n] ELSE Append(f[n], n)
  BY <1>1 DEF Gathers
<1> DEFINE P == {n \in 0 .. r : ListsAxes(f[n], n, T)}
<1>3. 0 \in P
  <2>1. <<>> \in Seq(Int) /\ DOMAIN <<>> = {}
    OBVIOUS
  <2>2. ListsAxes(<<>>, 0, T)
    BY <2>1 DEF ListsAxes
  <2>3. QED
    BY <1>2, <2>2
<1>4. ASSUME NEW n \in Nat, n < r, n \in P PROVE n + 1 \in P
  BY <1>4, <1>2, ListsMore
<1> HIDE DEF P
<1>5. 0 .. r \subseteq P
  BY <1>3, <1>4, UpTo
<1>6. ListsAxes(f[r], r, T)
  BY <1>5 DEF P
<1>7. QED
  BY <1>2, <1>6

\* How much of a block that starts at lo and has len axes lies below n.
Covered(lo, len, n) == IF n <= lo THEN 0 ELSE IF n <= lo + len THEN n - lo ELSE len

\* The axes outside T are len ones, from lo on.
Block(r, T, lo, len) ==
  /\ r \in Nat /\ lo \in Nat /\ len \in Nat /\ lo + len <= r
  /\ \A n \in 0 .. r - 1 : n \notin T <=> lo <= n /\ n < lo + len

\* c counts len axes, from lo on.
CountsFrom(c, lo, len) ==
  /\ c \in Seq(Int) /\ Len(c) = len /\ DOMAIN c = 1 .. len
  /\ \A i \in 1 .. len : c[i] = lo + i - 1

\* The axes that are left are a block: OtherAxes counts through it.
LEMMA OtherAxesBlock ==
  ASSUME NEW r, NEW T, NEW lo, NEW len, Block(r, T, lo, len)
  PROVE  CountsFrom(OtherAxes(r, T), lo, len)
<1>0. /\ r \in Nat /\ lo \in Nat /\ len \in Nat /\ lo + len <= r
      /\ \A n \in 0 .. r - 1 : n \notin T <=> lo <= n /\ n < lo + len
  BY DEF Block
<1> USE <1>0
<1> DEFINE L(n) == Covered(lo, len, n)
           Counts(c, n) == c \in Seq(Int) /\ Len(c) = L(n) /\ \A i \in 1 .. L(n) : c[i] = lo + i - 1
<1>1. PICK f : Gathers(r, T, f)
  BY AxesGathered
<1>2. /\ f[0] = <<>> /\ OtherAxes(r, T) = f[r]
      /\ \A n \in 0 .. r - 1 : f[n + 1] = IF n \in T THEN f[n] ELSE Append(f[n], n)
  BY <1>1 DEF Gathers
<1> DEFINE P == {n \in 0 .. r : Counts(f[n], n)}
<1>3. 0 \in P
  <2>1. <<>> \in Seq(Int) /\ Len(<<>>) = 0 /\ L(0) = 0
    BY DEF Covered
  <2>2. Counts(<<>>, 0)
    BY <2>1
  <2> HIDE DEF Counts
  <2>3. QED
    BY <1>2, <2>2
<1>4. ASSUME NEW n \in Nat, n < r, n \in P PROVE n + 1 \in P
  <2> DEFINE c == f[n]
  <2>1. n \in 0 .. r - 1 /\ n + 1 \in 0 .. r
    BY <1>4
  <2>2. c \in Seq(Int) /\ Len(c) = L(n) /\ \A i \in 1 .. L(n) : c[i] = lo + i - 1
    BY <1>4
  <2>3. L(n) \in Nat /\ L(n + 1) \in Nat
    BY DEF Covered
  <2>4. f[n + 1] = IF n \in T THEN c ELSE Append(c, n)
    BY <1>2, <2>1
  <2>5. CASE n \in T
    BY <2>1, <2>5, <2>4, <2>2 DEF Covered
  <2>6. CASE n \notin T
    <3>1. lo <= n /\ n < lo + len
      BY <2>1, <2>6
    <3>2. L(n + 1) = L(n) + 1 /\ n = lo + L(n)
      BY <3>1 DEF Covered
    <3>3. f[n + 1] = Append(c, n)
      BY <2>4, <2>6
    <3> HIDE DEF c, L
    <3>4. /\ f[n + 1] \in Seq(Int) /\ Len(f[n + 1]) = L(n) + 1 /\ f[n + 1][L(n) + 1] = n
          /\ \A i \in 1 .. L(n) : f[n + 1][i] = c[i]
      BY <2>2, <3>3
    <3>5. ASSUME NEW i \in 1 .. L(n + 1) PROVE f[n + 1][i] = lo + i - 1
      <4>1. i \in 1 .. L(n) \/ i = L(n) + 1
        BY <2>3, <3>2
      <4>2. CASE i \in 1 .. L(n)
        BY <2>2, <3>4, <4>2
      <4>3. CASE i = L(n) + 1
        BY <2>3, <3>2, <3>4, <4>3
      <4>4. QED
        BY <4>1, <4>2, <4>3
    <3>6. Counts(f[n + 1], n + 1)
      BY <3>2, <3>4, <3>5
    <3>7. QED
      BY <2>1, <3>6
  <2>7. QED
    BY <2>5, <2>6
<1> HIDE DEF P
<1>5. 0 .. r \subseteq P
  BY <1>3, <1>4, UpTo
<1>6. Counts(f[r], r)
  BY <1>5 DEF P
<1>7. L(r) = len
  BY DEF Covered
<1>8. QED
  BY <1>2, <1>6, <1>7 DEF CountsFrom

\* The shape with the axes in T replaced by 1.
Flattened(dims, T) == [k \in 1 .. Len(dims) |-> IF k - 1 \in T THEN 1 ELSE dims[k]]

\* Leaving axes out is a shape of numbers from the old one.
LEMMA WithoutFacts ==
  ASSUME NEW t, t.dims \in Seq(Int), NEW T
  PROVE  /\ Without(t, T) \in Seq(Int)
         /\ Len(Without(t, T)) = Len(OtherAxes(rank(t), T))
         /\ DOMAIN Without(t, T) = DOMAIN OtherAxes(rank(t), T)
         /\ \A i \in DOMAIN OtherAxes(rank(t), T) :
              /\ Without(t, T)[i] = Dim(t, OtherAxes(rank(t), T)[i])
              /\ OtherAxes(rank(t), T)[i] \in Axes(t) /\ OtherAxes(rank(t), T)[i] \notin T
         /\ ~Dynamic(t) => \A i \in DOMAIN Without(t, T) : Without(t, T)[i] >= 0
<1> DEFINE r == rank(t)
           o == OtherAxes(r, T)
           w == Without(t, T)
<1>1. r \in Nat /\ DOMAIN t.dims = 1 .. r /\ \A k \in 1 .. r : t.dims[k] \in Int
  BY DEF rank
<1>2. w = [i \in DOMAIN o |-> Dim(t, o[i])]
  BY DEF Without
<1>3. o \in Seq(Int) /\ \A i \in DOMAIN o : o[i] \in 0 .. r - 1 /\ o[i] \notin T
  <2> HIDE DEF r
  <2>1. QED
    BY <1>1, OtherAxesFacts DEF ListsAxes
<1> HIDE DEF r, o, w
<1>4. ASSUME NEW i \in DOMAIN o PROVE w[i] = Dim(t, o[i]) /\ o[i] \in Axes(t) /\ Dim(t, o[i]) = t.dims[o[i] + 1]
                                       /\ o[i] + 1 \in 1 .. r
  BY <1>1, <1>2, <1>3 DEF Axes, Dim, r
<1>5. w \in Seq(Int)
  <2>1. DOMAIN o = 1 .. Len(o) /\ Len(o) \in Nat
    BY <1>3
  <2>2. \A i \in 1 .. Len(o) : Dim(t, o[i]) \in Int
    BY <1>1, <1>4, <2>1
  <2>3. w = [i \in 1 .. Len(o) |-> Dim(t, o[i])]
    BY <1>2, <2>1
  <2>4. QED
    BY <2>1, <2>2, <2>3
<1>6. DOMAIN w = DOMAIN o /\ Len(w) = Len(o)
  BY <1>2, <1>3, <1>5
<1>7. ASSUME ~Dynamic(t), NEW i \in DOMAIN w PROVE w[i] >= 0
  BY <1>4, <1>6, <1>1, <1>7 DEF Dynamic
<1>8. QED
  BY <1>3, <1>4, <1>5, <1>6, <1>7 DEF r, o, w

\* Leaving axes out and giving them size 1 come to the same size.
LEMMA ProductWithout ==
  ASSUME NEW t, t.dims \in Seq(Int), NEW T
  PROVE  Product(Without(t, T)) = Product(Flattened(t.dims, T))
<1> DEFINE r == Len(t.dims)
           flat == Flattened(t.dims, T)
           Dims(c) == [i \in DOMAIN c |-> Dim(t, c[i])]
<1>1. r \in Nat /\ DOMAIN t.dims = 1 .. r /\ \A k \in 1 .. r : t.dims[k] \in Int
  OBVIOUS
<1>2. flat \in Seq(Int) /\ Len(flat) = r /\ \A k \in 1 .. r : flat[k] = IF k - 1 \in T THEN 1 ELSE t.dims[k]
  BY <1>1 DEF Flattened
<1> HIDE DEF r, flat
<1>3. PICK f : Gathers(r, T, f)
  BY <1>1, AxesGathered
<1>4. /\ f[0] = <<>> /\ OtherAxes(r, T) = f[r]
      /\ \A n \in 0 .. r - 1 : f[n + 1] = IF n \in T THEN f[n] ELSE Append(f[n], n)
  BY <1>3 DEF Gathers
<1>5. PICK g : Multiplies(flat, g)
  BY <1>2, ProductUnfolds
<1>6. /\ g \in [0 .. r -> Int] /\ g[0] = 1 /\ \A n \in 1 .. r : g[n] = g[n - 1] * flat[n]
      /\ Product(flat) = g[r]
  BY <1>2, <1>5 DEF Multiplies
<1> DEFINE Fits(c, n) == c \in Seq(0 .. r - 1) /\ Product(Dims(c)) = g[n]
           P == {n \in 0 .. r : Fits(f[n], n)}
<1>7. 0 \in P
  <2>1. <<>> \in Seq(Int) /\ <<>> \in Seq(0 .. r - 1) /\ Dims(<<>>) = <<>>
    OBVIOUS
  <2>2. Product(<<>>) = 1
    <3>1. PICK h : Multiplies(<<>>, h)
      BY <2>1, ProductUnfolds
    <3>2. h[0] = 1 /\ Product(<<>>) = h[Len(<<>>)] /\ Len(<<>>) = 0
      BY <3>1 DEF Multiplies
    <3>3. QED
      BY <3>2
  <2> HIDE DEF Dims
  <2>3. Fits(<<>>, 0)
    BY <1>6, <2>1, <2>2
  <2> HIDE DEF Fits
  <2>4. QED
    BY <1>1, <1>4, <2>3
<1>8. ASSUME NEW n \in Nat, n < r, n \in P PROVE n + 1 \in P
  <2> DEFINE c == f[n]
  <2>1. n \in 0 .. r - 1 /\ n + 1 \in 0 .. r /\ n + 1 \in 1 .. r /\ n + 1 - 1 = n
    BY <1>1, <1>8
  <2>2. c \in Seq(0 .. r - 1) /\ Product(Dims(c)) = g[n]
    BY <1>8
  <2>3. g[n + 1] = g[n] * flat[n + 1] /\ g[n] \in Int
    BY <1>6, <2>1, <1>1
  <2>4. flat[n + 1] = IF n \in T THEN 1 ELSE t.dims[n + 1]
    BY <1>2, <2>1
  <2>5. f[n + 1] = IF n \in T THEN c ELSE Append(c, n)
    BY <1>4, <2>1
  <2>6. CASE n \in T
    <3>1. g[n + 1] = g[n]
      BY <2>3, <2>4, <2>6
    <3>2. f[n + 1] = c
      BY <2>5, <2>6
    <3> HIDE DEF c, Dims
    <3>3. Fits(f[n + 1], n + 1)
      BY <2>2, <3>1, <3>2
    <3> HIDE DEF Fits
    <3>4. QED
      BY <2>1, <3>3
  <2>7. CASE n \notin T
    <3> DEFINE e == t.dims[n + 1]
               d == Append(c, n)
    <3>1. e \in Int /\ Dim(t, n) = e
      BY <1>1, <2>1 DEF Dim
    <3>2. Dims(c) \in Seq(Int)
      <4>1. Len(c) \in Nat /\ DOMAIN c = 1 .. Len(c) /\ \A i \in 1 .. Len(c) : c[i] \in 0 .. r - 1
        <5> DEFINE R == 0 .. r - 1
        <5>1. c \in Seq(R)
          BY <2>2
        <5> HIDE DEF c, R
        <5>2. Len(c) \in Nat /\ DOMAIN c = 1 .. Len(c) /\ \A i \in 1 .. Len(c) : c[i] \in R
          BY <5>1
        <5>3. QED
          BY <5>2 DEF R
      <4>2. \A i \in 1 .. Len(c) : Dim(t, c[i]) \in Int
        BY <1>1, <4>1 DEF Dim
      <4>3. Dims(c) = [i \in 1 .. Len(c) |-> Dim(t, c[i])]
        BY <4>1
      <4> HIDE DEF c, Dims
      <4>4. QED
        BY <4>1, <4>2, <4>3
    <3>3. d \in Seq(0 .. r - 1)
      BY <2>1, <2>2
    <3>4. Dims(d) = Append(Dims(c), e)
      <4> DEFINE a == Append(Dims(c), e)
      <4>1. /\ Len(c) \in Nat /\ DOMAIN c = 1 .. Len(c)
            /\ DOMAIN d = 1 .. Len(c) + 1 /\ d[Len(c) + 1] = n
            /\ \A i \in 1 .. Len(c) : d[i] = c[i]
        BY <2>1, <2>2
      <4>2. Len(Dims(c)) = Len(c) /\ \A i \in 1 .. Len(c) : Dims(c)[i] = Dim(t, c[i])
        BY <4>1
      <4> HIDE DEF d, c
      <4>3. /\ Dims(d) = [i \in 1 .. Len(c) + 1 |-> Dim(t, d[i])]
        BY <4>1
      <4> HIDE DEF Dims, e
      <4>4. /\ a \in Seq(Int) /\ DOMAIN a = 1 .. Len(c) + 1 /\ a[Len(c) + 1] = e
            /\ \A i \in 1 .. Len(c) : a[i] = Dims(c)[i]
        BY <3>1, <3>2, <4>1, <4>2
      <4> HIDE DEF a
      <4>5. a = [i \in 1 .. Len(c) + 1 |-> a[i]]
        BY <4>4
      <4>6. ASSUME NEW i \in 1 .. Len(c) + 1 PROVE a[i] = Dim(t, d[i])
        BY <4>1, <3>1, <4>2, <4>4
      <4>7. QED
        BY <4>3, <4>5, <4>6 DEF a
    <3>5. Product(Append(Dims(c), e)) = Product(Dims(c)) * e
      <4> HIDE DEF Dims, e
      <4>1. QED
        BY <3>1, <3>2, ProductAppend
    <3> HIDE DEF Dims
    <3>6. Fits(f[n + 1], n + 1)
      BY <2>2, <2>3, <2>4, <2>5, <2>7, <3>3, <3>4, <3>5
    <3> HIDE DEF Fits
    <3>7. QED
      BY <2>1, <3>6
  <2>8. QED
    BY <2>6, <2>7
<1> HIDE DEF P
<1>9. 0 .. r \subseteq P
  BY <1>1, <1>7, <1>8, UpTo
<1>10. Fits(f[r], r)
  BY <1>1, <1>9 DEF P
<1>11. Without(t, T) = Dims(OtherAxes(r, T))
  BY DEF Without, rank, r
<1> HIDE DEF Dims
<1>12. QED
  BY <1>4, <1>6, <1>10, <1>11 DEF flat

-----------------------------------------------------------------------------
(***************************************************************************)
(* The typing rules, one operation at a time.                              *)
(***************************************************************************)
\* Would the dialect accept such an operation, whatever its name?
Sound(mnemonic, operands, lists, type) ==
  \A name : WellTyped(Operation(name, mnemonic, operands, lists, type))

\* What WellTyped looks at.
LEMMA SoundFacts ==
  ASSUME NEW mnemonic \in Dialect, NEW operands, NEW lists, NEW type, type.elem # "unknown",
         \A i \in DOMAIN operands : operands[i].type.elem # "unknown",
         \A name : ShapesFit(Operation(name, mnemonic, operands, lists, type))
  PROVE  Sound(mnemonic, operands, lists, type)
<1>1. ASSUME NEW name PROVE WellTyped(Operation(name, mnemonic, operands, lists, type))
  <2> DEFINE op == Operation(name, mnemonic, operands, lists, type)
  <2>1. op.mnemonic = mnemonic /\ op.operands = operands /\ op.type = type
    BY DEF Operation
  <2>2. ShapesFit(op)
    OBVIOUS
  <2> HIDE DEF op
  <2>3. \A v \in ToSet(op.operands) : v.type.elem # "unknown"
    BY <2>1 DEF ToSet
  <2>4. WellTyped(op)
    BY <2>1, <2>2, <2>3 DEF WellTyped
  <2>5. QED
    BY <2>4 DEF op
<1>2. QED
  BY <1>1 DEF Sound

\* An operation is what it was made of.
LEMMA OperationFields ==
  ASSUME NEW name, NEW mnemonic, NEW operands, NEW lists, NEW type
  PROVE  /\ Operation(name, mnemonic, operands, lists, type).mnemonic = mnemonic
         /\ Operation(name, mnemonic, operands, lists, type).operands = operands
         /\ Operation(name, mnemonic, operands, lists, type).lists = lists
         /\ Operation(name, mnemonic, operands, lists, type).type = type
  BY DEF Operation

\* Constants.
LEMMA SoundConstant ==
  ASSUME NEW t, ~Dynamic(t), t.elem # "unknown"
  PROVE  Sound("stablehlo.constant", <<>>, <<>>, t)
<1>1. ASSUME NEW name PROVE ShapesFit(Operation(name, "stablehlo.constant", <<>>, <<>>, t))
  <2> DEFINE op == Operation(name, "stablehlo.constant", <<>>, <<>>, t)
  <2>1. op.mnemonic = "stablehlo.constant" /\ op.type = t
    BY OperationFields
  <2> HIDE DEF op
  <2>2. ShapesFit(op)
    BY <2>1 DEF ShapesFit, Binary, Unary
  <2>3. QED
    BY <2>2 DEF op
<1>2. "stablehlo.constant" \in Dialect
  BY DEF Dialect
<1>3. QED
  BY <1>1, <1>2, SoundFacts

\* Two operands of the type of the result.
LEMMA SoundBinary ==
  ASSUME NEW m \in Binary, NEW t, t.elem # "unknown", NEW x, NEW y, x.type = t, y.type = t
  PROVE  Sound(m, <<x, y>>, <<>>, t)
<1>1. ASSUME NEW name PROVE ShapesFit(Operation(name, m, <<x, y>>, <<>>, t))
  <2> DEFINE op == Operation(name, m, <<x, y>>, <<>>, t)
  <2>1. op.mnemonic = m /\ op.type = t /\ op.operands[1].type = t /\ op.operands[2].type = t
    BY OperationFields
  <2> HIDE DEF op
  <2>2. ShapesFit(op)
    BY <2>1 DEF ShapesFit, Binary
  <2>3. QED
    BY <2>2 DEF op
<1>2. m \in Dialect
  BY DEF Dialect
<1>3. QED
  BY <1>1, <1>2, SoundFacts

\* One operand of the type of the result.
LEMMA SoundUnary ==
  ASSUME NEW m \in Unary, NEW t, t.elem # "unknown", NEW x, x.type = t
  PROVE  Sound(m, <<x>>, <<>>, t)
<1>1. ASSUME NEW name PROVE ShapesFit(Operation(name, m, <<x>>, <<>>, t))
  <2> DEFINE op == Operation(name, m, <<x>>, <<>>, t)
  <2>1. op.mnemonic = m /\ op.type = t /\ op.operands[1].type = t
    BY OperationFields
  <2> HIDE DEF op
  <2>2. ShapesFit(op)
    BY <2>1 DEF ShapesFit, Binary, Unary
  <2>3. QED
    BY <2>2 DEF op
<1>2. m \in Dialect
  BY DEF Dialect
<1>3. QED
  BY <1>1, <1>2, SoundFacts

\* The rules for the other operations on one operand.
LEMMA SoundOne ==
  ASSUME NEW x, NEW l, NEW t, t.elem # "unknown", x.type.elem # "unknown", NEW m,
         \/ m = "stablehlo.convert" /\ x.type.dims = t.dims
         \/ m = "stablehlo.broadcast_in_dim" /\ BroadcastTypes(x.type, l[1], t)
         \/ m = "stablehlo.slice" /\ SliceTypes(x.type, l[1], l[2], l[3], t)
         \/ /\ m = "stablehlo.reshape"
            /\ x.type.elem = t.elem /\ ~Dynamic(t) /\ num_elements(x.type) = num_elements(t)
         \/ /\ m = "stablehlo.transpose"
            /\ t.elem = x.type.elem /\ Distinct(l[1]) /\ ToSet(l[1]) = Axes(x.type)
            /\ t.dims = [i \in DOMAIN l[1] |-> Dim(x.type, l[1][i])]
  PROVE  Sound(m, <<x>>, l, t)
<1>1. ASSUME NEW name PROVE ShapesFit(Operation(name, m, <<x>>, l, t))
  <2> DEFINE op == Operation(name, m, <<x>>, l, t)
  <2>1. op.mnemonic = m /\ op.type = t /\ op.operands[1] = x /\ op.lists = l
    BY OperationFields
  <2> HIDE DEF op
  <2>2. ShapesFit(op)
    BY <2>1 DEF ShapesFit, Binary, Unary
  <2>3. QED
    BY <2>2 DEF op
<1>2. m \in Dialect
  BY DEF Dialect
<1>3. QED
  BY <1>1, <1>2, SoundFacts

\* The rules for the other operations on two operands.
LEMMA SoundTwo ==
  ASSUME NEW x, NEW y, NEW l, NEW t, t.elem # "unknown",
         x.type.elem # "unknown", y.type.elem # "unknown", NEW m,
         \/ /\ m = "stablehlo.reduce"
            /\ y.type = Scalar(x.type.elem) /\ Distinct(l[1]) /\ ToSet(l[1]) \subseteq Axes(x.type)
            /\ t = Type(Without(x.type, ToSet(l[1])), x.type.elem)
         \/ m = "stablehlo.dot_general" /\ DotTypes(x.type, y.type, l[1], l[2], l[3], l[4], t)
         \/ /\ m = "stablehlo.convolution"
            /\ ConvolutionTypes(x.type, y.type, l[1], l[2], l[3], l[4], l[5][1], t)
         \/ /\ m = "stablehlo.dynamic_reshape"
            /\ x.type.elem = t.elem /\ y.type.elem \in {"i32", "i64"}
            /\ rank(y.type) = 1 /\ y.type.dims[1] \in {rank(t), -1}
  PROVE  Sound(m, <<x, y>>, l, t)
<1>1. ASSUME NEW name PROVE ShapesFit(Operation(name, m, <<x, y>>, l, t))
  <2> DEFINE op == Operation(name, m, <<x, y>>, l, t)
  <2>1. op.mnemonic = m /\ op.type = t /\ op.operands[1] = x /\ op.operands[2] = y /\ op.lists = l
    BY OperationFields
  <2> HIDE DEF op
  <2>2. ShapesFit(op)
    BY <2>1 DEF ShapesFit, Binary, Unary
  <2>3. QED
    BY <2>2 DEF op
<1>2. m \in Dialect
  BY DEF Dialect
<1>3. QED
  BY <1>1, <1>2, SoundFacts

\* Concatenation takes any number of operands.
LEMMA SoundConcatenate ==
  ASSUME NEW xs, NEW axis, NEW t, t.elem # "unknown", \A i \in DOMAIN xs : xs[i].type.elem # "unknown",
         ConcatenateTypes([i \in DOMAIN xs |-> xs[i].type], axis, t)
  PROVE  Sound("stablehlo.concatenate", xs, <<<<axis>>>>, t)
<1>1. ASSUME NEW name PROVE ShapesFit(Operation(name, "stablehlo.concatenate", xs, <<<<axis>>>>, t))
  <2> DEFINE op == Operation(name, "stablehlo.concatenate", xs, <<<<axis>>>>, t)
  <2>1. /\ op.mnemonic = "stablehlo.concatenate" /\ op.type = t /\ op.operands = xs
        /\ op.lists[1][1] = axis
    BY OperationFields
  <2> HIDE DEF op
  <2>2. ShapesFit(op)
    BY <2>1 DEF ShapesFit, Binary, Unary
  <2>3. QED
    BY <2>2 DEF op
<1>2. "stablehlo.concatenate" \in Dialect
  BY DEF Dialect
<1>3. QED
  BY <1>1, <1>2, SoundFacts

-----------------------------------------------------------------------------
(***************************************************************************)
(* Programs of accepted operations.                                        *)
(***************************************************************************)
\* A type whose shape is a list of integers.
Tensor(t) == t.dims \in Seq(Int) /\ t = Type(t.dims, t.elem)

\* Every operation but the return is accepted by the dialect.
TypedBody(b) ==
  /\ IsSequence(b)
  /\ \A i \in DOMAIN b : b[i].mnemonic # "func.return" => WellTyped(b[i])

\* p holds a typed program and a value of type t.
Makes(p, t) == TypedBody(p.body) /\ p.value.type = t

\* An accepted operation is appended.
LEMMA EmitMakes ==
  ASSUME NEW b, TypedBody(b), NEW mnemonic, NEW operands, NEW lists, NEW t,
         Sound(mnemonic, operands, lists, t)
  PROVE  Makes(Emit(b, mnemonic, operands, lists, t), t)
<1> DEFINE op == Operation(fresh_ssa(b), mnemonic, operands, lists, t)
           c == Append(b, op)
           p == Emit(b, mnemonic, operands, lists, t)
<1>1. IsSequence(b) /\ Len(b) \in Nat /\ DOMAIN b = 1 .. Len(b)
  BY SequenceFacts DEF TypedBody
<1>2. WellTyped(op) /\ op.type = t
  BY OperationFields DEF Sound
<1> HIDE DEF op
<1>3. p.body = c /\ p.value.type = c[Len(c)].type
  <2>1. p = Built(c)
    BY Zenon DEF Emit, op
  <2> HIDE DEF c, p
  <2>2. Built(c).body = c /\ Built(c).value = Value(Last(c).name, Last(c).type)
    BY DEF Built
  <2>3. Last(c) = c[Len(c)]
    BY Zenon DEF Last
  <2>4. QED
    BY <2>1, <2>2, <2>3 DEF Value
<1>4. /\ IsSequence(c) /\ Len(c) = Len(b) + 1 /\ c[Len(b) + 1] = op
      /\ \A i \in 1 .. Len(b) : c[i] = b[i]
  BY <1>1, AppendFacts
<1>5. DOMAIN c = 1 .. Len(b) + 1
  BY <1>4, SequenceFacts
<1> HIDE DEF c, p
<1>6. ASSUME NEW i \in DOMAIN c, c[i].mnemonic # "func.return" PROVE WellTyped(c[i])
  BY <1>1, <1>5, <1>2, <1>4, <1>6 DEF TypedBody
<1>7. QED
  BY <1>2, <1>3, <1>4, <1>6 DEF Makes, TypedBody, p

-----------------------------------------------------------------------------
(***************************************************************************)
(* What it means that nothing was overlooked.  The first two tiers do      *)
(* without some of the lapses, which may thus have come up.                *)
(***************************************************************************)
Pardoned == {"group", "run-time shape"}

\* Every operand is known and has a type without open axes; ONNX accepts the node.
LEMMA AllLapses ==
  ASSUME NEW n, Lapses(n) \subseteq Pardoned
  PROVE  /\ \A i \in DOMAIN n.inputs : HasInput(n, i) /\ valid(Operand(n, i)) =>
              ~Dynamic(Operand(n, i).type) /\ Operand(n, i).type.elem # "unknown"
         /\ Accepted(n)
<1>1. "dynamic" \notin Pardoned /\ "unknown" \notin Pardoned /\ "mistyped" \notin Pardoned
  BY DEF Pardoned
<1>2. ASSUME NEW i \in DOMAIN n.inputs, HasInput(n, i), valid(Operand(n, i)), Dynamic(Operand(n, i).type)
      PROVE  "dynamic" \in Lapses(n)
  BY <1>2, Zenon DEF Lapses
<1>3. ASSUME NEW i \in DOMAIN n.inputs, HasInput(n, i), valid(Operand(n, i)),
             Operand(n, i).type.elem = "unknown"
      PROVE  "unknown" \in Lapses(n)
  BY <1>3, Zenon DEF Lapses
<1>4. ~Accepted(n) => "mistyped" \in Lapses(n)
  BY Zenon DEF Lapses
<1>5. QED
  BY <1>1, <1>2, <1>3, <1>4

\* Slices.
LEMMA SliceLapses ==
  ASSUME NEW n, n.op_type = "Slice", Lapses(n) \subseteq Pardoned
  PROVE  /\ WithinBounds(n)
         /\ \A i \in {4, 5} : HasInput(n, i) => IsInitializer(n.inputs[i])
         /\ \A step \in ToSet(Numbers(n, 5)) : ~(step <= 0)
<1>1. "bounds" \notin Pardoned /\ "run-time axes" \notin Pardoned /\ "step" \notin Pardoned
  BY DEF Pardoned
<1>2. Accepted(n)
  BY AllLapses
<1>3. ~WithinBounds(n) => "bounds" \in Lapses(n)
  BY <1>2 DEF Lapses
<1>4. ASSUME NEW i \in {4, 5}, HasInput(n, i), ~IsInitializer(n.inputs[i])
      PROVE  "run-time axes" \in Lapses(n)
  BY <1>4 DEF Lapses
<1>5. ASSUME NEW step \in ToSet(Numbers(n, 5)), step <= 0 PROVE "step" \in Lapses(n)
  BY <1>5 DEF Lapses
<1>6. QED
  BY <1>1, <1>3, <1>4, <1>5

\* The other patterns that overlook something.
LEMMA OtherLapses ==
  ASSUME NEW n, Lapses(n) \subseteq Pardoned
  PROVE  /\ n.op_type = "Pow" => ~(rank(Operand(n, 2).type) > rank(Operand(n, 1).type))
         /\ n.op_type = "ReduceMean" =>
              /\ ~HasInput(n, 2)
              /\ Declared(n).dims = <<>> =>
                   Len(get_ints_attr(n, "axes", Operand(n, 1).type.dims)) # rank(Operand(n, 1).type)
         /\ n.op_type = "Transpose" =>
              Len(perm_of(n)) = rank(Operand(n, 1).type) /\ ToSet(perm_of(n)) = Axes(Operand(n, 1).type)
         /\ n.op_type = "Reshape" /\ "run-time shape" \notin Lapses(n) => ~Dynamic(Declared(n))
         /\ n.op_type = "Conv" /\ "group" \notin Lapses(n) /\ Declared(n).dims = <<>> =>
              ~(get_int_attr(n, "group", 1) > 1)
         /\ n.op_type = "DequantizeLinear" => HasInput(n, 3) /\ ~(rank(Operand(n, 2).type) > 0)
<1>1. \A lapse \in {"exponent", "axes", "scalar", "perm", "scale"} : lapse \notin Lapses(n)
  BY DEF Pardoned
<1>2. ASSUME n.op_type = "Pow", rank(Operand(n, 2).type) > rank(Operand(n, 1).type)
      PROVE  "exponent" \in Lapses(n)
  BY <1>2 DEF Lapses
<1>3. ASSUME n.op_type = "ReduceMean", HasInput(n, 2) PROVE "axes" \in Lapses(n)
  BY <1>3 DEF Lapses
<1>4. ASSUME n.op_type = "ReduceMean", Declared(n).dims = <<>>,
             Len(get_ints_attr(n, "axes", Operand(n, 1).type.dims)) = rank(Operand(n, 1).type)
      PROVE  "scalar" \in Lapses(n)
  BY <1>4 DEF Lapses
<1>5. ASSUME n.op_type = "Transpose",
             Len(perm_of(n)) # rank(Operand(n, 1).type) \/ ToSet(perm_of(n)) # Axes(Operand(n, 1).type)
      PROVE  "perm" \in Lapses(n)
  BY <1>5 DEF Lapses
<1>6. ASSUME n.op_type = "Reshape", Dynamic(Declared(n)) PROVE "run-time shape" \in Lapses(n)
  BY <1>6 DEF Lapses
<1>7. ASSUME n.op_type = "Conv", Declared(n).dims = <<>>, get_int_attr(n, "group", 1) > 1
      PROVE  "group" \in Lapses(n)
  BY <1>7 DEF Lapses
<1>8. ASSUME n.op_type = "DequantizeLinear", ~HasInput(n, 3) \/ rank(Operand(n, 2).type) > 0
      PROVE  "scale" \in Lapses(n)
  BY <1>8 DEF Lapses
<1>9. QED
  BY <1>1, <1>2, <1>3, <1>4, <1>5, <1>6, <1>7, <1>8

\* Matrix products: batches that are the same, or none on the right.
LEMMA MatMulLapses ==
  ASSUME NEW n, n.op_type = "MatMul", Lapses(n) \subseteq Pardoned,
         NEW x, x = Operand(n, 1).type, NEW y, y = Operand(n, 2).type
  PROVE  \/ ~(rank(y) > 2) /\ (~(rank(x) > 2) \/ Declared(n).dims # <<>>)
         \/ rank(x) = rank(y) /\ SubSeq(x.dims, 1, rank(x) - 2) = SubSeq(y.dims, 1, rank(y) - 2)
<1>1. "batch" \notin Pardoned
  BY DEF Pardoned
<1>2. ASSUME rank(y) > 2 \/ (rank(x) > 2 /\ Declared(n).dims = <<>>),
             \/ rank(x) # rank(y)
             \/ SubSeq(x.dims, 1, rank(x) - 2) # SubSeq(y.dims, 1, rank(y) - 2)
      PROVE  "batch" \in Lapses(n)
  BY <1>2 DEF Lapses
<1>3. QED
  BY <1>1, <1>2

-----------------------------------------------------------------------------
(***************************************************************************)
(* Nodes, operands and the shapes that ONNX gives to outputs.              *)
(***************************************************************************)
\* The operands whose shapes count.
Reads(n) ==
  IF n.op_type \in {"Add", "Mul", "Sub", "Div", "Pow", "MatMul", "Conv"} THEN {1, 2}
  ELSE IF n.op_type = "Concat" THEN DOMAIN n.inputs ELSE {1}

\* Types and values have shapes of integers, and "" names nothing.
Tensors ==
  /\ \A name \in DOMAIN type_map : Tensor(type_map[name])
  /\ \A name \in DOMAIN value_map : Tensor(value_map[name].type)
  /\ "" \notin DOMAIN value_map

\* n is a node that may be converted, and nothing is overlooked in it.
Ready(n) ==
  /\ graph \in Graphs
  /\ Tensors
  /\ TypedBody(body)
  /\ n \in NodeProto /\ Len(n.inputs) \in Arity(n.op_type)
  /\ Lapses(n) \subseteq Pardoned

\* r was converted well.
TypedOutcome(n, r) ==
  /\ TypedBody(r.body)
  /\ Tensor(r.value.type)
  /\ r.value.type.dims = OutputDims(n)
  /\ \A k \in Reads(n) : valid(Operand(n, k))

\* A shape of integers makes a tensor's type.
LEMMA TypeTensor ==
  ASSUME NEW dims \in Seq(Int), NEW elem
  PROVE  /\ Tensor(Type(dims, elem))
         /\ Type(dims, elem).dims = dims /\ Type(dims, elem).elem = elem
  BY DEF Type, Tensor

\* No type, or a tensor's.
LEMMA TensorFacts ==
  ASSUME Tensors, NEW n
  PROVE  /\ \A i : Tensor(Operand(n, i).type)
         /\ Tensor(Declared(n))
<1>1. Tensor(Unknown) /\ Invalid.type = Unknown
  <2>1. <<>> \in Seq(Int)
    OBVIOUS
  <2>2. Tensor(Unknown)
    BY <2>1, TypeTensor DEF Unknown
  <2>3. QED
    BY <2>2 DEF Invalid, Value
<1>2. QED
  BY <1>1 DEF Tensors, Operand, lookup, Declared, get_type

\* A tensor's type.
LEMMA TensorType ==
  ASSUME NEW t, Tensor(t)
  PROVE  /\ t.dims \in Seq(Int) /\ t = Type(t.dims, t.elem)
         /\ rank(t) \in Nat /\ rank(t) = Len(t.dims) /\ DOMAIN t.dims = 1 .. rank(t)
         /\ \A i \in 1 .. rank(t) : t.dims[i] \in Int
         /\ ~Dynamic(t) => \A i \in 1 .. rank(t) : t.dims[i] >= 0
<1>1. t.dims \in Seq(Int) /\ t = Type(t.dims, t.elem)
  BY DEF Tensor
<1>3. /\ rank(t) \in Nat /\ rank(t) = Len(t.dims) /\ DOMAIN t.dims = 1 .. rank(t)
      /\ \A i \in 1 .. rank(t) : t.dims[i] \in Int
  BY <1>1 DEF rank
<1>4. ASSUME ~Dynamic(t), NEW i \in 1 .. rank(t) PROVE t.dims[i] >= 0
  BY <1>3, <1>4 DEF Dynamic
<1>5. QED
  BY <1>1, <1>3, <1>4

\* The numbers of an initializer are integers, however they are read.
LEMMA NumbersFacts ==
  ASSUME graph \in Graphs, NEW n, NEW i
  PROVE  /\ Numbers(n, i) \in Seq(Int) /\ extract_int64s(n, i) \in Seq(Int)
         /\ ~HasInput(n, i) => Numbers(n, i) = <<>> /\ extract_int64s(n, i) = <<>>
<1>1. graph.data \in [NamesOf(graph.initializers) -> TensorData]
  <2>1. IsOnnxGraph(graph)
    BY GraphsAssumption
  <2>2. QED
    BY <2>1, Zenon DEF IsOnnxGraph
<1>2. <<>> \in Seq(Int)
  OBVIOUS
<1>3. \A d \in TensorData : d["numbers"] \in Seq(Int) /\ d["int64s"] \in Seq(Int)
  BY DEF TensorData
<1>4. QED
  BY <1>1, <1>2, <1>3 DEF Numbers, extract_int64s, Extracted, IsInitializer

\* What the lapses say of the operands that are there.
LEMMA OperandFacts ==
  ASSUME NEW n, Ready(n), NEW i \in DOMAIN n.inputs, valid(Operand(n, i))
  PROVE  /\ HasInput(n, i)
         /\ Tensor(Operand(n, i).type)
         /\ ~Dynamic(Operand(n, i).type) /\ Operand(n, i).type.elem # "unknown"
<1>1. n.inputs[i] \in DOMAIN value_map
  BY ValidMapped DEF Operand
<1>2. n.inputs[i] # ""
  BY <1>1 DEF Ready, Tensors
<1>3. n.inputs \in Seq(STRING)
  BY DEF Ready, NodeProto
<1>4. Len(n.inputs) >= i
  BY <1>3
<1>5. HasInput(n, i)
  BY <1>2, <1>4 DEF HasInput
<1>6. QED
  BY <1>5, AllLapses, TensorFacts DEF Ready

\* The inputs and the attributes of a node.
LEMMA ProtoFacts ==
  ASSUME NEW n \in NodeProto
  PROVE  /\ n.inputs \in Seq(STRING) /\ Len(n.inputs) \in Nat /\ DOMAIN n.inputs = 1 .. Len(n.inputs)
         /\ \A key \in {"axis", "axes", "keepdims", "perm", "strides", "pads", "dilations",
                        "kernel_shape", "group"} : n.at[key] \in Seq(Int)
<1>1. n.inputs \in Seq(STRING)
  BY DEF NodeProto
<1>2. n.at \in [axis : Seq(Int), axes : Seq(Int), keepdims : Seq(Int), perm : Seq(Int),
                strides : Seq(Int), pads : Seq(Int), dilations : Seq(Int), kernel_shape : Seq(Int),
                auto_pad : STRING, group : Seq(Int)]
  BY DEF NodeProto
<1>3. QED
  BY <1>1, <1>2

\* An integer attribute, given or not.
LEMMA AttributeFacts ==
  ASSUME NEW n \in NodeProto,
         NEW key \in {"axis", "axes", "keepdims", "perm", "strides", "pads", "dilations",
                      "kernel_shape", "group"}
  PROVE  /\ \A d \in Int : get_int_attr(n, key, d) \in Int
         /\ \A d \in Seq(Int) : get_ints_attr(n, key, d) \in Seq(Int)
<1>1. n.at[key] \in Seq(Int)
  BY ProtoFacts
<1>2. ASSUME NEW d \in Int PROVE get_int_attr(n, key, d) \in Int
  BY <1>1 DEF get_int_attr
<1>3. QED
  BY <1>1, <1>2 DEF get_ints_attr

\* A success that was built well.
LEMMA SuccessTyped ==
  ASSUME NEW n, NEW p, NEW t, Tensor(t), Makes(p, t), t.dims = OutputDims(n),
         \A k \in Reads(n) : valid(Operand(n, k))
  PROVE  TypedOutcome(n, Success(p))
<1>1. Success(p).body = p.body /\ Success(p).value = p.value
  BY DEF Success
<1>2. QED
  BY <1>1 DEF TypedOutcome, Makes

Elementwise == {"Sqrt", "Exp", "Sin", "Cos", "Neg", "Erf", "Softmax", "QuantizeLinear", "DequantizeLinear"}

Broadcasting == {"Add", "Mul", "Sub", "Div", "Pow"}

\* The operations that have a mnemonic each.
LEMMA Mnemonics ==
  /\ DOMAIN BinaryMnemonic = {"Add", "Mul", "Sub"}
  /\ DOMAIN UnaryMnemonic = {"Sqrt", "Exp", "Sin", "Cos", "Neg", "Erf"}
  /\ \A op \in {"Add", "Mul", "Sub"} : BinaryMnemonic[op] \in Binary
  /\ \A op \in {"Sqrt", "Exp", "Sin", "Cos", "Neg", "Erf"} : UnaryMnemonic[op] \in Unary
  BY DEF BinaryMnemonic, UnaryMnemonic, Binary, Unary

\* ONNX's shapes, one kind of node at a time.
LEMMA OnnxKinds ==
  ASSUME NEW n, NEW ds, NEW ks
  PROVE  /\ n.op_type \in Elementwise => OnnxDims(n, ds, ks) = ds[1]
         /\ n.op_type \in Broadcasting => OnnxDims(n, ds, ks) = BroadcastDims(ds[1], ds[2])
         /\ n.op_type = "Conv" => OnnxDims(n, ds, ks) = ConvolvedDims(n, ds[1], ds[2])
         /\ n.op_type = "Transpose" =>
              OnnxDims(n, ds, ks) =
                [i \in 1 .. Len(ds[1]) |->
                   ds[1][get_ints_attr(n, "perm", Reverse(AllAxes(Len(ds[1]))))[i] + 1]]
<1>1. ASSUME n.op_type \in Elementwise PROVE OnnxDims(n, ds, ks) = ds[1]
  BY <1>1, Mnemonics DEF OnnxDims, Elementwise
<1>2. ASSUME n.op_type \in Broadcasting PROVE OnnxDims(n, ds, ks) = BroadcastDims(ds[1], ds[2])
  BY <1>2, Mnemonics DEF OnnxDims, Broadcasting
<1>3. ASSUME n.op_type = "Conv" PROVE OnnxDims(n, ds, ks) = ConvolvedDims(n, ds[1], ds[2])
  BY <1>3, Mnemonics DEF OnnxDims
<1>4. ASSUME n.op_type = "Transpose"
      PROVE  OnnxDims(n, ds, ks) =
               [i \in 1 .. Len(ds[1]) |->
                  ds[1][get_ints_attr(n, "perm", Reverse(AllAxes(Len(ds[1]))))[i] + 1]]
  BY <1>4, Mnemonics DEF OnnxDims
<1>5. QED
  BY <1>1, <1>2, <1>3, <1>4

\* What the operands have to be, one kind of node at a time.
LEMMA AcceptedKinds ==
  ASSUME NEW n, OperandsAccepted(n), NEW x, x = Operand(n, 1).type, NEW y, y = Operand(n, 2).type
  PROVE  /\ n.op_type \in Broadcasting \ {"Pow"} => x.elem = y.elem
         /\ n.op_type = "Pow" => ToSet(y.dims) \subseteq {1}
         /\ n.op_type = "ReduceMean" => Distinct(ReducedAxes(n))
         /\ n.op_type = "Conv" => ConvAccepted(n)
         /\ n.op_type = "Reshape" => ReshapeAccepted(n)
         /\ n.op_type = "DequantizeLinear" => Operand(n, 3).type.dims = y.dims
<1>1. n.op_type \in Broadcasting \ {"Pow"} => x.elem = y.elem
  BY Mnemonics DEF OperandsAccepted, Broadcasting
<1>2. n.op_type = "Pow" => ToSet(y.dims) \subseteq {1}
  BY Mnemonics DEF OperandsAccepted
<1>3. n.op_type = "ReduceMean" => Distinct(ReducedAxes(n))
  BY Mnemonics DEF OperandsAccepted
<1>4. n.op_type = "Conv" => ConvAccepted(n)
  BY Mnemonics DEF OperandsAccepted
<1>5. n.op_type = "Reshape" => ReshapeAccepted(n)
  BY Mnemonics DEF OperandsAccepted
<1>6. n.op_type = "DequantizeLinear" => Operand(n, 3).type.dims = y.dims
  BY Mnemonics DEF OperandsAccepted
<1>7. QED
  BY <1>1, <1>2, <1>3, <1>4, <1>5, <1>6

\* How many inputs a node has, one kind at a time.
LEMMA InputKinds ==
  ASSUME NEW n, IsSequence(n.inputs), Len(n.inputs) \in Arity(n.op_type)
  PROVE  /\ Len(n.inputs) \in Nat /\ DOMAIN n.inputs = 1 .. Len(n.inputs)
         /\ n.op_type \in Elementwise \cup {"Transpose", "ReduceMean"} => 1 \in DOMAIN n.inputs
         /\ n.op_type \in Broadcasting \cup {"MatMul", "Reshape", "Conv", "Slice", "DequantizeLinear"} =>
              {1, 2} \subseteq DOMAIN n.inputs
         /\ n.op_type \in Broadcasting \cup {"MatMul", "Reshape"} => Len(n.inputs) = 2
         /\ n.op_type = "Slice" => 3 \in DOMAIN n.inputs
         /\ n.op_type = "ReduceMean" => Len(n.inputs) \in 1 .. 2
<1>1. Len(n.inputs) \in Nat /\ DOMAIN n.inputs = 1 .. Len(n.inputs)
  BY SequenceFacts
<1>2. ASSUME n.op_type \in {"Sqrt", "Exp", "Sin", "Cos", "Neg", "Erf", "Softmax", "Transpose"}
      PROVE  Len(n.inputs) = 1
  <2>1. Arity(n.op_type) = {1}
    BY <1>2 DEF Arity
  <2>2. QED
    BY <2>1
<1>3. ASSUME n.op_type \in {"QuantizeLinear", "DequantizeLinear", "Conv"}
      PROVE  Len(n.inputs) \in 2 .. 3
  BY <1>3 DEF Arity
<1>4. ASSUME n.op_type \in Broadcasting \cup {"MatMul", "Reshape"} PROVE Len(n.inputs) = 2
  <2>1. Arity(n.op_type) = {2}
    BY <1>4 DEF Arity, Broadcasting
  <2>2. QED
    BY <2>1
<1>5. ASSUME n.op_type = "Slice" PROVE Len(n.inputs) \in 3 .. 5
  BY <1>5 DEF Arity
<1>6. ASSUME n.op_type = "ReduceMean" PROVE Len(n.inputs) \in 1 .. 2
  BY <1>6 DEF Arity
<1>7. ASSUME n.op_type \in Elementwise \cup {"Transpose", "ReduceMean"} PROVE 1 \in DOMAIN n.inputs
  BY <1>7, <1>2, <1>3, <1>6, <1>1 DEF Elementwise
<1>8. ASSUME n.op_type \in Broadcasting \cup {"MatMul", "Reshape", "Conv", "Slice", "DequantizeLinear"}
      PROVE  {1, 2} \subseteq DOMAIN n.inputs
  <2>1. \/ n.op_type \in Broadcasting \cup {"MatMul", "Reshape"}
        \/ n.op_type \in {"QuantizeLinear", "DequantizeLinear", "Conv"}
        \/ n.op_type = "Slice"
    BY <1>8
  <2>2. Len(n.inputs) >= 2
    BY <1>3, <1>4, <1>5, <2>1
  <2>3. QED
    BY <1>1, <2>2
<1>9. n.op_type = "Slice" => 3 \in DOMAIN n.inputs
  <2> DEFINE k == Len(n.inputs)
  <2>1. n.op_type = "Slice" => k \in 3 .. 5
    BY <1>5
  <2> HIDE DEF k
  <2>2. n.op_type = "Slice" => 3 \in 1 .. k
    BY <2>1
  <2>3. QED
    BY <1>1, <2>2 DEF k
<1>10. QED
  BY <1>1, <1>4, <1>6, <1>7, <1>8, <1>9, Zenon

\* The inputs of a node that may be converted.
LEMMA ReadyInputs ==
  ASSUME NEW n, Ready(n)
  PROVE  /\ IsSequence(n.inputs) /\ Len(n.inputs) \in Arity(n.op_type)
         /\ n \in NodeProto /\ graph \in Graphs /\ Tensors /\ TypedBody(body)
         /\ Lapses(n) \subseteq Pardoned
<1>1. n.inputs \in Seq(STRING)
  BY ProtoFacts DEF Ready
<1>2. IsSequence(n.inputs)
  BY <1>1 DEF IsSequence
<1>3. QED
  BY <1>2 DEF Ready

\* As long as the code reads no initializer of another type than it expects.
LEMMA Decoded ==
  ASSUME NEW n, Ready(n), n.op_type \in {"Slice", "Reshape"}, NEW i \in 2 .. 5
  PROVE  extract_int64s(n, i) = Numbers(n, i)
<1>1. "encoding" \notin Lapses(n)
  BY DEF Ready, Pardoned
<1>2. graph \in Graphs /\ Len(n.inputs) \in Nat
  BY ReadyInputs, SequenceFacts
<1>3. CASE i \in 2 .. Len(n.inputs)
  <2>1. Misread(n, i) => "encoding" \in Lapses(n)
    BY <1>3, Zenon DEF Lapses
  <2>2. QED
    BY <1>1, <2>1 DEF Misread
<1>4. CASE i \notin 2 .. Len(n.inputs)
  <2> DEFINE m == Len(n.inputs)
  <2>1. i > m
    <3>1. m \in Nat /\ i \in Nat /\ i >= 2 /\ i \notin 2 .. m
      BY <1>2, <1>4
    <3> HIDE DEF m
    <3>2. QED
      BY <3>1
  <2>2. ~HasInput(n, i)
    <3>1. m \in Nat /\ i \in Nat
      BY <1>2
    <3>2. ~(i <= m)
      <4> HIDE DEF m
      <4>1. QED
        BY <2>1, <3>1
    <3>3. QED
      BY <3>2 DEF HasInput
  <2>3. QED
    BY <1>2, <2>2, NumbersFacts
<1>5. QED
  BY <1>3, <1>4

\* So for the shape that a reshape asks for.
LEMMA ShapeDecoded ==
  ASSUME NEW n, Ready(n), n.op_type = "Reshape"
  PROVE  extract_int64s(n, 2) = Numbers(n, 2)
<1>1. 2 \in 2 .. 5
  OBVIOUS
<1>2. n.op_type \in {"Slice", "Reshape"}
  OBVIOUS
<1>3. QED
  BY <1>1, <1>2, Decoded, Zenon

\* The shape of an output in terms of the operands' shapes.
LEMMA OutputKinds ==
  ASSUME NEW n, IsSequence(n.inputs), Len(n.inputs) \in Arity(n.op_type)
  PROVE  /\ n.op_type \in Elementwise => OutputDims(n) = Operand(n, 1).type.dims
         /\ n.op_type \in Broadcasting =>
              OutputDims(n) = BroadcastDims(Operand(n, 1).type.dims, Operand(n, 2).type.dims)
         /\ n.op_type = "Conv" =>
              OutputDims(n) = ConvolvedDims(n, Operand(n, 1).type.dims, Operand(n, 2).type.dims)
         /\ n.op_type = "Transpose" =>
              OutputDims(n) = [i \in 1 .. rank(Operand(n, 1).type) |->
                                 Operand(n, 1).type.dims[perm_of(n)[i] + 1]]
<1> DEFINE D == DOMAIN n.inputs
           ds == [k \in D |-> Operand(n, k).type.dims]
           ks == [k \in D |-> Numbers(n, k)]
<1>1. n.op_type # "Reshape" => OutputDims(n) = OnnxDims(n, ds, ks)
  BY DEF OutputDims
<1>2. /\ 1 \in D => ds[1] = Operand(n, 1).type.dims
      /\ 2 \in D => ds[2] = Operand(n, 2).type.dims
  OBVIOUS
<1> HIDE DEF D, ds, ks
<1>4. ASSUME n.op_type \in Elementwise PROVE OutputDims(n) = Operand(n, 1).type.dims
  BY <1>4, OnnxKinds, InputKinds, <1>1, <1>2 DEF Elementwise, D
<1>5. ASSUME n.op_type \in Broadcasting
      PROVE  OutputDims(n) = BroadcastDims(Operand(n, 1).type.dims, Operand(n, 2).type.dims)
  BY <1>5, OnnxKinds, InputKinds, <1>1, <1>2 DEF Broadcasting, D
<1>6. ASSUME n.op_type = "Conv"
      PROVE  OutputDims(n) = ConvolvedDims(n, Operand(n, 1).type.dims, Operand(n, 2).type.dims)
  BY <1>6, OnnxKinds, InputKinds, <1>1, <1>2 DEF D
<1>7. ASSUME n.op_type = "Transpose"
      PROVE  OutputDims(n) = [i \in 1 .. rank(Operand(n, 1).type) |->
                                Operand(n, 1).type.dims[perm_of(n)[i] + 1]]
  BY <1>7, OnnxKinds, InputKinds, <1>1, <1>2 DEF D, perm_of, rank
<1>8. QED
  BY <1>4, <1>5, <1>6, <1>7

\* Transposition, of a whole permutation.
LEMMA TransposedTyped ==
  ASSUME NEW n, n.op_type = "Transpose", Ready(n), valid(Operand(n, 1)), NEW stray
  PROVE  TypedOutcome(n, Transposed(n, stray))
<1> DEFINE x == Operand(n, 1)
           r == rank(x.type)
           perm == perm_of(n)
           dims == [i \in DOMAIN perm |-> At(x.type.dims, perm[i] + 1, stray)]
           t == Type(dims, x.type.elem)
           p == Emit(body, "stablehlo.transpose", <<x>>, <<perm>>, t)
<1>1. Transposed(n, stray) = Success(p)
  BY Zenon DEF Transposed
<1>2. n \in NodeProto /\ TypedBody(body)
  BY DEF Ready
<1>3. 1 \in DOMAIN n.inputs /\ IsSequence(n.inputs) /\ Len(n.inputs) \in Arity(n.op_type)
  BY ReadyInputs, InputKinds
<1>4. Tensor(x.type) /\ x.type.elem # "unknown"
  BY <1>3, OperandFacts
<1>5. /\ r \in Nat /\ DOMAIN x.type.dims = 1 .. r /\ \A i \in 1 .. r : x.type.dims[i] \in Int
  BY <1>4, TensorType
<1>6. Len(perm) = r /\ ToSet(perm) = 0 .. r - 1
  BY OtherLapses DEF Ready, Axes
<1>7. perm \in Seq(Int)
  <2>1. AllAxes(r) \in Seq(Int) /\ Len(AllAxes(r)) = r
    BY <1>5 DEF AllAxes
  <2> HIDE DEF r
  <2>2. Reverse(AllAxes(r)) \in Seq(Int)
    <3> DEFINE a == AllAxes(r)
    <3>1. Reverse(a) = [i \in 1 .. Len(a) |-> a[(Len(a) - i) + 1]]
      BY DEF Reverse
    <3>2. ASSUME NEW i \in 1 .. r PROVE a[(r - i) + 1] \in Int
      <4>1. (r - i) + 1 \in 1 .. r
        BY <1>5
      <4> HIDE DEF a
      <4>2. QED
        BY <2>1, <4>1 DEF a
    <3> HIDE DEF a
    <3>3. QED
      BY <1>5, <2>1, <3>1, <3>2 DEF a
  <2>3. QED
    BY <1>2, <2>2, AttributeFacts DEF perm_of, r
<1>8. DOMAIN perm = 1 .. r /\ \A i \in 1 .. r : perm[i] \in 0 .. r - 1
  BY <1>6, <1>7 DEF ToSet
<1>9. Distinct(perm)
  <2>1. r \in Nat
    BY <1>5
  <2> HIDE DEF r, perm
  <2>2. perm \in [1 .. r -> 0 .. r - 1]
    BY <1>7, <1>8
  <2> DEFINE S == 1 .. r
             T == 0 .. r - 1
  <2>3. perm \in Surjection(S, T)
    BY <1>6, <1>8, <2>2 DEF Surjection, ToSet
  <2>4. /\ IsFiniteSet(S) /\ IsFiniteSet(T)
        /\ Cardinality(S) = Cardinality(T)
    BY <2>1, FS_Interval
  <2> HIDE DEF S, T
  <2>5. perm \in Injection(S, T)
    BY <2>3, <2>4, FS_Surjection, Zenon
  <2>6. QED
    BY <1>8, <2>5 DEF Injection, Distinct, IsInjective, S
<1> HIDE DEF x, r, perm
<1>10. ASSUME NEW i \in 1 .. r PROVE /\ dims[i] = x.type.dims[perm[i] + 1]
                                     /\ dims[i] = Dim(x.type, perm[i]) /\ dims[i] \in Int
  BY <1>5, <1>8 DEF At, Dim
<1>11. dims = [i \in DOMAIN perm |-> dims[i]] /\ dims = [i \in 1 .. r |-> dims[i]]
  BY <1>8
<1>12. dims \in Seq(Int)
  <2> HIDE DEF dims
  <2>1. QED
    BY <1>5, <1>10, <1>11
<1>13. /\ dims = [i \in DOMAIN perm |-> Dim(x.type, perm[i])]
       /\ dims = [i \in 1 .. r |-> x.type.dims[perm[i] + 1]]
  <2> HIDE DEF dims
  <2>1. QED
    BY <1>8, <1>10, <1>11
<1> HIDE DEF dims
<1>14. Tensor(t) /\ t.dims = dims /\ t.elem = x.type.elem
  BY <1>12, TypeTensor
<1> HIDE DEF t
<1>15. Sound("stablehlo.transpose", <<x>>, <<perm>>, t)
  <2>1. ToSet(perm) = Axes(x.type)
    BY <1>6 DEF Axes, r
  <2> DEFINE l == <<perm>>
  <2>2. l[1] = perm
    OBVIOUS
  <2> HIDE DEF l
  <2>3. Sound("stablehlo.transpose", <<x>>, l, t)
    BY <1>4, <1>9, <1>13, <1>14, <2>1, <2>2, SoundOne
  <2>4. QED
    BY <2>3 DEF l
<1>16. Makes(p, t)
  BY <1>2, <1>15, EmitMakes
<1> HIDE DEF p
<1>17. t.dims = OutputDims(n)
  BY <1>3, <1>13, <1>14, OutputKinds DEF x, r, perm
<1>18. \A k \in Reads(n) : valid(Operand(n, k))
  BY DEF Reads
<1>19. QED
  BY <1>1, <1>14, <1>16, <1>17, <1>18, SuccessTyped

-----------------------------------------------------------------------------
(***************************************************************************)
(* Element-wise patterns.                                                  *)
(***************************************************************************)
\* A pattern fails, or converts the node well.
Treated(n, r) == r = Failure \/ TypedOutcome(n, r)

\* Entry i of s aligned at its last entry with a list of r.
PaddedDim(s, i, r) == IF i <= r - Len(s) THEN 1 ELSE s[i - (r - Len(s))]

\* The entries of a broadcast shape.
LEMMA BroadcastEntries ==
  ASSUME NEW a \in Seq(Int), NEW b \in Seq(Int), NEW r, r = Larger(Len(a), Len(b))
  PROVE  /\ r \in Nat /\ Len(a) \in 0 .. r /\ Len(b) \in 0 .. r
         /\ \A i \in 1 .. r : PaddedDim(a, i, r) \in Int /\ PaddedDim(b, i, r) \in Int
         /\ BroadcastDims(a, b) =
              [i \in 1 .. r |-> IF PaddedDim(a, i, r) = 1 THEN PaddedDim(b, i, r) ELSE PaddedDim(a, i, r)]
         /\ BroadcastDims(a, b) \in Seq(Int)
<1>1. r \in Nat /\ Len(a) \in 0 .. r /\ Len(b) \in 0 .. r
  BY DEF Larger
<1>2. ASSUME NEW i \in 1 .. r, NEW s \in Seq(Int), Len(s) <= r PROVE PaddedDim(s, i, r) \in Int
  <2>1. CASE i <= r - Len(s)
    BY <2>1 DEF PaddedDim
  <2>2. CASE ~(i <= r - Len(s))
    <3>1. i - (r - Len(s)) \in 1 .. Len(s)
      BY <1>1, <1>2, <2>2
    <3> DEFINE k == i - (r - Len(s))
    <3>2. s[k] \in Int
      BY <3>1
    <3>3. QED
      BY <2>2, <3>2 DEF PaddedDim
  <2>3. QED
    BY <2>1, <2>2
<1>3. BroadcastDims(a, b) =
        [i \in 1 .. r |-> IF PaddedDim(a, i, r) = 1 THEN PaddedDim(b, i, r) ELSE PaddedDim(a, i, r)]
  BY DEF BroadcastDims, PaddedDim
<1>4. \A i \in 1 .. r : PaddedDim(a, i, r) \in Int /\ PaddedDim(b, i, r) \in Int
  BY <1>1, <1>2
<1>5. BroadcastDims(a, b) \in Seq(Int)
  <2> DEFINE d == [i \in 1 .. r |->
                     IF PaddedDim(a, i, r) = 1 THEN PaddedDim(b, i, r) ELSE PaddedDim(a, i, r)]
  <2>1. \A i \in 1 .. r :
          (IF PaddedDim(a, i, r) = 1 THEN PaddedDim(b, i, r) ELSE PaddedDim(a, i, r)) \in Int
    BY <1>4
  <2>2. d \in Seq(Int)
    BY <1>1, <2>1
  <2>3. QED
    BY <1>3, <2>2
<1>6. QED
  BY <1>1, <1>3, <1>4, <1>5

\* A list of as many integers with the same entries is the same.
LEMMA SameEntries ==
  ASSUME NEW a \in Seq(Int), NEW b \in Seq(Int), Len(a) = Len(b),
         \A i \in 1 .. Len(a) : a[i] = b[i]
  PROVE  a = b
  OBVIOUS

\* The element-wise operations on one operand.
LEMMA UnaryTyped ==
  ASSUME NEW n, n.op_type \in {"Sqrt", "Exp", "Sin", "Cos", "Neg", "Erf"}, Ready(n), NEW m \in Unary
  PROVE  Treated(n, UnaryConversion(n, m))
<1> DEFINE x == Operand(n, 1)
           p == Emit(body, m, <<x>>, <<>>, x.type)
<1>1. UnaryConversion(n, m) = Failure \/ (valid(x) /\ UnaryConversion(n, m) = Success(p))
  BY Zenon DEF UnaryConversion
<1>2. SUFFICES ASSUME valid(x) PROVE TypedOutcome(n, Success(p))
  BY <1>1 DEF Treated
<1>3. n.op_type \in Elementwise
  BY DEF Elementwise
<1>4. 1 \in DOMAIN n.inputs
  BY <1>3, ReadyInputs, InputKinds
<1>5. Tensor(x.type) /\ x.type.elem # "unknown"
  BY <1>2, <1>4, OperandFacts
<1>6. x.type.dims = OutputDims(n)
  BY <1>3, ReadyInputs, OutputKinds
<1>7. \A k \in Reads(n) : valid(Operand(n, k))
  BY <1>2 DEF Reads
<1>8. Makes(p, x.type)
  <2> HIDE DEF x
  <2>1. Sound(m, <<x>>, <<>>, x.type)
    BY <1>5, SoundUnary
  <2>2. QED
    BY <2>1, EmitMakes, ReadyInputs
<1> HIDE DEF p, x
<1>9. QED
  BY <1>5, <1>6, <1>7, <1>8, SuccessTyped

\* Quantization passes its operand on.
LEMMA QuantizeTyped ==
  ASSUME NEW n, n.op_type = "QuantizeLinear", Ready(n)
  PROVE  Treated(n, QuantizeLinearOpConversion(n))
<1> DEFINE x == Operand(n, 1)
           p == [body |-> body, value |-> x]
<1>1. \/ QuantizeLinearOpConversion(n) = Failure
      \/ valid(x) /\ QuantizeLinearOpConversion(n) = Success(p)
  BY Zenon DEF QuantizeLinearOpConversion
<1>2. SUFFICES ASSUME valid(x) PROVE TypedOutcome(n, Success(p))
  BY <1>1 DEF Treated
<1>3. n.op_type \in Elementwise
  BY DEF Elementwise
<1>4. 1 \in DOMAIN n.inputs
  BY <1>3, ReadyInputs, InputKinds
<1>5. Tensor(x.type)
  BY <1>2, <1>4, OperandFacts
<1>6. x.type.dims = OutputDims(n)
  BY <1>3, ReadyInputs, OutputKinds
<1>7. \A k \in Reads(n) : valid(Operand(n, k))
  BY <1>2 DEF Reads
<1>8. Makes(p, x.type)
  BY ReadyInputs DEF Makes
<1> HIDE DEF p, x
<1>9. QED
  BY <1>5, <1>6, <1>7, <1>8, SuccessTyped

\* Squares: the exponent is a single number, of no higher rank.
LEMMA PowTyped ==
  ASSUME NEW n, n.op_type = "Pow", Ready(n)
  PROVE  Treated(n, PowOpConversion(n))
<1> DEFINE x == Operand(n, 1)
           y == Operand(n, 2)
           p == Emit(body, "stablehlo.multiply", <<x, x>>, <<>>, x.type)
<1>1. \/ PowOpConversion(n) = Failure
      \/ valid(x) /\ valid(y) /\ PowOpConversion(n) = Success(p)
  BY Zenon DEF PowOpConversion
<1>2. SUFFICES ASSUME valid(x), valid(y) PROVE TypedOutcome(n, Success(p))
  BY <1>1 DEF Treated
<1>3. n.op_type \in Broadcasting
  BY DEF Broadcasting
<1>4. {1, 2} \subseteq DOMAIN n.inputs
  BY <1>3, ReadyInputs, InputKinds
<1>5. Tensor(x.type) /\ x.type.elem # "unknown" /\ Tensor(y.type)
  BY <1>2, <1>4, OperandFacts
<1>6. OutputDims(n) = BroadcastDims(x.type.dims, y.type.dims)
  BY <1>3, ReadyInputs, OutputKinds
<1>7. \A k \in Reads(n) : valid(Operand(n, k))
  BY <1>2 DEF Reads
<1>8. ToSet(y.type.dims) \subseteq {1} /\ ~(Len(y.type.dims) > Len(x.type.dims))
  BY ReadyInputs, AllLapses, AcceptedKinds, OtherLapses DEF Accepted, rank
<1>9. Makes(p, x.type)
  <2> HIDE DEF x
  <2>1. "stablehlo.multiply" \in Binary
    BY DEF Binary
  <2>2. Sound("stablehlo.multiply", <<x, x>>, <<>>, x.type)
    BY <1>5, <2>1, SoundBinary
  <2>3. QED
    BY <2>2, EmitMakes, ReadyInputs
<1>10. BroadcastDims(x.type.dims, y.type.dims) = x.type.dims
  <2> DEFINE a == x.type.dims
             b == y.type.dims
             r == Larger(Len(a), Len(b))
             d == BroadcastDims(a, b)
  <2>1. a \in Seq(Int) /\ b \in Seq(Int)
    BY <1>5, TensorType
  <2>2. ToSet(b) \subseteq {1} /\ ~(Len(b) > Len(a))
    BY <1>8
  <2> HIDE DEF x, y, a, b
  <2>3. r = Len(a) /\ Len(a) \in Nat /\ Len(b) \in Nat
    <3> DEFINE la == Len(a)
               lb == Len(b)
    <3>1. la \in Nat /\ lb \in Nat /\ ~(lb > la)
      BY <2>1, <2>2
    <3> HIDE DEF la, lb
    <3>2. Larger(la, lb) = la
      BY <3>1 DEF Larger
    <3>3. QED
      BY <3>1, <3>2 DEF la, lb
  <2>4. \A i \in 1 .. Len(b) : b[i] = 1
    <3>1. DOMAIN b = 1 .. Len(b) /\ ToSet(b) = {b[i] : i \in DOMAIN b}
      BY <2>1 DEF ToSet
    <3>2. \A i \in DOMAIN b : b[i] \in ToSet(b)
      BY <3>1
    <3>3. QED
      BY <2>2, <3>1, <3>2
  <2> DEFINE Padded(i) == IF PaddedDim(a, i, r) = 1 THEN PaddedDim(b, i, r) ELSE PaddedDim(a, i, r)
  <2> HIDE DEF r, d
  <2>5. d = [i \in 1 .. r |-> Padded(i)] /\ d \in Seq(Int)
    <3>1. BroadcastDims(a, b) = [i \in 1 .. r |-> Padded(i)] /\ BroadcastDims(a, b) \in Seq(Int)
      BY <2>1, BroadcastEntries, ZenonT(40) DEF r
    <3>2. QED
      BY <3>1 DEF d
  <2>6. ASSUME NEW i \in 1 .. r PROVE Padded(i) = a[i]
    <3>1. PaddedDim(a, i, r) = a[i]
      BY <2>3 DEF PaddedDim
    <3>2. PaddedDim(b, i, r) = 1
      <4>1. CASE i <= r - Len(b)
        BY <4>1 DEF PaddedDim
      <4>2. CASE ~(i <= r - Len(b))
        BY <2>2, <2>3, <4>2, <2>4 DEF PaddedDim
      <4>3. QED
        BY <4>1, <4>2
    <3>3. QED
      BY <3>1, <3>2
  <2> HIDE DEF Padded
  <2>7. d = a
    BY <2>1, <2>3, <2>5, <2>6, SameEntries
  <2>8. QED
    BY <2>7 DEF d, a, b, x, y
<1> HIDE DEF p, x, y
<1>11. QED
  BY <1>5, <1>6, <1>7, <1>9, <1>10, SuccessTyped

-----------------------------------------------------------------------------
(***************************************************************************)
(* Operands that are broadcast.                                            *)
(***************************************************************************)
\* x may be broadcast to t with the axes aligned at the last one.
Spreads(x, t) ==
  /\ rank(x) <= rank(t) /\ x.elem = t.elem
  /\ \A i \in 1 .. rank(x) : x.dims[i] \in {1, t.dims[rank(t) - rank(x) + i]}

\* The operation that maybe_broadcast emits is accepted.
LEMMA SpreadsTypes ==
  ASSUME NEW x, Tensor(x), NEW t, Tensor(t), ~Dynamic(t), Spreads(x, t)
  PROVE  BroadcastTypes(x, [i \in 1 .. rank(x) |-> rank(t) - rank(x) + i - 1], t)
<1> DEFINE rx == rank(x)
           rt == rank(t)
           dims == [i \in 1 .. rx |-> rt - rx + i - 1]
<1>1. rx \in Nat /\ rt \in Nat /\ rx <= rt /\ DOMAIN x.dims = 1 .. rx
  BY TensorType DEF Spreads
<1>2. \A i \in 1 .. rx : x.dims[i] \in {1, t.dims[rt - rx + i]}
  BY DEF Spreads
<1> HIDE DEF rx, rt
<1>3. /\ DOMAIN dims = 1 .. rx /\ dims \in Seq(Int) /\ Len(dims) = rx
      /\ \A i \in 1 .. rx : dims[i] \in 0 .. rt - 1 /\ dims[i] + 1 = rt - rx + i
  BY <1>1
<1>4. \A i, k \in DOMAIN dims : dims[i] = dims[k] => i = k
  BY <1>1
<1> HIDE DEF dims
<1>5. Distinct(dims)
  BY <1>4 DEF Distinct, IsInjective
<1>6. ToSet(dims) \subseteq Axes(t)
  BY <1>3 DEF ToSet, Axes, rt
<1>7. \A i \in DOMAIN dims : x.dims[i] \in {1, Dim(t, dims[i])}
  BY <1>2, <1>3 DEF Dim
<1>8. t.elem = x.elem
  BY DEF Spreads
<1>9. BroadcastTypes(x, dims, t)
  BY <1>3, <1>5, <1>6, <1>7, <1>8 DEF BroadcastTypes, rx
<1>10. QED
  BY <1>9 DEF dims, rx, rt

\* What Emit and Start return.
Pair(p) == p = [body |-> p.body, value |-> p.value]

\* Emit returns a pair.
LEMMA EmitPair ==
  ASSUME NEW b, NEW mnemonic, NEW operands, NEW lists, NEW t
  PROVE  Pair(Emit(b, mnemonic, operands, lists, t))
<1> DEFINE c == Append(b, Operation(fresh_ssa(b), mnemonic, operands, lists, t))
<1>1. Emit(b, mnemonic, operands, lists, t) = Built(c)
  BY Zenon DEF Emit
<1> HIDE DEF c
<1>2. Pair(Built(c))
  BY DEF Built, Pair
<1>3. QED
  BY <1>1, <1>2, Zenon

\* An operand is broadcast, or has the type asked for already.
LEMMA BroadcastMakes ==
  ASSUME NEW p, Pair(p), TypedBody(p.body), NEW v, Tensor(v.type), NEW t, Tensor(t), ~Dynamic(t),
         t.elem # "unknown", Spreads(v.type, t)
  PROVE  Makes(maybe_broadcast(p, v, t), t) /\ Pair(maybe_broadcast(p, v, t))
<1>1. CASE v.type = t
  <2> DEFINE q == [p EXCEPT !.value = v]
  <2>1. maybe_broadcast(p, v, t) = q
    BY <1>1 DEF maybe_broadcast
  <2>2. q = [body |-> p.body, value |-> v] /\ q.body = p.body /\ q.value = v
    BY DEF Pair
  <2> HIDE DEF q
  <2>3. Makes(q, t) /\ Pair(q)
    BY <1>1, <2>2 DEF Makes, Pair
  <2>4. QED
    BY <2>1, <2>3
<1>2. CASE v.type # t
  <2> DEFINE axes == [i \in 1 .. rank(v.type) |-> rank(t) - rank(v.type) + i - 1]
             l == <<axes>>
             q == Emit(p.body, "stablehlo.broadcast_in_dim", <<v>>, l, t)
  <2>1. maybe_broadcast(p, v, t) = q
    BY <1>2, Zenon DEF maybe_broadcast
  <2>2. BroadcastTypes(v.type, axes, t) /\ v.type.elem # "unknown"
    BY SpreadsTypes DEF Spreads
  <2>3. l[1] = axes
    OBVIOUS
  <2> HIDE DEF axes, l
  <2>4. Sound("stablehlo.broadcast_in_dim", <<v>>, l, t)
    BY <2>2, <2>3, SoundOne
  <2>5. Makes(q, t)
    BY <2>4, EmitMakes
  <2>6. Pair(q)
    BY EmitPair
  <2>7. QED
    BY <2>1, <2>5, <2>6
<1>3. QED
  BY <1>1, <1>2

\* Two operands are broadcast and combined.
LEMMA CombineMakes ==
  ASSUME TypedBody(body), NEW m \in Binary, NEW l, Tensor(l.type), NEW r, Tensor(r.type),
         NEW t, Tensor(t), ~Dynamic(t), t.elem # "unknown", Spreads(l.type, t), Spreads(r.type, t)
  PROVE  \E p : Combine(m, l, r, t) = Success(p) /\ Makes(p, t)
<1> DEFINE bl == maybe_broadcast(Start, l, t)
           br == maybe_broadcast(bl, r, t)
           e  == Emit(br.body, m, <<bl.value, br.value>>, <<>>, t)
<1>1. Combine(m, l, r, t) = Success(e)
  BY Zenon DEF Combine
<1>2. Pair(Start) /\ Start.body = body
  BY DEF Start, Pair
<1>3. Makes(bl, t) /\ Pair(bl)
  BY <1>2, BroadcastMakes
<1> HIDE DEF bl
<1>4. Makes(br, t)
  BY <1>3, BroadcastMakes DEF Makes
<1> HIDE DEF br
<1>5. Sound(m, <<bl.value, br.value>>, <<>>, t)
  <2> DEFINE x == bl.value
             y == br.value
  <2>1. x.type = t /\ y.type = t
    BY <1>3, <1>4 DEF Makes
  <2> HIDE DEF x, y
  <2>2. Sound(m, <<x, y>>, <<>>, t)
    BY <2>1, SoundBinary
  <2>3. QED
    BY <2>2 DEF x, y
<1>6. Makes(e, t)
  BY <1>4, <1>5, EmitMakes DEF Makes
<1> HIDE DEF e
<1>7. QED
  BY <1>1, <1>6

\* Sizes that broadcast.
LEMMA BroadcastDimFacts ==
  ASSUME NEW a \in Nat, NEW b \in Nat
  PROVE  /\ BroadcastDim(a, b) # -2 =>
              /\ BroadcastDim(a, b) = IF a = 1 THEN b ELSE a
              /\ a \in {1, BroadcastDim(a, b)} /\ b \in {1, BroadcastDim(a, b)}
         /\ a = 1 \/ b = 1 => BroadcastDim(a, b) # -2
         /\ BroadcastDim(a, b) = -2 \/ BroadcastDim(a, b) \in Nat
  BY DEF BroadcastDim

\* A type without open axes, aligned.
LEMMA AlignedFacts ==
  ASSUME NEW x, Tensor(x), ~Dynamic(x), NEW r \in Nat, rank(x) <= r
  PROVE  /\ \A i \in 1 .. r : AlignedDim(x, i, r) \in Nat /\ AlignedDim(x, i, r) = PaddedDim(x.dims, i, r)
         /\ \A i \in 1 .. rank(x) : r - rank(x) + i \in 1 .. r /\ AlignedDim(x, r - rank(x) + i, r) = x.dims[i]
         /\ rank(x) = 0 => \A i \in 1 .. r : AlignedDim(x, i, r) = 1
<1> DEFINE rx == rank(x)
<1>1. rx \in Nat /\ rx <= r /\ rx = Len(x.dims) /\ \A i \in 1 .. rx : x.dims[i] \in Nat
  BY TensorType
<1>2. \A i : AlignedDim(x, i, r) = IF i <= r - rx THEN 1 ELSE x.dims[i - (r - rx)]
  BY DEF AlignedDim
<1>3. \A i : AlignedDim(x, i, r) = PaddedDim(x.dims, i, r)
  BY <1>1, <1>2 DEF PaddedDim
<1> HIDE DEF rx
<1>4. ASSUME NEW i \in 1 .. r PROVE AlignedDim(x, i, r) \in Nat
  <2>1. CASE i <= r - rx
    BY <1>2, <2>1
  <2>2. CASE ~(i <= r - rx)
    <3>1. i - (r - rx) \in 1 .. rx
      BY <1>1, <2>2
    <3> DEFINE k == i - (r - rx)
    <3>2. x.dims[k] \in Nat
      BY <1>1, <3>1
    <3>3. QED
      BY <1>2, <2>2, <3>2
  <2>3. QED
    BY <2>1, <2>2
<1>5. ASSUME NEW i \in 1 .. rx PROVE r - rx + i \in 1 .. r /\ AlignedDim(x, r - rx + i, r) = x.dims[i]
  <2> DEFINE k == r - rx + i
  <2>1. k \in 1 .. r /\ ~(k <= r - rx) /\ k - (r - rx) = i
    BY <1>1
  <2> HIDE DEF k
  <2>2. AlignedDim(x, k, r) = x.dims[i]
    BY <1>2, <2>1
  <2>3. QED
    BY <2>1, <2>2 DEF k
<1>6. rx = 0 => \A i \in 1 .. r : AlignedDim(x, i, r) = 1
  BY <1>2
<1>7. QED
  BY <1>3, <1>4, <1>5, <1>6 DEF rx

\* The common type of two operands is ONNX's, and both may be broadcast to it.
LEMMA ResultType ==
  ASSUME NEW x, Tensor(x), ~Dynamic(x), NEW y, Tensor(y), ~Dynamic(y), x.elem = y.elem,
         NEW t, t = broadcast_result_type(x, y), t.dims # <<>> \/ rank(x) = 0 \/ rank(y) = 0
  PROVE  /\ Tensor(t) /\ ~Dynamic(t) /\ t.elem = x.elem
         /\ t.dims = BroadcastDims(x.dims, y.dims)
         /\ Spreads(x, t) /\ Spreads(y, t)
<1> DEFINE r == Larger(rank(x), rank(y))
           a(i) == AlignedDim(x, i, r)
           b(i) == AlignedDim(y, i, r)
           dims == [i \in 1 .. r |-> BroadcastDim(a(i), b(i))]
<1>1. r \in Nat /\ rank(x) \in Nat /\ rank(y) \in Nat /\ rank(x) <= r /\ rank(y) <= r
  BY TensorType DEF Larger
<1>2. t = IF -2 \in ToSet(dims) THEN Unknown ELSE Type(dims, x.elem)
  BY Zenon DEF broadcast_result_type
<1>3. r = Larger(Len(x.dims), Len(y.dims))
  BY DEF rank
<1> HIDE DEF r
<1>4. \A i \in 1 .. r : /\ a(i) \in Nat /\ a(i) = PaddedDim(x.dims, i, r)
                        /\ b(i) \in Nat /\ b(i) = PaddedDim(y.dims, i, r)
  BY <1>1, AlignedFacts
<1>5. /\ \A i \in 1 .. rank(x) : r - rank(x) + i \in 1 .. r /\ a(r - rank(x) + i) = x.dims[i]
      /\ rank(x) = 0 => \A i \in 1 .. r : a(i) = 1
  BY <1>1, AlignedFacts
<1>6. /\ \A i \in 1 .. rank(y) : r - rank(y) + i \in 1 .. r /\ b(r - rank(y) + i) = y.dims[i]
      /\ rank(y) = 0 => \A i \in 1 .. r : b(i) = 1
  BY <1>1, AlignedFacts
<1> HIDE DEF a, b
<1>7. \A i \in 1 .. r : /\ dims[i] # -2 => /\ dims[i] = IF a(i) = 1 THEN b(i) ELSE a(i)
                                           /\ a(i) \in {1, dims[i]} /\ b(i) \in {1, dims[i]}
                        /\ a(i) = 1 \/ b(i) = 1 => dims[i] # -2
                        /\ dims[i] = -2 \/ dims[i] \in Nat
  BY <1>4, BroadcastDimFacts
<1>8. DOMAIN dims = 1 .. r
  OBVIOUS
<1>9. dims = [i \in 1 .. r |-> dims[i]]
  OBVIOUS
<1> HIDE DEF dims
<1>10. -2 \notin ToSet(dims)
  <2>1. CASE rank(x) = 0
    BY <1>5, <1>7, <1>8, <2>1 DEF ToSet
  <2>2. CASE rank(y) = 0
    BY <1>6, <1>7, <1>8, <2>2 DEF ToSet
  <2>3. CASE t.dims # <<>>
    BY <1>2, <2>3 DEF Unknown, Type
  <2>4. QED
    BY <2>1, <2>2, <2>3
<1>11. \A i \in 1 .. r : dims[i] # -2
  BY <1>8, <1>10 DEF ToSet
<1>12. dims \in Seq(Int) /\ Len(dims) = r
  BY <1>7, <1>11, <1>1, <1>9
<1>13. Tensor(t) /\ t.dims = dims /\ t.elem = x.elem
  BY <1>2, <1>10, <1>12, TypeTensor
<1>14. ~Dynamic(t)
  BY <1>7, <1>8, <1>11, <1>13 DEF Dynamic
<1>15. dims = BroadcastDims(x.dims, y.dims)
  <2> DEFINE u == x.dims
             v == y.dims
             c == BroadcastDims(u, v)
             Joined(i) == IF PaddedDim(u, i, r) = 1 THEN PaddedDim(v, i, r) ELSE PaddedDim(u, i, r)
  <2>1. u \in Seq(Int) /\ v \in Seq(Int)
    BY TensorType
  <2>2. \A i \in 1 .. r : dims[i] = Joined(i)
    BY <1>4, <1>7, <1>11
  <2>3. r = Larger(Len(u), Len(v))
    BY <1>3
  <2> HIDE DEF u, v
  <2>4. c = [i \in 1 .. r |-> Joined(i)] /\ c \in Seq(Int)
    <3>1. /\ BroadcastDims(u, v) =
               [i \in 1 .. Larger(Len(u), Len(v)) |->
                  IF PaddedDim(u, i, Larger(Len(u), Len(v))) = 1
                  THEN PaddedDim(v, i, Larger(Len(u), Len(v)))
                  ELSE PaddedDim(u, i, Larger(Len(u), Len(v)))]
          /\ BroadcastDims(u, v) \in Seq(Int)
      BY <2>1, BroadcastEntries, ZenonT(40)
    <3>2. QED
      BY <2>3, <3>1, Zenon
  <2> HIDE DEF c, Joined
  <2>5. \A i \in 1 .. r : c[i] = Joined(i)
    BY <2>4
  <2>6. Len(c) = r
    BY <1>1, <2>4
  <2>7. dims = c
    BY <1>12, <2>2, <2>4, <2>5, <2>6, SameEntries
  <2>8. QED
    BY <2>7 DEF c, u, v
<1>16. rank(t) = r
  BY <1>12, <1>13 DEF rank
<1>17. Spreads(x, t)
  BY <1>5, <1>7, <1>11, <1>1, <1>13, <1>16 DEF Spreads
<1>18. Spreads(y, t)
  BY <1>6, <1>7, <1>11, <1>1, <1>13, <1>16 DEF Spreads
<1>19. QED
  BY <1>13, <1>14, <1>15, <1>17, <1>18

\* Two operands that broadcast.
LEMMA CombineTyped ==
  ASSUME NEW n, n.op_type \in {"Add", "Mul", "Sub", "Div"}, Ready(n), NEW m \in Binary,
         NEW l, l = Operand(n, 1), valid(l), NEW r, r = Operand(n, 2), valid(r),
         NEW t, t = broadcast_result_type(l.type, r.type),
         t.dims # <<>> \/ rank(l.type) = 0 \/ rank(r.type) = 0
  PROVE  TypedOutcome(n, Combine(m, l, r, t))
<1>1. n.op_type \in Broadcasting /\ n.op_type # "Pow"
  BY DEF Broadcasting
<1>2. {1, 2} \subseteq DOMAIN n.inputs
  BY <1>1, ReadyInputs, InputKinds
<1>3. /\ Tensor(l.type) /\ ~Dynamic(l.type) /\ l.type.elem # "unknown"
      /\ Tensor(r.type) /\ ~Dynamic(r.type)
  BY <1>2, OperandFacts
<1>4. l.type.elem = r.type.elem
  BY <1>1, ReadyInputs, AllLapses, AcceptedKinds DEF Accepted
<1>5. /\ Tensor(t) /\ ~Dynamic(t) /\ t.elem = l.type.elem
      /\ t.dims = BroadcastDims(l.type.dims, r.type.dims)
      /\ Spreads(l.type, t) /\ Spreads(r.type, t)
  BY <1>3, <1>4, ResultType
<1>6. PICK p : Combine(m, l, r, t) = Success(p) /\ Makes(p, t)
  BY <1>3, <1>5, ReadyInputs, CombineMakes
<1>7. t.dims = OutputDims(n)
  BY <1>1, <1>5, ReadyInputs, OutputKinds
<1>8. \A k \in Reads(n) : valid(Operand(n, k))
  BY <1>1 DEF Reads, Broadcasting
<1>9. QED
  BY <1>5, <1>6, <1>7, <1>8, SuccessTyped

\* Addition, multiplication and subtraction.
LEMMA BinaryTyped ==
  ASSUME NEW n, n.op_type \in {"Add", "Mul", "Sub"}, Ready(n), NEW m \in Binary
  PROVE  Treated(n, BinaryConversion(n, m))
<1> DEFINE l == Operand(n, 1)
           r == Operand(n, 2)
           t == broadcast_result_type(l.type, r.type)
<1>1. \/ BinaryConversion(n, m) = Failure
      \/ /\ valid(l) /\ valid(r) /\ t.dims # <<>>
         /\ BinaryConversion(n, m) = Combine(m, l, r, t)
  BY Zenon DEF BinaryConversion
<1>2. n.op_type \in {"Add", "Mul", "Sub", "Div"} /\ t = broadcast_result_type(l.type, r.type)
  OBVIOUS
<1> HIDE DEF t
<1>3. valid(l) /\ valid(r) /\ t.dims # <<>> => TypedOutcome(n, Combine(m, l, r, t))
  BY <1>2, CombineTyped
<1>4. QED
  BY <1>1, <1>3, Zenon DEF Treated

\* Division, which passes scalars on as well.
LEMMA DivTyped ==
  ASSUME NEW n, n.op_type = "Div", Ready(n)
  PROVE  Treated(n, DivOpConversion(n))
<1> DEFINE l == Operand(n, 1)
           r == Operand(n, 2)
           t == broadcast_result_type(l.type, r.type)
           m == "stablehlo.divide"
<1>1. \/ DivOpConversion(n) = Failure
      \/ /\ valid(l) /\ valid(r) /\ (t.dims # <<>> \/ rank(l.type) = 0 \/ rank(r.type) = 0)
         /\ DivOpConversion(n) = Combine(m, l, r, t)
  BY Zenon DEF DivOpConversion
<1>2. n.op_type \in {"Add", "Mul", "Sub", "Div"} /\ m \in Binary /\ t = broadcast_result_type(l.type, r.type)
  BY DEF Binary
<1> HIDE DEF t, m
<1>3. valid(l) /\ valid(r) /\ (t.dims # <<>> \/ rank(l.type) = 0 \/ rank(r.type) = 0)
        => TypedOutcome(n, Combine(m, l, r, t))
  BY <1>2, CombineTyped
<1>4. QED
  BY <1>1, <1>3, Zenon DEF Treated

\* r reports an error and emits nothing.
Refused(r) == r.ok = FALSE /\ r.body = body

\* The second tier fails on operands that do not broadcast, but the value is not nothing.
LEMMA BinaryL2Typed ==
  ASSUME NEW n, n.op_type \in {"Add", "Mul", "Sub"}, Ready(n)
  PROVE  Refused(convert_binary_l2(n)) \/ TypedOutcome(n, convert_binary_l2(n))
<1> DEFINE x == Operand(n, 1)
           y == Operand(n, 2)
           t == broadcast_result_type(x.type, y.type)
           m == BinaryMnemonic[n.op_type]
<1>1. \/ convert_binary_l2(n) = Failure
      \/ valid(x) /\ valid(y) /\ convert_binary_l2(n) = emit_broadcast_binary(x, y, m)
  BY Zenon DEF convert_binary_l2
<1>2. \/ emit_broadcast_binary(x, y, m) = [Failure EXCEPT !.value = x]
      \/ t.dims # <<>> /\ emit_broadcast_binary(x, y, m) = Combine(m, x, y, t)
  BY Zenon DEF emit_broadcast_binary
<1>3. m \in Binary
  BY Mnemonics
<1>4. n.op_type \in {"Add", "Mul", "Sub", "Div"} /\ t = broadcast_result_type(x.type, y.type)
  OBVIOUS
<1> HIDE DEF t, m
<1>5. valid(x) /\ valid(y) /\ t.dims # <<>> => TypedOutcome(n, Combine(m, x, y, t))
  BY <1>3, <1>4, CombineTyped
<1>6. /\ Failure.ok = FALSE /\ Failure.body = body
      /\ [Failure EXCEPT !.value = x].ok = FALSE /\ [Failure EXCEPT !.value = x].body = body
  BY DEF Failure
<1>7. Refused(Failure) /\ Refused([Failure EXCEPT !.value = x])
  BY <1>6 DEF Refused
<1>8. QED
  BY <1>1, <1>2, <1>5, <1>7, Zenon

\* The same shape on both sides, as the first tier takes it.
LEMMA SameShapeTyped ==
  ASSUME NEW n, n.op_type \in {"Add", "Mul"}, Ready(n), NEW m \in Binary,
         valid(Operand(n, 1)), valid(Operand(n, 2)), Operand(n, 1).type = Operand(n, 2).type
  PROVE  TypedOutcome(n, convert_same_shape(n, m))
<1> DEFINE x == Operand(n, 1)
           y == Operand(n, 2)
           p == Emit(body, m, <<x, y>>, <<>>, x.type)
<1>1. convert_same_shape(n, m) = Success(p)
  BY Zenon DEF convert_same_shape
<1>2. n.op_type \in Broadcasting
  BY DEF Broadcasting
<1>3. {1, 2} \subseteq DOMAIN n.inputs
  BY <1>2, ReadyInputs, InputKinds
<1>4. Tensor(x.type) /\ x.type.elem # "unknown"
  BY <1>3, OperandFacts
<1>5. OutputDims(n) = BroadcastDims(x.type.dims, x.type.dims)
  BY <1>2, ReadyInputs, OutputKinds
<1>6. \A k \in Reads(n) : valid(Operand(n, k))
  BY DEF Reads
<1>7. x.type = y.type
  OBVIOUS
<1>8. Makes(p, x.type)
  <2> HIDE DEF x, y
  <2>1. Sound(m, <<x, y>>, <<>>, x.type)
    BY <1>4, <1>7, SoundBinary
  <2>2. QED
    BY <2>1, EmitMakes, ReadyInputs
<1>9. BroadcastDims(x.type.dims, x.type.dims) = x.type.dims
  <2> DEFINE a == x.type.dims
             r == Larger(Len(a), Len(a))
             d == BroadcastDims(a, a)
  <2>1. a \in Seq(Int)
    BY <1>4, TensorType
  <2> HIDE DEF a
  <2>2. r = Len(a) /\ Len(a) \in Nat
    BY <2>1 DEF Larger
  <2>3. /\ d = [i \in 1 .. r |-> IF PaddedDim(a, i, r) = 1 THEN PaddedDim(a, i, r) ELSE PaddedDim(a, i, r)]
        /\ d \in Seq(Int)
    BY <2>1, BroadcastEntries, Zenon
  <2> HIDE DEF r, d
  <2>4. \A i \in 1 .. r : d[i] = a[i]
    BY <2>2, <2>3 DEF PaddedDim
  <2>5. Len(d) = Len(a)
    BY <2>2, <2>3
  <2>6. d = a
    BY <2>1, <2>2, <2>3, <2>4, <2>5, SameEntries
  <2>7. QED
    BY <2>6 DEF d, a
<1> HIDE DEF p, x
<1>10. QED
  BY <1>1, <1>4, <1>5, <1>6, <1>8, <1>9, SuccessTyped

-----------------------------------------------------------------------------
(***************************************************************************)
(* Longer chains of operations.                                            *)
(***************************************************************************)
\* A scalar.
LEMMA ScalarFacts ==
  ASSUME NEW elem
  PROVE  /\ Tensor(Scalar(elem)) /\ ~Dynamic(Scalar(elem)) /\ Scalar(elem).elem = elem
         /\ rank(Scalar(elem)) = 0 /\ Scalar(elem).dims = <<>>
<1>1. <<>> \in Seq(Int)
  OBVIOUS
<1>2. Tensor(Scalar(elem)) /\ Scalar(elem).dims = <<>> /\ Scalar(elem).elem = elem
  BY <1>1, TypeTensor DEF Scalar
<1>3. QED
  BY <1>2 DEF Dynamic, rank

\* A constant, two operands of the result's type, and one.
LEMMA MakesSame ==
  ASSUME NEW b, TypedBody(b), NEW t, t.elem # "unknown"
  PROVE  /\ ~Dynamic(t) => Makes(Emit(b, "stablehlo.constant", <<>>, <<>>, t), t)
         /\ \A m \in Binary : \A x, y : x.type = t /\ y.type = t => Makes(Emit(b, m, <<x, y>>, <<>>, t), t)
         /\ \A m \in Unary : \A x : x.type = t => Makes(Emit(b, m, <<x>>, <<>>, t), t)
<1>1. ~Dynamic(t) => Makes(Emit(b, "stablehlo.constant", <<>>, <<>>, t), t)
  BY SoundConstant, EmitMakes
<1>2. ASSUME NEW m \in Binary, NEW x, NEW y, x.type = t, y.type = t
      PROVE  Makes(Emit(b, m, <<x, y>>, <<>>, t), t)
  BY <1>2, SoundBinary, EmitMakes
<1>3. ASSUME NEW m \in Unary, NEW x, x.type = t PROVE Makes(Emit(b, m, <<x>>, <<>>, t), t)
  <2>1. Sound(m, <<x>>, <<>>, t)
    BY <1>3, SoundUnary
  <2>2. QED
    BY <2>1, EmitMakes
<1>4. QED
  BY <1>1, <1>2, <1>3

\* A reduction.
LEMMA MakesReduce ==
  ASSUME NEW b, TypedBody(b), NEW t, t.elem # "unknown", NEW x, x.type = t,
         NEW y, y.type = Scalar(t.elem), NEW axes, Distinct(axes), ToSet(axes) \subseteq Axes(t),
         NEW s, s = Type(Without(t, ToSet(axes)), t.elem)
  PROVE  Makes(Emit(b, "stablehlo.reduce", <<x, y>>, <<axes>>, s), s)
<1> DEFINE l == <<axes>>
<1>1. l[1] = axes
  OBVIOUS
<1>2. s.elem # "unknown" /\ y.type.elem # "unknown"
  BY ScalarFacts DEF Type
<1>3. Makes(Emit(b, "stablehlo.reduce", <<x, y>>, l, s), s)
  <2> HIDE DEF l
  <2>1. Sound("stablehlo.reduce", <<x, y>>, l, s)
    BY <1>1, <1>2, SoundTwo
  <2>2. QED
    BY <2>1, EmitMakes
<1>4. QED
  BY <1>3

\* What a reduction has left is spread over the axes it took.
LEMMA MakesKept ==
  ASSUME NEW b, TypedBody(b), NEW t, Tensor(t), ~Dynamic(t), t.elem # "unknown", NEW T,
         NEW v, v.type = Type(Without(t, T), t.elem)
  PROVE  Makes(Emit(b, "stablehlo.broadcast_in_dim", <<v>>, <<OtherAxes(rank(t), T)>>, t), t)
<1> DEFINE r == rank(t)
           o == OtherAxes(r, T)
           l == <<o>>
           w == Without(t, T)
<1>1. r \in Nat /\ t.dims \in Seq(Int)
  BY TensorType
<1>2. ListsAxes(o, r, T)
  BY <1>1, OtherAxesFacts
<1>3. /\ w \in Seq(Int) /\ Len(w) = Len(o)
      /\ \A i \in DOMAIN o : w[i] = Dim(t, o[i]) /\ o[i] \in Axes(t)
  BY <1>1, WithoutFacts
<1>4. l[1] = o
  OBVIOUS
<1> HIDE DEF o, w, l, r
<1>5. v.type.dims = w /\ v.type.elem = t.elem
  BY DEF Type, w
<1>6. Distinct(o) /\ ToSet(o) \subseteq Axes(t)
  BY <1>2, <1>3 DEF ListsAxes, Distinct, IsInjective, ToSet
<1>7. Len(o) = rank(v.type)
  BY <1>3, <1>5 DEF rank
<1>8. \A i \in DOMAIN o : v.type.dims[i] \in {1, Dim(t, o[i])}
  BY <1>3, <1>5
<1>9. BroadcastTypes(v.type, o, t)
  BY <1>5, <1>6, <1>7, <1>8 DEF BroadcastTypes
<1>10. Sound("stablehlo.broadcast_in_dim", <<v>>, l, t)
  BY <1>4, <1>5, <1>9, SoundOne
<1>11. Makes(Emit(b, "stablehlo.broadcast_in_dim", <<v>>, l, t), t)
  BY <1>10, EmitMakes
<1>12. QED
  BY <1>11 DEF l, o, r

\* A scalar is spread over all axes.
LEMMA MakesFilled ==
  ASSUME NEW b, TypedBody(b), NEW t, ~Dynamic(t), t.elem # "unknown",
         NEW v, v.type = Scalar(t.elem)
  PROVE  Makes(Emit(b, "stablehlo.broadcast_in_dim", <<v>>, <<<<>>>>, t), t)
<1> DEFINE none == <<>>
           l == <<none>>
<1>1. Len(none) = 0 /\ DOMAIN none = {} /\ l[1] = none
  OBVIOUS
<1> HIDE DEF none, l
<1>2. Distinct(none) /\ ToSet(none) = {}
  BY <1>1 DEF Distinct, IsInjective, ToSet
<1>3. rank(v.type) = 0 /\ v.type.elem = t.elem
  BY ScalarFacts
<1>4. BroadcastTypes(v.type, none, t)
  BY <1>1, <1>2, <1>3 DEF BroadcastTypes
<1>5. Sound("stablehlo.broadcast_in_dim", <<v>>, l, t)
  BY <1>1, <1>3, <1>4, SoundOne
<1>6. Makes(Emit(b, "stablehlo.broadcast_in_dim", <<v>>, l, t), t)
  BY <1>5, EmitMakes
<1>7. QED
  BY <1>6 DEF l, none

\* Softmax.
LEMMA SoftmaxTyped ==
  ASSUME NEW n, n.op_type = "Softmax", Ready(n)
  PROVE  Treated(n, SoftmaxOpConversion(n))
<1> DEFINE x == Operand(n, 1)
           t == x.type
           axis == AxisOf(get_int_attr(n, "axis", -1), rank(t))
           reduced == Type(Without(t, {axis}), t.elem)
           kept == <<OtherAxes(rank(t), {axis})>>
           scalar == Scalar(t.elem)
           low == Emit(body, "stablehlo.constant", <<>>, <<>>, scalar)
           zero == Emit(low.body, "stablehlo.constant", <<>>, <<>>, scalar)
           top == Emit(zero.body, "stablehlo.reduce", <<x, low.value>>, <<<<axis>>>>, reduced)
           max == Emit(top.body, "stablehlo.broadcast_in_dim", <<top.value>>, kept, t)
           shifted == Emit(max.body, "stablehlo.subtract", <<x, max.value>>, <<>>, t)
           exp == Emit(shifted.body, "stablehlo.exponential", <<shifted.value>>, <<>>, t)
           all == Emit(exp.body, "stablehlo.reduce", <<exp.value, zero.value>>, <<<<axis>>>>, reduced)
           sum == Emit(all.body, "stablehlo.broadcast_in_dim", <<all.value>>, kept, t)
           e == Emit(sum.body, "stablehlo.divide", <<exp.value, sum.value>>, <<>>, t)
<1>1. \/ SoftmaxOpConversion(n) = Failure
      \/ valid(x) /\ t.elem = "f32" /\ axis \in Axes(t) /\ SoftmaxOpConversion(n) = Success(e)
  BY ZenonT(60) DEF SoftmaxOpConversion
<1> HIDE DEF x, axis, e
<1>2. SUFFICES ASSUME valid(x), axis \in Axes(t) PROVE TypedOutcome(n, Success(e))
  BY <1>1, Zenon DEF Treated
<1>3. n.op_type \in Elementwise
  BY DEF Elementwise
<1>4. 1 \in DOMAIN n.inputs
  BY <1>3, ReadyInputs, InputKinds
<1>5. Tensor(t) /\ ~Dynamic(t) /\ t.elem # "unknown"
  BY <1>2, <1>4, OperandFacts DEF x
<1>6. t.dims = OutputDims(n)
  BY <1>3, ReadyInputs, OutputKinds DEF x
<1>7. \A k \in Reads(n) : valid(Operand(n, k))
  BY <1>2 DEF Reads, x
<1>8. x.type = t
  OBVIOUS
<1> DEFINE axes == <<axis>>
<1>9. Distinct(axes) /\ ToSet(axes) = {axis} /\ ToSet(axes) \subseteq Axes(t)
  <2>1. DOMAIN axes = {1} /\ axes[1] = axis
    OBVIOUS
  <2> HIDE DEF axes, t
  <2>2. ToSet(axes) = {axis}
    BY <2>1 DEF ToSet
  <2>3. Distinct(axes)
    BY <2>1 DEF Distinct, IsInjective
  <2>4. QED
    BY <1>2, <2>2, <2>3
<1> HIDE DEF t
<1>10. ~Dynamic(scalar) /\ scalar.elem = t.elem
  BY ScalarFacts
<1>11. Makes(low, scalar)
  BY <1>5, <1>10, ReadyInputs, MakesSame
<1> HIDE DEF low
<1>12. Makes(zero, scalar)
  BY <1>5, <1>10, <1>11, MakesSame DEF Makes
<1> HIDE DEF zero
<1>13. reduced = Type(Without(t, ToSet(axes)), t.elem)
  BY <1>9
<1>14. Makes(top, reduced)
  <2> HIDE DEF reduced, axes
  <2>1. Makes(Emit(zero.body, "stablehlo.reduce", <<x, low.value>>, <<axes>>, reduced), reduced)
    <3>1. TypedBody(zero.body) /\ low.value.type = Scalar(t.elem)
      BY <1>11, <1>12 DEF Makes
    <3>2. QED
      BY <1>5, <1>8, <1>9, <1>13, <3>1, MakesReduce, Zenon
  <2>2. QED
    BY <2>1 DEF axes
<1> HIDE DEF top
<1>15. Makes(max, t)
  BY <1>5, <1>14, MakesKept DEF Makes
<1> HIDE DEF max
<1>16. Makes(shifted, t)
  BY <1>5, <1>8, <1>15, MakesSame DEF Binary, Makes
<1> HIDE DEF shifted
<1>17. Makes(exp, t)
  BY <1>5, <1>16, MakesSame DEF Unary, Makes
<1> HIDE DEF exp
<1>18. Makes(all, reduced)
  <2> HIDE DEF reduced, axes
  <2>1. Makes(Emit(exp.body, "stablehlo.reduce", <<exp.value, zero.value>>, <<axes>>, reduced), reduced)
    <3>1. TypedBody(exp.body) /\ exp.value.type = t /\ zero.value.type = Scalar(t.elem)
      BY <1>12, <1>17 DEF Makes
    <3>2. QED
      BY <1>5, <1>9, <1>13, <3>1, MakesReduce, Zenon
  <2>2. QED
    BY <2>1 DEF axes
<1> HIDE DEF all
<1>19. Makes(sum, t)
  BY <1>5, <1>18, MakesKept DEF Makes
<1> HIDE DEF sum
<1>20. Makes(e, t)
  BY <1>5, <1>17, <1>19, MakesSame DEF Binary, Makes, e
<1>21. QED
  BY <1>5, <1>6, <1>7, <1>20, SuccessTyped

\* A value as f32.
LEMMA ToF32Makes ==
  ASSUME NEW b, TypedBody(b), NEW v, Tensor(v.type), v.type.elem # "unknown"
  PROVE  Makes(to_f32(b, v), Type(v.type.dims, "f32"))
<1> DEFINE t == Type(v.type.dims, "f32")
<1>1. CASE v.type.elem = "f32"
  <2> DEFINE q == [body |-> b, value |-> v]
  <2>1. to_f32(b, v) = q
    BY <1>1 DEF to_f32
  <2>2. q.body = b /\ q.value = v
    OBVIOUS
  <2> HIDE DEF q
  <2>3. v.type = t
    BY <1>1, TensorType
  <2>4. QED
    BY <2>1, <2>2, <2>3 DEF Makes
<1>2. CASE v.type.elem # "f32"
  <2>1. to_f32(b, v) = Emit(b, "stablehlo.convert", <<v>>, <<>>, t)
    BY <1>2, Zenon DEF to_f32
  <2>2. v.type.dims = t.dims /\ t.elem # "unknown"
    BY DEF Type
  <2> HIDE DEF t
  <2>3. Sound("stablehlo.convert", <<v>>, <<>>, t)
    BY <2>2, SoundOne
  <2>4. Makes(Emit(b, "stablehlo.convert", <<v>>, <<>>, t), t)
    BY <2>3, EmitMakes
  <2>5. QED
    BY <2>1, <2>4 DEF t
<1>3. QED
  BY <1>1, <1>2

\* A scalar as f32.
LEMMA ToF32ScalarMakes ==
  ASSUME NEW b, TypedBody(b), NEW v, Tensor(v.type), v.type.elem # "unknown", rank(v.type) = 0
  PROVE  Makes(to_f32_scalar(b, v), Scalar("f32"))
<1> DEFINE e == Emit(to_f32(b, v).body, "stablehlo.broadcast_in_dim", <<to_f32(b, v).value>>, <<<<>>>>,
                     Scalar("f32"))
<1>1. to_f32_scalar(b, v) = to_f32(b, v)
  <2>1. to_f32_scalar(b, v) = IF rank(v.type) = 0 THEN to_f32(b, v) ELSE e
    BY Zenon DEF to_f32_scalar
  <2> HIDE DEF e
  <2>2. QED
    BY <2>1
<1>2. v.type.dims = <<>>
  BY TensorType
<1>3. Makes(to_f32(b, v), Type(v.type.dims, "f32"))
  BY ToF32Makes
<1>4. QED
  BY <1>1, <1>2, <1>3 DEF Scalar

\* The difference to the zero point times the scale, both scalars.
LEMMA DequantizeTyped ==
  ASSUME NEW n, n.op_type = "DequantizeLinear", Ready(n)
  PROVE  Treated(n, DequantizeLinearOpConversion(n))
<1> DEFINE q == to_f32(body, Operand(n, 1))
           t == q.value.type
           zp == to_f32_scalar(q.body, Operand(n, 3))
           scale == to_f32_scalar(zp.body, Operand(n, 2))
           zp_b == Emit(scale.body, "stablehlo.broadcast_in_dim", <<zp.value>>, <<<<>>>>, t)
           scale_b == Emit(zp_b.body, "stablehlo.broadcast_in_dim", <<scale.value>>, <<<<>>>>, t)
           sub == Emit(scale_b.body, "stablehlo.subtract", <<q.value, zp_b.value>>, <<>>, t)
           e == Emit(sub.body, "stablehlo.multiply", <<sub.value, scale_b.value>>, <<>>, t)
           u == Type(Operand(n, 1).type.dims, "f32")
<1>1. \/ DequantizeLinearOpConversion(n) = Failure
      \/ /\ \A i \in 1 .. 3 : valid(Operand(n, i))
         /\ DequantizeLinearOpConversion(n) = Success(e)
  BY Zenon DEF DequantizeLinearOpConversion
<1> HIDE DEF q, t, zp, scale, zp_b, scale_b, sub, e
<1>2. SUFFICES ASSUME valid(Operand(n, 1)), valid(Operand(n, 2)), valid(Operand(n, 3))
               PROVE  TypedOutcome(n, Success(e))
  <2>1. (\A i \in 1 .. 3 : valid(Operand(n, i)))
          => valid(Operand(n, 1)) /\ valid(Operand(n, 2)) /\ valid(Operand(n, 3))
    <3>1. 1 \in 1 .. 3 /\ 2 \in 1 .. 3 /\ 3 \in 1 .. 3
      OBVIOUS
    <3>2. QED
      BY <3>1, Zenon
  <2>2. QED
    BY <1>1, <1>2, <2>1, Zenon DEF Treated
<1>3. n.op_type \in Elementwise
  BY DEF Elementwise
<1>4. DOMAIN n.inputs = 1 .. Len(n.inputs) /\ Len(n.inputs) \in Nat /\ {1, 2} \subseteq DOMAIN n.inputs
  BY ReadyInputs, InputKinds
<1>5. HasInput(n, 3) /\ ~(rank(Operand(n, 2).type) > 0)
  BY ReadyInputs, OtherLapses
<1>6. 3 \in DOMAIN n.inputs
  <2> DEFINE k == Len(n.inputs)
  <2>1. k >= 3 /\ k \in Nat
    BY <1>4, <1>5 DEF HasInput
  <2> HIDE DEF k
  <2>2. 3 \in 1 .. k
    BY <2>1
  <2>3. QED
    BY <1>4, <2>2 DEF k
<1>7. \A i \in {1, 2, 3} : /\ Tensor(Operand(n, i).type) /\ ~Dynamic(Operand(n, i).type)
                           /\ Operand(n, i).type.elem # "unknown"
  BY <1>2, <1>4, <1>6, OperandFacts
<1>8. rank(Operand(n, 2).type) = 0 /\ rank(Operand(n, 3).type) = 0
  BY ReadyInputs, AllLapses, AcceptedKinds, <1>7, TensorType, <1>5 DEF Accepted, rank
<1>9. Makes(q, u)
  BY <1>7, ReadyInputs, ToF32Makes DEF q
<1>10. /\ t = u /\ Tensor(u) /\ u.dims = Operand(n, 1).type.dims /\ u.elem = "f32" /\ u.elem # "unknown"
       /\ ~Dynamic(u)
  <2>1. Operand(n, 1).type.dims \in Seq(Int) /\ ~Dynamic(Operand(n, 1).type)
    BY <1>7, TensorType
  <2>2. Tensor(u) /\ u.dims = Operand(n, 1).type.dims /\ u.elem = "f32"
    BY <2>1, TypeTensor
  <2> HIDE DEF u
  <2>3. ~Dynamic(u)
    BY <2>1, <2>2 DEF Dynamic
  <2>4. QED
    BY <1>9, <2>2, <2>3 DEF t, Makes
<1> HIDE DEF u
<1>11. Makes(zp, Scalar("f32"))
  BY <1>7, <1>8, <1>9, ToF32ScalarMakes DEF zp, Makes
<1>12. Makes(scale, Scalar("f32"))
  BY <1>7, <1>8, <1>11, ToF32ScalarMakes DEF scale, Makes
<1>13. Makes(zp_b, t)
  BY <1>10, <1>11, <1>12, MakesFilled DEF zp_b, Makes
<1>14. Makes(scale_b, t)
  BY <1>10, <1>12, <1>13, MakesFilled DEF scale_b, Makes
<1>15. Makes(sub, t)
  <2>1. "stablehlo.subtract" \in Binary
    BY DEF Binary
  <2>2. QED
    BY <1>9, <1>10, <1>13, <1>14, <2>1, MakesSame DEF Makes, sub
<1>16. Makes(e, t)
  <2>1. "stablehlo.multiply" \in Binary
    BY DEF Binary
  <2>2. QED
    BY <1>10, <1>14, <1>15, <2>1, MakesSame DEF Makes, e
<1>17. t.dims = OutputDims(n)
  BY <1>3, <1>10, ReadyInputs, OutputKinds
<1>18. \A k \in Reads(n) : valid(Operand(n, k))
  BY <1>2 DEF Reads
<1>19. QED
  BY <1>10, <1>16, <1>17, <1>18, SuccessTyped

-----------------------------------------------------------------------------
(***************************************************************************)
(* Reshapes.                                                               *)
(***************************************************************************)
\* The shape asked for, with 0 and -1 worked out as ONNX has it.
AskedDims(asked, d) ==
  [i \in DOMAIN asked |->
     CASE asked[i] = 0 -> d[i]
       [] asked[i] = -1 -> OpenSize(asked, d)
       [] OTHER -> asked[i]]

\* The factors that OpenSize divides by.
Factors(asked, d) ==
  [i \in DOMAIN asked |->
     CASE asked[i] = -1 -> 1 [] asked[i] = 0 -> d[i] [] OTHER -> asked[i]]

\* A shape that a tensor with the dimensions d may be asked for.
Askable(asked, d) ==
  /\ asked \in Seq(Int) /\ d \in Seq(Int) /\ \A k \in DOMAIN d : d[k] >= 0
  /\ \A i \in DOMAIN asked : asked[i] >= -1 /\ (asked[i] = 0 => i <= Len(d))
  /\ \A i, j \in {i \in DOMAIN asked : asked[i] = -1} : i = j
  /\ {i \in DOMAIN asked : asked[i] = -1} # {} => \A k \in DOMAIN d : d[k] > 0

\* What is open can be worked out.
LEMMA OpenSizeFacts ==
  ASSUME NEW asked, NEW d, Askable(asked, d), NEW i \in DOMAIN asked, asked[i] = -1
  PROVE  /\ Product(d) > 0 /\ Product(d) \in Int
         /\ Factors(asked, d) \in Seq(Int) /\ Len(Factors(asked, d)) = Len(asked)
         /\ \A k \in DOMAIN asked : Factors(asked, d)[k] > 0
         /\ Product(Factors(asked, d)) > 0 /\ Product(Factors(asked, d)) \in Int
         /\ OpenSize(asked, d) = Product(d) \div Product(Factors(asked, d))
         /\ OpenSize(asked, d) \in Nat
<1> DEFINE f == Factors(asked, d)
<1>1. /\ asked \in Seq(Int) /\ d \in Seq(Int) /\ \A k \in DOMAIN d : d[k] > 0
      /\ \A k \in DOMAIN asked : asked[k] >= -1 /\ (asked[k] = 0 => k <= Len(d))
  BY DEF Askable
<1>2. Product(d) > 0 /\ Product(d) \in Int
  BY <1>1, ProductFacts
<1>3. ASSUME NEW k \in DOMAIN asked
      PROVE  (CASE asked[k] = -1 -> 1 [] asked[k] = 0 -> d[k] [] OTHER -> asked[k]) \in {z \in Int : z > 0}
  BY <1>1
<1>4. f = [k \in 1 .. Len(asked) |-> CASE asked[k] = -1 -> 1 [] asked[k] = 0 -> d[k] [] OTHER -> asked[k]]
  BY <1>1 DEF Factors
<1>5. DOMAIN f = DOMAIN asked /\ DOMAIN asked = 1 .. Len(asked) /\ Len(asked) \in Nat
  BY <1>1, <1>4
<1>6. \A k \in DOMAIN asked : f[k] \in Int /\ f[k] > 0
  BY <1>3, <1>4, <1>5
<1>7. f = [k \in 1 .. Len(asked) |-> f[k]]
  BY <1>4
<1>8. OpenSize(asked, d) = Product(d) \div Product(f)
  BY DEF OpenSize, Factors
<1> HIDE DEF f
<1>9. f \in Seq(Int) /\ Len(f) = Len(asked)
  BY <1>5, <1>6, <1>7
<1>10. Product(f) > 0 /\ Product(f) \in Int
  BY <1>5, <1>6, <1>9, ProductFacts
<1>11. OpenSize(asked, d) \in Nat
  <2> DEFINE a == Product(d)
             c == Product(f)
  <2>1. a \in Int /\ a > 0 /\ c \in Int /\ c > 0
    BY <1>2, <1>10
  <2> HIDE DEF a, c
  <2>2. a \div c \in Nat
    BY <2>1
  <2>3. QED
    BY <1>8, <2>2 DEF a, c
<1>12. QED
  BY <1>2, <1>5, <1>6, <1>8, <1>9, <1>10, <1>11 DEF f

\* Only sizes come out.
LEMMA AskedFacts ==
  ASSUME NEW asked, NEW d, Askable(asked, d)
  PROVE  /\ AskedDims(asked, d) \in Seq(Int) /\ Len(AskedDims(asked, d)) = Len(asked)
         /\ \A i \in DOMAIN asked : AskedDims(asked, d)[i] \in Nat
<1> DEFINE a == AskedDims(asked, d)
<1>1. /\ asked \in Seq(Int) /\ d \in Seq(Int) /\ \A k \in DOMAIN d : d[k] >= 0
      /\ \A i \in DOMAIN asked : asked[i] >= -1 /\ (asked[i] = 0 => i <= Len(d))
  BY DEF Askable
<1>2. /\ DOMAIN a = DOMAIN asked /\ DOMAIN asked = 1 .. Len(asked) /\ Len(asked) \in Nat
      /\ a = [i \in 1 .. Len(asked) |-> a[i]]
  BY <1>1 DEF AskedDims
<1>3. ASSUME NEW i \in DOMAIN asked PROVE a[i] \in Nat
  <2>1. a[i] = CASE asked[i] = 0 -> d[i] [] asked[i] = -1 -> OpenSize(asked, d) [] OTHER -> asked[i]
    BY DEF AskedDims
  <2>2. asked[i] = 0 => d[i] \in Nat
    BY <1>1
  <2>3. asked[i] = -1 => OpenSize(asked, d) \in Nat
    BY OpenSizeFacts
  <2>4. asked[i] \in Int /\ asked[i] >= -1
    BY <1>1
  <2> HIDE DEF a
  <2>5. QED
    BY <2>1, <2>2, <2>3, <2>4
<1> HIDE DEF a
<1>4. a \in Seq(Int) /\ Len(a) = Len(asked)
  BY <1>2, <1>3
<1>5. QED
  BY <1>3, <1>4 DEF a

\* The size of a type without open axes.
LEMMA SizeFacts ==
  ASSUME NEW x, ~Dynamic(x)
  PROVE  num_elements(x) = Product(x.dims)
  BY DEF num_elements

\* The third tier's shapes are ONNX's.
LEMMA ReshapedIsAsked ==
  ASSUME NEW x, Tensor(x), ~Dynamic(x), NEW asked, Askable(asked, x.dims)
  PROVE  ReshapedDims(asked, x) = AskedDims(asked, x.dims)
<1> DEFINE d == x.dims
           dims == [i \in DOMAIN asked |-> IF asked[i] = 0 /\ i <= rank(x) THEN x.dims[i] ELSE asked[i]]
           ones == [i \in DOMAIN dims |-> IF dims[i] > 0 THEN dims[i] ELSE 1]
           open == {i \in DOMAIN asked : asked[i] = -1}
           r == ReshapedDims(asked, x)
<1>1. r = [i \in DOMAIN dims |->
             IF open # {} /\ i = Max(open) /\ num_elements(x) > 0
             THEN Quotient(num_elements(x), Product(ones)) ELSE dims[i]]
  BY Zenon DEF ReshapedDims
<1>2. /\ asked \in Seq(Int) /\ \A i \in DOMAIN asked : asked[i] >= -1 /\ (asked[i] = 0 => i <= Len(d))
      /\ \A i, j \in open : i = j
  BY DEF Askable
<1>3. num_elements(x) = Product(d)
  BY SizeFacts
<1>4. \A i \in DOMAIN asked : dims[i] = IF asked[i] = 0 THEN d[i] ELSE asked[i]
  BY <1>2 DEF rank
<1>5. DOMAIN dims = DOMAIN asked
  OBVIOUS
<1>6. ASSUME NEW i \in open PROVE Max(open) = i
  BY <1>2, <1>6 DEF Max
<1>7. ASSUME NEW i \in open PROVE ones = Factors(asked, d)
  <2>1. i \in DOMAIN asked /\ asked[i] = -1
    BY <1>7
  <2>2. /\ Factors(asked, d) \in Seq(Int) /\ Len(Factors(asked, d)) = Len(asked)
        /\ \A k \in DOMAIN asked : Factors(asked, d)[k] > 0
    BY <2>1, OpenSizeFacts
  <2>3. ASSUME NEW k \in DOMAIN asked PROVE (IF dims[k] > 0 THEN dims[k] ELSE 1) = Factors(asked, d)[k]
    <3>1. Factors(asked, d)[k] = CASE asked[k] = -1 -> 1 [] asked[k] = 0 -> d[k] [] OTHER -> asked[k]
      BY DEF Factors
    <3>2. Factors(asked, d)[k] > 0 /\ asked[k] \in Int
      BY <1>2, <2>2
    <3>3. dims[k] = IF asked[k] = 0 THEN d[k] ELSE asked[k]
      BY <1>4
    <3> HIDE DEF dims, d
    <3>4. QED
      BY <3>1, <3>2, <3>3
  <2>4. DOMAIN Factors(asked, d) = DOMAIN asked
    BY DEF Factors
  <2> HIDE DEF dims, d
  <2>5. ones = [k \in DOMAIN asked |-> Factors(asked, d)[k]]
    BY <1>5, <2>3
  <2>6. QED
    BY <2>2, <2>4, <2>5
<1> HIDE DEF dims, ones, open
<1>8. ASSUME NEW i \in DOMAIN asked PROVE r[i] = AskedDims(asked, d)[i]
  <2>1. r[i] = IF open # {} /\ i = Max(open) /\ num_elements(x) > 0
               THEN Quotient(num_elements(x), Product(ones)) ELSE dims[i]
    <3> HIDE DEF r
    <3>1. QED
      BY <1>1, <1>5
  <2>2. AskedDims(asked, d)[i] =
          CASE asked[i] = 0 -> d[i] [] asked[i] = -1 -> OpenSize(asked, d) [] OTHER -> asked[i]
    BY DEF AskedDims
  <2>3. dims[i] = IF asked[i] = 0 THEN d[i] ELSE asked[i]
    BY <1>4
  <2>4. CASE asked[i] = -1
    <3>1. i \in open /\ Max(open) = i
      BY <1>6, <2>4 DEF open
    <3>2. ones = Factors(asked, d)
      BY <1>7, <3>1
    <3>3. /\ Product(d) > 0 /\ Product(d) \in Int
          /\ OpenSize(asked, d) = Product(d) \div Product(Factors(asked, d))
      BY <2>4, OpenSizeFacts
    <3>4. r[i] = Quotient(Product(d), Product(Factors(asked, d)))
      <4> HIDE DEF r, d
      <4>1. QED
        BY <1>3, <2>1, <3>1, <3>2, <3>3
    <3>5. r[i] = OpenSize(asked, d)
      <4> HIDE DEF r, d
      <4>1. QED
        BY <3>3, <3>4 DEF Quotient
    <3>6. QED
      BY <2>2, <2>4, <3>5
  <2>5. CASE asked[i] # -1
    <3>1. ~(open # {} /\ i = Max(open))
      BY <2>5, <1>6 DEF open
    <3> HIDE DEF r, d
    <3>2. QED
      BY <2>1, <2>2, <2>3, <2>5, <3>1
  <2>6. QED
    BY <2>4, <2>5
<1>9. r = [i \in DOMAIN asked |-> r[i]] /\ AskedDims(asked, d) = [i \in DOMAIN asked |-> AskedDims(asked, d)[i]]
  <2>1. AskedDims(asked, d) = [i \in DOMAIN asked |-> AskedDims(asked, d)[i]]
    BY DEF AskedDims
  <2> HIDE DEF r, d
  <2>2. QED
    BY <1>1, <1>5, <2>1
<1>10. QED
  <2> HIDE DEF r, d
  <2>1. r = AskedDims(asked, d)
    BY <1>8, <1>9
  <2>2. QED
    BY <2>1 DEF r, d

\* The first tier's shapes are, as long as no size is to be copied.
LEMMA InferredIsAsked ==
  ASSUME NEW x, Tensor(x), ~Dynamic(x), NEW asked, Askable(asked, x.dims), 0 \notin ToSet(asked)
  PROVE  Inferred(asked, x) = AskedDims(asked, x.dims)
<1> DEFINE d == x.dims
           ones == [i \in DOMAIN asked |-> IF asked[i] = -1 THEN 1 ELSE asked[i]]
           open == {i \in DOMAIN asked : asked[i] = -1}
           r == Inferred(asked, x)
           f == [asked EXCEPT ![Max(open)] = num_elements(x) \div Product(ones)]
<1>1. r = IF open = {} \/ Product(ones) <= 0 \/ num_elements(x) <= 0 THEN asked ELSE f
  BY Zenon DEF Inferred
<1>2. asked \in Seq(Int) /\ \A i, j \in open : i = j
  BY DEF Askable
<1>3. num_elements(x) = Product(d)
  BY SizeFacts
<1>4. \A i \in DOMAIN asked : asked[i] # 0
  BY DEF ToSet
<1>5. ASSUME NEW i \in DOMAIN asked
      PROVE  AskedDims(asked, d)[i] = IF asked[i] = -1 THEN OpenSize(asked, d) ELSE asked[i]
  BY <1>4 DEF AskedDims
<1>6. DOMAIN AskedDims(asked, d) = DOMAIN asked
  BY DEF AskedDims
<1>7. AskedDims(asked, d) \in Seq(Int) /\ Len(AskedDims(asked, d)) = Len(asked)
  BY AskedFacts
<1>8. CASE open = {}
  <2>1. r = asked
    BY <1>1, <1>8, Zenon
  <2>2. \A i \in DOMAIN asked : asked[i] # -1
    BY <1>8
  <2> HIDE DEF r, d
  <2>3. \A i \in 1 .. Len(asked) : AskedDims(asked, d)[i] = asked[i]
    BY <1>2, <1>5, <2>2
  <2>4. AskedDims(asked, d) = asked
    BY <1>2, <1>7, <2>3, SameEntries
  <2>5. QED
    BY <2>1, <2>4 DEF r, d
<1>9. CASE open # {}
  <2>1. PICK i \in open : TRUE
    BY <1>9
  <2>2. i \in DOMAIN asked /\ asked[i] = -1 /\ open = {i}
    BY <1>2, <2>1
  <2>3. Max(open) = i
    BY <2>2 DEF Max
  <2>4. /\ Product(d) > 0 /\ Product(d) \in Int
        /\ Product(Factors(asked, d)) > 0 /\ Product(Factors(asked, d)) \in Int
        /\ OpenSize(asked, d) = Product(d) \div Product(Factors(asked, d))
        /\ OpenSize(asked, d) \in Nat
    BY <2>2, OpenSizeFacts
  <2>5. ones = Factors(asked, d)
    BY <1>4 DEF Factors
  <2> HIDE DEF ones, open, d
  <2>6. r = f
    <3>1. ~(Product(ones) <= 0) /\ ~(num_elements(x) <= 0)
      BY <1>3, <2>4, <2>5
    <3> HIDE DEF r, f
    <3>2. QED
      BY <1>1, <1>9, <3>1
  <2>7. f = [asked EXCEPT ![i] = OpenSize(asked, d)]
    BY <1>3, <2>3, <2>4, <2>5
  <2> HIDE DEF f, r
  <2>8. f \in Seq(Int) /\ Len(f) = Len(asked)
    BY <1>2, <2>2, <2>4, <2>7
  <2>9. \A k \in 1 .. Len(asked) : AskedDims(asked, d)[k] = f[k]
    BY <2>2, <1>2, <2>7, <1>5 DEF open
  <2>10. AskedDims(asked, d) = f
    BY <1>7, <2>8, <2>9, SameEntries
  <2>11. QED
    BY <2>6, <2>10 DEF r, d
<1>10. QED
  BY <1>8, <1>9

\* The shape asked for makes a static type.
LEMMA AskedStatic ==
  ASSUME NEW asked, NEW d, Askable(asked, d), NEW t, t.dims = AskedDims(asked, d)
  PROVE  ~Dynamic(t) /\ (asked = <<>> => t.dims = <<>>)
<1> DEFINE a == AskedDims(asked, d)
<1>1. a \in Seq(Int) /\ Len(a) = Len(asked) /\ \A i \in DOMAIN asked : a[i] \in Nat
  BY AskedFacts
<1>2. asked \in Seq(Int) /\ t.dims = a
  BY DEF Askable
<1> HIDE DEF a
<1>3. DOMAIN a = DOMAIN asked
  BY <1>1, <1>2
<1>4. \A i \in DOMAIN a : ~(a[i] < 0)
  BY <1>1, <1>3
<1>5. asked = <<>> => a = <<>>
  BY <1>1
<1>6. QED
  BY <1>2, <1>4, <1>5 DEF Dynamic

\* A type has the parts it was made of.
LEMMA TypeFields ==
  ASSUME NEW dims, NEW elem
  PROVE  Type(dims, elem).dims = dims /\ Type(dims, elem).elem = elem
  BY DEF Type

\* What ONNX says of a reshape.
LEMMA ReshapeFacts ==
  ASSUME NEW n, n.op_type = "Reshape", Ready(n), valid(Operand(n, 1)),
         NEW x, x = Operand(n, 1).type, NEW asked, asked = Numbers(n, 2)
  PROVE  /\ Tensor(x) /\ ~Dynamic(x) /\ x.elem # "unknown"
         /\ Askable(asked, x.dims)
         /\ OutputDims(n) = IF asked = <<>> THEN Declared(n).dims ELSE AskedDims(asked, x.dims)
         /\ (asked = <<>> /\ Dynamic(Declared(n))) \/ Product(OutputDims(n)) = Product(x.dims)
         /\ valid(Operand(n, 2)) => Operand(n, 2).type = Type(<<Len(OutputDims(n))>>, "i64")
         /\ Declared(n).dims # <<>> =>
              Declared(n).elem = x.elem /\ (asked = <<>> \/ Declared(n).dims = OutputDims(n))
<1>1. {1, 2} \subseteq DOMAIN n.inputs
  BY ReadyInputs, InputKinds
<1>2. Tensor(x) /\ ~Dynamic(x) /\ x.elem # "unknown"
  BY <1>1, OperandFacts
<1>3. Accepted(n)
  BY ReadyInputs, AllLapses
<1>4. ReshapeAccepted(n)
  BY <1>3, AcceptedKinds DEF Accepted
<1> DEFINE open == {i \in DOMAIN asked : asked[i] = -1}
<1>5. /\ \A i \in DOMAIN asked : asked[i] >= -1 /\ (asked[i] = 0 => i <= Len(x.dims))
      /\ \A i, j \in open : i = j
      /\ open # {} => \A k \in DOMAIN x.dims : x.dims[k] > 0
      /\ valid(Operand(n, 2)) => Operand(n, 2).type = Type(<<Len(OutputDims(n))>>, "i64")
      /\ (asked = <<>> /\ Dynamic(Declared(n))) \/ Product(OutputDims(n)) = Product(x.dims)
  BY <1>4 DEF ReshapeAccepted
<1>6. asked \in Seq(Int) /\ x.dims \in Seq(Int) /\ \A k \in DOMAIN x.dims : x.dims[k] >= 0
  BY <1>2, ReadyInputs, NumbersFacts, TensorType
<1>7. Askable(asked, x.dims)
  BY <1>5, <1>6 DEF Askable
<1>8. Declared(n).dims # <<>> =>
        Declared(n).elem = x.elem /\ (asked = <<>> \/ Declared(n).dims = OutputDims(n))
  BY <1>3 DEF Accepted, Declaring
<1>9. OutputDims(n) = IF asked = <<>> THEN Declared(n).dims ELSE AskedDims(asked, x.dims)
  <2>1. CASE asked = <<>>
    BY <2>1 DEF OutputDims
  <2>2. CASE asked # <<>>
    <3> DEFINE ds == [k \in DOMAIN n.inputs |-> Operand(n, k).type.dims]
               ks == [k \in DOMAIN n.inputs |-> Numbers(n, k)]
    <3>1. OutputDims(n) = OnnxDims(n, ds, ks)
      BY <2>2 DEF OutputDims
    <3>2. ds[1] = x.dims /\ ks[2] = asked
      BY <1>1
    <3> HIDE DEF ds, ks
    <3>3. OnnxDims(n, ds, ks) = AskedDims(ks[2], ds[1])
      BY Mnemonics DEF OnnxDims, AskedDims
    <3>4. QED
      BY <2>2, <3>1, <3>2, <3>3
  <2>3. QED
    BY <2>1, <2>2
<1>10. QED
  BY <1>2, <1>5, <1>7, <1>8, <1>9

\* A static reshape, to the declared shape or to the one asked for.
LEMMA ReshapeMakes ==
  ASSUME NEW n, n.op_type = "Reshape", Ready(n), valid(Operand(n, 1)), NEW t,
         \/ Declared(n).dims # <<>> /\ t = Declared(n) /\ ~Dynamic(t)
         \/ /\ Declared(n).dims = <<>>
            /\ t = Type(AskedDims(Numbers(n, 2), Operand(n, 1).type.dims), Operand(n, 1).type.elem)
  PROVE  TypedOutcome(n, Success(Emit(body, "stablehlo.reshape", <<Operand(n, 1)>>, <<>>, t)))
<1> DEFINE v == Operand(n, 1)
           x == v.type
           asked == Numbers(n, 2)
           a == AskedDims(asked, x.dims)
           p == Emit(body, "stablehlo.reshape", <<v>>, <<>>, t)
<1>1. /\ Tensor(x) /\ ~Dynamic(x) /\ x.elem # "unknown"
      /\ Askable(asked, x.dims)
      /\ OutputDims(n) = IF asked = <<>> THEN Declared(n).dims ELSE a
      /\ (asked = <<>> /\ Dynamic(Declared(n))) \/ Product(OutputDims(n)) = Product(x.dims)
      /\ Declared(n).dims # <<>> =>
           Declared(n).elem = x.elem /\ (asked = <<>> \/ Declared(n).dims = OutputDims(n))
  BY ReshapeFacts
<1>2. a \in Seq(Int) /\ Len(a) = Len(asked) /\ \A i \in DOMAIN asked : a[i] \in Nat
  BY <1>1, AskedFacts
<1>3. \/ Declared(n).dims # <<>> /\ t = Declared(n) /\ ~Dynamic(t)
      \/ Declared(n).dims = <<>> /\ t = Type(a, x.elem)
  OBVIOUS
<1>4. asked \in Seq(Int)
  BY <1>1 DEF Askable
<1>5. v.type = x
  OBVIOUS
<1>6. valid(v)
  OBVIOUS
<1> HIDE DEF v, x, a, asked
<1>7. CASE Declared(n).dims # <<>>
  <2>1. Tensor(t) /\ t.elem = x.elem /\ ~Dynamic(t)
    BY <1>1, <1>3, <1>7, ReadyInputs, TensorFacts
  <2>2. t.dims = OutputDims(n)
    BY <1>1, <1>3, <1>7
  <2>3. Product(t.dims) = Product(x.dims)
    BY <1>1, <1>3, <1>7, <2>1, <2>2
  <2>4. num_elements(x) = num_elements(t)
    BY <1>1, <2>1, <2>3, SizeFacts
  <2>5. QED
    <3>1. Sound("stablehlo.reshape", <<v>>, <<>>, t)
      BY <1>1, <1>5, <2>1, <2>4, SoundOne
    <3>2. Makes(p, t)
      BY <3>1, ReadyInputs, EmitMakes
    <3>3. \A k \in Reads(n) : valid(Operand(n, k))
      BY <1>6 DEF Reads, v
    <3> HIDE DEF p
    <3>4. TypedOutcome(n, Success(p))
      BY <2>1, <2>2, <3>2, <3>3, SuccessTyped
    <3>5. QED
      BY <3>4 DEF p, v
<1>8. CASE Declared(n).dims = <<>>
  <2>1. t.dims = a /\ t.elem = x.elem /\ Tensor(t)
    BY <1>2, <1>3, <1>8, TypeTensor
  <2>2. ~Dynamic(t)
    <3>1. DOMAIN a = DOMAIN asked
      BY <1>2, <1>4
    <3>2. \A i \in DOMAIN a : ~(a[i] < 0)
      BY <1>2, <3>1
    <3>3. QED
      BY <2>1, <3>2 DEF Dynamic
  <2>3. a = OutputDims(n)
    BY <1>2, <1>1, <1>8
  <2>4. Product(t.dims) = Product(x.dims)
    BY <1>8, <1>1, <2>1, <2>3 DEF Dynamic
  <2>5. num_elements(x) = num_elements(t)
    BY <1>1, <2>2, <2>4, SizeFacts
  <2>6. QED
    <3>1. Sound("stablehlo.reshape", <<v>>, <<>>, t)
      BY <1>1, <1>5, <2>1, <2>2, <2>5, SoundOne
    <3>2. Makes(p, t)
      BY <3>1, ReadyInputs, EmitMakes
    <3>3. \A k \in Reads(n) : valid(Operand(n, k))
      BY <1>6 DEF Reads, v
    <3> HIDE DEF p
    <3>4. TypedOutcome(n, Success(p))
      BY <2>1, <2>3, <3>2, <3>3, SuccessTyped
    <3>5. QED
      BY <3>4 DEF p, v
<1>9. QED
  BY <1>7, <1>8

\* A reshape in the third tier.
LEMMA ReshapeTyped ==
  ASSUME NEW n, n.op_type = "Reshape", Ready(n), "run-time shape" \notin Lapses(n)
  PROVE  Treated(n, ReshapeOpConversion(n))
<1> DEFINE x == Operand(n, 1)
           t == IF Declared(n).dims # <<>> THEN Declared(n)
                ELSE Type(ReshapedDims(Numbers(n, 2), x.type), x.type.elem)
           p == Emit(body, "stablehlo.reshape", <<x>>, <<>>, t)
<1>0. extract_int64s(n, 2) = Numbers(n, 2)
  BY ShapeDecoded
<1>1. \/ ReshapeOpConversion(n) = Failure
      \/ valid(x) /\ ReshapeOpConversion(n) = Success(p)
  BY <1>0, Zenon DEF ReshapeOpConversion
<1>2. SUFFICES ASSUME valid(x) PROVE TypedOutcome(n, Success(p))
  BY <1>1, Zenon DEF Treated
<1>3. ~Dynamic(Declared(n))
  BY ReadyInputs, OtherLapses
<1>4. Tensor(x.type) /\ ~Dynamic(x.type) /\ Askable(Numbers(n, 2), x.type.dims)
  BY <1>2, ReshapeFacts
<1>5. ReshapedDims(Numbers(n, 2), x.type) = AskedDims(Numbers(n, 2), x.type.dims)
  BY <1>4, ReshapedIsAsked
<1>6. \/ Declared(n).dims # <<>> /\ t = Declared(n) /\ ~Dynamic(t)
      \/ /\ Declared(n).dims = <<>>
         /\ t = Type(AskedDims(Numbers(n, 2), x.type.dims), x.type.elem)
  BY <1>3, <1>5, Zenon
<1> HIDE DEF t
<1>7. QED
  BY <1>2, <1>6, ReshapeMakes

\* A reshape in the first tier.
LEMMA ReshapeL1Typed ==
  ASSUME NEW n, n.op_type = "Reshape", Ready(n), "run-time shape" \notin Lapses(n),
         FirstLapses(n) = {}, ~Shapeless(n)
  PROVE  TypedOutcome(n, convert_reshape(n))
<1> DEFINE x == Operand(n, 1)
           t == IF Declared(n).dims = <<>> /\ IsInitializer(n.inputs[2])
                THEN Type(Inferred(Numbers(n, 2), x.type), x.type.elem) ELSE Declared(n)
           p == Emit(body, "stablehlo.reshape", <<x>>, <<>>, t)
<1>0. extract_int64s(n, 2) = Numbers(n, 2)
  BY ShapeDecoded
<1>1. convert_reshape(n) = Success(p)
  BY <1>0, Zenon DEF convert_reshape
<1>2. valid(x)
  BY DEF FirstLapses
<1>3. ~Dynamic(Declared(n))
  BY ReadyInputs, OtherLapses
<1>4. Tensor(x.type) /\ ~Dynamic(x.type) /\ Askable(Numbers(n, 2), x.type.dims)
  BY <1>2, ReshapeFacts
<1>5. Declared(n).dims = <<>> => 0 \notin ToSet(Numbers(n, 2))
  <2>1. ASSUME Declared(n).dims = <<>>, 0 \in ToSet(Numbers(n, 2)) PROVE "zero" \in FirstLapses(n)
    BY <2>1 DEF FirstLapses
  <2>2. QED
    BY <2>1
<1>6. Declared(n).dims = <<>> => Inferred(Numbers(n, 2), x.type) = AskedDims(Numbers(n, 2), x.type.dims)
  BY <1>4, <1>5, InferredIsAsked
<1>7. Declared(n).dims = <<>> => IsInitializer(n.inputs[2])
  BY DEF Shapeless
<1>8. \/ Declared(n).dims # <<>> /\ t = Declared(n) /\ ~Dynamic(t)
      \/ /\ Declared(n).dims = <<>>
         /\ t = Type(AskedDims(Numbers(n, 2), x.type.dims), x.type.elem)
  <2>1. CASE Declared(n).dims # <<>>
    BY <1>3, <2>1, Zenon
  <2>2. CASE Declared(n).dims = <<>>
    BY <1>6, <1>7, <2>2, Zenon
  <2>3. QED
    BY <2>1, <2>2
<1> HIDE DEF t
<1>9. TypedOutcome(n, Success(p))
  BY <1>2, <1>8, ReshapeMakes
<1>10. QED
  BY <1>1, <1>9, Zenon

\* A reshape in the second tier, which may be dynamic.
LEMMA ReshapeL2Typed ==
  ASSUME NEW n, n.op_type = "Reshape", Ready(n), ~Shapeless(n),
         (valid(Operand(n, 2)) /\ Numbers(n, 2) = <<>>) \/ "run-time shape" \notin Lapses(n)
  PROVE  Treated(n, convert_reshape_l2(n))
<1> DEFINE x == Operand(n, 1)
           shape == lookup(n.inputs[2])
           t == IF Declared(n).dims = <<>> /\ IsInitializer(n.inputs[2])
                THEN Type(ReshapedDims(Numbers(n, 2), x.type), x.type.elem) ELSE Declared(n)
           p == Emit(body, "stablehlo.reshape", <<x>>, <<>>, t)
           q == Emit(body, "stablehlo.dynamic_reshape", <<x, shape>>, <<>>, t)
           dynamic == Dynamic(t) \/ (Declared(n).dims = <<>> /\ ~IsInitializer(n.inputs[2]))
<1>1. \/ convert_reshape_l2(n) = Failure
      \/ /\ valid(x)
         /\ convert_reshape_l2(n) =
              IF dynamic /\ ~Dynamic(x.type) /\ valid(shape) THEN Success(q) ELSE Success(p)
  <2> DEFINE given == Declared(n).dims # <<>>
             u == IF ~given /\ IsInitializer(n.inputs[2])
                  THEN Type(ReshapedDims(Numbers(n, 2), x.type), x.type.elem) ELSE Declared(n)
  <2>1. convert_reshape_l2(n) =
          IF ~valid(x) THEN Failure
          ELSE IF (Dynamic(u) \/ (~given /\ ~IsInitializer(n.inputs[2]))) /\ ~Dynamic(x.type) /\ valid(shape)
          THEN Success(Emit(body, "stablehlo.dynamic_reshape", <<x, shape>>, <<>>, u))
          ELSE Success(Emit(body, "stablehlo.reshape", <<x>>, <<>>, u))
    <3>1. extract_int64s(n, 2) = Numbers(n, 2)
      BY ShapeDecoded
    <3>2. QED
      BY <3>1, Zenon DEF convert_reshape_l2
  <2>2. u = t /\ (~given <=> Declared(n).dims = <<>>)
    OBVIOUS
  <2> HIDE DEF u, t, x, shape, given
  <2>3. QED
    BY <2>1, <2>2
<1>2. Operand(n, 2) = shape
  BY DEF Operand
<1> HIDE DEF shape, p, q
<1>3. SUFFICES ASSUME valid(x)
               PROVE  TypedOutcome(n, IF dynamic /\ ~Dynamic(x.type) /\ valid(shape)
                                      THEN Success(q) ELSE Success(p))
  BY <1>1, Zenon DEF Treated
<1>4. /\ Tensor(x.type) /\ ~Dynamic(x.type) /\ x.type.elem # "unknown"
      /\ Askable(Numbers(n, 2), x.type.dims)
      /\ OutputDims(n) = IF Numbers(n, 2) = <<>> THEN Declared(n).dims
                         ELSE AskedDims(Numbers(n, 2), x.type.dims)
      /\ valid(shape) => shape.type = Type(<<Len(OutputDims(n))>>, "i64")
      /\ Declared(n).dims # <<>> => Declared(n).elem = x.type.elem
  BY <1>2, <1>3, ReshapeFacts
<1>5. ReshapedDims(Numbers(n, 2), x.type) = AskedDims(Numbers(n, 2), x.type.dims)
  BY <1>4, ReshapedIsAsked
<1>6. Declared(n).dims = <<>> => IsInitializer(n.inputs[2])
  BY DEF Shapeless
<1>7. \/ Declared(n).dims # <<>> /\ t = Declared(n)
      \/ /\ Declared(n).dims = <<>>
         /\ t = Type(AskedDims(Numbers(n, 2), x.type.dims), x.type.elem)
  <2>1. CASE Declared(n).dims # <<>>
    BY <2>1, Zenon
  <2>2. CASE Declared(n).dims = <<>>
    BY <1>5, <1>6, <2>2, Zenon
  <2>3. QED
    BY <2>1, <2>2
<1>8. dynamic <=> Dynamic(t)
  BY <1>6
<1> HIDE DEF t, dynamic
<1>9. CASE Declared(n).dims # <<>> /\ Dynamic(t)
  <2>1. t = Declared(n) /\ "run-time shape" \in Lapses(n)
    BY <1>7, <1>9, ReadyInputs, OtherLapses
  <2>2. valid(shape) /\ Numbers(n, 2) = <<>>
    BY <1>2, <2>1
  <2>3. TypedOutcome(n, Success(q))
    <3>1. /\ Tensor(t) /\ t.elem = x.type.elem /\ t.dims = OutputDims(n)
          /\ shape.type = Type(<<Len(t.dims)>>, "i64")
      <4>1. Tensor(Declared(n))
        BY ReadyInputs, TensorFacts
      <4>2. OutputDims(n) = Declared(n).dims
        BY <1>4, <2>2
      <4>3. shape.type = Type(<<Len(OutputDims(n))>>, "i64") /\ Declared(n).elem = x.type.elem
        BY <1>4, <1>9, <2>2
      <4>4. t = Declared(n)
        BY <2>1
      <4>5. shape.type = Type(<<Len(t.dims)>>, "i64")
        BY <4>2, <4>3, <4>4, Zenon
      <4> HIDE DEF x
      <4>6. QED
        BY <4>1, <4>2, <4>3, <4>4, <4>5, Zenon
    <3>2. shape.type.elem = "i64" /\ shape.type.dims = <<Len(t.dims)>>
      <4> DEFINE ds == <<Len(t.dims)>>
      <4>1. shape.type = Type(ds, "i64")
        BY <3>1, Zenon
      <4> HIDE DEF ds
      <4> DEFINE u == shape.type
      <4>11. u = Type(ds, "i64")
        BY <4>1
      <4> HIDE DEF u
      <4>12. u.elem = "i64" /\ u.dims = ds
        BY <4>11 DEF Type
      <4>2. shape.type.elem = "i64" /\ shape.type.dims = ds
        BY <4>12 DEF u
      <4>3. QED
        BY <4>2 DEF ds
    <3>3. rank(shape.type) = 1 /\ shape.type.dims[1] = rank(t)
      <4> DEFINE k == Len(t.dims)
      <4>1. shape.type.dims = <<k>> /\ rank(t) = k
        BY <3>2 DEF rank
      <4> HIDE DEF k
      <4>2. Len(<<k>>) = 1 /\ <<k>>[1] = k
        OBVIOUS
      <4>3. QED
        BY <4>1, <4>2 DEF rank
    <3> HIDE DEF x
    <3>4. Sound("stablehlo.dynamic_reshape", <<x, shape>>, <<>>, t)
      BY <1>4, <3>1, <3>2, <3>3, SoundTwo
    <3>5. Makes(q, t)
      BY <3>4, ReadyInputs, EmitMakes DEF q
    <3>6. \A k \in Reads(n) : valid(Operand(n, k))
      BY <1>3 DEF Reads, x
    <3>7. QED
      BY <3>1, <3>5, <3>6, SuccessTyped
  <2>4. QED
    BY <1>4, <1>8, <1>9, <2>2, <2>3
<1>10. CASE ~(Declared(n).dims # <<>> /\ Dynamic(t))
  <2>1. TypedOutcome(n, Success(p))
    BY <1>3, <1>7, <1>10, ReshapeMakes DEF p
  <2>2. ~Dynamic(t)
    <3>1. CASE Declared(n).dims # <<>>
      BY <1>10, <3>1
    <3>2. CASE Declared(n).dims = <<>>
      <4>1. t.dims = AskedDims(Numbers(n, 2), x.type.dims)
        BY <1>7, <3>2, TypeFields
      <4>2. QED
        BY <1>4, <4>1, AskedStatic
    <3>3. QED
      BY <3>1, <3>2
  <2>3. QED
    BY <1>8, <2>1, <2>2
<1>11. QED
  BY <1>9, <1>10

\* The shape of a concatenation along an axis.
ConcatDims(ds, axis) == [ds[1] EXCEPT ![axis] = Total([i \in DOMAIN ds |-> ds[i][axis]])]

\* The operands of a concatenation agree in the other axes.
Joined(n, x, axis) ==
  /\ axis \in Axes(x)
  /\ \A i \in DOMAIN n.inputs :
       /\ Operand(n, i).type.elem = x.elem /\ rank(Operand(n, i).type) = rank(x)
       /\ \A d \in Axes(x) \ {axis} : Dim(Operand(n, i).type, d) = Dim(x, d)

\* The shape of a matrix product.
ProductDims(a, b) ==
  BroadcastDims(SubSeq(a, 1, Len(a) - 2), SubSeq(b, 1, Len(b) - 2))
    \o (IF Len(a) > 1 THEN <<a[Len(a) - 1]>> ELSE <<>>)
    \o (IF Len(b) > 1 THEN <<Last(b)>> ELSE <<>>)

\* The shape of a reduction.
ReducedDims(d, reduced, keep) ==
  IF keep = 0 THEN Without(Type(d, "f32"), reduced)
  ELSE [k \in 1 .. Len(d) |-> IF k - 1 \in reduced THEN 1 ELSE d[k]]

\* ONNX's shapes of the nodes that declare theirs.
LEMMA OnnxConcat ==
  ASSUME NEW n, n.op_type = "Concat", NEW ds, NEW ks
  PROVE  OnnxDims(n, ds, ks) = ConcatDims(ds, AxisOf(get_int_attr(n, "axis", 0), Len(ds[1])) + 1)
  BY Mnemonics, Zenon DEF OnnxDims, ConcatDims

\* The shape ONNX gives to a matrix product.
LEMMA OnnxMatMul ==
  ASSUME NEW n, n.op_type = "MatMul", NEW ds, NEW ks
  PROVE  OnnxDims(n, ds, ks) = ProductDims(ds[1], ds[2])
  BY Mnemonics, Zenon DEF OnnxDims, ProductDims

\* The shape ONNX gives to a slice, with its axes and steps by default.
LEMMA OnnxSlice ==
  ASSUME NEW n, n.op_type = "Slice", NEW ds, NEW ks,
         NEW axes, axes = IF Len(ks) < 4 \/ ks[4] = <<>> THEN AllAxes(Len(ds[1])) ELSE ks[4],
         NEW steps,
         steps = IF Len(ks) < 5 \/ ks[5] = <<>> THEN [i \in 1 .. Len(ds[1]) |-> 1] ELSE ks[5]
  PROVE  OnnxDims(n, ds, ks) = SlicedDims(ds[1], ks[2], ks[3], axes, steps)
  BY Mnemonics, Zenon DEF OnnxDims

\* The shape ONNX gives to a mean whose axes are an attribute.
LEMMA OnnxReduceMean ==
  ASSUME NEW n, n.op_type = "ReduceMean", NEW ds, NEW ks, ~(Len(ks) > 1 /\ ks[2] # <<>>)
  PROVE  OnnxDims(n, ds, ks) =
           ReducedDims(ds[1],
                       {AxisOf(a, Len(ds[1])) : a \in ToSet(get_ints_attr(n, "axes", AllAxes(Len(ds[1]))))},
                       get_int_attr(n, "keepdims", 1))
  BY Mnemonics, Zenon DEF OnnxDims, ReducedDims

\* What ONNX asks of a concatenation, a matrix product and a slice.
LEMMA AcceptedDeclaring ==
  ASSUME NEW n, OperandsAccepted(n), NEW x, x = Operand(n, 1).type, NEW y, y = Operand(n, 2).type
  PROVE  /\ n.op_type = "Concat" =>
              Joined(n, x, AxisOf(get_int_attr(n, "axis", 0), rank(x)))
         /\ n.op_type = "MatMul" =>
              /\ rank(x) >= 1 /\ rank(y) >= 1 /\ x.elem = y.elem
              /\ x.dims[rank(x)] = Dim(y, Larger(0, rank(y) - 2))
         /\ n.op_type = "Slice" =>
              /\ Len(SliceAxes(n)) = Len(Numbers(n, 2)) /\ Distinct(SliceAxes(n))
              /\ Len(Numbers(n, 5)) \in {0, Len(Numbers(n, 2))}
<1>1. CASE n.op_type = "Concat"
  BY <1>1, Mnemonics, Zenon DEF OperandsAccepted, Joined
<1>2. CASE n.op_type = "MatMul"
  BY <1>2, Mnemonics, Zenon DEF OperandsAccepted
<1>3. CASE n.op_type = "Slice"
  BY <1>3, Mnemonics, Zenon DEF OperandsAccepted
<1>4. CASE n.op_type \notin {"Concat", "MatMul", "Slice"}
  BY <1>4
<1>5. QED
  BY <1>1, <1>2, <1>3, <1>4, Zenon

\* A declared type is the one that ONNX gives.
LEMMA DeclaredFacts ==
  ASSUME NEW n, n.op_type \in Declaring \ {"Reshape"}, Ready(n), Declared(n).dims # <<>>
  PROVE  /\ Declared(n) = Type(OutputDims(n), Operand(n, 1).type.elem)
         /\ Tensor(Declared(n))
<1>1. /\ Declared(n).elem = Operand(n, 1).type.elem
      /\ Declared(n).dims = OutputDims(n)
  BY ReadyInputs, AllLapses DEF Accepted
<1>2. Tensor(Declared(n))
  BY ReadyInputs, TensorFacts
<1>3. QED
  BY <1>1, <1>2 DEF Tensor

\* Tensors of one rank that differ in the axes left out only.
LEMMA WithoutSame ==
  ASSUME NEW x, x.dims \in Seq(Int), NEW y, y.dims \in Seq(Int), rank(x) = rank(y), NEW T,
         \A d \in Axes(x) \ T : Dim(x, d) = Dim(y, d)
  PROVE  Without(x, T) = Without(y, T)
<1> DEFINE c == OtherAxes(rank(x), T)
<1>1. OtherAxes(rank(y), T) = c
  OBVIOUS
<1>2. rank(x) \in Nat
  BY DEF rank
<1>3. ListsAxes(c, rank(x), T)
  BY <1>2, OtherAxesFacts
<1>4. /\ Without(x, T) = [i \in DOMAIN c |-> Dim(x, c[i])]
      /\ Without(y, T) = [i \in DOMAIN c |-> Dim(y, c[i])]
  BY <1>1 DEF Without
<1> HIDE DEF c
<1>5. \A i \in DOMAIN c : Dim(x, c[i]) = Dim(y, c[i])
  BY <1>3 DEF ListsAxes, Axes
<1>6. QED
  BY <1>4, <1>5

\* Concatenation along an axis.
LEMMA ConcatenateSound ==
  ASSUME NEW xs, IsSequence(xs), NEW axis \in Int,
         NEW x, Tensor(x), axis \in Axes(x), x.elem # "unknown",
         \A i \in DOMAIN xs :
           /\ Tensor(xs[i].type) /\ xs[i].type.elem = x.elem /\ rank(xs[i].type) = rank(x)
           /\ \A d \in Axes(x) \ {axis} : Dim(xs[i].type, d) = Dim(x, d),
         NEW t, t = Type([x.dims EXCEPT ![axis + 1] = TotalSize(xs, axis)], x.elem)
  PROVE  Tensor(t) /\ Sound("stablehlo.concatenate", xs, <<<<axis>>>>, t)
<1> DEFINE sizes == [i \in DOMAIN xs |-> Dim(xs[i].type, axis)]
           size == TotalSize(xs, axis)
           dims == [x.dims EXCEPT ![axis + 1] = size]
           types == [i \in DOMAIN xs |-> xs[i].type]
<1>1. Len(xs) \in Nat /\ DOMAIN xs = 1 .. Len(xs)
  BY DEF IsSequence
<1>2. rank(x) \in Nat /\ x.dims \in Seq(Int) /\ DOMAIN x.dims = 1 .. rank(x)
  BY TensorType
<1>3. axis + 1 \in 1 .. rank(x)
  BY <1>2 DEF Axes
<1>4. size \in Int
  <2>1. \A i \in DOMAIN xs : Dim(xs[i].type, axis) \in Int
    <3>1. ASSUME NEW i \in DOMAIN xs PROVE Dim(xs[i].type, axis) \in Int
      BY TensorType, <1>3 DEF Dim
    <3>2. QED
      BY <3>1
  <2>2. sizes \in Seq(Int)
    BY <1>1, <2>1
  <2>3. size = Total(sizes)
    BY DEF TotalSize
  <2> HIDE DEF sizes, size
  <2>4. QED
    BY <2>2, <2>3, TotalInt
<1>5. size = Total(sizes)
  BY DEF TotalSize
<1> HIDE DEF size, sizes
<1>6. dims \in Seq(Int) /\ Len(dims) = rank(x) /\ dims[axis + 1] = size
  BY <1>2, <1>3, <1>4 DEF rank
<1>7. \A d \in Axes(x) \ {axis} : dims[d + 1] = x.dims[d + 1]
  <2>1. ASSUME NEW d \in Axes(x) \ {axis} PROVE dims[d + 1] = x.dims[d + 1]
    BY <1>2 DEF Axes
  <2>2. QED
    BY <2>1
<1>8. t = Type(dims, x.elem)
  BY DEF size
<1> HIDE DEF dims
<1>9. Tensor(t) /\ t.dims = dims /\ t.elem = x.elem
  BY <1>6, <1>8, TypeTensor
<1>10. rank(t) = rank(x) /\ Axes(t) = Axes(x)
  BY <1>6, <1>9 DEF rank, Axes
<1>11. ASSUME NEW i \in DOMAIN xs
       PROVE  /\ xs[i].type.elem = t.elem /\ rank(xs[i].type) = rank(t)
              /\ Without(xs[i].type, {axis}) = Without(t, {axis})
  <2> DEFINE u == xs[i].type
  <2>1. Tensor(u) /\ u.elem = x.elem /\ rank(u) = rank(x) /\ \A d \in Axes(x) \ {axis} : Dim(u, d) = Dim(x, d)
    OBVIOUS
  <2> HIDE DEF u
  <2>2. \A d \in Axes(t) \ {axis} : Dim(t, d) = Dim(u, d)
    BY <1>7, <1>9, <1>10, <2>1 DEF Dim
  <2>3. rank(t) = rank(u) /\ t.dims \in Seq(Int) /\ u.dims \in Seq(Int)
    BY <1>6, <1>9, <1>10, <2>1 DEF Tensor
  <2>4. Without(t, {axis}) = Without(u, {axis})
    BY <2>2, <2>3, WithoutSame
  <2>5. u.elem = t.elem /\ rank(u) = rank(t) /\ Without(u, {axis}) = Without(t, {axis})
    BY <1>9, <1>10, <2>1, <2>4
  <2>6. QED
    BY <2>5 DEF u
<1>12. ConcatenateTypes(types, axis, t)
  <2>1. DOMAIN types = DOMAIN xs /\ \A i \in DOMAIN xs : types[i] = xs[i].type
    OBVIOUS
  <2>2. [i \in DOMAIN types |-> Dim(types[i], axis)] = sizes
    <3> HIDE DEF types
    <3>1. \A i \in DOMAIN xs : Dim(types[i], axis) = Dim(xs[i].type, axis)
      BY <2>1
    <3>2. QED
      BY <2>1, <3>1 DEF sizes
  <2> HIDE DEF types
  <2>3. Dim(t, axis) = Total([i \in DOMAIN types |-> Dim(types[i], axis)])
    BY <1>5, <1>6, <1>9, <2>2 DEF Dim
  <2>4. QED
    BY <1>10, <1>11, <2>1, <2>3 DEF ConcatenateTypes
<1>13. t.elem # "unknown" /\ \A i \in DOMAIN xs : xs[i].type.elem # "unknown"
  BY <1>9
<1> HIDE DEF types
<1>14. ConcatenateTypes([i \in DOMAIN xs |-> xs[i].type], axis, t)
  BY <1>12 DEF types
<1>15. QED
  BY <1>9, <1>13, <1>14, SoundConcatenate

\* Concatenation.
LEMMA ConcatTyped ==
  ASSUME NEW n, n.op_type = "Concat", Ready(n)
  PROVE  Treated(n, ConcatOpConversion(n))
<1> DEFINE xs == [i \in DOMAIN n.inputs |-> Operand(n, i)]
           x == xs[1].type
           axis == AxisOf(get_int_attr(n, "axis", 0), rank(x))
           t == IF Declared(n).dims # <<>> THEN Declared(n)
                ELSE [x EXCEPT !.dims[axis + 1] = TotalSize(xs, axis)]
           p == Emit(body, "stablehlo.concatenate", xs, <<<<axis>>>>, t)
<1>1. \/ ConcatOpConversion(n) = Failure
      \/ /\ xs # <<>> /\ \A v \in ToSet(xs) : valid(v)
         /\ ConcatOpConversion(n) = Success(p)
  BY Zenon DEF ConcatOpConversion
<1> HIDE DEF p
<1>2. SUFFICES ASSUME xs # <<>>, \A v \in ToSet(xs) : valid(v) PROVE TypedOutcome(n, Success(p))
  BY <1>1, Zenon DEF Treated
<1>3. /\ IsSequence(n.inputs) /\ n \in NodeProto
      /\ Len(n.inputs) \in Nat /\ DOMAIN n.inputs = 1 .. Len(n.inputs)
  BY ReadyInputs, InputKinds
<1>4. IsSequence(xs) /\ DOMAIN xs = DOMAIN n.inputs /\ \A i \in DOMAIN xs : xs[i] = Operand(n, i)
  <2> DEFINE k == Len(n.inputs)
  <2>1. xs = [i \in 1 .. k |-> Operand(n, i)] /\ k \in Nat
    BY <1>3
  <2> HIDE DEF k, xs
  <2>2. DOMAIN xs = 1 .. k /\ \A i \in 1 .. k : xs[i] = Operand(n, i)
    BY <2>1
  <2>3. IsSequence(xs)
    <3>1. Len(xs) = k
      BY <2>1
    <3>2. xs = [i \in 1 .. Len(xs) |-> xs[i]]
      BY <2>1, <3>1
    <3>3. QED
      <4> DEFINE S == {Operand(n, i) : i \in 1 .. k}
      <4>1. xs \in [1 .. k -> S]
        BY <2>1
      <4> HIDE DEF S
      <4>2. xs \in Seq(S)
        BY <2>1, <4>1
      <4>3. QED
        BY <4>2 DEF IsSequence
  <2>4. QED
    BY <1>3, <2>2, <2>3 DEF k
<1>5. 1 \in DOMAIN xs
  <2> DEFINE k == Len(n.inputs)
  <2>1. k # 0
    <3>1. ASSUME k = 0 PROVE xs = <<>>
      BY <1>3, <3>1
    <3>2. QED
      BY <1>2, <3>1
  <2>2. k \in Nat /\ DOMAIN xs = 1 .. k
    BY <1>3, <1>4
  <2> HIDE DEF k, xs
  <2>3. QED
    BY <2>1, <2>2
<1>6. x = Operand(n, 1).type
  BY <1>4, <1>5
<1> HIDE DEF x
<1>7. \A i \in DOMAIN xs : valid(Operand(n, i))
  <2> HIDE DEF xs
  <2>1. QED
    BY <1>2, <1>4 DEF ToSet
<1>8. \A i \in DOMAIN xs : Tensor(xs[i].type) /\ ~Dynamic(xs[i].type) /\ xs[i].type.elem # "unknown"
  <2> HIDE DEF xs
  <2>1. QED
    BY <1>4, <1>7, OperandFacts
<1>9. /\ axis \in Axes(x)
      /\ \A i \in DOMAIN n.inputs :
           /\ Operand(n, i).type.elem = x.elem /\ rank(Operand(n, i).type) = rank(x)
           /\ \A d \in Axes(x) \ {axis} : Dim(Operand(n, i).type, d) = Dim(x, d)
  <2>1. OperandsAccepted(n)
    BY ReadyInputs, AllLapses DEF Accepted
  <2>2. Joined(n, x, axis)
    BY <1>6, <2>1, AcceptedDeclaring
  <2> HIDE DEF axis, xs
  <2>3. QED
    BY <2>2 DEF Joined
<1>10. Tensor(x) /\ x.elem # "unknown"
  BY <1>4, <1>5, <1>6, <1>8
<1>11. axis \in Int
  <2>1. rank(x) \in Nat
    BY <1>10, TensorType
  <2> HIDE DEF axis
  <2>2. QED
    BY <1>9, <2>1 DEF Axes
<1> DEFINE dims == [x.dims EXCEPT ![axis + 1] = TotalSize(xs, axis)]
           u == Type(dims, x.elem)
<1>12. OutputDims(n) = dims
  <2> DEFINE ds == [k \in DOMAIN n.inputs |-> Operand(n, k).type.dims]
             ks == [k \in DOMAIN n.inputs |-> Numbers(n, k)]
             d == ds[1]
  <2>1. OutputDims(n) = OnnxDims(n, ds, ks)
    BY DEF OutputDims
  <2>2. d = x.dims /\ Len(d) = rank(x)
    BY <1>4, <1>5, <1>6 DEF rank
  <2>3. [i \in DOMAIN ds |-> ds[i][axis + 1]] = [i \in DOMAIN xs |-> Dim(xs[i].type, axis)]
    <3>1. DOMAIN ds = DOMAIN xs /\ \A i \in DOMAIN xs : ds[i] = xs[i].type.dims
      BY <1>4
    <3> HIDE DEF ds, xs, axis
    <3>2. QED
      BY <3>1 DEF Dim
  <2> HIDE DEF ds, ks
  <2>4. OnnxDims(n, ds, ks) = ConcatDims(ds, AxisOf(get_int_attr(n, "axis", 0), Len(d)) + 1)
    BY OnnxConcat
  <2>5. AxisOf(get_int_attr(n, "axis", 0), Len(d)) = axis
    BY <2>2
  <2> HIDE DEF axis
  <2>6. OnnxDims(n, ds, ks) = [x.dims EXCEPT ![axis + 1] = Total([i \in DOMAIN ds |-> ds[i][axis + 1]])]
    BY <2>2, <2>4, <2>5 DEF ConcatDims
  <2>7. QED
    BY <2>1, <2>3, <2>6, Zenon DEF TotalSize
<1>13. Tensor(u) /\ Sound("stablehlo.concatenate", xs, <<<<axis>>>>, u)
  <2>1. \A i \in DOMAIN xs :
           /\ Tensor(xs[i].type) /\ xs[i].type.elem = x.elem /\ rank(xs[i].type) = rank(x)
           /\ \A d \in Axes(x) \ {axis} : Dim(xs[i].type, d) = Dim(x, d)
    <3> HIDE DEF axis, xs
    <3>1. QED
      BY <1>4, <1>8, <1>9
  <2>2. u = Type([x.dims EXCEPT ![axis + 1] = TotalSize(xs, axis)], x.elem)
    OBVIOUS
  <2> HIDE DEF u, dims, xs, axis
  <2>3. QED
    BY <1>4, <1>9, <1>10, <1>11, <2>1, <2>2, ConcatenateSound
<1>14. t = u
  <2>1. CASE Declared(n).dims # <<>>
    <3>1. Declared(n) = Type(OutputDims(n), x.elem)
      BY <1>6, <2>1, DeclaredFacts DEF Declaring
    <3>2. t = Declared(n)
      BY <2>1
    <3> HIDE DEF t, dims
    <3>3. QED
      BY <1>12, <3>1, <3>2
  <2>2. CASE Declared(n).dims = <<>>
    <3>1. x = [dims |-> x.dims, elem |-> x.elem]
      BY <1>10 DEF Tensor, Type
    <3> DEFINE k == axis + 1
               v == TotalSize(xs, axis)
    <3>2. t = [x EXCEPT !.dims[k] = v]
      BY <2>2
    <3>3. u = [dims |-> [x.dims EXCEPT ![k] = v], elem |-> x.elem]
      BY DEF Type
    <3> HIDE DEF t, u, k, v
    <3>4. QED
      BY <3>1, <3>2, <3>3
  <2>3. QED
    BY <2>1, <2>2
<1> HIDE DEF t, dims
<1>15. u.dims = dims
  BY TypeFields
<1>16. Makes(p, u)
  <2> HIDE DEF u, xs, axis
  <2>1. QED
    BY <1>13, <1>14, ReadyInputs, EmitMakes DEF p
<1>17. \A k \in Reads(n) : valid(Operand(n, k))
  BY <1>4, <1>7 DEF Reads
<1> HIDE DEF u, xs, axis
<1>18. QED
  BY <1>12, <1>13, <1>15, <1>16, <1>17, SuccessTyped

\* Numbers laid over the axes that they are given for, one for each.
LEMMA OverlaidAt ==
  ASSUME NEW s, NEW axes \in Seq(Int), Distinct(axes), NEW numbers \in Seq(Int),
         Len(numbers) = Len(axes), NEW i \in DOMAIN s
  PROVE  /\ \A k \in DOMAIN axes : axes[k] = i - 1 => Overlaid(s, axes, numbers)[i] = numbers[k]
         /\ (\A k \in DOMAIN axes : axes[k] # i - 1) => Overlaid(s, axes, numbers)[i] = s[i]
         /\ DOMAIN Overlaid(s, axes, numbers) = DOMAIN s
<1> DEFINE at == {k \in DOMAIN axes \cap DOMAIN numbers : axes[k] = i - 1}
           o == Overlaid(s, axes, numbers)
<1>1. o[i] = (IF at = {} THEN s[i] ELSE numbers[Max(at)]) /\ DOMAIN o = DOMAIN s
  BY DEF Overlaid
<1> HIDE DEF o
<1>2. DOMAIN numbers = DOMAIN axes /\ DOMAIN axes \subseteq Int
  OBVIOUS
<1>3. ASSUME NEW k \in DOMAIN axes, axes[k] = i - 1 PROVE o[i] = numbers[k]
  <2>1. k \in at /\ \A j \in at : j = k
    BY <1>2, <1>3 DEF Distinct, IsInjective
  <2>2. Max(at) = k
    <3> HIDE DEF at
    <3>1. k \in Int
      BY <1>2
    <3>2. QED
      BY <2>1, <3>1 DEF Max
  <2> HIDE DEF at
  <2>3. QED
    BY <1>1, <2>1, <2>2
<1>4. ASSUME \A k \in DOMAIN axes : axes[k] # i - 1 PROVE o[i] = s[i]
  <2>1. at = {}
    BY <1>4
  <2> HIDE DEF at
  <2>2. QED
    BY <1>1, <2>1
<1>5. QED
  BY <1>1, <1>3, <1>4 DEF o

\* Axes replaced by 1.
LEMMA OverlaidOnes ==
  ASSUME NEW dims \in Seq(Int), NEW axes \in Seq(Int), Distinct(axes)
  PROVE  Overlaid(dims, axes, [i \in DOMAIN axes |-> 1]) = Flattened(dims, ToSet(axes))
<1> DEFINE ones == [i \in DOMAIN axes |-> 1]
           o == Overlaid(dims, axes, ones)
           f == Flattened(dims, ToSet(axes))
<1>1. ones \in Seq(Int) /\ Len(ones) = Len(axes) /\ \A k \in DOMAIN axes : ones[k] = 1
  OBVIOUS
<1> HIDE DEF ones
<1>2. /\ DOMAIN f = DOMAIN dims /\ f = [i \in DOMAIN dims |-> f[i]]
      /\ \A i \in DOMAIN dims : f[i] = IF i - 1 \in ToSet(axes) THEN 1 ELSE dims[i]
  BY DEF Flattened
<1>3. o = [i \in DOMAIN dims |-> o[i]]
  BY DEF Overlaid
<1> HIDE DEF o, f
<1>4. ASSUME NEW i \in DOMAIN dims PROVE o[i] = f[i]
  <2>1. CASE i - 1 \in ToSet(axes)
    <3>1. PICK k \in DOMAIN axes : axes[k] = i - 1
      BY <2>1 DEF ToSet
    <3>2. o[i] = ones[k]
      BY <1>1, <3>1, OverlaidAt DEF o
    <3>3. QED
      BY <1>1, <1>2, <2>1, <3>1, <3>2
  <2>2. CASE i - 1 \notin ToSet(axes)
    <3>1. \A k \in DOMAIN axes : axes[k] # i - 1
      BY <2>2 DEF ToSet
    <3>2. o[i] = dims[i]
      BY <1>1, <3>1, OverlaidAt, ZenonT(40) DEF o
    <3>3. QED
      BY <1>2, <2>2, <3>2
  <2>3. QED
    BY <2>1, <2>2
<1>5. o = f
  BY <1>2, <1>3, <1>4
<1>6. QED
  BY <1>5 DEF o, f, ones

\* The shape of a reduction, as the pattern and as ONNX work it out.
LEMMA MeanDimsFacts ==
  ASSUME NEW x, Tensor(x), ~Dynamic(x), NEW axes \in Seq(Int), Distinct(axes), NEW keep \in Int,
         NEW dims, dims = MeanDims(x, axes, keep # 0)
  PROVE  /\ dims \in Seq(Int) /\ \A i \in DOMAIN dims : dims[i] >= 0
         /\ dims = ReducedDims(x.dims, ToSet(axes), keep)
         /\ Product(dims) = Product(Without(x, ToSet(axes)))
         /\ keep = 0 => dims = Without(x, ToSet(axes))
<1> DEFINE S == ToSet(axes)
<1>1. /\ x.dims \in Seq(Int) /\ DOMAIN x.dims = 1 .. rank(x) /\ rank(x) = Len(x.dims)
      /\ \A i \in 1 .. rank(x) : x.dims[i] \in Int /\ x.dims[i] >= 0
  BY TensorType
<1>2. /\ Without(x, S) \in Seq(Int) /\ \A i \in DOMAIN Without(x, S) : Without(x, S)[i] >= 0
      /\ Product(Without(x, S)) = Product(Flattened(x.dims, S))
  BY <1>1, WithoutFacts, ProductWithout
<1>3. CASE keep = 0
  BY <1>3, TypeFields, <1>2 DEF MeanDims, Without, rank, Dim, ReducedDims
<1>4. CASE keep # 0
  <2>1. dims = Flattened(x.dims, S)
    BY <1>4, <1>1, OverlaidOnes DEF MeanDims
  <2>2. dims = ReducedDims(x.dims, S, keep)
    BY <1>4, <2>1 DEF ReducedDims, Flattened
  <2>3. dims = [k \in 1 .. rank(x) |-> IF k - 1 \in S THEN 1 ELSE x.dims[k]]
    BY <1>1, <2>1 DEF Flattened
  <2>4. dims \in Seq(Int) /\ \A i \in DOMAIN dims : dims[i] >= 0
    <3> HIDE DEF S
    <3> DEFINE r == rank(x)
               d == x.dims
    <3>1. r \in Nat /\ \A i \in 1 .. r : d[i] \in Int /\ d[i] >= 0
      BY <1>1
    <3>2. dims = [k \in 1 .. r |-> IF k - 1 \in S THEN 1 ELSE d[k]]
      BY <2>3
    <3> HIDE DEF r, d
    <3>3. \A k \in 1 .. r : dims[k] \in Int /\ dims[k] >= 0
      BY <3>1, <3>2
    <3>4. dims \in Seq(Int) /\ DOMAIN dims = 1 .. r
      BY <3>2, <3>1, <3>3
    <3>5. QED
      BY <3>3, <3>4
  <2>5. QED
    BY <1>2, <1>4, <2>1, <2>2, <2>4
<1>5. QED
  BY <1>3, <1>4

\* The mean along some axes.
LEMMA ReduceMeanTyped ==
  ASSUME NEW n, n.op_type = "ReduceMean", Ready(n)
  PROVE  Treated(n, ReduceMeanOpConversion(n))
<1> DEFINE x == Operand(n, 1)
           r == rank(x.type)
           axes == ReducedAxes(n)
           keepdims == get_int_attr(n, "keepdims", 1)
           keep == keepdims # 0
           dims == MeanDims(x.type, axes, keep)
           t == IF Declared(n).dims = <<>> /\ r # Len(axes) THEN Type(dims, x.type.elem) ELSE Declared(n)
           scalar == Scalar(x.type.elem)
           s == Type(Without(x.type, ToSet(axes)), x.type.elem)
           zero == Emit(body, "stablehlo.constant", <<>>, <<>>, scalar)
           sum == Emit(zero.body, "stablehlo.reduce", <<x, zero.value>>, <<axes>>, s)
           shaped == IF keep THEN Emit(sum.body, "stablehlo.reshape", <<sum.value>>, <<>>, t) ELSE sum
           count == Emit(shaped.body, "stablehlo.constant", <<>>, <<>>, scalar)
           spread == maybe_broadcast(count, count.value, t)
           p == Emit(spread.body, "stablehlo.divide", <<shaped.value, spread.value>>, <<>>, t)
<1>1. \/ ReduceMeanOpConversion(n) = Failure
      \/ valid(x) /\ ToSet(axes) \subseteq Axes(x.type) /\ ReduceMeanOpConversion(n) = Success(p)
  BY Zenon DEF ReduceMeanOpConversion
<1> HIDE DEF p
<1>2. SUFFICES ASSUME valid(x), ToSet(axes) \subseteq Axes(x.type) PROVE TypedOutcome(n, Success(p))
  BY <1>1, Zenon DEF Treated
<1>3. 1 \in DOMAIN n.inputs /\ Len(n.inputs) \in 1 .. 2 /\ IsSequence(n.inputs) /\ n \in NodeProto
  BY ReadyInputs, InputKinds
<1>4. Tensor(x.type) /\ ~Dynamic(x.type) /\ x.type.elem # "unknown"
  BY <1>2, <1>3, OperandFacts
<1>5. r \in Nat /\ r = Len(x.type.dims)
  BY <1>4, TensorType
<1> DEFINE listed == get_ints_attr(n, "axes", AllAxes(r))
<1>6. axes = [i \in DOMAIN listed |-> AxisOf(listed[i], r)]
  BY DEF ReducedAxes
<1>7. listed \in Seq(Int)
  <2> HIDE DEF r
  <2>1. AllAxes(r) \in Seq(Int)
    BY <1>5 DEF AllAxes
  <2>2. QED
    BY <1>3, <2>1, AttributeFacts
<1>8. keepdims \in Int
  BY <1>3, AttributeFacts
<1>9. Distinct(axes)
  BY ReadyInputs, AllLapses, AcceptedKinds DEF Accepted
<1>10. ~HasInput(n, 2)
  BY ReadyInputs, OtherLapses
<1>11. Declared(n).dims = <<>> => r # Len(axes)
  <2>1. Len(axes) = Len(listed)
    <3> HIDE DEF listed, axes
    <3>1. QED
      BY <1>6, <1>7
  <2>2. Declared(n).dims = <<>> => Len(get_ints_attr(n, "axes", x.type.dims)) # r
    BY ReadyInputs, OtherLapses
  <2>3. Len(get_ints_attr(n, "axes", x.type.dims)) = Len(listed)
    <3>1. Len(AllAxes(r)) = Len(x.type.dims)
      <4> HIDE DEF r
      <4>1. QED
        BY <1>5 DEF AllAxes
    <3>2. QED
      BY <3>1 DEF get_ints_attr
  <2> HIDE DEF listed, axes, r
  <2>4. QED
    BY <2>1, <2>2, <2>3
<1>12. /\ axes \in Seq(Int)
       /\ ToSet(axes) = {AxisOf(a, r) : a \in ToSet(listed)}
  <2> HIDE DEF listed, axes, r
  <2>1. DOMAIN listed = DOMAIN axes /\ \A i \in DOMAIN listed : axes[i] = AxisOf(listed[i], r) /\ axes[i] \in Int
    BY <1>5, <1>6, <1>7 DEF AxisOf
  <2>2. axes \in Seq(Int)
    <3> DEFINE k == Len(listed)
    <3>1. k \in Nat /\ DOMAIN listed = 1 .. k
      BY <1>7
    <3>2. axes = [i \in 1 .. k |-> axes[i]]
      BY <1>6, <3>1
    <3> HIDE DEF k
    <3>3. QED
      BY <2>1, <3>1, <3>2
  <2>3. QED
    BY <2>1, <2>2 DEF ToSet
<1> HIDE DEF axes, x
<1>13. /\ dims \in Seq(Int) /\ \A i \in DOMAIN dims : dims[i] >= 0
       /\ dims = ReducedDims(x.type.dims, ToSet(axes), keepdims)
       /\ Product(dims) = Product(Without(x.type, ToSet(axes)))
       /\ keepdims = 0 => dims = Without(x.type, ToSet(axes))
  <2> DEFINE u == x.type
  <2>1. dims = MeanDims(u, axes, keepdims # 0) /\ Tensor(u) /\ ~Dynamic(u)
    BY <1>4
  <2> HIDE DEF dims, keepdims, u
  <2>2. /\ dims \in Seq(Int) /\ \A i \in DOMAIN dims : dims[i] >= 0
        /\ dims = ReducedDims(u.dims, ToSet(axes), keepdims)
        /\ Product(dims) = Product(Without(u, ToSet(axes)))
        /\ keepdims = 0 => dims = Without(u, ToSet(axes))
    <3>1. axes \in Seq(Int) /\ Distinct(axes) /\ keepdims \in Int
      BY <1>8, <1>9, <1>12
    <3>2. QED
      BY <2>1, <3>1, MeanDimsFacts, ZenonT(40)
  <2>3. QED
    BY <2>2 DEF u
<1> HIDE DEF dims
<1>14. OutputDims(n) = dims
  <2> DEFINE ds == [k \in DOMAIN n.inputs |-> Operand(n, k).type.dims]
             ks == [k \in DOMAIN n.inputs |-> Numbers(n, k)]
  <2>1. OutputDims(n) = OnnxDims(n, ds, ks)
    BY DEF OutputDims
  <2>2. ds[1] = x.type.dims /\ Len(ds[1]) = r
    BY <1>3, <1>5 DEF x
  <2>3. ~(Len(ks) > 1 /\ ks[2] # <<>>)
    <3> DEFINE k == Len(n.inputs)
    <3>1. DOMAIN n.inputs = 1 .. k /\ k \in 1 .. 2
      BY <1>3 DEF IsSequence
    <3>2. k > 1 => ks[2] = <<>>
      BY <1>10, ReadyInputs, NumbersFacts, <3>1
    <3>3. Len(ks) = k
      <4>1. ks = [i \in 1 .. k |-> Numbers(n, i)]
        BY <3>1
      <4> HIDE DEF k, ks
      <4>2. QED
        BY <3>1, <4>1
    <3> HIDE DEF k, ks
    <3>4. QED
      BY <3>2, <3>3
  <2> HIDE DEF ds, ks
  <2>4. OnnxDims(n, ds, ks) =
          ReducedDims(ds[1],
            {AxisOf(a, Len(ds[1])) : a \in ToSet(get_ints_attr(n, "axes", AllAxes(Len(ds[1]))))},
            get_int_attr(n, "keepdims", 1))
    BY <2>3, OnnxReduceMean
  <2>5. {AxisOf(a, Len(ds[1])) : a \in ToSet(get_ints_attr(n, "axes", AllAxes(Len(ds[1]))))} = ToSet(axes)
    BY <1>12, <2>2
  <2>6. QED
    BY <1>13, <2>1, <2>2, <2>4, <2>5
<1>15. t = Type(dims, x.type.elem)
  <2>1. CASE Declared(n).dims # <<>>
    <3>1. t = Declared(n)
      BY <2>1
    <3>2. Declared(n) = Type(OutputDims(n), x.type.elem)
      BY <2>1, DeclaredFacts DEF Declaring, x
    <3> HIDE DEF t
    <3>3. QED
      BY <1>14, <3>1, <3>2
  <2>2. CASE Declared(n).dims = <<>>
    BY <1>11, <2>2
  <2>3. QED
    BY <2>1, <2>2
<1> HIDE DEF t, keepdims, r, listed
<1>16. Tensor(t) /\ t.dims = dims /\ t.elem = x.type.elem
  BY <1>13, <1>15, TypeTensor
<1>17. ~Dynamic(t)
  <2>1. ASSUME NEW i \in DOMAIN dims PROVE ~(dims[i] < 0)
    BY <1>13
  <2>2. QED
    BY <1>16, <2>1 DEF Dynamic
<1>18. /\ ~Dynamic(scalar) /\ Tensor(scalar) /\ scalar.elem = x.type.elem
       /\ rank(scalar) = 0
  BY ScalarFacts
<1>19. Makes(zero, scalar)
  BY <1>4, <1>18, ReadyInputs, MakesSame
<1> HIDE DEF zero
<1>20. Makes(sum, s)
  <2> DEFINE u == x.type
             v == zero.value
  <2>1. TypedBody(zero.body) /\ v.type = Scalar(u.elem)
    BY <1>19 DEF Makes
  <2>2. s = Type(Without(u, ToSet(axes)), u.elem)
    OBVIOUS
  <2>3. ToSet(axes) \subseteq Axes(u) /\ u.elem # "unknown" /\ x.type = u
    BY <1>2, <1>4
  <2> HIDE DEF s, u, v
  <2>4. Makes(Emit(zero.body, "stablehlo.reduce", <<x, v>>, <<axes>>, s), s)
    BY <1>9, <2>1, <2>2, <2>3, MakesReduce
  <2>5. QED
    BY <2>4 DEF v
<1>21. s.dims = Without(x.type, ToSet(axes)) /\ s.elem = x.type.elem
  BY TypeFields
<1>22. ~Dynamic(s)
  <2>1. x.type.dims \in Seq(Int)
    BY <1>4 DEF Tensor
  <2>2. Without(x.type, ToSet(axes)) \in Seq(Int)
    BY <2>1, WithoutFacts
  <2>3. \A i \in DOMAIN Without(x.type, ToSet(axes)) : Without(x.type, ToSet(axes))[i] >= 0
    BY <1>4, <2>1, WithoutFacts
  <2> DEFINE w == Without(x.type, ToSet(axes))
  <2>4. w \in Seq(Int) /\ (\A i \in DOMAIN w : w[i] >= 0) /\ s.dims = w
    BY <1>21, <2>2, <2>3
  <2> HIDE DEF w, s
  <2>5. QED
    BY <2>4 DEF Dynamic
<1> HIDE DEF s, sum, scalar
<1>23. Makes(shaped, t)
  <2>1. CASE keep
    <3> DEFINE v == sum.value
               e == Emit(sum.body, "stablehlo.reshape", <<v>>, <<>>, t)
    <3>1. TypedBody(sum.body) /\ v.type = s
      BY <1>20 DEF Makes
    <3>2. num_elements(s) = Product(s.dims) /\ num_elements(t) = Product(t.dims)
      BY <1>17, <1>22, SizeFacts
    <3>3. num_elements(s) = num_elements(t)
      BY <1>13, <1>16, <1>21, <3>2
    <3>4. shaped = e
      BY <2>1
    <3> HIDE DEF v, shaped, e
    <3>5. Sound("stablehlo.reshape", <<v>>, <<>>, t)
      BY <1>4, <1>16, <1>17, <1>21, <3>1, <3>3, SoundOne
    <3>6. Makes(e, t)
      BY <3>1, <3>5, EmitMakes DEF e
    <3>7. QED
      BY <3>4, <3>6
  <2>2. CASE ~keep
    <3>1. shaped = sum
      BY <2>2
    <3>2. s = t
      BY <1>13, <2>2, <1>15 DEF s
    <3> HIDE DEF shaped
    <3>3. QED
      BY <1>20, <3>1, <3>2
  <2>3. QED
    BY <2>1, <2>2
<1> HIDE DEF shaped
<1>24. Makes(count, scalar) /\ Pair(count)
  <2>1. TypedBody(shaped.body)
    BY <1>23 DEF Makes
  <2>2. QED
    BY <1>4, <1>18, <2>1, MakesSame, EmitPair
<1> HIDE DEF count
<1>25. Makes(spread, t)
  <2> DEFINE v == count.value
  <2>1. TypedBody(count.body) /\ v.type = scalar
    BY <1>24 DEF Makes
  <2>2. rank(t) \in Nat
    BY <1>16, TensorType
  <2>3. Spreads(scalar, t)
    BY <1>16, <1>18, <2>2 DEF Spreads
  <2> HIDE DEF v
  <2>4. Makes(maybe_broadcast(count, v, t), t)
    BY <1>4, <1>16, <1>17, <1>18, <1>24, <2>1, <2>3, BroadcastMakes
  <2>5. QED
    BY <2>4 DEF v
<1> HIDE DEF spread
<1>26. Makes(p, t)
  <2> DEFINE v == shaped.value
             w == spread.value
  <2>1. TypedBody(spread.body) /\ v.type = t /\ w.type = t /\ t.elem # "unknown"
    BY <1>4, <1>16, <1>23, <1>25 DEF Makes
  <2>2. "stablehlo.divide" \in Binary
    BY DEF Binary
  <2> HIDE DEF v, w
  <2>3. Makes(Emit(spread.body, "stablehlo.divide", <<v, w>>, <<>>, t), t)
    BY <2>1, <2>2, MakesSame
  <2>4. QED
    BY <2>3 DEF p, v, w
<1>27. \A k \in Reads(n) : valid(Operand(n, k))
  BY <1>2 DEF Reads, x
<1>28. QED
  BY <1>14, <1>16, <1>26, <1>27, SuccessTyped

\* The length of a slice within its axis.
LEMMA SliceLengthFacts ==
  ASSUME NEW a \in Int, NEW b \in Int, a <= b, NEW s \in Int, s > 0
  PROVE  SliceLength(a, b, s) = RoundUp(b - a, s) /\ RoundUp(b - a, s) \in Nat
<1> DEFINE len == b - a
<1>1. len \in Nat
  OBVIOUS
<1> HIDE DEF len
<1>2. (len + s - 1) \div s \in Nat
  <2>1. len + s - 1 \in Nat
    BY <1>1
  <2>2. QED
    BY <2>1
<1>3. CASE s # 1 /\ len > 0
  BY <1>1, <1>2, <1>3 DEF len, SliceLength, RoundUp, Quotient, Larger
<1>4. CASE s = 1
  BY <1>1, <1>2, <1>4 DEF len, SliceLength, RoundUp, Larger
<1>5. CASE s # 1 /\ len = 0
  BY <1>5 DEF len, SliceLength, RoundUp, Larger
<1>6. QED
  BY <1>1, <1>3, <1>4, <1>5

\* A bound within the axis stays as it is.
LEMMA ClampedWithin ==
  ASSUME NEW b \in Int, NEW size \in Int, 0 <= b, b <= size
  PROVE  Clamped(b, size) = b
  BY DEF Clamped, AxisOf

\* The numbers of a slice, as a pattern reads them (A, S, E and P) and as ONNX does.
SliceOf(d, A, S, E, P, axes, steps) ==
  /\ d \in Seq(Int) /\ \A k \in DOMAIN d : d[k] >= 0
  /\ A \in Seq(Int) /\ Distinct(A) /\ S \in Seq(Int) /\ E \in Seq(Int) /\ P \in Seq(Int)
  /\ Len(S) = Len(A) /\ Len(E) = Len(A) /\ (P = <<>> \/ Len(P) = Len(A))
  /\ \A k \in DOMAIN P : P[k] > 0
  /\ \A k \in DOMAIN A :
       /\ A[k] \in 0 .. Len(d) - 1
       /\ 0 <= S[k] /\ S[k] <= E[k] /\ E[k] <= d[A[k] + 1]
       /\ AxisOf(axes[k], Len(d)) = A[k]
       /\ steps[k] = IF P = <<>> THEN 1 ELSE P[k]

\* What the pattern passes on, for every dimension.
SliceLists(d, A, S, E, P, start, limit, stride) ==
  /\ start = Overlaid([i \in 1 .. Len(d) |-> 0], A, S)
  /\ limit = Overlaid(d, A, E)
  /\ stride = Overlaid([i \in 1 .. Len(d) |-> 1], A, P)

SliceLengths(r, start, limit, stride) ==
  [i \in 1 .. r |-> SliceLength(start[i], limit[i], stride[i])]

\* One dimension of a slice.
LEMMA SlicedEntry ==
  ASSUME NEW d, NEW A, NEW S, NEW E, NEW P, NEW axes, NEW steps, SliceOf(d, A, S, E, P, axes, steps),
         NEW start, NEW limit, NEW stride, SliceLists(d, A, S, E, P, start, limit, stride),
         NEW i \in 1 .. Len(d)
  PROVE  /\ start[i] \in Int /\ limit[i] \in Int /\ stride[i] \in Int
         /\ 0 <= start[i] /\ start[i] <= limit[i] /\ limit[i] <= d[i] /\ stride[i] > 0
         /\ SlicedDims(d, S, E, axes, steps)[i] = RoundUp(limit[i] - start[i], stride[i])
<1> DEFINE zeros == [k \in 1 .. Len(d) |-> 0]
           ones == [k \in 1 .. Len(d) |-> 1]
           at == {k \in DOMAIN S : AxisOf(axes[k], Len(d)) = i - 1}
           Length(k) == RoundUp(Clamped(E[k], d[i]) - Clamped(S[k], d[i]), steps[k])
           sliced == SlicedDims(d, S, E, axes, steps)
<1>1. /\ d \in Seq(Int) /\ A \in Seq(Int) /\ Distinct(A) /\ S \in Seq(Int) /\ E \in Seq(Int) /\ P \in Seq(Int)
      /\ Len(S) = Len(A) /\ Len(E) = Len(A) /\ (P = <<>> \/ Len(P) = Len(A))
      /\ DOMAIN d = 1 .. Len(d) /\ d[i] \in Int /\ d[i] >= 0
      /\ DOMAIN S = DOMAIN A /\ DOMAIN E = DOMAIN A
      /\ \A k \in DOMAIN A : A[k] \in Int /\ S[k] \in Int /\ E[k] \in Int
  <2>1. /\ d \in Seq(Int) /\ A \in Seq(Int) /\ Distinct(A) /\ S \in Seq(Int) /\ E \in Seq(Int) /\ P \in Seq(Int)
        /\ Len(S) = Len(A) /\ Len(E) = Len(A) /\ (P = <<>> \/ Len(P) = Len(A))
        /\ \A k \in DOMAIN d : d[k] >= 0
    BY Zenon DEF SliceOf
  <2>2. DOMAIN d = 1 .. Len(d) /\ d[i] \in Int /\ d[i] >= 0
    <3> HIDE DEF zeros, ones, at, sliced
    <3>1. d \in Seq(Int) /\ i \in 1 .. Len(d) /\ \A k \in DOMAIN d : d[k] >= 0
      BY <2>1
    <3>2. DOMAIN d = 1 .. Len(d)
      BY <3>1
    <3>3. QED
      BY <3>1, <3>2
  <2>3. DOMAIN S = DOMAIN A /\ DOMAIN E = DOMAIN A
    BY <2>1
  <2>4. \A k \in DOMAIN A : A[k] \in Int /\ S[k] \in Int /\ E[k] \in Int
    BY <2>1, <2>3
  <2>5. QED
    BY <2>1, <2>2, <2>3, <2>4
<1>2. sliced[i] = IF at = {} THEN d[i] ELSE Length(Max(at))
  BY <1>1 DEF SlicedDims
<1>3. \A k \in DOMAIN A :
        /\ 0 <= S[k] /\ S[k] <= E[k] /\ E[k] <= d[A[k] + 1]
        /\ AxisOf(axes[k], Len(d)) = A[k]
        /\ steps[k] = IF P = <<>> THEN 1 ELSE P[k]
  BY DEF SliceOf
<1>4. zeros[i] = 0 /\ ones[i] = 1 /\ DOMAIN zeros = 1 .. Len(d) /\ DOMAIN ones = 1 .. Len(d)
  OBVIOUS
<1>5. start = Overlaid(zeros, A, S) /\ limit = Overlaid(d, A, E) /\ stride = Overlaid(ones, A, P)
  BY Zenon DEF SliceLists
<1> HIDE DEF zeros, ones, sliced
<1> DEFINE a == Overlaid(zeros, A, S)
           b == Overlaid(d, A, E)
           c == Overlaid(ones, A, P)
<1>58. /\ \A k \in DOMAIN A : A[k] = i - 1 => a[i] = S[k] /\ b[i] = E[k]
       /\ (\A k \in DOMAIN A : A[k] # i - 1) => a[i] = 0 /\ b[i] = d[i]
  <2>0. /\ A \in Seq(Int) /\ Distinct(A) /\ S \in Seq(Int) /\ Len(S) = Len(A)
        /\ E \in Seq(Int) /\ Len(E) = Len(A) /\ i \in DOMAIN zeros /\ i \in DOMAIN d
    BY <1>1, <1>4
  <2>1. \A k \in DOMAIN A : A[k] = i - 1 => a[i] = S[k]
    <3>1. /\ \A k \in DOMAIN A : A[k] = i - 1 => Overlaid(zeros, A, S)[i] = S[k]
          /\ (\A k \in DOMAIN A : A[k] # i - 1) => Overlaid(zeros, A, S)[i] = zeros[i]
          /\ DOMAIN Overlaid(zeros, A, S) = DOMAIN zeros
      BY <2>0, OverlaidAt, Zenon
    <3>2. QED
      BY <3>1 DEF a
  <2>2. \A k \in DOMAIN A : A[k] = i - 1 => b[i] = E[k]
    <3>1. /\ \A k \in DOMAIN A : A[k] = i - 1 => Overlaid(d, A, E)[i] = E[k]
          /\ (\A k \in DOMAIN A : A[k] # i - 1) => Overlaid(d, A, E)[i] = d[i]
          /\ DOMAIN Overlaid(d, A, E) = DOMAIN d
      BY <2>0, OverlaidAt, Zenon
    <3>2. QED
      BY <3>1 DEF b
  <2>3. (\A k \in DOMAIN A : A[k] # i - 1) => a[i] = 0
    BY <1>4, <2>0, OverlaidAt, ZenonT(40)
  <2>4. (\A k \in DOMAIN A : A[k] # i - 1) => b[i] = d[i]
    BY <2>0, OverlaidAt, ZenonT(40)
  <2>5. QED
    BY <2>1, <2>2, <2>3, <2>4, Zenon
<1>56. P # <<>> => /\ \A k \in DOMAIN A : A[k] = i - 1 => c[i] = P[k]
                   /\ (\A k \in DOMAIN A : A[k] # i - 1) => c[i] = 1
  <2>1. SUFFICES ASSUME P # <<>>
                 PROVE  /\ \A k \in DOMAIN A : A[k] = i - 1 => c[i] = P[k]
                        /\ (\A k \in DOMAIN A : A[k] # i - 1) => c[i] = 1
    OBVIOUS
  <2>0. /\ A \in Seq(Int) /\ Distinct(A) /\ P \in Seq(Int) /\ Len(P) = Len(A) /\ i \in DOMAIN ones
    BY <1>1, <1>4, <2>1
  <2>2. \A k \in DOMAIN A : A[k] = i - 1 => c[i] = P[k]
    BY <2>0, OverlaidAt
  <2>3. (\A k \in DOMAIN A : A[k] # i - 1) => c[i] = 1
    BY <1>4, <2>0, OverlaidAt
  <2>4. QED
    BY <2>2, <2>3
<1>57. start = a /\ limit = b /\ stride = c
  BY <1>5
<1> HIDE DEF a, b, c, at
<1>6. P = <<>> => stride[i] = 1
  <2>1. SUFFICES ASSUME P = <<>> PROVE stride[i] = 1
    OBVIOUS
  <2> DEFINE none == {k \in DOMAIN A \cap DOMAIN P : A[k] = i - 1}
  <2>2. stride[i] = IF none = {} THEN ones[i] ELSE P[Max(none)]
    BY <1>4, <1>5 DEF Overlaid
  <2>3. none = {}
    BY <2>1
  <2> HIDE DEF none
  <2>4. QED
    BY <1>4, <2>2, <2>3
<1>7. CASE \E k \in DOMAIN A : A[k] = i - 1
  <2>1. PICK k \in DOMAIN A : A[k] = i - 1
    BY <1>7
  <2>2. start[i] = S[k] /\ limit[i] = E[k]
    BY <1>58, <1>57, <2>1
  <2>3. stride[i] = steps[k] /\ steps[k] \in Int /\ steps[k] > 0
    <3>1. CASE P = <<>>
      BY <1>3, <1>6, <3>1
    <3>2. CASE P # <<>>
      <4>1. stride[i] = P[k]
        BY <1>56, <1>57, <2>1, <3>2
      <4>2. k \in DOMAIN P /\ P[k] \in Int /\ P[k] > 0
        <5>1. DOMAIN P = DOMAIN A
          BY <1>1, <3>2
        <5>2. \A j \in DOMAIN P : P[j] > 0
          BY Zenon DEF SliceOf
        <5>3. QED
          BY <1>1, <5>1, <5>2
      <4>3. QED
        BY <1>3, <3>2, <4>1, <4>2
    <3>3. QED
      BY <3>1, <3>2
  <2>4. S[k] \in Int /\ E[k] \in Int /\ 0 <= S[k] /\ S[k] <= E[k] /\ E[k] <= d[i]
    <3>1. A[k] + 1 = i
      BY <2>1
    <3>2. E[k] <= d[A[k] + 1]
      BY <1>3
    <3>3. QED
      BY <1>1, <1>3, <3>1, <3>2
  <2>5. at # {} /\ Max(at) = k
    <3>1. at = {k}
      <4>1. k \in at
        BY <1>1, <1>3, <2>1 DEF at
      <4>2. ASSUME NEW j \in at PROVE j = k
        BY <1>1, <1>3, <2>1 DEF at, Distinct, IsInjective
      <4> HIDE DEF at
      <4>3. QED
        BY <4>1, <4>2
    <3> HIDE DEF at
    <3>2. k \in Int
      BY <1>1
    <3>3. Max({k}) = k
      BY <3>2 DEF Max
    <3>4. QED
      BY <3>1, <3>3
  <2>6. Clamped(S[k], d[i]) = S[k] /\ Clamped(E[k], d[i]) = E[k]
    <3> DEFINE lo == S[k]
               hi == E[k]
               size == d[i]
    <3>1. lo \in Int /\ hi \in Int /\ size \in Int /\ 0 <= lo /\ lo <= hi /\ hi <= size
      BY <1>1, <2>4
    <3> HIDE DEF lo, hi, size
    <3>2. 0 <= hi /\ lo <= size
      BY <3>1
    <3>3. Clamped(lo, size) = lo /\ Clamped(hi, size) = hi
      BY <3>1, <3>2, ClampedWithin
    <3>4. QED
      BY <3>3 DEF lo, hi, size
  <2>7. sliced[i] = RoundUp(E[k] - S[k], steps[k])
    BY <1>2, <2>5, <2>6, Zenon
  <2>8. sliced[i] = RoundUp(limit[i] - start[i], stride[i])
    BY <2>2, <2>3, <2>7, Zenon
  <2>9. /\ start[i] \in Int /\ limit[i] \in Int /\ stride[i] \in Int
        /\ 0 <= start[i] /\ start[i] <= limit[i] /\ limit[i] <= d[i] /\ stride[i] > 0
    BY <2>2, <2>3, <2>4
  <2>10. QED
    BY <2>8, <2>9, Zenon DEF sliced
<1>8. CASE \A k \in DOMAIN A : A[k] # i - 1
  <2>1. start[i] = 0 /\ limit[i] = d[i]
    BY <1>58, <1>57, <1>8
  <2>2. stride[i] = 1
    <3>1. CASE P # <<>>
      BY <1>56, <1>57, <1>8, <3>1
    <3>2. QED
      BY <1>6, <3>1
  <2>3. at = {}
    BY <1>1, <1>3, <1>8 DEF at
  <2>4. sliced[i] = d[i]
    BY <1>2, <2>3, Zenon
  <2>5. RoundUp(d[i] - 0, 1) = d[i]
    BY <1>1 DEF RoundUp
  <2>6. sliced[i] = RoundUp(limit[i] - start[i], stride[i])
    BY <2>1, <2>2, <2>4, <2>5, Zenon
  <2>7. /\ start[i] \in Int /\ limit[i] \in Int /\ stride[i] \in Int
        /\ 0 <= start[i] /\ start[i] <= limit[i] /\ limit[i] <= d[i] /\ stride[i] > 0
    BY <1>1, <2>1, <2>2
  <2>8. QED
    BY <2>6, <2>7, Zenon DEF sliced
<1>9. QED
  BY <1>7, <1>8

\* Distinct numbers below r are r at most.
LEMMA DistinctFits ==
  ASSUME NEW A \in Seq(Int), Distinct(A), NEW r \in Nat, \A k \in DOMAIN A : A[k] \in 0 .. r - 1
  PROVE  Len(A) <= r
<1> DEFINE m == Len(A)
           S == 1 .. m
           T == 0 .. r - 1
<1>1. m \in Nat /\ DOMAIN A = S
  OBVIOUS
<1>2. A \in [S -> T]
  BY <1>1
<1>3. A \in Injection(S, T)
  BY <1>1, <1>2 DEF Distinct, IsInjective, Injection
<1>4. /\ IsFiniteSet(S) /\ Cardinality(S) = IF 1 > m THEN 0 ELSE m - 1 + 1
      /\ IsFiniteSet(T) /\ Cardinality(T) = IF 0 > r - 1 THEN 0 ELSE r - 1 - 0 + 1
  BY <1>1, FS_Interval
<1> HIDE DEF S, T
<1>5. Cardinality(S) <= Cardinality(T)
  BY <1>3, <1>4, FS_Injection
<1>6. QED
  BY <1>1, <1>4, <1>5

\* The axes and steps of a slice, as ONNX reads them.
LEMMA SliceReads ==
  ASSUME NEW n, n.op_type = "Slice", Ready(n), valid(Operand(n, 1)),
         NEW x, x = Operand(n, 1).type,
         Len(Numbers(n, 2)) = Len(Numbers(n, 3)), ToSet(SliceAxes(n)) \subseteq Axes(x)
  PROVE  \E axes, steps :
           /\ SliceOf(x.dims, SliceAxes(n), Numbers(n, 2), Numbers(n, 3), Numbers(n, 5), axes, steps)
           /\ OutputDims(n) = SlicedDims(x.dims, Numbers(n, 2), Numbers(n, 3), axes, steps)
<1> DEFINE A == SliceAxes(n)
           S == Numbers(n, 2)
           E == Numbers(n, 3)
           G == Numbers(n, 4)
           P == Numbers(n, 5)
           r == Len(x.dims)
           D == DOMAIN n.inputs
           ds == [k \in D |-> Operand(n, k).type.dims]
           ks == [k \in D |-> Numbers(n, k)]
           axes == IF Len(ks) < 4 \/ ks[4] = <<>> THEN AllAxes(Len(ds[1])) ELSE ks[4]
           steps == IF Len(ks) < 5 \/ ks[5] = <<>> THEN [i \in 1 .. Len(ds[1]) |-> 1] ELSE ks[5]
<1>1. /\ {1, 2, 3} \subseteq D /\ Len(n.inputs) \in Nat /\ D = 1 .. Len(n.inputs)
      /\ graph \in Graphs
  BY ReadyInputs, InputKinds
<1>2. /\ S \in Seq(Int) /\ E \in Seq(Int) /\ G \in Seq(Int) /\ P \in Seq(Int)
      /\ ~HasInput(n, 4) => G = <<>>
      /\ ~HasInput(n, 5) => P = <<>>
  BY <1>1, NumbersFacts
<1>3. /\ Tensor(x) /\ ~Dynamic(x)
  BY <1>1, OperandFacts
<1>4. /\ x.dims \in Seq(Int) /\ r \in Nat /\ r = rank(x) /\ DOMAIN x.dims = 1 .. r
      /\ \A k \in DOMAIN x.dims : x.dims[k] >= 0
  BY <1>3, TensorType
<1>5. /\ Len(A) = Len(S) /\ Distinct(A)
      /\ Len(P) \in {0, Len(S)}
  BY ReadyInputs, AllLapses, AcceptedDeclaring DEF Accepted
<1>6. /\ \A k \in DOMAIN S :
           0 <= S[k] /\ S[k] <= E[k] /\ E[k] <= Dim(x, A[k])
      /\ \A step \in ToSet(P) : ~(step <= 0)
  BY ReadyInputs, SliceLapses DEF WithinBounds
<1>7. A = IF G = <<>> THEN AllAxes(Len(S)) ELSE [i \in DOMAIN G |-> AxisOf(G[i], r)]
  BY <1>4, Decoded DEF SliceAxes
<1> HIDE DEF A, S, E, G, P, r
<1>8. A \in Seq(Int)
  <2>1. CASE G = <<>>
    <3> DEFINE m == Len(S)
    <3>1. A = [i \in 1 .. m |-> i - 1] /\ m \in Nat
      BY <1>2, <1>7, <2>1 DEF AllAxes
    <3> HIDE DEF m
    <3>2. QED
      BY <3>1
  <2>2. CASE G # <<>>
    <3> DEFINE m == Len(G)
    <3>1. A = [i \in 1 .. m |-> AxisOf(G[i], r)] /\ m \in Nat /\ \A i \in 1 .. m : G[i] \in Int
      BY <1>2, <1>7, <2>2
    <3> HIDE DEF m
    <3>2. \A i \in 1 .. m : AxisOf(G[i], r) \in Int
      BY <1>4, <3>1 DEF AxisOf
    <3>3. QED
      BY <3>1, <3>2
  <2>3. QED
    BY <2>1, <2>2
<1>9. \A k \in DOMAIN A : A[k] \in 0 .. r - 1
  BY <1>4, <1>8 DEF ToSet, Axes, A
<1>10. Len(ks) = Len(n.inputs) /\ ds[1] = x.dims /\ \A k \in D : ks[k] = Numbers(n, k)
  <2> DEFINE m == Len(n.inputs)
  <2>1. ks = [k \in 1 .. m |-> Numbers(n, k)] /\ m \in Nat
    BY <1>1
  <2>2. ds[1] = x.dims
    BY <1>1
  <2> HIDE DEF m, D
  <2>3. Len(ks) = m
    BY <2>1
  <2>4. QED
    BY <2>2, <2>3 DEF m
<1>11. axes = IF G = <<>> THEN AllAxes(r) ELSE G
  <2>1. Len(n.inputs) < 4 => G = <<>>
    <3> DEFINE m == Len(n.inputs)
    <3>1. m \in Nat /\ (HasInput(n, 4) => m >= 4)
      BY <1>1 DEF HasInput
    <3> HIDE DEF m
    <3>2. m < 4 => ~HasInput(n, 4)
      BY <3>1
    <3>3. m < 4 => G = <<>>
      BY <1>2, <3>2
    <3>4. QED
      BY <3>3 DEF m
  <2>2. ~(Len(n.inputs) < 4) => ks[4] = G
    BY <1>1, <1>10 DEF G
  <2> HIDE DEF ks, ds
  <2>3. QED
    BY <1>10, <2>1, <2>2 DEF r
<1>12. steps = IF P = <<>> THEN [i \in 1 .. r |-> 1] ELSE P
  <2>1. Len(n.inputs) < 5 => P = <<>>
    <3> DEFINE m == Len(n.inputs)
    <3>1. m \in Nat /\ (HasInput(n, 5) => m >= 5)
      BY <1>1 DEF HasInput
    <3> HIDE DEF m
    <3>2. m < 5 => ~HasInput(n, 5)
      BY <3>1
    <3>3. m < 5 => P = <<>>
      BY <1>2, <3>2
    <3>4. QED
      BY <3>3 DEF m
  <2>2. ~(Len(n.inputs) < 5) => ks[5] = P
    BY <1>1, <1>10 DEF P
  <2> HIDE DEF ks, ds
  <2>3. QED
    BY <1>10, <2>1, <2>2 DEF r
<1>13. OutputDims(n) = SlicedDims(x.dims, S, E, axes, steps)
  <2>1. OutputDims(n) = OnnxDims(n, ds, ks)
    BY DEF OutputDims
  <2>2. ks[2] = S /\ ks[3] = E
    BY <1>1, <1>10 DEF S, E
  <2>3. OnnxDims(n, ds, ks) = SlicedDims(ds[1], ks[2], ks[3], axes, steps)
    <3>1. /\ axes = IF Len(ks) < 4 \/ ks[4] = <<>> THEN AllAxes(Len(ds[1])) ELSE ks[4]
          /\ steps = IF Len(ks) < 5 \/ ks[5] = <<>> THEN [i \in 1 .. Len(ds[1]) |-> 1] ELSE ks[5]
      OBVIOUS
    <3> HIDE DEF ds, ks, axes, steps
    <3>2. QED
      BY <3>1, OnnxSlice
  <2> HIDE DEF ds, ks, axes, steps
  <2>4. QED
    BY <1>10, <2>1, <2>2, <2>3
<1> HIDE DEF axes, steps, ks, ds, D
<1>14. ASSUME NEW k \in DOMAIN A
       PROVE  /\ AxisOf(axes[k], r) = A[k]
              /\ steps[k] = IF P = <<>> THEN 1 ELSE P[k]
  <2>1. A[k] \in 0 .. r - 1 /\ k \in 1 .. Len(A)
    BY <1>8, <1>9
  <2>2. CASE G = <<>>
    <3>1. A[k] = k - 1
      BY <1>2, <1>5, <1>7, <2>1, <2>2 DEF AllAxes
    <3>2. k \in 1 .. r
      BY <1>4, <2>1, <3>1
    <3>3. axes[k] = k - 1
      BY <1>11, <2>2, <3>2 DEF AllAxes
    <3>4. AxisOf(k - 1, r) = k - 1
      BY <1>4, <3>2 DEF AxisOf
    <3>5. P = <<>> => steps[k] = 1
      BY <1>12, <3>2
    <3>6. P # <<>> => steps[k] = P[k]
      BY <1>12
    <3>7. QED
      BY <3>1, <3>3, <3>4, <3>5, <3>6
  <2>3. CASE G # <<>>
    <3>1. A[k] = AxisOf(G[k], r) /\ axes[k] = G[k]
      BY <1>7, <1>11, <2>3
    <3>2. P # <<>> => steps[k] = P[k]
      BY <1>12
    <3>3. P = <<>> => steps[k] = 1
      <4>1. Len(A) <= r
        BY <1>4, <1>5, <1>8, <1>9, DistinctFits
      <4>2. QED
        BY <1>4, <1>12, <2>1, <4>1
    <3>4. QED
      BY <3>1, <3>2, <3>3
  <2>4. QED
    BY <2>2, <2>3
<1>15. SliceOf(x.dims, A, S, E, P, axes, steps)
  <2>1. Len(E) = Len(A)
    BY <1>5 DEF S, E
  <2>2. P = <<>> \/ Len(P) = Len(A)
    BY <1>2, <1>5
  <2>3. ASSUME NEW k \in DOMAIN P PROVE P[k] > 0
    <3>1. P[k] \in ToSet(P) /\ P[k] \in Int
      BY <1>2 DEF ToSet
    <3>2. QED
      BY <1>6, <3>1
  <2>4. ASSUME NEW k \in DOMAIN A
        PROVE  0 <= S[k] /\ S[k] <= E[k] /\ E[k] <= x.dims[A[k] + 1]
    <3>1. k \in DOMAIN S
      <4>1. Len(A) = Len(S) /\ S \in Seq(Int) /\ A \in Seq(Int) /\ k \in DOMAIN A
        BY <1>2, <1>5, <1>8
      <4>2. QED
        BY <4>1
    <3>2. QED
      BY <1>6, <3>1 DEF Dim
  <2>5. \A k \in DOMAIN A : A[k] \in 0 .. Len(x.dims) - 1
    BY <1>9 DEF r
  <2>6. \A k \in DOMAIN A : /\ AxisOf(axes[k], Len(x.dims)) = A[k]
                            /\ steps[k] = IF P = <<>> THEN 1 ELSE P[k]
    BY <1>14 DEF r
  <2>7. QED
    BY <1>2, <1>4, <1>5, <1>8, <2>1, <2>2, <2>3, <2>4, <2>5, <2>6, Zenon DEF SliceOf
<1>16. QED
  BY <1>13, <1>15 DEF A, S, E, P

\* The lengths of a slice, as the pattern and as ONNX work them out.
LEMMA SlicedLengths ==
  ASSUME NEW d, d \in Seq(Int), NEW A, NEW S, NEW E, NEW P, NEW axes, NEW steps,
         SliceOf(d, A, S, E, P, axes, steps),
         NEW start, NEW limit, NEW stride, SliceLists(d, A, S, E, P, start, limit, stride)
  PROVE  SlicedDims(d, S, E, axes, steps) = SliceLengths(Len(d), start, limit, stride)
<1> DEFINE r == Len(d)
           sliced == SlicedDims(d, S, E, axes, steps)
<1>1. sliced = [i \in 1 .. r |-> sliced[i]]
  BY DEF SlicedDims
<1>2. ASSUME NEW i \in 1 .. r
      PROVE  /\ start[i] \in Int /\ limit[i] \in Int /\ stride[i] \in Int
             /\ start[i] <= limit[i] /\ stride[i] > 0
             /\ sliced[i] = RoundUp(limit[i] - start[i], stride[i])
  BY SlicedEntry
<1> HIDE DEF sliced, r
<1>3. ASSUME NEW i \in 1 .. r PROVE sliced[i] = SliceLength(start[i], limit[i], stride[i])
  BY <1>2, SliceLengthFacts
<1>4. sliced = SliceLengths(r, start, limit, stride)
  BY <1>1, <1>3 DEF SliceLengths
<1>5. QED
  BY <1>4 DEF sliced, r

\* A slice that lies within its operand.
LEMMA SliceSound ==
  ASSUME NEW x, Tensor(x.type), ~Dynamic(x.type), x.type.elem # "unknown",
         NEW A, NEW S, NEW E, NEW P, NEW axes, NEW steps,
         SliceOf(x.type.dims, A, S, E, P, axes, steps),
         NEW start, NEW limit, NEW stride, SliceLists(x.type.dims, A, S, E, P, start, limit, stride),
         NEW t, t = Type(SlicedDims(x.type.dims, S, E, axes, steps), x.type.elem)
  PROVE  /\ Tensor(t)
         /\ Sound("stablehlo.slice", <<x>>, <<start, limit, stride>>, t)
<1> DEFINE d == x.type.dims
           r == Len(d)
           sliced == SlicedDims(d, S, E, axes, steps)
<1>1. d \in Seq(Int) /\ r \in Nat /\ rank(x.type) = r /\ DOMAIN d = 1 .. r
  BY TensorType
<1>2. /\ SliceLists(d, A, S, E, P, start, limit, stride)
      /\ SliceOf(d, A, S, E, P, axes, steps)
  OBVIOUS
<1>3. sliced = [i \in 1 .. r |-> sliced[i]]
  BY <1>1 DEF SlicedDims
<1>4. t = Type(sliced, x.type.elem)
  OBVIOUS
<1> HIDE DEF d
<1>5. ASSUME NEW i \in 1 .. r
      PROVE  /\ start[i] \in Int /\ limit[i] \in Int /\ stride[i] \in Int
             /\ 0 <= start[i] /\ start[i] <= limit[i] /\ limit[i] <= d[i] /\ stride[i] > 0
             /\ sliced[i] = RoundUp(limit[i] - start[i], stride[i])
  BY <1>2, SlicedEntry
<1> HIDE DEF sliced, r
<1>6. ASSUME NEW i \in 1 .. r
      PROVE  sliced[i] = SliceLength(start[i], limit[i], stride[i]) /\ sliced[i] \in Nat
  BY <1>5, SliceLengthFacts
<1>7. sliced \in Seq(Int) /\ Len(sliced) = r
  <2>1. r \in Nat /\ \A i \in 1 .. r : sliced[i] \in Int
    BY <1>1, <1>6
  <2>2. sliced = [i \in 1 .. r |-> sliced[i]]
    BY <1>3
  <2>3. QED
    BY <2>1, <2>2
<1>8. Tensor(t) /\ t.dims = sliced /\ t.elem = x.type.elem
  BY <1>4, <1>7, TypeTensor
<1>9. Sound("stablehlo.slice", <<x>>, <<start, limit, stride>>, t)
  <2> DEFINE l == <<start, limit, stride>>
             y == x.type
  <2>1. l[1] = start /\ l[2] = limit /\ l[3] = stride
    OBVIOUS
  <2>2. rank(t) = r /\ rank(y) = r /\ DOMAIN y.dims = 1 .. r /\ y.dims = d /\ t.elem = y.elem
    BY <1>1, <1>7, <1>8 DEF rank, d
  <2> HIDE DEF l, y
  <2>3. SliceTypes(y, l[1], l[2], l[3], t)
    BY <1>5, <1>8, <2>1, <2>2 DEF SliceTypes
  <2>4. x.type = y /\ t.elem # "unknown" /\ y.elem # "unknown"
    BY <1>8 DEF y
  <2>5. Sound("stablehlo.slice", <<x>>, l, t)
    BY <2>3, <2>4, SoundOne
  <2>6. QED
    BY <2>5 DEF l
<1>10. QED
  BY <1>8, <1>9

\* Slices.
LEMMA SliceTyped ==
  ASSUME NEW n, n.op_type = "Slice", Ready(n)
  PROVE  \A stray : Treated(n, SliceOpConversion(n, stray))
<1> DEFINE x == Operand(n, 1)
           y == x.type
           r == rank(y)
           S == Numbers(n, 2)
           E == Numbers(n, 3)
           A == SliceAxes(n)
           P == Numbers(n, 5)
           start == Overlaid([i \in 1 .. r |-> 0], A, S)
           limit == Overlaid(y.dims, A, E)
           stride == Overlaid([i \in 1 .. r |-> 1], A, P)
           lengths == [i \in 1 .. r |-> SliceLength(start[i], limit[i], stride[i])]
           t == IF Declared(n).dims # <<>> THEN Declared(n) ELSE Type(lengths, y.elem)
           p == Emit(body, "stablehlo.slice", <<x>>, <<start, limit, stride>>, t)
<1> SUFFICES ASSUME NEW stray PROVE Treated(n, SliceOpConversion(n, stray))
  OBVIOUS
<1> DEFINE Read(s) == [k \in DOMAIN A |-> At(s, k, stray)]
           first == Overlaid([i \in 1 .. r |-> 0], A, Read(S))
           last == Overlaid(y.dims, A, Read(E))
           ranges == [i \in 1 .. r |-> SliceLength(first[i], last[i], stride[i])]
           w == IF Declared(n).dims # <<>> THEN Declared(n) ELSE Type(ranges, y.elem)
           q == Emit(body, "stablehlo.slice", <<x>>, <<first, last, stride>>, w)
<1>0. \/ SliceOpConversion(n, stray) = Failure
      \/ /\ valid(x) /\ Len(S) = Len(E) /\ ToSet(A) \subseteq Axes(y)
         /\ SliceOpConversion(n, stray) = Success(q)
  <2>1. extract_int64s(n, 2) = S /\ extract_int64s(n, 3) = E /\ extract_int64s(n, 5) = P
    BY Decoded
  <2>2. QED
    BY <2>1, Zenon DEF SliceOpConversion
<1>1. Len(S) = Len(E) => q = p
  <2>1. Len(A) = Len(S)
    BY ReadyInputs, AllLapses, AcceptedDeclaring DEF Accepted
  <2>2. S \in Seq(Int) /\ E \in Seq(Int) /\ extract_int64s(n, 4) \in Seq(Int)
    BY ReadyInputs, NumbersFacts
  <2>3. DOMAIN A = 1 .. Len(A)
    BY <2>2, Decoded DEF SliceAxes, AllAxes
  <2> HIDE DEF A, S, E
  <2>4. ASSUME Len(S) = Len(E) PROVE Read(S) = S /\ Read(E) = E
    BY <2>1, <2>2, <2>3, <2>4 DEF At
  <2>5. ASSUME Len(S) = Len(E) PROVE q = p
    <3>1. first = start /\ last = limit
      BY <2>4, <2>5
    <3> HIDE DEF first, last, start, limit
    <3>2. QED
      BY <3>1, Zenon
  <2>6. QED
    BY <2>5
<1> HIDE DEF p, q
<1>2. SUFFICES ASSUME valid(x), Len(S) = Len(E), ToSet(A) \subseteq Axes(y) PROVE TypedOutcome(n, Success(p))
  BY <1>0, <1>1, Zenon DEF Treated
<1>3. 1 \in DOMAIN n.inputs
  BY ReadyInputs, InputKinds
<1>4. Tensor(y) /\ ~Dynamic(y) /\ y.elem # "unknown"
  BY <1>2, <1>3, OperandFacts
<1>5. PICK axes, steps : /\ SliceOf(y.dims, A, S, E, P, axes, steps)
                         /\ OutputDims(n) = SlicedDims(y.dims, S, E, axes, steps)
  <2>1. y = Operand(n, 1).type
    OBVIOUS
  <2> HIDE DEF y
  <2>2. QED
    BY <1>2, <2>1, SliceReads
<1> DEFINE u == Type(SlicedDims(y.dims, S, E, axes, steps), y.elem)
<1>6. /\ Tensor(u)
      /\ Sound("stablehlo.slice", <<x>>, <<start, limit, stride>>, u)
      /\ SlicedDims(y.dims, S, E, axes, steps) = lengths
  <2>1. /\ SliceLists(x.type.dims, A, S, E, P, start, limit, stride)
        /\ u = Type(SlicedDims(x.type.dims, S, E, axes, steps), x.type.elem)
        /\ SliceOf(x.type.dims, A, S, E, P, axes, steps)
        /\ Tensor(x.type) /\ ~Dynamic(x.type) /\ x.type.elem # "unknown"
    <3>1. r = Len(x.type.dims)
      BY <1>4, TensorType
    <3>2. SliceLists(y.dims, A, S, E, P, start, limit, stride)
      <4>1. r = Len(y.dims)
        BY <3>1
      <4> HIDE DEF A, S, E, P, y, x, r
      <4>2. QED
        BY <4>1 DEF SliceLists
    <3>3. QED
      BY <1>4, <1>5, <3>2
  <2> HIDE DEF start, limit, stride, u, A, S, E, P, x
  <2>2. /\ Tensor(u)
        /\ Sound("stablehlo.slice", <<x>>, <<start, limit, stride>>, u)
        /\ SlicedDims(x.type.dims, S, E, axes, steps)
             = SliceLengths(rank(x.type), start, limit, stride)
    <3>1. Tensor(u)
      BY <2>1, SliceSound
    <3>2. Sound("stablehlo.slice", <<x>>, <<start, limit, stride>>, u)
      BY <2>1, SliceSound
    <3>3. SlicedDims(x.type.dims, S, E, axes, steps) = SliceLengths(rank(x.type), start, limit, stride)
      <4> DEFINE d == x.type.dims
      <4>1. d \in Seq(Int) /\ rank(x.type) = Len(d)
        BY <2>1, TensorType
      <4>2. SliceOf(d, A, S, E, P, axes, steps) /\ SliceLists(d, A, S, E, P, start, limit, stride)
        BY <2>1
      <4> HIDE DEF d
      <4>3. SlicedDims(d, S, E, axes, steps) = SliceLengths(Len(d), start, limit, stride)
        BY <4>1, <4>2, SlicedLengths
      <4>4. QED
        BY <4>1, <4>3 DEF d
    <3>4. QED
      BY <3>1, <3>2, <3>3
  <2>3. QED
    BY <2>2 DEF SliceLengths
<1> HIDE DEF x, start, limit, stride, lengths, A, S, E, P
<1>7. t = u /\ u.dims = OutputDims(n)
  <2>1. u.dims = OutputDims(n)
    BY <1>5, TypeFields
  <2>2. CASE Declared(n).dims # <<>>
    BY <2>2, DeclaredFacts, <1>5, <2>1 DEF Declaring, x
  <2>3. CASE Declared(n).dims = <<>>
    BY <1>6, <2>1, <2>3
  <2>4. QED
    BY <2>2, <2>3
<1> HIDE DEF t, u
<1>8. Makes(p, u)
  <2>1. TypedBody(body)
    BY ReadyInputs
  <2> DEFINE l == <<start, limit, stride>>
  <2>2. p = Emit(body, "stablehlo.slice", <<x>>, l, u)
    BY <1>7 DEF p
  <2>3. Sound("stablehlo.slice", <<x>>, l, u)
    BY <1>6
  <2> HIDE DEF l
  <2>4. QED
    BY <2>1, <2>2, <2>3, EmitMakes
<1>9. \A k \in Reads(n) : valid(Operand(n, k))
  BY <1>2 DEF Reads, x
<1>10. QED
  BY <1>6, <1>7, <1>8, <1>9, SuccessTyped

\* A list of one integer.
LEMMA OneEntry ==
  ASSUME NEW w \in Seq(Int), Len(w) = 1, NEW e, w[1] = e
  PROVE  e \in Int /\ w = <<e>>
<1>1. w[1] \in Int /\ DOMAIN w = 1 .. 1
  OBVIOUS
<1>2. w = <<w[1]>>
  BY <1>1
<1>3. QED
  BY <1>1, <1>2

\* Two lists joined.
LEMMA JoinedEntries ==
  ASSUME NEW p \in Seq(Int), NEW q \in Seq(Int)
  PROVE  /\ p \o q \in Seq(Int) /\ Len(p \o q) = Len(p) + Len(q)
         /\ DOMAIN (p \o q) = 1 .. Len(p) + Len(q)
         /\ \A i \in 1 .. Len(p) : (p \o q)[i] = p[i]
         /\ \A i \in 1 .. Len(q) : (p \o q)[Len(p) + i] = q[i]
<1>1. p \o q \in Seq(Int) /\ Len(p \o q) = Len(p) + Len(q) /\ Len(p) \in Nat /\ Len(q) \in Nat
  OBVIOUS
<1>2. \A i \in 1 .. Len(p) + Len(q) : (p \o q)[i] = IF i <= Len(p) THEN p[i] ELSE q[i - Len(p)]
  OBVIOUS
<1>3. DOMAIN (p \o q) = 1 .. Len(p) + Len(q)
  BY <1>1
<1>4. ASSUME NEW i \in 1 .. Len(p) PROVE (p \o q)[i] = p[i]
  BY <1>1, <1>2
<1>5. ASSUME NEW i \in 1 .. Len(q) PROVE (p \o q)[Len(p) + i] = q[i]
  BY <1>1, <1>2
<1>6. QED
  BY <1>1, <1>3, <1>4, <1>5

\* The first m entries of a sequence.
Upto(s, m) == [i \in 1 .. m |-> s[i]]

\* A prefix in two pieces.
Pieces(s, m, b, p, q) ==
  /\ s \in Seq(Int) /\ m \in Nat /\ m <= Len(s) /\ b \in Nat /\ b <= m
  /\ p \in Seq(Int) /\ Len(p) = b /\ \A i \in 1 .. b : p[i] = s[i]
  /\ q \in Seq(Int) /\ Len(q) = m - b /\ \A i \in 1 .. m - b : q[i] = s[b + i]

\* Joined, they are the prefix.
LEMMA UptoSplit ==
  ASSUME NEW s, NEW m, NEW b, NEW p, NEW q, Pieces(s, m, b, p, q)
  PROVE  p \o q = Upto(s, m) /\ Upto(s, m) \in Seq(Int) /\ Len(Upto(s, m)) = m
<1>0. /\ s \in Seq(Int) /\ m \in Nat /\ m <= Len(s) /\ b \in Nat /\ b <= m
      /\ p \in Seq(Int) /\ Len(p) = b /\ \A i \in 1 .. b : p[i] = s[i]
      /\ q \in Seq(Int) /\ Len(q) = m - b /\ \A i \in 1 .. m - b : q[i] = s[b + i]
  BY DEF Pieces
<1>1. Upto(s, m) \in Seq(Int) /\ Len(Upto(s, m)) = m /\ \A i \in 1 .. m : Upto(s, m)[i] = s[i]
  BY <1>0 DEF Upto
<1>2. /\ p \o q \in Seq(Int) /\ Len(p \o q) = m
      /\ \A i \in 1 .. m : (p \o q)[i] = IF i <= b THEN p[i] ELSE q[i - b]
  <2>1. p \in Seq(Int) /\ q \in Seq(Int) /\ Len(p) = b /\ Len(q) = m - b /\ b \in Nat /\ m \in Nat
    BY <1>0
  <2>2. p \o q \in Seq(Int) /\ Len(p \o q) = m
    BY <2>1
  <2>3. \A i \in 1 .. Len(p) + Len(q) : (p \o q)[i] = IF i <= Len(p) THEN p[i] ELSE q[i - Len(p)]
    BY <2>1
  <2>4. Len(p) + Len(q) = m
    BY <2>1
  <2>5. QED
    BY <2>1, <2>2, <2>3, <2>4
<1>3. ASSUME NEW i \in 1 .. m PROVE (p \o q)[i] = s[i]
  <2>1. CASE i <= b
    BY <1>0, <1>2, <2>1
  <2>2. CASE ~(i <= b)
    <3>1. i - b \in 1 .. m - b /\ b + (i - b) = i
      BY <1>0, <2>2
    <3>2. q[i - b] = s[b + (i - b)]
      BY <1>0, <3>1
    <3>3. QED
      BY <1>2, <2>2, <3>1, <3>2
  <2>3. QED
    BY <2>1, <2>2
<1> DEFINE u == Upto(s, m)
           v == p \o q
<1>4. u \in Seq(Int) /\ v \in Seq(Int) /\ Len(v) = Len(u) /\ \A i \in 1 .. Len(v) : v[i] = u[i]
  BY <1>1, <1>2, <1>3
<1> HIDE DEF u, v
<1>5. v = u
  BY <1>4, SameEntries
<1>6. QED
  BY <1>1, <1>5 DEF u, v

\* What is left of the operands of a matrix product with b batch axes.
LEMMA DotOperands ==
  ASSUME NEW x, x.dims \in Seq(Int), rank(x) >= 1, NEW y, y.dims \in Seq(Int), rank(y) >= 1,
         NEW b \in Nat, b <= rank(x) - 1, IF rank(y) = 1 THEN b = 0 ELSE b = rank(y) - 2,
         NEW S, S = {i \in Int : 0 <= i /\ i < b}
  PROVE  /\ Upto(x.dims, b) \o Without(x, S \cup {rank(x) - 1}) = Upto(x.dims, rank(x) - 1)
         /\ Upto(x.dims, rank(x) - 1) \in Seq(Int)
         /\ Without(y, S \cup {Larger(0, rank(y) - 2)})
              = IF rank(y) > 1 THEN <<y.dims[rank(y)]>> ELSE <<>>
<1> DEFINE r == rank(x)
           s == rank(y)
           T == S \cup {r - 1}
           U == S \cup {Larger(0, s - 2)}
<1>1. r \in Nat /\ s \in Nat /\ r = Len(x.dims) /\ s = Len(y.dims) /\ r >= 1 /\ s >= 1
  BY DEF rank
<1> HIDE DEF r, s
<1>2. b <= r - 1 /\ IF s = 1 THEN b = 0 ELSE b = s - 2
  BY DEF r, s
<1>3. \A n \in 0 .. r - 1 : n \notin T <=> b <= n /\ n < b + (r - 1 - b)
  BY <1>1, <1>2
<1>4. /\ OtherAxes(r, T) \in Seq(Int) /\ Len(OtherAxes(r, T)) = r - 1 - b
      /\ DOMAIN OtherAxes(r, T) = 1 .. r - 1 - b
      /\ \A i \in 1 .. r - 1 - b : OtherAxes(r, T)[i] = b + i - 1
  <2> DEFINE len == r - 1 - b
  <2>1. len \in Nat /\ b + len <= r /\ \A n \in 0 .. r - 1 : n \notin T <=> b <= n /\ n < b + len
    BY <1>1, <1>2, <1>3
  <2> HIDE DEF len, T
  <2>11. Block(r, T, b, len)
    BY <1>1, <2>1 DEF Block
  <2>2. /\ OtherAxes(r, T) \in Seq(Int) /\ Len(OtherAxes(r, T)) = len
        /\ DOMAIN OtherAxes(r, T) = 1 .. len
        /\ \A i \in 1 .. len : OtherAxes(r, T)[i] = b + i - 1
    BY <2>11, OtherAxesBlock DEF CountsFrom
  <2>3. QED
    BY <2>2 DEF len
<1> HIDE DEF T
<1>5. /\ Without(x, T) \in Seq(Int) /\ Len(Without(x, T)) = r - 1 - b
      /\ \A i \in 1 .. r - 1 - b : Without(x, T)[i] = x.dims[b + i]
  <2>1. /\ Without(x, T) \in Seq(Int)
        /\ Len(Without(x, T)) = Len(OtherAxes(r, T))
        /\ \A i \in DOMAIN OtherAxes(r, T) : Without(x, T)[i] = Dim(x, OtherAxes(r, T)[i])
    BY WithoutFacts DEF r
  <2>2. ASSUME NEW i \in 1 .. r - 1 - b PROVE Without(x, T)[i] = x.dims[b + i]
    <3>1. Without(x, T)[i] = x.dims[(b + i - 1) + 1]
      BY <1>4, <2>1 DEF Dim
    <3>2. (b + i - 1) + 1 = b + i
      OBVIOUS
    <3>3. QED
      BY <3>1, <3>2
  <2>3. QED
    BY <1>4, <2>1, <2>2
<1>6. Upto(x.dims, b) \in Seq(Int) /\ Len(Upto(x.dims, b)) = b /\ \A i \in 1 .. b : Upto(x.dims, b)[i] = x.dims[i]
  BY <1>1, <1>2 DEF Upto
<1>7. /\ Upto(x.dims, b) \o Without(x, T) = Upto(x.dims, r - 1)
      /\ Upto(x.dims, r - 1) \in Seq(Int)
  <2> DEFINE p == Upto(x.dims, b)
             q == Without(x, T)
             d == x.dims
             m == r - 1
  <2>1. /\ p \in Seq(Int) /\ Len(p) = b /\ \A i \in 1 .. b : p[i] = d[i]
        /\ q \in Seq(Int) /\ Len(q) = m - b /\ \A i \in 1 .. m - b : q[i] = d[b + i]
        /\ m \in Nat /\ m <= Len(d) /\ d \in Seq(Int) /\ b <= m
    BY <1>1, <1>2, <1>5, <1>6
  <2> HIDE DEF p, q, d, m
  <2>11. Pieces(d, m, b, p, q)
    BY <2>1 DEF Pieces
  <2>2. p \o q = Upto(d, m) /\ Upto(d, m) \in Seq(Int)
    BY <2>11, UptoSplit
  <2>3. QED
    BY <2>2 DEF p, q, d, m
<1>8. Without(y, U) = IF s > 1 THEN <<y.dims[s]>> ELSE <<>>
  <2> DEFINE w == Without(y, U)
             c == OtherAxes(s, U)
  <2>1. /\ w \in Seq(Int) /\ Len(w) = Len(c) /\ DOMAIN w = DOMAIN c
        /\ \A i \in DOMAIN c : w[i] = Dim(y, c[i])
    BY WithoutFacts DEF s
  <2>2. CASE s = 1
    <3>1. \A n \in 0 .. s - 1 : n \notin U <=> 0 <= n /\ n < 0 + 0
      BY <2>2 DEF Larger
    <3> HIDE DEF U
    <3>11. Block(s, U, 0, 0)
      BY <1>1, <3>1 DEF Block
    <3>2. Len(c) = 0
      BY <3>11, OtherAxesBlock DEF CountsFrom
    <3> HIDE DEF w, c
    <3>3. w = <<>>
      BY <2>1, <3>2
    <3>4. QED
      BY <2>2, <3>3 DEF w
  <2>3. CASE s # 1
    <3>1. s >= 2 /\ b = s - 2
      BY <1>1, <1>2, <2>3
    <3> DEFINE lo == s - 1
    <3>2. lo \in Nat /\ lo + 1 <= s /\ \A n \in 0 .. s - 1 : n \notin U <=> lo <= n /\ n < lo + 1
      BY <1>1, <3>1 DEF Larger
    <3> HIDE DEF U, lo
    <3>4. Len(c) = 1 /\ DOMAIN c = 1 .. 1 /\ \A i \in 1 .. 1 : c[i] = lo + i - 1
      <4>1. Block(s, U, lo, 1)
        BY <1>1, <3>2 DEF Block
      <4>2. CountsFrom(OtherAxes(s, U), lo, 1)
        BY <4>1, OtherAxesBlock, Zenon
      <4>3. QED
        BY <4>2 DEF CountsFrom
    <3> HIDE DEF w, c
    <3>5. w[1] = y.dims[s]
      BY <3>2, <3>4, <2>1, <1>1 DEF Dim, lo
    <3>6. w = <<y.dims[s]>>
      <4>1. w \in Seq(Int) /\ Len(w) = 1
        BY <2>1, <3>4
      <4>2. QED
        BY <3>5, <4>1, OneEntry, Zenon
    <3>7. s > 1
      BY <1>1, <3>1
    <3>8. Without(y, U) = <<y.dims[s]>>
      BY <3>6 DEF w
    <3> HIDE DEF w
    <3>9. QED
      BY <3>7, <3>8
  <2>4. QED
    BY <2>2, <2>3
<1>9. QED
  BY <1>7, <1>8 DEF r, s, T, U

\* The batch dimensions of a shape.
Batched(d) == SubSeq(d, 1, Len(d) - 2)

\* They are a prefix.
LEMMA BatchedIs ==
  ASSUME NEW d \in Seq(Int), Len(d) >= 1
  PROVE  /\ Batched(d) = Upto(d, Larger(0, Len(d) - 2))
         /\ Batched(d) \in Seq(Int) /\ Len(Batched(d)) = Larger(0, Len(d) - 2)
         /\ Larger(0, Len(d) - 2) \in Nat /\ Larger(0, Len(d) - 2) <= Len(d)
         /\ \A i \in 1 .. Larger(0, Len(d) - 2) : Batched(d)[i] = d[i]
<1> DEFINE m == Larger(0, Len(d) - 2)
           u == SubSeq(d, 1, Len(d) - 2)
           v == Upto(d, m)
<1>1. m \in Nat /\ m <= Len(d) /\ (m = 0 \/ m = Len(d) - 2) /\ Len(d) \in Nat /\ Len(d) - 2 <= m
  BY DEF Larger
<1> HIDE DEF m
<1>2. v \in Seq(Int) /\ Len(v) = m /\ \A i \in 1 .. m : v[i] = d[i]
  BY <1>1 DEF Upto
<1>3. u \in Seq(Int) /\ Len(u) = m /\ \A i \in 1 .. m : u[i] = d[i]
  <2>1. CASE m = Len(d) - 2
    BY <1>1, <2>1
  <2>2. CASE m = 0 /\ m # Len(d) - 2
    <3>1. Len(d) - 2 < 1 /\ Len(d) - 2 \in Int
      BY <1>1, <2>2
    <3>2. \A i \in 1 .. Len(d) - 2 : d[i] \in Int
      BY <3>1
    <3>3. u \in Seq(Int) /\ Len(u) = 0
      BY <3>1, <3>2
    <3> HIDE DEF u
    <3>4. QED
      BY <2>2, <3>3
  <2>3. QED
    BY <1>1, <2>1, <2>2
<1> HIDE DEF u, v
<1>4. u = v
  BY <1>2, <1>3, SameEntries
<1>5. Batched(d) = u
  BY DEF Batched, u
<1>6. QED
  BY <1>1, <1>3, <1>4, <1>5 DEF m, v

\* Equal batches, or none on the right, broadcast to those of the left.
LEMMA BatchBroadcast ==
  ASSUME NEW a \in Seq(Int), NEW b \in Seq(Int), a = b \/ b = <<>>
  PROVE  BroadcastDims(a, b) = a
<1> DEFINE r == Larger(Len(a), Len(b))
           d == BroadcastDims(a, b)
           Both(i) == IF PaddedDim(a, i, r) = 1 THEN PaddedDim(b, i, r) ELSE PaddedDim(a, i, r)
<1>1. r = Len(a) /\ Len(a) \in Nat
  <2>1. CASE a = b
    BY <2>1 DEF Larger
  <2>2. CASE b = <<>>
    BY <2>2 DEF Larger
  <2>3. QED
    BY <2>1, <2>2
<1>2. d = [i \in 1 .. r |-> Both(i)]
  <2>1. BroadcastDims(a, b) = [i \in 1 .. r |-> Both(i)]
    BY Zenon DEF BroadcastDims, PaddedDim
  <2>2. QED
    BY <2>1
<1>3. ASSUME NEW i \in 1 .. r PROVE Both(i) = a[i]
  <2> HIDE DEF r
  <2>1. PaddedDim(a, i, r) = a[i]
    BY <1>1 DEF PaddedDim
  <2>2. CASE a = b
    BY <2>1, <2>2
  <2>3. CASE b = <<>>
    BY <2>3, <1>1, <2>1 DEF PaddedDim
  <2>4. QED
    BY <2>2, <2>3
<1> HIDE DEF r, d, Both
<1>4. DOMAIN d = 1 .. r /\ \A i \in 1 .. r : d[i] = a[i]
  BY <1>2, <1>3
<1>5. a = d
  BY <1>1, <1>2, <1>3
<1>6. QED
  BY <1>5 DEF d

\* The last dimension of the right operand of a matrix product, if it has columns.
Columns(e) == IF Len(e) > 1 THEN <<e[Len(e)]>> ELSE <<>>

\* A row more, or none.
LEMMA RowsUpto ==
  ASSUME NEW d \in Seq(Int), Len(d) >= 1, NEW m, m = Larger(0, Len(d) - 2)
  PROVE  Upto(d, m) \o (IF Len(d) > 1 THEN <<d[Len(d) - 1]>> ELSE <<>>) = Upto(d, Len(d) - 1)
<1> DEFINE p == Upto(d, m)
           q == IF Len(d) > 1 THEN <<d[Len(d) - 1]>> ELSE <<>>
           k == Len(d) - 1
<1>1. /\ Len(d) \in Nat /\ m \in Nat /\ m <= k /\ k \in Nat /\ k <= Len(d)
      /\ Len(d) > 1 => m = k - 1
      /\ ~(Len(d) > 1) => m = 0 /\ k = 0
  <2> DEFINE l == Len(d)
  <2>1. l \in Nat /\ l >= 1 /\ m = Larger(0, l - 2) /\ k = l - 1
    OBVIOUS
  <2> HIDE DEF l, k
  <2>2. QED
    BY <2>1 DEF Larger, l
<1>2. p \in Seq(Int) /\ Len(p) = m /\ \A i \in 1 .. m : p[i] = d[i]
  BY <1>1 DEF Upto
<1>3. q \in Seq(Int) /\ Len(q) = k - m /\ \A i \in 1 .. k - m : q[i] = d[m + i]
  <2>1. CASE Len(d) > 1
    <3> DEFINE e == d[Len(d) - 1]
    <3>1. e \in Int /\ q = <<e>> /\ k - m = 1 /\ d[m + 1] = e
      BY <1>1, <2>1
    <3> HIDE DEF e, q, k
    <3>2. q \in Seq(Int) /\ Len(q) = 1 /\ q[1] = e
      BY <3>1
    <3>3. \A i \in 1 .. k - m : i = 1
      BY <3>1
    <3>4. QED
      BY <3>1, <3>2, <3>3
  <2>2. CASE ~(Len(d) > 1)
    <3>1. q = <<>> /\ k - m = 0
      BY <1>1, <2>2
    <3> HIDE DEF q, k
    <3>2. q \in Seq(Int) /\ Len(q) = 0
      BY <3>1
    <3>3. QED
      BY <3>1, <3>2
  <2>3. QED
    BY <2>1, <2>2
<1> HIDE DEF p, q, k
<1>4. Pieces(d, k, m, p, q)
  BY <1>1, <1>2, <1>3 DEF Pieces
<1>5. p \o q = Upto(d, k)
  BY <1>4, UptoSplit
<1>6. QED
  BY <1>5 DEF p, q, k

\* The shape of a product of accepted operands.
LEMMA ProductIs ==
  ASSUME NEW d \in Seq(Int), Len(d) >= 1, NEW e \in Seq(Int), Len(e) >= 1,
         Len(e) <= 2 \/ Batched(d) = Batched(e)
  PROVE  ProductDims(d, e) = Upto(d, Len(d) - 1) \o Columns(e)
<1> DEFINE m == Larger(0, Len(d) - 2)
           rows == IF Len(d) > 1 THEN <<d[Len(d) - 1]>> ELSE <<>>
<1>1. Batched(d) \in Seq(Int) /\ Batched(e) \in Seq(Int) /\ Batched(d) = Upto(d, m)
  BY BatchedIs
<1>2. Len(e) <= 2 => Batched(e) = <<>>
  <2>1. Batched(e) \in Seq(Int) /\ Len(Batched(e)) = Larger(0, Len(e) - 2)
    BY BatchedIs
  <2>2. Len(e) <= 2 => Larger(0, Len(e) - 2) = 0
    <3> DEFINE l == Len(e)
    <3>1. l \in Nat
      OBVIOUS
    <3> HIDE DEF l
    <3>2. l <= 2 => Larger(0, l - 2) = 0
      BY <3>1 DEF Larger
    <3>3. QED
      BY <3>2 DEF l
  <2>3. QED
    BY <2>1, <2>2
<1>3. BroadcastDims(Batched(d), Batched(e)) = Upto(d, m)
  BY <1>1, <1>2, BatchBroadcast, Zenon
<1>4. Columns(e) = IF Len(e) > 1 THEN <<Last(e)>> ELSE <<>>
  BY DEF Columns, Last
<1>5. ProductDims(d, e) = (BroadcastDims(Batched(d), Batched(e)) \o rows) \o Columns(e)
  BY <1>4 DEF ProductDims, Batched
<1>6. Upto(d, m) \o rows = Upto(d, Len(d) - 1)
  BY RowsUpto
<1>7. QED
  BY <1>3, <1>5, <1>6

\* The axes below b and one more.
LEMMA AxesJoined ==
  ASSUME NEW b \in Nat, NEW k \in Int, b <= k, NEW t, k \in Axes(t),
         NEW S, S = {i \in Int : 0 <= i /\ i < b}
  PROVE  /\ ToSet(AllAxes(b) \o <<k>>) = S \cup {k}
         /\ ToSet(AllAxes(b) \o <<k>>) \subseteq Axes(t)
         /\ Distinct(AllAxes(b) \o <<k>>)
<1> DEFINE p == AllAxes(b)
           q == <<k>>
           s == p \o q
<1>1. p \in Seq(Int) /\ Len(p) = b /\ \A i \in 1 .. b : p[i] = i - 1
  BY DEF AllAxes
<1>2. q \in Seq(Int) /\ Len(q) = 1 /\ q[1] = k
  OBVIOUS
<1> HIDE DEF p, q
<1>3. /\ s \in Seq(Int) /\ Len(s) = b + 1 /\ DOMAIN s = 1 .. b + 1
      /\ \A i \in 1 .. b : s[i] = i - 1
      /\ s[b + 1] = k
  <2>1. p \in Seq(Int) /\ q \in Seq(Int) /\ Len(p) = b /\ Len(q) = 1
    BY <1>1, <1>2
  <2>2. /\ s \in Seq(Int) /\ Len(s) = Len(p) + Len(q) /\ DOMAIN s = 1 .. Len(p) + Len(q)
        /\ \A i \in 1 .. Len(p) : s[i] = p[i]
        /\ \A i \in 1 .. Len(q) : s[Len(p) + i] = q[i]
    BY <2>1, JoinedEntries, Zenon
  <2> HIDE DEF s
  <2>3. QED
    BY <1>1, <1>2, <2>1, <2>2
<1> HIDE DEF s
<1>4. ToSet(s) = S \cup {k}
  <2>1. ToSet(s) = {s[i] : i \in 1 .. b + 1}
    BY <1>3 DEF ToSet
  <2>2. ASSUME NEW i \in 1 .. b + 1 PROVE s[i] \in S \cup {k}
    <3>1. CASE i = b + 1
      BY <1>3, <3>1
    <3>2. CASE i # b + 1
      BY <3>2, <1>3
    <3>3. QED
      BY <3>1, <3>2
  <2>3. k \in ToSet(s)
    BY <1>3, <2>1
  <2>4. ASSUME NEW j \in S PROVE j \in ToSet(s)
    <3>1. j + 1 \in 1 .. b /\ j + 1 \in 1 .. b + 1 /\ j + 1 - 1 = j
      OBVIOUS
    <3>2. s[j + 1] = j
      BY <1>3, <3>1
    <3>3. QED
      BY <2>1, <3>1, <3>2
  <2>5. QED
    BY <2>1, <2>2, <2>3, <2>4
<1>5. S \cup {k} \subseteq Axes(t)
  BY DEF Axes, rank
<1>6. \A i, j \in DOMAIN s : s[i] = s[j] => i = j
  BY <1>3, SMTT(30)
<1>7. Distinct(s)
  BY <1>6 DEF Distinct, IsInjective
<1>8. QED
  BY <1>4, <1>5, <1>7 DEF s, p, q

\* The dialect's rule for products, with the first b axes for batches.
LEMMA DotFits ==
  ASSUME NEW x, Tensor(x), rank(x) >= 1, NEW y, Tensor(y), y.elem = x.elem, rank(y) >= 1,
         x.dims[rank(x)] = Dim(y, Larger(0, rank(y) - 2)),
         NEW b \in Nat, b <= rank(x) - 1, IF rank(y) = 1 THEN b = 0 ELSE b = rank(y) - 2,
         \A i \in 1 .. b : x.dims[i] = y.dims[i],
         NEW t, t = Type(Upto(x.dims, rank(x) - 1) \o Columns(y.dims), x.elem)
  PROVE  DotTypes(x, y, AllAxes(b), AllAxes(b), <<rank(x) - 1>>, <<Larger(0, rank(y) - 2)>>, t)
<1> DEFINE lb == AllAxes(b)
           kx == rank(x) - 1
           ky == Larger(0, rank(y) - 2)
           S == {i \in Int : 0 <= i /\ i < b}
<1>1. rank(x) \in Nat /\ rank(y) \in Nat /\ x.dims \in Seq(Int) /\ y.dims \in Seq(Int)
  BY TensorType
<1>2. kx \in Int /\ ky \in Int /\ b <= kx /\ b <= ky /\ kx \in Axes(x) /\ ky \in Axes(y)
  BY <1>1 DEF Larger, Axes
<1>3. lb \in Seq(Int) /\ Len(lb) = b /\ DOMAIN lb = 1 .. b /\ \A i \in 1 .. b : lb[i] = i - 1
  BY DEF AllAxes
<1>4. /\ t.elem = x.elem
      /\ t.dims = Upto(x.dims, rank(x) - 1) \o Columns(y.dims)
  <2> DEFINE d == Upto(x.dims, rank(x) - 1) \o Columns(y.dims)
  <2>1. t = Type(d, x.elem)
    OBVIOUS
  <2> HIDE DEF d
  <2>2. Type(d, x.elem).dims = d /\ Type(d, x.elem).elem = x.elem
    BY TypeFields
  <2>3. t.dims = d /\ t.elem = x.elem
    BY <2>1, <2>2
  <2>4. QED
    BY <2>3 DEF d
<1>5. /\ Upto(x.dims, b) \o Without(x, S \cup {kx}) = Upto(x.dims, rank(x) - 1)
      /\ Without(y, S \cup {ky}) = Columns(y.dims)
  <2>0. S = {i \in Int : 0 <= i /\ i < b}
    OBVIOUS
  <2> HIDE DEF S
  <2>1. /\ Upto(x.dims, b) \o Without(x, S \cup {kx}) = Upto(x.dims, rank(x) - 1)
        /\ Without(y, S \cup {ky}) = IF rank(y) > 1 THEN <<y.dims[rank(y)]>> ELSE <<>>
    BY <1>1, <2>0, DotOperands
  <2>2. QED
    BY <2>1 DEF Columns, rank
<1>6. [i \in DOMAIN lb |-> Dim(x, lb[i])] = Upto(x.dims, b)
  <2>1. \A i \in 1 .. b : Dim(x, lb[i]) = x.dims[i]
    BY <1>3 DEF Dim
  <2> HIDE DEF lb
  <2>2. QED
    BY <1>3, <2>1 DEF Upto
<1> HIDE DEF kx, ky, S, lb
<1>7. /\ ToSet(lb \o <<kx>>) = S \cup {kx} /\ ToSet(lb \o <<kx>>) \subseteq Axes(x)
      /\ Distinct(lb \o <<kx>>)
  BY <1>2, AxesJoined DEF S, lb
<1>8. /\ ToSet(lb \o <<ky>>) = S \cup {ky} /\ ToSet(lb \o <<ky>>) \subseteq Axes(y)
      /\ Distinct(lb \o <<ky>>)
  BY <1>2, AxesJoined DEF S, lb
<1>9. \A i \in DOMAIN lb : Dim(x, lb[i]) = Dim(y, lb[i])
  BY <1>3 DEF Dim
<1> DEFINE lc == <<kx>>
           rc == <<ky>>
<1>10. \A i \in DOMAIN lc : Dim(x, lc[i]) = Dim(y, rc[i])
  <2>1. Dim(x, kx) = Dim(y, ky)
    BY <1>1 DEF kx, Dim, ky
  <2>2. DOMAIN lc = {1} /\ lc[1] = kx /\ rc[1] = ky
    BY <1>2
  <2> HIDE DEF lc, rc
  <2>3. QED
    BY <2>1, <2>2
<1>11. t.dims = [i \in DOMAIN lb |-> Dim(x, lb[i])]
                  \o Without(x, ToSet(lb \o lc)) \o Without(y, ToSet(lb \o rc))
  BY <1>4, <1>5, <1>6, <1>7, <1>8
<1> HIDE DEF lc, rc
<1>12. DotTypes(x, y, lb, lb, lc, rc, t)
  BY <1>4, <1>7, <1>8, <1>9, <1>10, <1>11 DEF DotTypes, lc, rc
<1>13. QED
  BY <1>12 DEF lb, kx, ky, lc, rc

\* The type of a matrix product.
ProductType(x, y) == Type(Upto(x.dims, rank(x) - 1) \o Columns(y.dims), x.elem)

\* Operands of a matrix product of which the first b axes are batches.
Contracts(x, y, b) ==
  /\ Tensor(x) /\ x.elem # "unknown" /\ rank(x) >= 1
  /\ Tensor(y) /\ y.elem = x.elem /\ rank(y) >= 1
  /\ x.dims[rank(x)] = Dim(y, Larger(0, rank(y) - 2))
  /\ b \in Nat /\ b <= rank(x) - 1 /\ IF rank(y) = 1 THEN b = 0 ELSE b = rank(y) - 2
  /\ \A i \in 1 .. b : x.dims[i] = y.dims[i]

\* The dialect accepts such a product.
LEMMA ProductMakes ==
  ASSUME TypedBody(body), NEW x, NEW y, NEW b, Contracts(x.type, y.type, b),
         NEW t, t = ProductType(x.type, y.type)
  PROVE  /\ Tensor(t)
         /\ Makes(Emit(body, "stablehlo.dot_general", <<x, y>>,
                       <<AllAxes(b), AllAxes(b), <<rank(x.type) - 1>>,
                         <<Larger(0, rank(y.type) - 2)>>>>, t), t)
<1> DEFINE tx == x.type
           ty == y.type
           d == Upto(tx.dims, rank(tx) - 1) \o Columns(ty.dims)
           l == <<AllAxes(b), AllAxes(b), <<rank(tx) - 1>>, <<Larger(0, rank(ty) - 2)>>>>
<1>1. /\ Tensor(tx) /\ tx.elem # "unknown" /\ rank(tx) >= 1
      /\ Tensor(ty) /\ ty.elem = tx.elem /\ rank(ty) >= 1
      /\ tx.dims[rank(tx)] = Dim(ty, Larger(0, rank(ty) - 2))
      /\ b \in Nat /\ b <= rank(tx) - 1 /\ IF rank(ty) = 1 THEN b = 0 ELSE b = rank(ty) - 2
      /\ \A i \in 1 .. b : tx.dims[i] = ty.dims[i]
  BY Zenon DEF Contracts
<1>2. t = Type(d, tx.elem)
  BY DEF ProductType
<1> HIDE DEF tx, ty
<1>3. DotTypes(tx, ty, AllAxes(b), AllAxes(b), <<rank(tx) - 1>>, <<Larger(0, rank(ty) - 2)>>, t)
  BY <1>1, <1>2, DotFits
<1>4. d \in Seq(Int)
  <2>1. rank(tx) \in Nat /\ rank(tx) = Len(tx.dims) /\ tx.dims \in Seq(Int)
        /\ rank(ty) = Len(ty.dims) /\ ty.dims \in Seq(Int)
    BY <1>1, TensorType
  <2>2. Upto(tx.dims, rank(tx) - 1) \in Seq(Int)
    BY <1>1, <2>1 DEF Upto
  <2>3. Columns(ty.dims) \in Seq(Int)
    <3>1. CASE Len(ty.dims) > 1
      <4> DEFINE e == ty.dims[Len(ty.dims)]
      <4>1. e \in Int
        BY <2>1, <3>1
      <4> HIDE DEF e
      <4>2. <<e>> \in Seq(Int)
        BY <4>1
      <4>3. QED
        BY <3>1, <4>2 DEF Columns, e
    <3>2. CASE ~(Len(ty.dims) > 1)
      BY <3>2 DEF Columns
    <3>3. QED
      BY <3>1, <3>2
  <2>4. QED
    BY <2>2, <2>3
<1> HIDE DEF d
<1>5. Tensor(t) /\ t.elem = tx.elem
  BY <1>2, <1>4, TypeTensor
<1>6. l[1] = AllAxes(b) /\ l[2] = AllAxes(b) /\ l[3] = <<rank(tx) - 1>> /\ l[4] = <<Larger(0, rank(ty) - 2)>>
  OBVIOUS
<1> HIDE DEF l
<1>7. DotTypes(tx, ty, l[1], l[2], l[3], l[4], t)
  BY <1>3, <1>6
<1>8. Sound("stablehlo.dot_general", <<x, y>>, l, t)
  BY <1>1, <1>5, <1>7, SoundTwo DEF tx, ty
<1>9. Makes(Emit(body, "stablehlo.dot_general", <<x, y>>, l, t), t)
  BY <1>8, EmitMakes
<1>10. QED
  BY <1>5, <1>9 DEF l, tx, ty

\* What is known of a matrix product whose operands are there.
LEMMA MatMulFacts ==
  ASSUME NEW n, n.op_type = "MatMul", Ready(n), valid(Operand(n, 1)), valid(Operand(n, 2)),
         NEW x, x = Operand(n, 1).type, NEW y, y = Operand(n, 2).type
  PROVE  /\ Tensor(x) /\ x.elem # "unknown" /\ rank(x) >= 1
         /\ Tensor(y) /\ y.elem = x.elem /\ rank(y) >= 1
         /\ x.dims[rank(x)] = Dim(y, Larger(0, rank(y) - 2))
         /\ \/ ~(rank(y) > 2) /\ (~(rank(x) > 2) \/ Declared(n).dims # <<>>)
            \/ rank(x) = rank(y) /\ Batched(x.dims) = Batched(y.dims)
         /\ OutputDims(n) = ProductType(x, y).dims
         /\ Declared(n).dims # <<>> => Declared(n) = ProductType(x, y)
         /\ \A k \in Reads(n) : valid(Operand(n, k))
<1>1. {1, 2} \subseteq DOMAIN n.inputs
  BY ReadyInputs, InputKinds
<1>2. Tensor(x) /\ x.elem # "unknown" /\ Tensor(y)
  BY <1>1, OperandFacts
<1>3. /\ rank(x) >= 1 /\ rank(y) >= 1 /\ x.elem = y.elem
      /\ x.dims[rank(x)] = Dim(y, Larger(0, rank(y) - 2))
  <2>1. OperandsAccepted(n)
    BY ReadyInputs, AllLapses DEF Accepted
  <2>2. QED
    BY <2>1, AcceptedDeclaring
<1>4. \/ ~(rank(y) > 2) /\ (~(rank(x) > 2) \/ Declared(n).dims # <<>>)
      \/ rank(x) = rank(y) /\ Batched(x.dims) = Batched(y.dims)
  BY ReadyInputs, MatMulLapses DEF Batched, rank
<1>5. OutputDims(n) = ProductDims(x.dims, y.dims)
  <2> DEFINE D == DOMAIN n.inputs
             ds == [k \in D |-> Operand(n, k).type.dims]
             ks == [k \in D |-> Numbers(n, k)]
  <2>1. OutputDims(n) = OnnxDims(n, ds, ks)
    BY DEF OutputDims
  <2>2. ds[1] = x.dims /\ ds[2] = y.dims
    BY <1>1
  <2> HIDE DEF ds, ks
  <2>3. OnnxDims(n, ds, ks) = ProductDims(ds[1], ds[2])
    BY OnnxMatMul
  <2>4. QED
    BY <2>1, <2>2, <2>3
<1>6. OutputDims(n) = ProductType(x, y).dims
  <2> DEFINE d == x.dims
             e == y.dims
             u == Upto(d, Len(d) - 1) \o Columns(e)
  <2>1. d \in Seq(Int) /\ e \in Seq(Int) /\ Len(d) >= 1 /\ Len(e) >= 1
        /\ (~(Len(e) > 2) \/ Batched(d) = Batched(e))
    BY <1>2, <1>3, <1>4, TensorType DEF rank
  <2> HIDE DEF d, e
  <2>2. Len(e) <= 2 \/ Batched(d) = Batched(e)
    BY <2>1
  <2>3. ProductDims(d, e) = u
    BY <2>1, <2>2, ProductIs
  <2>4. ProductType(x, y) = Type(u, x.elem)
    BY DEF ProductType, d, e, rank
  <2> HIDE DEF u
  <2>5. Type(u, x.elem).dims = u
    BY TypeFields
  <2>6. QED
    BY <1>5, <2>3, <2>4, <2>5 DEF d, e
<1>7. Declared(n).dims # <<>> => Declared(n) = ProductType(x, y)
  <2>1. SUFFICES ASSUME Declared(n).dims # <<>> PROVE Declared(n) = ProductType(x, y)
    OBVIOUS
  <2>2. Declared(n) = Type(OutputDims(n), x.elem)
    BY <2>1, DeclaredFacts DEF Declaring
  <2> DEFINE d == Upto(x.dims, rank(x) - 1) \o Columns(y.dims)
  <2>3. ProductType(x, y) = Type(d, x.elem)
    BY DEF ProductType
  <2> HIDE DEF d
  <2>4. Type(d, x.elem).dims = d
    BY TypeFields
  <2>5. QED
    BY <1>6, <2>2, <2>3, <2>4
<1>8. \A k \in Reads(n) : valid(Operand(n, k))
  BY DEF Reads
<1>9. QED
  BY <1>2, <1>3, <1>4, <1>6, <1>7, <1>8

\* An entry of a list of integers.
LEMMA EntryInt ==
  ASSUME NEW s \in Seq(Int), NEW i \in 1 .. Len(s)
  PROVE  i \in DOMAIN s /\ s[i] \in Int
  OBVIOUS

\* Two entries joined.
LEMMA TwoEntries ==
  ASSUME NEW a \in Int, NEW c \in Int
  PROVE  <<a>> \o <<c>> = <<a, c>>
<1> DEFINE p == <<a>>
           q == <<c>>
           u == p \o q
           v == <<a, c>>
<1>1. p \in Seq(Int) /\ q \in Seq(Int) /\ Len(p) = 1 /\ Len(q) = 1 /\ p[1] = a /\ q[1] = c
  OBVIOUS
<1>2. v \in Seq(Int) /\ Len(v) = 2 /\ v[1] = a /\ v[2] = c
  OBVIOUS
<1> HIDE DEF p, q, v
<1>3. /\ u \in Seq(Int) /\ Len(u) = Len(p) + Len(q)
      /\ \A i \in 1 .. Len(p) : u[i] = p[i]
      /\ \A i \in 1 .. Len(q) : u[Len(p) + i] = q[i]
  BY <1>1, JoinedEntries
<1> HIDE DEF u
<1>4. u \in Seq(Int) /\ Len(u) = 2 /\ u[1] = a /\ u[2] = c
  BY <1>1, <1>3
<1>5. \A i \in 1 .. Len(u) : u[i] = v[i]
  BY <1>2, <1>4
<1>6. u = v
  BY <1>2, <1>4, <1>5, SameEntries
<1>7. QED
  BY <1>6 DEF p, q, u, v

\* The batch axes that the second and the third tier pair.
BatchCount(rx, ry) == Larger(0, IF rx < ry THEN rx - 2 ELSE ry - 2)

\* They are all the batch axes there are.
LEMMA BatchCountFacts ==
  ASSUME NEW x, Tensor(x), rank(x) >= 1, NEW y, Tensor(y), rank(y) >= 1,
         ~(rank(y) > 2) \/ (rank(x) = rank(y) /\ Batched(x.dims) = Batched(y.dims)),
         NEW b, b = BatchCount(rank(x), rank(y))
  PROVE  /\ b \in Nat /\ b <= rank(x) - 1 /\ IF rank(y) = 1 THEN b = 0 ELSE b = rank(y) - 2
         /\ ~(rank(x) > 2) \/ rank(x) = rank(y) => b = Larger(0, rank(x) - 2)
         /\ \A i \in 1 .. b : x.dims[i] = y.dims[i]
<1> DEFINE rx == rank(x)
           ry == rank(y)
<1>1. rx \in Nat /\ ry \in Nat /\ rx >= 1 /\ ry >= 1 /\ x.dims \in Seq(Int) /\ y.dims \in Seq(Int)
      /\ rx = Len(x.dims) /\ ry = Len(y.dims)
  BY TensorType
<1>2. (~(ry > 2) \/ (rx = ry /\ Batched(x.dims) = Batched(y.dims))) /\ b = BatchCount(rx, ry)
  OBVIOUS
<1> HIDE DEF rx, ry
<1>3. /\ b \in Nat /\ b <= rx - 1 /\ IF ry = 1 THEN b = 0 ELSE b = ry - 2
      /\ ~(rx > 2) \/ rx = ry => b = Larger(0, rx - 2)
  <2>1. rx \in Nat /\ ry \in Nat /\ rx >= 1 /\ ry >= 1 /\ (~(ry > 2) \/ rx = ry)
    BY <1>1, <1>2
  <2> DEFINE k == IF rx < ry THEN rx - 2 ELSE ry - 2
  <2>2. b = IF 0 > k THEN 0 ELSE k
    BY <1>2 DEF BatchCount, Larger
  <2>3. Larger(0, rx - 2) = IF 0 > rx - 2 THEN 0 ELSE rx - 2
    BY DEF Larger
  <2>4. QED
    BY <2>1, <2>2, <2>3
<1>4. ASSUME NEW i \in 1 .. b PROVE x.dims[i] = y.dims[i]
  <2>1. b > 0
    BY <1>3
  <2>2. ry > 2
    BY <1>1, <1>3, <2>1
  <2>3. rx = ry /\ Batched(x.dims) = Batched(y.dims)
    BY <1>2, <2>2
  <2>4. b = Larger(0, rx - 2) /\ b = Larger(0, ry - 2)
    BY <1>3, <2>3
  <2>5. Batched(x.dims)[i] = x.dims[i]
    BY <1>1, <2>4, BatchedIs
  <2>6. Batched(y.dims)[i] = y.dims[i]
    BY <1>1, <2>4, BatchedIs
  <2>7. QED
    BY <2>3, <2>5, <2>6
<1>5. QED
  BY <1>3, <1>4 DEF rx, ry

\* Matrix products of the second and the third tier.
LEMMA MatMulTyped ==
  ASSUME NEW n, n.op_type = "MatMul", Ready(n)
  PROVE  Treated(n, MatMulOpConversion(n))
<1> DEFINE x == Operand(n, 1)
           y == Operand(n, 2)
           tx == x.type
           ty == y.type
           rx == rank(tx)
           ry == rank(ty)
           b == BatchCount(rx, ry)
           batch == AllAxes(b)
           dims == [i \in DOMAIN batch |-> tx.dims[i]]
                     \o (IF rx >= 2 THEN <<tx.dims[rx - 1]>> ELSE <<>>)
                     \o (IF ry >= 2 THEN <<ty.dims[ry]>> ELSE <<>>)
           t == IF Declared(n).dims # <<>> THEN Declared(n) ELSE Type(dims, tx.elem)
           p == Emit(body, "stablehlo.dot_general", <<x, y>>,
                     <<batch, batch, <<rx - 1>>, <<Larger(0, ry - 2)>>>>, t)
<1>1. \/ MatMulOpConversion(n) = Failure
      \/ valid(x) /\ valid(y) /\ MatMulOpConversion(n) = Success(p)
  BY Zenon DEF MatMulOpConversion, BatchCount
<1> HIDE DEF p
<1>2. SUFFICES ASSUME valid(x), valid(y) PROVE TypedOutcome(n, Success(p))
  BY <1>1, Zenon DEF Treated
<1>3. /\ Tensor(tx) /\ tx.elem # "unknown" /\ rank(tx) >= 1
      /\ Tensor(ty) /\ ty.elem = tx.elem /\ rank(ty) >= 1
      /\ tx.dims[rank(tx)] = Dim(ty, Larger(0, rank(ty) - 2))
      /\ \/ ~(rank(ty) > 2) /\ (~(rank(tx) > 2) \/ Declared(n).dims # <<>>)
         \/ rank(tx) = rank(ty) /\ Batched(tx.dims) = Batched(ty.dims)
      /\ OutputDims(n) = ProductType(tx, ty).dims
      /\ Declared(n).dims # <<>> => Declared(n) = ProductType(tx, ty)
      /\ \A k \in Reads(n) : valid(Operand(n, k))
  BY <1>2, MatMulFacts
<1>4. /\ b \in Nat /\ b <= rx - 1 /\ IF ry = 1 THEN b = 0 ELSE b = ry - 2
      /\ ~(rx > 2) \/ rx = ry => b = Larger(0, rx - 2)
      /\ \A i \in 1 .. b : tx.dims[i] = ty.dims[i]
  <2> HIDE DEF x, y, tx, ty
  <2>1. ~(rank(ty) > 2) \/ (rank(tx) = rank(ty) /\ Batched(tx.dims) = Batched(ty.dims))
    BY <1>3
  <2> HIDE DEF b
  <2>2. b = BatchCount(rank(tx), rank(ty))
    BY DEF b
  <2>3. QED
    BY <1>3, <2>1, <2>2, BatchCountFacts
<1>5. t = ProductType(tx, ty)
  <2>1. CASE Declared(n).dims # <<>>
    BY <1>3, <2>1
  <2>2. CASE Declared(n).dims = <<>>
    <3> HIDE DEF x, y, tx, ty, b
    <3> DEFINE d == tx.dims
               e == ty.dims
    <3>1. d \in Seq(Int) /\ rx = Len(d) /\ ry = Len(e) /\ rx >= 1 /\ rx \in Nat /\ ry \in Nat
      BY <1>3, TensorType
    <3>2. b = Larger(0, Len(d) - 2)
      BY <1>3, <1>4, <2>2, <3>1
    <3>3. [i \in DOMAIN batch |-> d[i]] = Upto(d, b)
      BY DEF AllAxes, Upto
    <3>4. (rx >= 2 <=> Len(d) > 1) /\ (ry >= 2 <=> Len(e) > 1)
      BY <3>1
    <3> DEFINE rows == IF Len(d) > 1 THEN <<d[Len(d) - 1]>> ELSE <<>>
    <3>5. Upto(d, b) \o rows = Upto(d, Len(d) - 1)
      BY <3>1, <3>2, RowsUpto
    <3>6. dims = (Upto(d, b) \o rows) \o Columns(e)
      <4>1. (IF rx >= 2 THEN <<d[rx - 1]>> ELSE <<>>) = rows
        BY <3>1, <3>4
      <4>2. (IF ry >= 2 THEN <<e[ry]>> ELSE <<>>) = Columns(e)
        BY <3>1, <3>4 DEF Columns
      <4> HIDE DEF rows, batch
      <4>3. QED
        BY <3>3, <4>1, <4>2
    <3> HIDE DEF rows
    <3>7. dims = Upto(d, rx - 1) \o Columns(e)
      BY <3>1, <3>5, <3>6
    <3> HIDE DEF dims
    <3>8. t = Type(dims, tx.elem)
      BY <2>2
    <3>9. QED
      BY <3>7, <3>8 DEF ProductType
  <2>3. QED
    BY <2>1, <2>2
<1> HIDE DEF t, dims, b
<1>6. Contracts(tx, ty, b)
  BY <1>3, <1>4 DEF Contracts
<1>7. Tensor(t) /\ Makes(p, t)
  <2>1. TypedBody(body)
    BY ReadyInputs
  <2> HIDE DEF x, y
  <2>2. QED
    BY <1>5, <1>6, <2>1, ProductMakes DEF p
<1>8. t.dims = OutputDims(n)
  BY <1>3, <1>5
<1> HIDE DEF x, y, tx, ty
<1>9. QED
  BY <1>3, <1>7, <1>8, SuccessTyped

\* Matrix products of the second tier.
LEMMA MatMulL2Typed ==
  ASSUME NEW n, n.op_type = "MatMul", Ready(n)
  PROVE  Treated(n, convert_matmul_l2(n))
<1>1. convert_matmul_l2(n) = Failure \/ convert_matmul_l2(n) = MatMulOpConversion(n)
  BY Zenon DEF convert_matmul_l2
<1>2. QED
  BY <1>1, MatMulTyped DEF Treated

\* Matrix products of the first tier, without batches.
LEMMA MatMulL1Typed ==
  ASSUME NEW n, n.op_type = "MatMul", Ready(n), FirstLapses(n) = {}, NEW stray
  PROVE  TypedOutcome(n, convert_matmul(n, stray))
<1> DEFINE v == Operand(n, 1)
           w == Operand(n, 2)
           x == v.type
           y == w.type
           plain == rank(x) = 2 /\ rank(y) \in {1, 2}
           dims == IF rank(y) = 1 /\ plain THEN <<x.dims[1]>>
                   ELSE <<At(x.dims, 1, stray), At(y.dims, rank(y), stray)>>
           t == IF ~plain /\ Declared(n).dims # <<>> THEN Declared(n) ELSE Type(dims, x.elem)
           p == Emit(body, "stablehlo.dot_general", <<v, w>>,
                     <<<<>>, <<>>, <<rank(x) - 1>>, <<Larger(0, rank(y) - 2)>>>>, t)
<1>1. convert_matmul(n, stray) = Success(p)
  BY Zenon DEF convert_matmul
<1> HIDE DEF p
<1>2. valid(v) /\ valid(w)
  <2>1. Len(n.inputs) > 1
    <3>1. Len(n.inputs) = 2
      BY ReadyInputs, InputKinds
    <3>2. QED
      BY <3>1
  <2>2. ASSUME ~valid(v) \/ ~valid(w) PROVE "missing" \in FirstLapses(n)
    BY <2>1, <2>2 DEF FirstLapses
  <2>3. QED
    BY <2>2
<1>3. plain \/ (Declared(n).dims # <<>> /\ ~(rank(y) > 2))
  <2>1. ASSUME ~plain, Declared(n).dims = <<>> \/ rank(y) > 2 PROVE "batch" \in FirstLapses(n)
    BY <2>1 DEF FirstLapses
  <2>2. QED
    BY <2>1
<1>4. /\ Tensor(x) /\ x.elem # "unknown" /\ rank(x) >= 1
      /\ Tensor(y) /\ y.elem = x.elem /\ rank(y) >= 1
      /\ x.dims[rank(x)] = Dim(y, Larger(0, rank(y) - 2))
      /\ OutputDims(n) = ProductType(x, y).dims
      /\ Declared(n).dims # <<>> => Declared(n) = ProductType(x, y)
      /\ \A k \in Reads(n) : valid(Operand(n, k))
  BY <1>2, MatMulFacts
<1> HIDE DEF v, w, x, y
<1>5. t = ProductType(x, y)
  <2>1. CASE ~plain
    BY <1>3, <1>4, <2>1
  <2>2. CASE plain
    <3> DEFINE d == x.dims
               e == y.dims
    <3>1. /\ d \in Seq(Int) /\ e \in Seq(Int) /\ rank(x) = 2 /\ Len(d) = 2
          /\ rank(y) = Len(e) /\ rank(y) \in {1, 2}
      BY <1>4, <2>2, TensorType
    <3> HIDE DEF d, e
    <3>2. Upto(d, 1) = <<d[1]>>
      <4>1. Upto(d, 1) \in Seq(Int) /\ Len(Upto(d, 1)) = 1 /\ Upto(d, 1)[1] = d[1]
        BY <3>1 DEF Upto
      <4>2. QED
        BY <4>1, OneEntry, Zenon
    <3>3. dims = Upto(d, 1) \o Columns(e)
      <4>1. CASE rank(y) = 1
        <5>1. Columns(e) = <<>> /\ Upto(d, 1) \in Seq(Int)
          BY <3>1, <4>1 DEF Columns, Upto
        <5>2. dims = <<d[1]>>
          BY <2>2, <4>1 DEF d
        <5> HIDE DEF dims
        <5>3. QED
          BY <3>2, <5>1, <5>2
      <4>2. CASE rank(y) # 1
        <5>1. Columns(e) = <<e[2]>> /\ rank(y) = 2
          BY <3>1, <4>2 DEF Columns
        <5>11. Len(e) = 2 /\ e \in Seq(Int) /\ d \in Seq(Int) /\ Len(d) = 2
          BY <3>1, <5>1
        <5>12. 1 \in DOMAIN d /\ 2 \in DOMAIN e /\ d[1] \in Int /\ e[2] \in Int
          <6>1. 1 \in 1 .. Len(d) /\ 2 \in 1 .. Len(e)
            BY <5>11
          <6>2. QED
            BY <5>11, <6>1, EntryInt
        <5>2. At(d, 1, stray) = d[1] /\ At(e, 2, stray) = e[2]
          BY <5>12 DEF At
        <5>3. dims = <<At(d, 1, stray), At(e, 2, stray)>>
          BY <4>2, <5>1 DEF d, e
        <5> HIDE DEF dims
        <5>4. <<d[1]>> \o <<e[2]>> = <<d[1], e[2]>>
          BY <5>12, TwoEntries
        <5>5. QED
          BY <3>2, <5>1, <5>2, <5>3, <5>4
      <4>3. QED
        BY <4>1, <4>2
    <3>4. t = Type(dims, x.elem)
      BY <2>2
    <3> HIDE DEF dims, t
    <3>5. rank(x) - 1 = 1
      BY <3>1
    <3>6. QED
      BY <3>3, <3>4, <3>5 DEF ProductType, d, e
  <2>3. QED
    BY <2>1, <2>2
<1>6. Contracts(x, y, 0)
  BY <1>4, TensorType, <1>3 DEF Contracts
<1> HIDE DEF t, dims, plain
<1>7. AllAxes(0) = <<>>
  BY DEF AllAxes
<1>8. Tensor(t) /\ Makes(p, t)
  BY ReadyInputs, <1>5, <1>6, ProductMakes, <1>7 DEF x, y, p
<1>9. t.dims = OutputDims(n)
  BY <1>4, <1>5
<1>10. QED
  BY <1>1, <1>4, <1>8, <1>9, SuccessTyped

\* Transpositions of the third tier.
LEMMA TransposeTyped ==
  ASSUME NEW n, n.op_type = "Transpose", Ready(n), NEW stray
  PROVE  Treated(n, TransposeOpConversion(n, stray))
<1>1. \/ TransposeOpConversion(n, stray) = Failure
      \/ valid(Operand(n, 1)) /\ TransposeOpConversion(n, stray) = Transposed(n, stray)
  BY Zenon DEF TransposeOpConversion
<1>2. valid(Operand(n, 1)) => TypedOutcome(n, Transposed(n, stray))
  BY TransposedTyped
<1>3. QED
  BY <1>1, <1>2, Zenon DEF Treated

\* Transpositions of the second tier.
LEMMA TransposeL2Typed ==
  ASSUME NEW n, n.op_type = "Transpose", Ready(n), NEW stray
  PROVE  Treated(n, convert_transpose_l2(n, stray))
<1>1. \/ convert_transpose_l2(n, stray) = Failure
      \/ convert_transpose_l2(n, stray) = TransposeOpConversion(n, stray)
  BY Zenon DEF convert_transpose_l2
<1>2. QED
  BY <1>1, TransposeTyped DEF Treated

-----------------------------------------------------------------------------
(***************************************************************************)
(* Convolutions.                                                           *)
(***************************************************************************)
\* The attributes of a convolution with m spatial axes.
Strides(n, m) == get_ints_attr(n, "strides", [i \in 1 .. m |-> 1])

Dilations(n, m) == get_ints_attr(n, "dilations", [i \in 1 .. m |-> 1])

Pads(n, m) == get_ints_attr(n, "pads", [i \in 1 .. 2 * m |-> 0])

PadsSame(n) == n.at.auto_pad \in {"SAME_UPPER", "SAME_LOWER"}

\* ONNX's size of spatial axis i, for operands with the dimensions d and e.
ConvSize(n, d, e, m, i) ==
  IF PadsSame(n) THEN RoundUp(d[i + 2], Strides(n, m)[i])
  ELSE (d[i + 2] + Pads(n, m)[i] + Pads(n, m)[i + m] - Spread(e[i + 2], Dilations(n, m)[i]))
         \div Strides(n, m)[i] + 1

\* What is known of the operands and the attributes of a convolution.
ConvKnown(n, x, k, m) ==
  /\ Tensor(x) /\ ~Dynamic(x) /\ x.elem # "unknown"
  /\ Tensor(k) /\ ~Dynamic(k) /\ k.elem = x.elem
  /\ rank(x) >= 3 /\ rank(k) = rank(x) /\ m = rank(x) - 2
  /\ get_int_attr(n, "group", 1) > 0
  /\ x.dims[2] = k.dims[2] * get_int_attr(n, "group", 1)
  /\ k.dims[1] % get_int_attr(n, "group", 1) = 0
  /\ DOMAIN Strides(n, m) = 1 .. m /\ DOMAIN Dilations(n, m) = 1 .. m /\ Len(Pads(n, m)) = 2 * m
  /\ Strides(n, m) \in Seq(Int) /\ Dilations(n, m) \in Seq(Int) /\ Pads(n, m) \in Seq(Int)
  /\ n.at.kernel_shape \in {<<>>, SubSeq(k.dims, 3, rank(k))}
  /\ n.at.auto_pad \in {"VALID", "SAME_UPPER", "SAME_LOWER"} => n.at.pads = <<>>
  /\ \A i \in 1 .. m :
       /\ Strides(n, m)[i] > 0 /\ Dilations(n, m)[i] > 0 /\ k.dims[i + 2] > 0 /\ x.dims[i + 2] > 0
       /\ ~PadsSame(n) => Spread(k.dims[i + 2], Dilations(n, m)[i])
                            <= x.dims[i + 2] + Pads(n, m)[i] + Pads(n, m)[i + m]
  /\ OutputDims(n) = <<x.dims[1], k.dims[1]>> \o [i \in 1 .. m |-> ConvSize(n, x.dims, k.dims, m, i)]

\* What a convolution that no lapse excludes knows of its operands and its output.
LEMMA ConvFacts ==
  ASSUME NEW n, n.op_type = "Conv", Ready(n), valid(Operand(n, 1)), valid(Operand(n, 2)),
         NEW x, x = Operand(n, 1).type, NEW k, k = Operand(n, 2).type, NEW m, m = rank(x) - 2
  PROVE  /\ ConvKnown(n, x, k, m)
         /\ HasInput(n, 3) /\ valid(Operand(n, 3)) => Operand(n, 3).type = Type(<<k.dims[1]>>, x.elem)
         /\ Declared(n).dims # <<>> => Declared(n) = Type(OutputDims(n), x.elem)
         /\ \A j \in Reads(n) : valid(Operand(n, j))
<1>1. {1, 2} \subseteq DOMAIN n.inputs
  BY ReadyInputs, InputKinds
<1>2. Tensor(x) /\ ~Dynamic(x) /\ x.elem # "unknown" /\ Tensor(k) /\ ~Dynamic(k)
  BY <1>1, OperandFacts
<1>3. ConvAccepted(n)
  <2>1. OperandsAccepted(n)
    BY ReadyInputs, AllLapses DEF Accepted
  <2>2. QED
    BY <2>1, AcceptedKinds
<1>4. /\ rank(x) >= 3 /\ rank(k) = rank(x) /\ k.elem = x.elem
      /\ get_int_attr(n, "group", 1) > 0
      /\ x.dims[2] = k.dims[2] * get_int_attr(n, "group", 1)
      /\ k.dims[1] % get_int_attr(n, "group", 1) = 0
      /\ DOMAIN Strides(n, m) = 1 .. m /\ DOMAIN Dilations(n, m) = 1 .. m /\ Len(Pads(n, m)) = 2 * m
      /\ n.at.kernel_shape \in {<<>>, SubSeq(k.dims, 3, rank(k))}
      /\ n.at.auto_pad \in {"VALID", "SAME_UPPER", "SAME_LOWER"} => n.at.pads = <<>>
      /\ \A i \in 1 .. m :
           /\ Strides(n, m)[i] > 0 /\ Dilations(n, m)[i] > 0 /\ k.dims[i + 2] > 0 /\ x.dims[i + 2] > 0
           /\ n.at.auto_pad \notin {"SAME_UPPER", "SAME_LOWER"} =>
                Spread(k.dims[i + 2], Dilations(n, m)[i])
                  <= x.dims[i + 2] + Pads(n, m)[i] + Pads(n, m)[i + rank(x) - 2]
      /\ HasInput(n, 3) /\ valid(Operand(n, 3)) => Operand(n, 3).type = Type(<<k.dims[1]>>, x.elem)
  BY <1>3, Zenon DEF ConvAccepted, Strides, Dilations, Pads
<1>5. Strides(n, m) \in Seq(Int) /\ Dilations(n, m) \in Seq(Int) /\ Pads(n, m) \in Seq(Int)
  <2>1. m \in Nat /\ 2 * m \in Nat
    BY <1>2, <1>4, TensorType, SMTT(30)
  <2>2. [i \in 1 .. m |-> 1] \in Seq(Int) /\ [i \in 1 .. 2 * m |-> 0] \in Seq(Int)
    BY <2>1
  <2>3. QED
    BY <2>2, ReadyInputs, AttributeFacts DEF Strides, Dilations, Pads
<1>6. rank(x) \in Nat /\ rank(x) = Len(x.dims)
  BY <1>2, TensorType
<1>7. \A i \in 1 .. m :
        ~PadsSame(n) => Spread(k.dims[i + 2], Dilations(n, m)[i])
                          <= x.dims[i + 2] + Pads(n, m)[i] + Pads(n, m)[i + m]
  <2>1. ASSUME NEW i \in 1 .. m, ~PadsSame(n)
        PROVE  Spread(k.dims[i + 2], Dilations(n, m)[i])
                 <= x.dims[i + 2] + Pads(n, m)[i] + Pads(n, m)[i + m]
    <3>1. Spread(k.dims[i + 2], Dilations(n, m)[i])
            <= x.dims[i + 2] + Pads(n, m)[i] + Pads(n, m)[i + rank(x) - 2]
      BY <1>4, <2>1, Zenon DEF PadsSame
    <3>2. i + rank(x) - 2 = i + m
      BY <1>6
    <3>3. QED
      BY <3>1, <3>2
  <2>2. QED
    BY <2>1
<1>8. OutputDims(n) = <<x.dims[1], k.dims[1]>> \o [i \in 1 .. m |-> ConvSize(n, x.dims, k.dims, m, i)]
  <2>1. OutputDims(n) = ConvolvedDims(n, x.dims, k.dims)
    BY ReadyInputs, OutputKinds
  <2>2. m = Len(x.dims) - 2
    BY <1>6
  <2>3. ConvolvedDims(n, x.dims, k.dims) =
          <<x.dims[1], k.dims[1]>> \o
            [i \in 1 .. Len(x.dims) - 2 |-> ConvSize(n, x.dims, k.dims, Len(x.dims) - 2, i)]
    BY Zenon DEF ConvolvedDims, ConvSize, PadsSame, Strides, Dilations, Pads
  <2>4. QED
    BY <2>1, <2>2, <2>3, Zenon
<1>9. Declared(n).dims # <<>> => Declared(n) = Type(OutputDims(n), x.elem)
  BY DeclaredFacts DEF Declaring
<1>10. \A j \in Reads(n) : valid(Operand(n, j))
  BY DEF Reads
<1>11. ConvKnown(n, x, k, m)
  BY <1>2, <1>4, <1>5, <1>7, <1>8 DEF ConvKnown
<1>12. QED
  BY <1>4, <1>9, <1>10, <1>11

\* A number is so many times another, and a rest.
LEMMA DivisionFacts ==
  ASSUME NEW a \in Int, NEW s \in Int, s > 0, NEW d, NEW r, d = a \div s, r = a % s
  PROVE  d \in Int /\ r \in Int /\ 0 <= r /\ r < s /\ a = s * d + r
  OBVIOUS

\* What a quotient is.
LEMMA DivBetween ==
  ASSUME NEW a \in Int, NEW s \in Int, s > 0, NEW q \in Int, q * s <= a, a < q * s + s
  PROVE  a \div s = q
<1> DEFINE d == a \div s
           r == a % s
<1>1. d \in Int /\ r \in Int /\ 0 <= r /\ r < s /\ a = s * d + r
  BY DivisionFacts
<1> HIDE DEF d, r
<1>2. (q - d) * s <= r /\ (q - d) * s > r - s
  BY <1>1
<1>3. q - d = 0
  <2> DEFINE e == q - d
  <2>1. e \in Int /\ e * s <= r /\ e * s > r - s
    BY <1>1, <1>2
  <2> HIDE DEF e
  <2>2. CASE e >= 1
    <3>1. e * s >= s
      BY <2>1, <2>2
    <3>2. QED
      BY <1>1, <2>1, <3>1
  <2>3. CASE e <= -1
    <3>1. e * s <= -s
      BY <2>1, <2>3
    <3>2. QED
      BY <1>1, <2>1, <3>1
  <2>4. QED
    BY <2>1, <2>2, <2>3 DEF e
<1>4. QED
  BY <1>1, <1>3 DEF d

\* "Same" padding makes as many windows as there are strides in the axis.
LEMMA SameSize ==
  ASSUME NEW x \in Int, x > 0, NEW s \in Int, s > 0, NEW span \in Int, span > 0,
         NEW total, total = SamePadding(x, s, span)
  PROVE  /\ total \in Nat /\ x + total - span >= 0
         /\ (x + total - span) \div s + 1 = RoundUp(x, s)
         /\ RoundUp(x, s) \in Nat
<1> DEFINE c == (x + s - 1) \div s
           r == (x + s - 1) % s
           m == (c - 1) * s
<1>1. c \in Int /\ r \in Int /\ 0 <= r /\ r < s /\ x + s - 1 = s * c + r
  <2>1. x + s - 1 \in Int
    OBVIOUS
  <2>2. c = (x + s - 1) \div s /\ r = (x + s - 1) % s
    OBVIOUS
  <2> HIDE DEF c, r
  <2>3. QED
    BY <2>1, <2>2, DivisionFacts
<1>2. RoundUp(x, s) = c /\ Quotient(x + s - 1, s) = c
  BY DEF RoundUp, Quotient
<1> HIDE DEF c, r
<1>3. m \in Int /\ m < x /\ x <= m + s
  <2>1. m = s * c - s
    BY <1>1
  <2>2. QED
    BY <1>1, <2>1
<1>4. c \in Nat
  <2>1. c * s > 0
    <3>1. c * s = m + s
      BY <1>1
    <3>2. QED
      BY <1>3, <3>1
  <2>2. QED
    BY <1>1, <2>1
<1> DEFINE gap == m + span - x
<1>5. total = IF 0 > gap THEN 0 ELSE gap
  BY <1>2 DEF SamePadding, Larger
<1> DEFINE a == x + total - span
<1> HIDE DEF m
<1>6. total \in Nat /\ a \in Int /\ a >= 0 /\ m <= a /\ a < m + s
  <2>1. m >= 0
    <3>1. c - 1 >= 0
      <4>1. c # 0
        <5>1. ASSUME c = 0 PROVE FALSE
          BY <5>1, <1>3 DEF m
        <5>2. QED
          BY <5>1
      <4>2. QED
        BY <1>4, <4>1
    <3>2. QED
      BY <1>1, <3>1 DEF m
  <2>2. CASE gap < 0
    BY <1>3, <1>5, <2>1, <2>2
  <2>3. CASE ~(gap < 0)
    BY <1>3, <1>5, <2>1, <2>3
  <2>4. QED
    BY <2>2, <2>3
<1> HIDE DEF a, gap
<1>7. a \div s = c - 1
  BY <1>6, <1>1, DivBetween DEF m
<1>8. a \div s + 1 = c
  BY <1>1, <1>7
<1>9. QED
  BY <1>2, <1>4, <1>6, <1>8 DEF a

\* A window that fits gives the axis a size.
LEMMA FittedSize ==
  ASSUME NEW a \in Int, a >= 0, NEW s \in Int, s > 0
  PROVE  a \div s + 1 \in Nat /\ Quotient(a, s) = a \div s
<1>1. a \div s \in Nat
  OBVIOUS
<1>2. QED
  BY <1>1 DEF Quotient

\* A convolution that the dialect accepts: its operands, its window and its type.
Convolves(x, k, l, group, size, t) ==
  /\ Tensor(x) /\ ~Dynamic(x) /\ x.elem # "unknown"
  /\ Tensor(k) /\ ~Dynamic(k) /\ k.elem = x.elem
  /\ rank(x) >= 3 /\ rank(k) = rank(x)
  /\ x.dims[2] = k.dims[2] * group /\ k.dims[1] % group = 0
  /\ DOMAIN l[1] = 1 .. rank(x) - 2
  /\ l[5][1] = group
  /\ \A i \in 1 .. rank(x) - 2 :
       /\ size[i] \in Nat
       /\ size[i] = (x.dims[i + 2] + l[2][i] + l[3][i] - Spread(k.dims[i + 2], l[4][i])) \div l[1][i] + 1
  /\ size = [i \in 1 .. rank(x) - 2 |-> size[i]]
  /\ t = Type(<<x.dims[1], k.dims[1]>> \o size, x.elem)

\* Its type has the channels of the kernel and no open axis.
LEMMA ConvolvesType ==
  ASSUME NEW x, NEW k, NEW l, NEW group, NEW size, NEW t, Convolves(x, k, l, group, size, t)
  PROVE  /\ Tensor(t) /\ ~Dynamic(t) /\ t.elem = x.elem
         /\ rank(t) = rank(x) /\ t.dims[1] = x.dims[1] /\ t.dims[2] = k.dims[1]
         /\ \A i \in 1 .. rank(x) - 2 : t.dims[i + 2] = size[i]
         /\ rank(x) >= 3 /\ rank(x) \in Nat
<1> DEFINE m == rank(x) - 2
           a == x.dims[1]
           c == k.dims[1]
           front == <<a, c>>
           d == front \o size
<1>1. /\ Tensor(x) /\ ~Dynamic(x) /\ Tensor(k) /\ ~Dynamic(k)
      /\ rank(x) >= 3 /\ rank(k) = rank(x)
      /\ \A i \in 1 .. m : size[i] \in Nat
      /\ size = [i \in 1 .. m |-> size[i]]
      /\ t = Type(d, x.elem)
  BY DEF Convolves
<1>2. rank(x) \in Nat /\ m \in Nat /\ a \in Nat /\ c \in Nat
  <2>1. /\ rank(x) \in Nat /\ rank(k) \in Nat
        /\ \A i \in 1 .. rank(x) : x.dims[i] \in Int /\ x.dims[i] >= 0
        /\ \A i \in 1 .. rank(k) : k.dims[i] \in Int /\ k.dims[i] >= 0
    BY <1>1, TensorType
  <2>2. 1 \in 1 .. rank(x) /\ 1 \in 1 .. rank(k)
    BY <1>1, <2>1
  <2>3. QED
    BY <1>1, <2>1, <2>2
<1> HIDE DEF m, a, c
<1>3. size \in Seq(Int) /\ Len(size) = m /\ \A i \in 1 .. m : size[i] \in Nat
  BY <1>1, <1>2
<1>4. front \in Seq(Int) /\ Len(front) = 2 /\ front[1] = a /\ front[2] = c
  BY <1>2
<1> HIDE DEF front
<1>5. /\ d \in Seq(Int) /\ Len(d) = Len(front) + Len(size)
      /\ \A i \in 1 .. Len(front) : d[i] = front[i]
      /\ \A i \in 1 .. Len(size) : d[Len(front) + i] = size[i]
  BY <1>3, <1>4, JoinedEntries
<1> HIDE DEF d
<1>6. Len(d) = m + 2 /\ d[1] = a /\ d[2] = c /\ \A i \in 1 .. m : d[i + 2] = size[i]
  <2>1. Len(d) = m + 2
    BY <1>2, <1>3, <1>4, <1>5
  <2>2. 1 \in 1 .. Len(front) /\ 2 \in 1 .. Len(front)
    BY <1>4
  <2>3. ASSUME NEW i \in 1 .. m PROVE d[i + 2] = size[i]
    BY <1>3, <1>4, <1>5
  <2>4. QED
    BY <1>4, <1>5, <2>1, <2>2, <2>3
<1>7. Tensor(t) /\ t.dims = d /\ t.elem = x.elem
  BY <1>1, <1>5, TypeTensor
<1>8. ASSUME NEW j \in 1 .. m + 2 PROVE ~(d[j] < 0)
  <2>1. j = 1 \/ j = 2 \/ j - 2 \in 1 .. m
    BY <1>2
  <2>2. CASE j = 1 \/ j = 2
    BY <1>2, <1>6, <2>2
  <2>3. CASE j - 2 \in 1 .. m
    BY <1>3, <1>6, <2>3
  <2>4. QED
    BY <2>1, <2>2, <2>3
<1>9. ~Dynamic(t)
  <2>1. DOMAIN d = 1 .. m + 2
    BY <1>5, <1>6
  <2>2. QED
    BY <1>7, <1>8, <2>1 DEF Dynamic
<1>10. rank(t) = rank(x)
  BY <1>2, <1>6, <1>7 DEF rank, m
<1>11. QED
  BY <1>1, <1>2, <1>6, <1>7, <1>9, <1>10 DEF m, a, c

\* The dialect accepts it.
LEMMA ConvolvesSound ==
  ASSUME NEW x, NEW k, NEW l, NEW group, NEW size, NEW t, Convolves(x.type, k.type, l, group, size, t)
  PROVE  Sound("stablehlo.convolution", <<x, k>>, l, t)
<1> DEFINE tx == x.type
           tk == k.type
<1>1. Convolves(tx, tk, l, group, size, t)
  OBVIOUS
<1> HIDE DEF tx, tk
<1>2. /\ Tensor(t) /\ ~Dynamic(t) /\ t.elem = tx.elem
      /\ rank(t) = rank(tx) /\ t.dims[1] = tx.dims[1] /\ t.dims[2] = tk.dims[1]
      /\ \A i \in 1 .. rank(tx) - 2 : t.dims[i + 2] = size[i]
  BY <1>1, ConvolvesType
<1>3. /\ tx.elem # "unknown" /\ tk.elem = tx.elem /\ rank(tk) = rank(tx)
      /\ tx.dims[2] = tk.dims[2] * group /\ tk.dims[1] % group = 0
      /\ DOMAIN l[1] = 1 .. rank(tx) - 2
      /\ l[5][1] = group
      /\ \A i \in 1 .. rank(tx) - 2 :
           size[i] = (tx.dims[i + 2] + l[2][i] + l[3][i] - Spread(tk.dims[i + 2], l[4][i])) \div l[1][i] + 1
  BY <1>1, Zenon DEF Convolves
<1>4. ConvolutionTypes(tx, tk, l[1], l[2], l[3], l[4], l[5][1], t)
  <2>1. \A i \in DOMAIN l[1] :
          t.dims[i + 2] = (tx.dims[i + 2] + l[2][i] + l[3][i] - Spread(tk.dims[i + 2], l[4][i])) \div l[1][i] + 1
    BY <1>2, <1>3, Zenon
  <2>2. QED
    BY <1>2, <1>3, <2>1, Zenon DEF ConvolutionTypes
<1>5. QED
  BY <1>2, <1>3, <1>4, SoundTwo DEF tx, tk

\* A bias with one entry per channel may be spread along the channels.
LEMMA BiasSpreads ==
  ASSUME NEW t, Tensor(t), ~Dynamic(t), rank(t) >= 2, NEW c, c = t.dims[2],
         NEW bias, bias = Type(<<c>>, t.elem)
  PROVE  BroadcastTypes(bias, <<1>>, t)
<1>1. rank(t) \in Nat
  BY TensorType
<1>2. 2 \in 1 .. rank(t)
  BY <1>1
<1>3. c \in Int
  BY <1>2, TensorType
<1> DEFINE d == <<c>>
           l == <<1>>
<1>4. d \in Seq(Int) /\ Len(d) = 1 /\ d[1] = c
  BY <1>3
<1> HIDE DEF d
<1>5. bias.elem = t.elem /\ bias.dims = d
  BY TypeFields DEF d
<1>6. l \in Seq(Int) /\ Len(l) = 1 /\ l[1] = 1 /\ DOMAIN l = {1} /\ ToSet(l) = {1}
  BY DEF ToSet
<1> HIDE DEF l
<1>7. Distinct(l)
  BY <1>6 DEF Distinct, IsInjective
<1>8. ToSet(l) \subseteq Axes(t)
  BY <1>1, <1>6 DEF Axes
<1>9. bias.dims[1] = Dim(t, l[1])
  BY <1>4, <1>5, <1>6 DEF Dim
<1>10. rank(bias) = 1
  BY <1>4, <1>5 DEF rank
<1>11. BroadcastTypes(bias, l, t)
  BY <1>5, <1>6, <1>7, <1>8, <1>9, <1>10 DEF BroadcastTypes
<1>12. QED
  BY <1>11 DEF l

\* The convolution and its bias.
LEMMA ConvolveTyped ==
  ASSUME NEW n, n.op_type = "Conv", Ready(n), valid(Operand(n, 1)), valid(Operand(n, 2)),
         NEW x, x = Operand(n, 1), NEW k, k = Operand(n, 2),
         NEW l, NEW group, NEW size, NEW t, Convolves(x.type, k.type, l, group, size, t),
         t.dims = OutputDims(n)
  PROVE  TypedOutcome(n, Convolve(n, x, k, l, t))
<1> DEFINE tx == x.type
           tk == k.type
           w == Operand(n, 3)
           conv == Emit(body, "stablehlo.convolution", <<x, k>>, l, t)
           axes == <<<<1>>>>
           spread == Emit(conv.body, "stablehlo.broadcast_in_dim", <<w>>, axes, t)
           sum == Emit(spread.body, "stablehlo.add", <<conv.value, spread.value>>, <<>>, t)
<1>1. \/ HasInput(n, 3) /\ valid(w) /\ Convolve(n, x, k, l, t) = Success(sum)
      \/ Convolve(n, x, k, l, t) = Success(conv)
  BY Zenon DEF Convolve
<1>2. /\ Tensor(t) /\ ~Dynamic(t) /\ t.elem = tx.elem
      /\ rank(t) = rank(tx) /\ t.dims[2] = tk.dims[1] /\ rank(tx) >= 3 /\ rank(tx) \in Nat
  BY ConvolvesType
<1>3. t.elem # "unknown"
  BY <1>2 DEF Convolves
<1>4. TypedBody(body)
  BY ReadyInputs
<1>5. Makes(conv, t)
  BY ConvolvesSound, <1>4, EmitMakes
<1>6. /\ HasInput(n, 3) /\ valid(w) => w.type = Type(<<tk.dims[1]>>, tx.elem)
      /\ \A j \in Reads(n) : valid(Operand(n, j))
  BY ConvFacts
<1> HIDE DEF conv, w
<1>7. ASSUME w.type = Type(<<tk.dims[1]>>, tx.elem) PROVE Makes(sum, t)
  <2>1. BroadcastTypes(w.type, <<1>>, t)
    <3> DEFINE c == tk.dims[1]
               e == tx.elem
               b == w.type
    <3>1. c = t.dims[2] /\ t.elem = e /\ b = Type(<<c>>, e) /\ rank(t) >= 2
      BY <1>2, <1>7
    <3> HIDE DEF c, e, b
    <3>2. BroadcastTypes(b, <<1>>, t)
      BY <1>2, <3>1, BiasSpreads
    <3>3. QED
      BY <3>2 DEF b
  <2>2. axes[1] = <<1>>
    OBVIOUS
  <2>3. w.type.elem # "unknown"
    BY <1>2, <1>3, <1>7, TypeFields
  <2> HIDE DEF axes
  <2>4. Sound("stablehlo.broadcast_in_dim", <<w>>, axes, t)
    BY <1>3, <2>1, <2>2, <2>3, SoundOne
  <2>5. Makes(spread, t)
    BY <1>5, <2>4, EmitMakes DEF Makes
  <2> HIDE DEF spread
  <2>6. "stablehlo.add" \in Binary
    BY DEF Binary
  <2>7. conv.value.type = t /\ spread.value.type = t /\ TypedBody(spread.body)
    BY <1>5, <2>5 DEF Makes
  <2>8. QED
    BY <1>3, <2>6, <2>7, MakesSame
<1>8. Convolve(n, x, k, l, t) = Success(conv) \/ (Convolve(n, x, k, l, t) = Success(sum) /\ Makes(sum, t))
  BY <1>1, <1>6, <1>7
<1> HIDE DEF sum
<1>9. QED
  BY <1>2, <1>5, <1>6, <1>8, SuccessTyped

\* The parts of ConvLists, for operands of the types x and k with m spatial axes.
KernelSizes(n, k, m) == get_ints_attr(n, "kernel_shape", [i \in 1 .. m |-> k.dims[2 + i]])

Totals(n, x, k, m) ==
  [i \in 1 .. m |->
     SamePadding(x.dims[2 + i], Strides(n, m)[i], Spread(KernelSizes(n, k, m)[i], Dilations(n, m)[i]))]

Halves(n, x, k, m) == [i \in 1 .. m |-> Totals(n, x, k, m)[i] \div 2]

Rests(n, x, k, m) == [i \in 1 .. m |-> Totals(n, x, k, m)[i] - Halves(n, x, k, m)[i]]

Paddings(n, x, k, m) ==
  CASE n.at.auto_pad = "SAME_UPPER" -> <<Halves(n, x, k, m), Rests(n, x, k, m)>>
    [] n.at.auto_pad = "SAME_LOWER" -> <<Rests(n, x, k, m), Halves(n, x, k, m)>>
    [] OTHER -> <<[i \in 1 .. m |-> Pads(n, m)[i]], [i \in 1 .. m |-> Pads(n, m)[i + m]]>>

\* The five lists of a convolution, by name.
LEMMA ConvListsAre ==
  ASSUME NEW n, NEW x, x = Operand(n, 1).type, NEW k, k = Operand(n, 2).type,
         NEW m \in Nat, m = rank(x) - 2, rank(x) \in Nat
  PROVE  /\ ConvLists(n)[1] = Strides(n, m)
         /\ ConvLists(n)[2] = Paddings(n, x, k, m)[1]
         /\ ConvLists(n)[3] = Paddings(n, x, k, m)[2]
         /\ ConvLists(n)[4] = Dilations(n, m)
         /\ ConvLists(n)[5] = <<get_int_attr(n, "group", 1)>>
<1> DEFINE r == rank(x)
           s == Strides(n, m)
           d == Dilations(n, m)
           g == <<get_int_attr(n, "group", 1)>>
           L(p) == <<s, p[1], p[2], d, g>>
           behind == [i \in 1 .. m |-> Pads(n, m)[i + r - 2]]
           ahead == [i \in 1 .. m |-> Pads(n, m)[i]]
           P == CASE n.at.auto_pad = "SAME_UPPER" -> <<Halves(n, x, k, m), Rests(n, x, k, m)>>
                  [] n.at.auto_pad = "SAME_LOWER" -> <<Rests(n, x, k, m), Halves(n, x, k, m)>>
                  [] OTHER -> <<ahead, behind>>
<1>1. ConvLists(n) = L(P)
  BY Zenon DEF ConvLists, Strides, Dilations, Pads, Halves, Rests, Totals, KernelSizes
<1>2. P = Paddings(n, x, k, m)
  <2>1. behind = [i \in 1 .. m |-> Pads(n, m)[i + m]]
    OBVIOUS
  <2>2. QED
    BY <2>1, Zenon DEF Paddings
<1> HIDE DEF P, s, d, g
<1>3. /\ L(P)[1] = s /\ L(P)[2] = P[1] /\ L(P)[3] = P[2] /\ L(P)[4] = d /\ L(P)[5] = g
  OBVIOUS
<1>4. QED
  BY <1>1, <1>2, <1>3 DEF s, d, g

\* The kernel's size is that of the kernel, given or not.
LEMMA KernelSizesAre ==
  ASSUME NEW n, NEW k, Tensor(k), NEW m \in Nat, m = rank(k) - 2,
         n.at.kernel_shape \in {<<>>, SubSeq(k.dims, 3, rank(k))}, NEW i \in 1 .. m
  PROVE  KernelSizes(n, k, m)[i] = k.dims[i + 2]
<1> DEFINE d == k.dims
           r == rank(k)
           default == [j \in 1 .. m |-> d[2 + j]]
<1>1. d \in Seq(Int) /\ r = Len(d) /\ r \in Nat
  BY TensorType
<1>2. KernelSizes(n, k, m) = IF n.at.kernel_shape = <<>> THEN default ELSE n.at.kernel_shape
  BY Zenon DEF KernelSizes, get_ints_attr
<1>3. default[i] = d[i + 2]
  <2>1. 2 + i = i + 2
    OBVIOUS
  <2>2. QED
    BY <2>1
<1>4. SubSeq(d, 3, r)[i] = d[i + 2]
  <2>1. r = m + 2
    BY <1>1
  <2> HIDE DEF d, r
  <2>2. i \in 1 .. r - 3 + 1 /\ 3 + i - 1 = i + 2
    BY <2>1
  <2>3. SubSeq(d, 3, r)[i] = d[3 + i - 1]
    BY <1>1, <2>1, <2>2
  <2>4. QED
    BY <2>2, <2>3
<1> HIDE DEF d, r, default
<1>5. n.at.kernel_shape \in {<<>>, SubSeq(d, 3, r)}
  BY DEF d, r
<1>6. QED
  BY <1>2, <1>3, <1>4, <1>5 DEF d

\* An entry of a list of integers, by its domain.
LEMMA DomainInt ==
  ASSUME NEW u \in Seq(Int), NEW i \in DOMAIN u
  PROVE  u[i] \in Int
  OBVIOUS

\* SameSize, in full.
LEMMA SameWindow ==
  ASSUME NEW x \in Int, x > 0, NEW s \in Int, s > 0, NEW span \in Int, span > 0
  PROVE  /\ SamePadding(x, s, span) \in Nat /\ x + SamePadding(x, s, span) - span >= 0
         /\ (x + SamePadding(x, s, span) - span) \div s + 1 = RoundUp(x, s)
         /\ RoundUp(x, s) \in Nat
<1> DEFINE total == SamePadding(x, s, span)
<1>1. total = SamePadding(x, s, span)
  OBVIOUS
<1> HIDE DEF total
<1>2. /\ total \in Nat /\ x + total - span >= 0
      /\ (x + total - span) \div s + 1 = RoundUp(x, s)
      /\ RoundUp(x, s) \in Nat
  BY <1>1, SameSize
<1>3. QED
  BY <1>2 DEF total

\* What the code pads adds up to a window that fits.
LEMMA WindowFits ==
  ASSUME NEW n, NEW x, NEW k, NEW m, ConvKnown(n, x, k, m), NEW i \in 1 .. m,
         NEW a, a = x.dims[i + 2], NEW s, s = Strides(n, m)[i],
         NEW span, span = Spread(k.dims[i + 2], Dilations(n, m)[i]),
         NEW low, low = Paddings(n, x, k, m)[1][i], NEW high, high = Paddings(n, x, k, m)[2][i],
         NEW size, size = ConvSize(n, x.dims, k.dims, m, i)
  PROVE  /\ a \in Int /\ a > 0 /\ s \in Int /\ s > 0 /\ span \in Int /\ low \in Int /\ high \in Int
         /\ size \in Nat /\ a + low + high - span >= 0
         /\ size = (a + low + high - span) \div s + 1
<1>1. m \in Nat /\ m = rank(k) - 2 /\ m = rank(x) - 2
      /\ rank(k) \in Nat /\ rank(x) \in Nat /\ Tensor(k) /\ Tensor(x)
  <2>1. Tensor(k) /\ Tensor(x) /\ rank(k) = rank(x) /\ rank(x) >= 3 /\ m = rank(x) - 2
    BY Zenon DEF ConvKnown
  <2>2. rank(x) \in Nat
    BY <2>1, TensorType
  <2>3. QED
    BY <2>1, <2>2
<1> DEFINE e == k.dims[i + 2]
           dil == Dilations(n, m)[i]
           p == Pads(n, m)[i]
           q == Pads(n, m)[i + m]
<1>2. /\ a \in Int /\ a > 0 /\ s \in Int /\ s > 0 /\ e \in Int /\ e > 0 /\ dil \in Int /\ dil > 0
      /\ p \in Int /\ q \in Int
      /\ ~PadsSame(n) => span <= a + p + q
  <2>1. s > 0 /\ dil > 0 /\ e > 0 /\ a > 0 /\ (~PadsSame(n) => span <= a + p + q)
    BY Zenon DEF ConvKnown
  <2>2. a \in Int /\ e \in Int
    BY <1>1, TensorType, SMTT(30)
  <2>3. /\ DOMAIN Strides(n, m) = 1 .. m /\ DOMAIN Dilations(n, m) = 1 .. m /\ Len(Pads(n, m)) = 2 * m
        /\ Strides(n, m) \in Seq(Int) /\ Dilations(n, m) \in Seq(Int) /\ Pads(n, m) \in Seq(Int)
    BY Zenon DEF ConvKnown
  <2>4. s \in Int /\ dil \in Int
    <3>1. i \in DOMAIN Strides(n, m) /\ i \in DOMAIN Dilations(n, m)
      BY <2>3, Zenon
    <3>2. QED
      BY <2>3, <3>1, DomainInt
  <2>5. p \in Int /\ q \in Int
    <3>1. i \in 1 .. 2 * m /\ i + m \in 1 .. 2 * m
      BY <1>1
    <3>2. QED
      BY <2>3, <3>1, EntryInt
  <2>6. QED
    BY <2>1, <2>2, <2>4, <2>5
<1>3. span \in Int /\ span > 0
  <2>1. span = (e - 1) * dil + 1
    BY DEF Spread
  <2> HIDE DEF e, dil
  <2>2. (e - 1) * dil >= 0
    BY <1>2
  <2>3. QED
    BY <1>2, <2>1, <2>2
<1>4. CASE PadsSame(n)
  <2> DEFINE total == Totals(n, x, k, m)[i]
             half == Halves(n, x, k, m)[i]
             rest == Rests(n, x, k, m)[i]
  <2>1. total = SamePadding(a, s, span)
    <3>1. KernelSizes(n, k, m)[i] = e
      <4>1. n.at.kernel_shape \in {<<>>, SubSeq(k.dims, 3, rank(k))}
        BY Zenon DEF ConvKnown
      <4>2. QED
        BY <1>1, <4>1, KernelSizesAre
    <3>2. total = SamePadding(x.dims[2 + i], Strides(n, m)[i], Spread(KernelSizes(n, k, m)[i], Dilations(n, m)[i]))
      BY DEF Totals
    <3>3. 2 + i = i + 2
      OBVIOUS
    <3>4. QED
      BY <3>1, <3>2, <3>3
  <2>2. half = total \div 2 /\ rest = total - half
    BY DEF Halves, Rests
  <2> HIDE DEF total, half, rest, e, dil, p, q
  <2>3. /\ total \in Nat /\ a + total - span >= 0
        /\ (a + total - span) \div s + 1 = RoundUp(a, s)
        /\ RoundUp(a, s) \in Nat
    <3>1. /\ SamePadding(a, s, span) \in Nat /\ a + SamePadding(a, s, span) - span >= 0
          /\ (a + SamePadding(a, s, span) - span) \div s + 1 = RoundUp(a, s)
          /\ RoundUp(a, s) \in Nat
      BY <1>2, <1>3, SameWindow
    <3>2. QED
      BY <2>1, <3>1, Zenon
  <2>4. half \in Int /\ rest \in Int /\ half + rest = total
    BY <2>2, <2>3
  <2>5. (low = half /\ high = rest) \/ (low = rest /\ high = half)
    <3> DEFINE H == Halves(n, x, k, m)
               R == Rests(n, x, k, m)
               P == Paddings(n, x, k, m)
    <3>1. n.at.auto_pad = "SAME_UPPER" \/ n.at.auto_pad = "SAME_LOWER"
      BY <1>4 DEF PadsSame
    <3>2. P = <<H, R>> \/ P = <<R, H>>
      BY <3>1 DEF Paddings
    <3>3. low = P[1][i] /\ high = P[2][i] /\ half = H[i] /\ rest = R[i]
      BY DEF half, rest
    <3> HIDE DEF H, R, P
    <3>4. QED
      BY <3>2, <3>3
  <2>6. low \in Int /\ high \in Int /\ a + low + high - span = a + total - span
    BY <1>2, <1>3, <2>3, <2>4, <2>5
  <2>7. size = RoundUp(a, s)
    BY <1>4 DEF ConvSize
  <2>8. QED
    BY <1>2, <1>3, <2>3, <2>6, <2>7
<1>5. CASE ~PadsSame(n)
  <2> DEFINE before == [j \in 1 .. m |-> Pads(n, m)[j]]
             after == [j \in 1 .. m |-> Pads(n, m)[j + m]]
  <2>1. Paddings(n, x, k, m) = <<before, after>>
    BY <1>5 DEF Paddings, PadsSame
  <2>2. before[i] = p /\ after[i] = q
    OBVIOUS
  <2> HIDE DEF before, after
  <2>3. low = p /\ high = q
    BY <2>1, <2>2
  <2>4. size = (a + p + q - span) \div s + 1
    BY <1>5 DEF ConvSize
  <2> HIDE DEF p, q, e, dil
  <2>5. a + p + q - span \in Int /\ a + p + q - span >= 0
    BY <1>2, <1>3, <1>5
  <2>6. (a + p + q - span) \div s + 1 \in Nat
    BY <1>2, <2>5, FittedSize
  <2>7. QED
    BY <1>2, <1>3, <2>3, <2>4, <2>5, <2>6
<1>6. QED
  BY <1>4, <1>5
\* The same, in full.
Window(n, x, k, m, i) ==
  /\ x.dims[i + 2] \in Int /\ x.dims[i + 2] > 0
  /\ Strides(n, m)[i] \in Int /\ Strides(n, m)[i] > 0
  /\ Spread(k.dims[i + 2], Dilations(n, m)[i]) \in Int
  /\ Paddings(n, x, k, m)[1][i] \in Int /\ Paddings(n, x, k, m)[2][i] \in Int
  /\ ConvSize(n, x.dims, k.dims, m, i) \in Nat
  /\ x.dims[i + 2] + Paddings(n, x, k, m)[1][i] + Paddings(n, x, k, m)[2][i]
       - Spread(k.dims[i + 2], Dilations(n, m)[i]) >= 0
  /\ ConvSize(n, x.dims, k.dims, m, i) =
       (x.dims[i + 2] + Paddings(n, x, k, m)[1][i] + Paddings(n, x, k, m)[2][i]
          - Spread(k.dims[i + 2], Dilations(n, m)[i])) \div Strides(n, m)[i] + 1

\* The window of a convolution fits each spatial axis, and counts its positions.
LEMMA WindowIs ==
  ASSUME NEW n, NEW x, NEW k, NEW m, ConvKnown(n, x, k, m), NEW i \in 1 .. m
  PROVE  Window(n, x, k, m, i)
<1> DEFINE a == x.dims[i + 2]
           s == Strides(n, m)[i]
           span == Spread(k.dims[i + 2], Dilations(n, m)[i])
           low == Paddings(n, x, k, m)[1][i]
           high == Paddings(n, x, k, m)[2][i]
           size == ConvSize(n, x.dims, k.dims, m, i)
<1>1. /\ a = x.dims[i + 2] /\ s = Strides(n, m)[i]
      /\ span = Spread(k.dims[i + 2], Dilations(n, m)[i])
      /\ low = Paddings(n, x, k, m)[1][i] /\ high = Paddings(n, x, k, m)[2][i]
      /\ size = ConvSize(n, x.dims, k.dims, m, i)
  OBVIOUS
<1> HIDE DEF a, s, span, low, high, size
<1>2. /\ a \in Int /\ a > 0 /\ s \in Int /\ s > 0 /\ span \in Int /\ low \in Int /\ high \in Int
      /\ size \in Nat /\ a + low + high - span >= 0
      /\ size = (a + low + high - span) \div s + 1
  BY <1>1, WindowFits
<1>3. QED
  BY <1>1, <1>2, Zenon DEF Window

\* ONNX's sizes of the spatial axes.
ConvSizes(n, x, k, m) == [i \in 1 .. m |-> ConvSize(n, x.dims, k.dims, m, i)]

\* The strides, paddings and dilations make a convolution that the dialect accepts.
LEMMA ConvFits ==
  ASSUME NEW n, NEW x, NEW k, NEW m, ConvKnown(n, x, k, m), NEW l,
         l[1] = Strides(n, m), l[4] = Dilations(n, m), l[5][1] = get_int_attr(n, "group", 1),
         \A i \in 1 .. m : /\ l[2][i] = Paddings(n, x, k, m)[1][i]
                           /\ l[3][i] = Paddings(n, x, k, m)[2][i]
  PROVE  Convolves(x, k, l, get_int_attr(n, "group", 1), ConvSizes(n, x, k, m),
                   Type(OutputDims(n), x.elem))
<1> DEFINE group == get_int_attr(n, "group", 1)
           size == ConvSizes(n, x, k, m)
           t == Type(OutputDims(n), x.elem)
<1>1. /\ Tensor(x) /\ ~Dynamic(x) /\ x.elem # "unknown"
      /\ Tensor(k) /\ ~Dynamic(k) /\ k.elem = x.elem
      /\ rank(x) >= 3 /\ rank(k) = rank(x) /\ m = rank(x) - 2
      /\ x.dims[2] = k.dims[2] * group
      /\ k.dims[1] % group = 0
      /\ DOMAIN Strides(n, m) = 1 .. m
      /\ OutputDims(n) = <<x.dims[1], k.dims[1]>> \o size
  BY Zenon DEF ConvKnown, ConvSizes
<1>2. ASSUME NEW i \in 1 .. m
      PROVE  /\ size[i] \in Nat
             /\ size[i] = (x.dims[i + 2] + l[2][i] + l[3][i] - Spread(k.dims[i + 2], l[4][i])) \div l[1][i] + 1
  <2>1. size[i] = ConvSize(n, x.dims, k.dims, m, i)
    BY DEF ConvSizes
  <2>2. /\ ConvSize(n, x.dims, k.dims, m, i) \in Nat
        /\ ConvSize(n, x.dims, k.dims, m, i) =
             (x.dims[i + 2] + Paddings(n, x, k, m)[1][i] + Paddings(n, x, k, m)[2][i]
                - Spread(k.dims[i + 2], Dilations(n, m)[i])) \div Strides(n, m)[i] + 1
    <3>1. Window(n, x, k, m, i)
      BY WindowIs
    <3>2. QED
      BY <3>1, Zenon DEF Window
  <2>3. l[2][i] = Paddings(n, x, k, m)[1][i] /\ l[3][i] = Paddings(n, x, k, m)[2][i]
    OBVIOUS
  <2>4. QED
    BY <2>1, <2>2, <2>3
<1>3. size = [i \in 1 .. m |-> size[i]]
  BY DEF ConvSizes
<1> HIDE DEF size
<1>4. t = Type(<<x.dims[1], k.dims[1]>> \o size, x.elem)
  BY <1>1
<1> HIDE DEF t, group
<1>5. DOMAIN l[1] = 1 .. rank(x) - 2 /\ l[5][1] = group
  BY <1>1 DEF group
<1>6. \A i \in 1 .. rank(x) - 2 :
        /\ size[i] \in Nat
        /\ size[i] = (x.dims[i + 2] + l[2][i] + l[3][i] - Spread(k.dims[i + 2], l[4][i])) \div l[1][i] + 1
  BY <1>1, <1>2
<1>7. size = [i \in 1 .. rank(x) - 2 |-> size[i]]
  BY <1>1, <1>3
<1>8. Convolves(x, k, l, group, size, t)
  BY <1>1, <1>4, <1>5, <1>6, <1>7, Zenon DEF Convolves
<1>9. QED
  BY <1>8 DEF group, size, t

\* The kernel's size, whatever the attribute says.
LEMMA KernelSizesKnown ==
  ASSUME NEW n, NEW x, NEW k, NEW m, ConvKnown(n, x, k, m), NEW i \in 1 .. m
  PROVE  KernelSizes(n, k, m)[i] = k.dims[i + 2]
<1>1. /\ Tensor(k) /\ rank(x) >= 3 /\ rank(k) = rank(x) /\ m = rank(x) - 2
      /\ n.at.kernel_shape \in {<<>>, SubSeq(k.dims, 3, rank(k))}
  BY Zenon DEF ConvKnown
<1>2. m = rank(k) - 2 /\ m \in Nat
  <2>1. rank(k) \in Nat
    BY <1>1, TensorType
  <2>2. QED
    BY <1>1, <2>1
<1>3. QED
  BY <1>1, <1>2, KernelSizesAre

\* C++'s quotients are the sizes of the windows, and the channels are the kernel's.
LEMMA ConvTypeIs ==
  ASSUME NEW n, NEW x, x = Operand(n, 1).type, NEW k, k = Operand(n, 2).type, NEW m,
         ConvKnown(n, x, k, m), Declared(n).dims = <<>>, ~(get_int_attr(n, "group", 1) > 1),
         n \in NodeProto
  PROVE  ConvType(n) = Type(OutputDims(n), x.elem)
<1> DEFINE l == ConvLists(n)
           r == rank(x)
           sizes == KernelSizes(n, k, m)
           convolved == [i \in 1 .. m |-> ConvolvedSize(x.dims[2 + i], l[2][i], l[3][i],
                                                        Spread(sizes[i], l[4][i]), l[1][i])]
           c == k.dims[1] * Larger(1, l[5][1])
<1>1. /\ Tensor(x) /\ Tensor(k) /\ r >= 3 /\ rank(k) = r /\ m = r - 2
      /\ get_int_attr(n, "group", 1) > 0
      /\ n.at.kernel_shape \in {<<>>, SubSeq(k.dims, 3, rank(k))}
      /\ OutputDims(n) = <<x.dims[1], k.dims[1]>> \o ConvSizes(n, x, k, m)
  BY Zenon DEF ConvKnown, ConvSizes
<1>2. r \in Nat /\ rank(k) \in Nat /\ m \in Nat
  BY <1>1, TensorType
<1>3. /\ l[1] = Strides(n, m)
      /\ l[2] = Paddings(n, x, k, m)[1]
      /\ l[3] = Paddings(n, x, k, m)[2]
      /\ l[4] = Dilations(n, m)
      /\ l[5] = <<get_int_attr(n, "group", 1)>>
  BY <1>1, <1>2, ConvListsAre
<1>4. ConvType(n) = Type(<<x.dims[1], c>> \o convolved, x.elem)
  <2> DEFINE wide == [i \in 1 .. r - 2 |-> k.dims[2 + i]]
             window == [i \in 1 .. r - 2 |->
                          ConvolvedSize(x.dims[2 + i], l[2][i], l[3][i],
                                        Spread(get_ints_attr(n, "kernel_shape", wide)[i], l[4][i]), l[1][i])]
  <2>1. ConvType(n) = Type(<<x.dims[1], c>> \o window, x.elem)
    BY Zenon DEF ConvType
  <2>2. get_ints_attr(n, "kernel_shape", wide) = sizes
    BY <1>1, Zenon DEF KernelSizes
  <2>3. window = convolved
    BY <1>1, <2>2, Zenon
  <2>4. QED
    BY <2>1, <2>3, Zenon
<1>5. c = k.dims[1]
  <2>1. get_int_attr(n, "group", 1) \in Int
    BY AttributeFacts
  <2> DEFINE g == get_int_attr(n, "group", 1)
  <2>2. g = 1
    BY <1>1, <2>1
  <2> HIDE DEF g, l
  <2>3. l[5] = <<1>>
    BY <1>3, <2>2 DEF g
  <2>4. l[5][1] = 1
    BY <2>3
  <2>5. Larger(1, l[5][1]) = 1
    BY <2>4 DEF Larger
  <2>6. k.dims[1] \in Int
    BY <1>1, <1>2, TensorType
  <2>7. QED
    BY <2>5, <2>6
<1> HIDE DEF c
<1>6. ASSUME NEW i \in 1 .. m
      PROVE  ConvolvedSize(x.dims[2 + i], l[2][i], l[3][i], Spread(sizes[i], l[4][i]), l[1][i])
               = ConvSize(n, x.dims, k.dims, m, i)
  <2> DEFINE a == x.dims[i + 2]
             s == Strides(n, m)[i]
             span == Spread(k.dims[i + 2], Dilations(n, m)[i])
             low == Paddings(n, x, k, m)[1][i]
             high == Paddings(n, x, k, m)[2][i]
             size == ConvSize(n, x.dims, k.dims, m, i)
  <2>1. /\ a \in Int /\ a > 0 /\ s \in Int /\ s > 0 /\ span \in Int /\ low \in Int /\ high \in Int
        /\ size \in Nat /\ a + low + high - span >= 0
        /\ size = (a + low + high - span) \div s + 1
    <3>1. Window(n, x, k, m, i)
      BY WindowIs
    <3>2. QED
      BY <3>1, Zenon DEF Window
  <2>2. sizes[i] = k.dims[i + 2]
    BY KernelSizesKnown
  <2>3. 2 + i = i + 2
    OBVIOUS
  <2>4. ConvolvedSize(x.dims[2 + i], l[2][i], l[3][i], Spread(sizes[i], l[4][i]), l[1][i])
          = ConvolvedSize(a, low, high, span, s)
    BY <1>3, <2>2, <2>3, Zenon
  <2> HIDE DEF a, s, span, low, high, size
  <2>5. ConvolvedSize(a, low, high, span, s) = Quotient(a + low + high - span, s) + 1
    BY <2>1 DEF ConvolvedSize
  <2>6. Quotient(a + low + high - span, s) = (a + low + high - span) \div s
    BY <2>1 DEF Quotient
  <2>7. QED
    BY <2>1, <2>4, <2>5, <2>6 DEF size
<1>7. convolved = ConvSizes(n, x, k, m)
  <2> DEFINE u == ConvSizes(n, x, k, m)
  <2>1. u = [i \in 1 .. m |-> ConvSize(n, x.dims, k.dims, m, i)]
    BY DEF ConvSizes
  <2> HIDE DEF l, sizes, u
  <2>2. convolved = [i \in 1 .. m |-> ConvSize(n, x.dims, k.dims, m, i)]
    BY <1>6
  <2> HIDE DEF convolved
  <2>3. QED
    BY <2>1, <2>2 DEF u
<1> HIDE DEF convolved
<1>8. QED
  BY <1>1, <1>4, <1>5, <1>7

\* Convolutions of the third tier.
LEMMA ConvTyped ==
  ASSUME NEW n, n.op_type = "Conv", Ready(n), "group" \notin Lapses(n)
  PROVE  Treated(n, ConvOpConversion(n))
<1> DEFINE v == Operand(n, 1)
           w == Operand(n, 2)
           x == v.type
           k == w.type
           m == rank(x) - 2
           l == ConvLists(n)
           t == ConvType(n)
           group == get_int_attr(n, "group", 1)
           size == ConvSizes(n, x, k, m)
<1>1. \/ ConvOpConversion(n) = Failure
      \/ valid(v) /\ valid(w) /\ ConvOpConversion(n) = Convolve(n, v, w, l, t)
  BY Zenon DEF ConvOpConversion
<1>2. SUFFICES ASSUME valid(v), valid(w) PROVE TypedOutcome(n, Convolve(n, v, w, l, t))
  BY <1>1, Zenon DEF Treated
<1>3. v = Operand(n, 1) /\ w = Operand(n, 2) /\ x = Operand(n, 1).type /\ k = Operand(n, 2).type
  OBVIOUS
<1> HIDE DEF v, w
<1>4. /\ ConvKnown(n, x, k, m)
      /\ Declared(n).dims # <<>> => Declared(n) = Type(OutputDims(n), x.elem)
  BY <1>2, <1>3, ConvFacts
<1>5. n \in NodeProto
  BY ReadyInputs DEF Ready
<1>6. t = Type(OutputDims(n), x.elem)
  <2>1. CASE Declared(n).dims # <<>>
    <3>1. ConvType(n) = Declared(n)
      BY <2>1, Zenon DEF ConvType
    <3>2. QED
      BY <1>4, <2>1, <3>1
  <2>2. CASE Declared(n).dims = <<>>
    BY <2>2, OtherLapses, <1>3, <1>4, <1>5, ConvTypeIs DEF Ready
  <2>3. QED
    BY <2>1, <2>2
<1>7. Convolves(x, k, l, group, size, t)
  <2>1. m \in Nat /\ rank(x) \in Nat /\ m = rank(x) - 2
    <3>1. Tensor(x) /\ rank(x) >= 3
      BY <1>4, Zenon DEF ConvKnown
    <3>2. rank(x) \in Nat
      BY <3>1, TensorType
    <3>3. QED
      BY <3>1, <3>2
  <2>2. /\ l[1] = Strides(n, m)
        /\ l[2] = Paddings(n, x, k, m)[1]
        /\ l[3] = Paddings(n, x, k, m)[2]
        /\ l[4] = Dilations(n, m)
        /\ l[5] = <<group>>
    BY <1>3, <2>1, ConvListsAre
  <2> HIDE DEF x, k, m, l, group, size, t
  <2>3. l[5][1] = get_int_attr(n, "group", 1)
    BY <2>2 DEF group
  <2>4. \A i \in 1 .. m : /\ l[2][i] = Paddings(n, x, k, m)[1][i]
                          /\ l[3][i] = Paddings(n, x, k, m)[2][i]
    BY <2>2
  <2>5. Convolves(x, k, l, get_int_attr(n, "group", 1), ConvSizes(n, x, k, m),
                  Type(OutputDims(n), x.elem))
    BY <1>4, <2>2, <2>3, <2>4, ConvFits
  <2>6. QED
    BY <1>6, <2>5 DEF group, size
<1>8. t.dims = OutputDims(n)
  BY <1>6, TypeFields
<1>9. Convolves(v.type, w.type, l, group, size, t)
  BY <1>7
<1> HIDE DEF l, group, size, t, x, k, m
<1>10. QED
  BY <1>2, <1>3, <1>8, <1>9, ConvolveTyped DEF x, k

\* Padding that ONNX's checker leaves empty is empty.
LEMMA PadsEmptied ==
  ASSUME NEW n \in NodeProto, n.at.pads = <<>>
  PROVE  [n EXCEPT !.at.pads = <<>>] = n
<1> DEFINE a == n.at
           b == [a EXCEPT !.pads = <<>>]
<1>1. a \in [axis : Seq(Int), axes : Seq(Int), keepdims : Seq(Int), perm : Seq(Int),
             strides : Seq(Int), pads : Seq(Int), dilations : Seq(Int), kernel_shape : Seq(Int),
             auto_pad : STRING, group : Seq(Int)]
  BY DEF NodeProto
<1>2. b = a
  BY <1>1
<1>3. n = [n EXCEPT !.at = a]
  BY DEF NodeProto
<1>4. QED
  BY <1>2, <1>3

\* Convolutions of the second tier.
LEMMA ConvL2Typed ==
  ASSUME NEW n, n.op_type = "Conv", Ready(n), "group" \notin Lapses(n)
  PROVE  Treated(n, convert_conv_l2(n))
<1>1. n.at.auto_pad = "VALID" => n.at.pads = <<>>
  <2>1. OperandsAccepted(n)
    BY ReadyInputs, AllLapses DEF Accepted
  <2>2. ConvAccepted(n)
    BY <2>1, AcceptedKinds
  <2>3. n.at.auto_pad \in {"VALID", "SAME_UPPER", "SAME_LOWER"} => n.at.pads = <<>>
    BY <2>2, Zenon DEF ConvAccepted
  <2>4. QED
    BY <2>3
<1>2. n \in NodeProto
  BY DEF Ready
<1>3. convert_conv_l2(n) = ConvOpConversion(n)
  <2>1. CASE n.at.auto_pad = "VALID"
    <3>1. convert_conv_l2(n) = ConvOpConversion([n EXCEPT !.at.pads = <<>>])
      BY <2>1, Zenon DEF convert_conv_l2
    <3>2. [n EXCEPT !.at.pads = <<>>] = n
      BY <1>1, <1>2, <2>1, PadsEmptied
    <3>3. QED
      BY <3>1, <3>2, Zenon
  <2>2. CASE n.at.auto_pad # "VALID"
    BY <2>2, Zenon DEF convert_conv_l2
  <2>3. QED
    BY <2>1, <2>2
<1>4. QED
  BY <1>3, ConvTyped

\* The two halves of the padding.
LEMMA PadHalves ==
  ASSUME NEW p \in Seq(Int), NEW m \in Nat, Len(p) = 2 * m, NEW i \in 1 .. m
  PROVE  SubSeq(p, 1, m)[i] = p[i] /\ SubSeq(p, m + 1, 2 * m)[i] = p[i + m]
<1>1. 2 * m - (m + 1) + 1 = m /\ m + 1 + i - 1 = i + m /\ m - 1 + 1 = m /\ 1 + i - 1 = i
  OBVIOUS
<1>2. SubSeq(p, 1, m)[i] = p[1 + i - 1]
  BY <1>1
<1>3. SubSeq(p, m + 1, 2 * m)[i] = p[m + 1 + i - 1]
  <2> DEFINE b == 2 * m
  <2>1. b \in Nat /\ i \in 1 .. b - (m + 1) + 1
    BY <1>1
  <2> HIDE DEF b
  <2>2. SubSeq(p, m + 1, b)[i] = p[m + 1 + i - 1]
    BY <2>1, SMTT(30)
  <2>3. QED
    BY <2>2 DEF b
<1>4. QED
  BY <1>1, <1>2, <1>3

\* Convolutions of the first tier.
LEMMA ConvL1Typed ==
  ASSUME NEW n, n.op_type = "Conv", Ready(n), FirstLapses(n) = {}, NEW stray
  PROVE  TypedOutcome(n, convert_conv(n, stray))
<1> DEFINE v == Operand(n, 1)
           w == Operand(n, 2)
           x == v.type
           k == w.type
           m == rank(x) - 2
           strides == Strides(n, m)
           dilations == Dilations(n, m)
           pads == Pads(n, m)
           group == get_int_attr(n, "group", 1)
           Out(i) == Quotient(x.dims[2 + i] + pads[i] + pads[i + m]
                                - Spread(At(k.dims, 2 + i, stray), dilations[i]), strides[i]) + 1
           out == [i \in 1 .. m |-> Out(i)]
           c == At(k.dims, 1, stray)
           l == <<strides, SubSeq(pads, 1, m), SubSeq(pads, m + 1, 2 * m), dilations, <<group>>>>
           t == IF Declared(n).dims # <<>> THEN Declared(n)
                ELSE Type(<<x.dims[1], c>> \o out, x.elem)
           size == ConvSizes(n, x, k, m)
<1>1. convert_conv(n, stray) = Convolve(n, v, w, l, t)
  BY Zenon DEF convert_conv, Strides, Dilations, Pads
<1>2. valid(v) /\ valid(w)
  <2>1. Len(n.inputs) > 1
    BY ReadyInputs, InputKinds, ProtoFacts DEF Ready
  <2>2. ASSUME ~valid(v) \/ ~valid(w) PROVE "missing" \in FirstLapses(n)
    BY <2>1, <2>2 DEF FirstLapses
  <2>3. QED
    BY <2>2
<1>3. ~PadsSame(n)
  <2>1. ASSUME PadsSame(n) PROVE "auto_pad" \in FirstLapses(n)
    BY <2>1 DEF FirstLapses, PadsSame
  <2>2. QED
    BY <2>1
<1>4. v = Operand(n, 1) /\ w = Operand(n, 2) /\ x = Operand(n, 1).type /\ k = Operand(n, 2).type
  OBVIOUS
<1> HIDE DEF v, w
<1>5. /\ ConvKnown(n, x, k, m)
      /\ Declared(n).dims # <<>> => Declared(n) = Type(OutputDims(n), x.elem)
  BY <1>2, <1>4, ConvFacts
<1>6. /\ Tensor(x) /\ Tensor(k) /\ rank(x) >= 3 /\ rank(k) = rank(x)
      /\ Len(pads) = 2 * m /\ pads \in Seq(Int)
      /\ OutputDims(n) = <<x.dims[1], k.dims[1]>> \o size
  BY <1>5, Zenon DEF ConvKnown, ConvSizes
<1>7. m \in Nat /\ rank(x) \in Nat /\ m = rank(x) - 2 /\ rank(k) = m + 2
  <2>1. rank(x) \in Nat
    BY <1>6, TensorType
  <2>2. QED
    BY <1>6, <2>1
<1>8. ASSUME NEW i \in 1 .. m
      PROVE  Paddings(n, x, k, m)[1][i] = pads[i] /\ Paddings(n, x, k, m)[2][i] = pads[i + m]
  <2> DEFINE ahead == [j \in 1 .. m |-> Pads(n, m)[j]]
             behind == [j \in 1 .. m |-> Pads(n, m)[j + m]]
  <2>1. Paddings(n, x, k, m) = <<ahead, behind>>
    BY <1>3 DEF Paddings, PadsSame
  <2>2. ahead[i] = pads[i] /\ behind[i] = pads[i + m]
    OBVIOUS
  <2> HIDE DEF ahead, behind, pads
  <2>3. QED
    BY <2>1, <2>2
<1>9. t = Type(OutputDims(n), x.elem)
  <2>1. CASE Declared(n).dims # <<>>
    BY <1>5, <2>1
  <2>2. CASE Declared(n).dims = <<>>
    <3>1. At(k.dims, 1, stray) = k.dims[1] /\ \A i \in 1 .. m : At(k.dims, 2 + i, stray) = k.dims[i + 2]
      <4> DEFINE d == k.dims
      <4>1. DOMAIN d = 1 .. m + 2
        BY <1>6, <1>7, TensorType
      <4> HIDE DEF d, m
      <4>2. m \in Nat
        BY <1>7
      <4>3. 1 \in DOMAIN d /\ \A i \in 1 .. m : 2 + i \in DOMAIN d /\ 2 + i = i + 2
        BY <4>1, <4>2
      <4>4. At(d, 1, stray) = d[1] /\ \A i \in 1 .. m : At(d, 2 + i, stray) = d[i + 2]
        BY <4>3 DEF At
      <4>5. QED
        BY <4>4 DEF d
    <3>2. ASSUME NEW i \in 1 .. m PROVE Out(i) = ConvSize(n, x.dims, k.dims, m, i)
      <4>1. Window(n, x, k, m, i)
        BY <1>5, WindowIs
      <4> DEFINE a == x.dims[i + 2]
                 s == Strides(n, m)[i]
                 span == Spread(k.dims[i + 2], Dilations(n, m)[i])
                 low == Pads(n, m)[i]
                 high == Pads(n, m)[i + m]
                 sz == ConvSize(n, x.dims, k.dims, m, i)
      <4>2. /\ a \in Int /\ s \in Int /\ s > 0 /\ span \in Int /\ low \in Int /\ high \in Int
            /\ a + low + high - span >= 0 /\ sz = (a + low + high - span) \div s + 1
        <5>1. low = Paddings(n, x, k, m)[1][i] /\ high = Paddings(n, x, k, m)[2][i]
          BY <1>8
        <5> HIDE DEF low, high
        <5>2. QED
          BY <4>1, <5>1 DEF Window
      <4>3. 2 + i = i + 2 /\ At(k.dims, 2 + i, stray) = k.dims[i + 2]
        BY <3>1
      <4>4. Out(i) = Quotient(a + low + high - span, s) + 1
        BY <4>3, Zenon
      <4> HIDE DEF a, s, span, low, high, sz, Out
      <4>5. Quotient(a + low + high - span, s) = (a + low + high - span) \div s
        BY <4>2 DEF Quotient
      <4>6. QED
        BY <4>2, <4>4, <4>5 DEF sz
    <3>3. out = size
      <4>1. size = [i \in 1 .. m |-> ConvSize(n, x.dims, k.dims, m, i)]
        BY DEF ConvSizes
      <4> HIDE DEF Out, size, m
      <4>2. out = [i \in 1 .. m |-> ConvSize(n, x.dims, k.dims, m, i)]
        BY <3>2
      <4> HIDE DEF out
      <4>3. QED
        BY <4>1, <4>2
    <3>4. t = Type(<<x.dims[1], c>> \o out, x.elem) /\ c = k.dims[1]
      BY <2>2, <3>1
    <3> HIDE DEF t, c, out, size
    <3>5. QED
      BY <1>6, <3>3, <3>4
  <2>3. QED
    BY <2>1, <2>2
<1> HIDE DEF t, c, out, Out
<1>10. Convolves(x, k, l, group, size, t)
  <2> DEFINE u == SubSeq(pads, 1, m)
             z == SubSeq(pads, m + 1, 2 * m)
  <2>1. \A i \in 1 .. m : u[i] = pads[i] /\ z[i] = pads[i + m]
    BY <1>6, <1>7, PadHalves
  <2> HIDE DEF u, z
  <2>2. l[1] = strides /\ l[2] = u /\ l[3] = z /\ l[4] = dilations /\ l[5] = <<group>>
    BY DEF u, z
  <2> HIDE DEF x, k, m, l, group, size, pads
  <2>3. l[5][1] = get_int_attr(n, "group", 1)
    BY <2>2 DEF group
  <2>4. \A i \in 1 .. m : /\ l[2][i] = Paddings(n, x, k, m)[1][i]
                          /\ l[3][i] = Paddings(n, x, k, m)[2][i]
    BY <1>8, <2>1, <2>2
  <2>5. l[1] = Strides(n, m) /\ l[4] = Dilations(n, m)
    BY <2>2
  <2>6. Convolves(x, k, l, get_int_attr(n, "group", 1), ConvSizes(n, x, k, m),
                  Type(OutputDims(n), x.elem))
    BY <1>5, <2>3, <2>4, <2>5, ConvFits
  <2>7. QED
    BY <1>9, <2>6 DEF group, size
<1>11. t.dims = OutputDims(n)
  BY <1>9, TypeFields
<1>12. Convolves(v.type, w.type, l, group, size, t)
  BY <1>10
<1> HIDE DEF l, group, size, x, k, m
<1>13. TypedOutcome(n, Convolve(n, v, w, l, t))
  BY <1>2, <1>4, <1>11, <1>12, ConvolveTyped
<1>14. QED
  BY <1>1, <1>13

-----------------------------------------------------------------------------
(***************************************************************************)
(* The three dispatchers.                                                  *)
(***************************************************************************)
\* Whatever pattern the third tier finds for a node, it treats it well.
LEMMA PatternsTyped ==
  ASSUME NEW n, Ready(n), Lapses(n) = {}, n.op_type \in Patterns, NEW stray
  PROVE  Treated(n, matchAndRewrite(n, stray))
<1>1. CASE n.op_type \in {"Add", "Mul", "Sub"}
  BY <1>1, Mnemonics, BinaryTyped DEF matchAndRewrite
<1>2. CASE n.op_type \in {"Sqrt", "Exp", "Sin", "Cos", "Neg", "Erf"}
  BY <1>2, Mnemonics, UnaryTyped DEF matchAndRewrite
<1>3. CASE n.op_type = "Div"
  BY <1>3, Mnemonics, DivTyped DEF matchAndRewrite
<1>4. CASE n.op_type = "Pow"
  BY <1>4, Mnemonics, PowTyped DEF matchAndRewrite
<1>5. CASE n.op_type = "Slice"
  BY <1>5, Mnemonics, SliceTyped DEF matchAndRewrite
<1>6. CASE n.op_type = "Concat"
  BY <1>6, Mnemonics, ConcatTyped DEF matchAndRewrite
<1>7. CASE n.op_type = "ReduceMean"
  BY <1>7, Mnemonics, ReduceMeanTyped DEF matchAndRewrite
<1>8. CASE n.op_type = "MatMul"
  BY <1>8, Mnemonics, MatMulTyped DEF matchAndRewrite
<1>9. CASE n.op_type = "Conv"
  BY <1>9, Mnemonics, ConvTyped DEF matchAndRewrite
<1>10. CASE n.op_type = "Softmax"
  BY <1>10, Mnemonics, SoftmaxTyped DEF matchAndRewrite
<1>11. CASE n.op_type = "Reshape"
  BY <1>11, Mnemonics, ReshapeTyped DEF matchAndRewrite
<1>12. CASE n.op_type = "Transpose"
  BY <1>12, Mnemonics, TransposeTyped DEF matchAndRewrite
<1>13. CASE n.op_type = "QuantizeLinear"
  BY <1>13, Mnemonics, QuantizeTyped DEF matchAndRewrite
<1>14. CASE n.op_type = "DequantizeLinear"
  BY <1>14, Mnemonics, DequantizeTyped DEF matchAndRewrite
<1>15. QED
  BY <1>1, <1>2, <1>3, <1>4, <1>5, <1>6, <1>7, <1>8, <1>9, <1>10, <1>11, <1>12, <1>13, <1>14,
     Mnemonics DEF Patterns

\* Nodes that add, multiply or subtract.
Adding == {"Add", "Mul", "Sub"}

Added == {"Add", "Mul"}

\* They are treated well by the second tier.
LEMMA AddingL2Typed ==
  ASSUME NEW n, n.op_type \in Adding, Ready(n)
  PROVE  Refused(convert_binary_l2(n)) \/ TypedOutcome(n, convert_binary_l2(n))
  BY BinaryL2Typed DEF Adding

\* Where the first tier overlooks nothing, both operands are there.
LEMMA NoneMissing ==
  ASSUME NEW n, FirstLapses(n) = {}
  PROVE  valid(Operand(n, 1)) /\ (Len(n.inputs) > 1 => valid(Operand(n, 2)))
<1>1. ASSUME ~valid(Operand(n, 1)) \/ (Len(n.inputs) > 1 /\ ~valid(Operand(n, 2)))
      PROVE  "missing" \in FirstLapses(n)
  BY <1>1 DEF FirstLapses
<1>2. QED
  BY <1>1

\* And sums and products of the same shape are converted well by the first.
LEMMA AddedL1Typed ==
  ASSUME NEW n, n.op_type \in Added, Ready(n), FirstLapses(n) = {}
  PROVE  TypedOutcome(n, convert_same_shape(n, BinaryMnemonic[n.op_type]))
<1>1. n.op_type \in {"Add", "Mul"}
  BY DEF Added
<1>2. Operand(n, 1).type = Operand(n, 2).type
  <2>1. ASSUME Operand(n, 1).type # Operand(n, 2).type PROVE "broadcast" \in FirstLapses(n)
    BY <1>1, <2>1 DEF FirstLapses
  <2>2. QED
    BY <2>1
<1>3. Len(n.inputs) = 2
  BY <1>1, ReadyInputs, InputKinds DEF Broadcasting
<1>4. valid(Operand(n, 1)) /\ valid(Operand(n, 2))
  <2>1. Len(n.inputs) > 1
    BY <1>3
  <2>2. QED
    BY <2>1, NoneMissing
<1> DEFINE m == BinaryMnemonic[n.op_type]
<1>5. m \in Binary
  BY <1>1, Mnemonics
<1> HIDE DEF m
<1>6. TypedOutcome(n, convert_same_shape(n, m))
  BY <1>1, <1>2, <1>4, <1>5, SameShapeTyped
<1>7. QED
  BY <1>6 DEF m

\* So does the second tier, or it emits nothing.
LEMMA SecondTierTyped ==
  ASSUME NEW n, Ready(n), n.op_type \in SecondTier, NEW stray, ~Shapeless(n),
         "group" \notin Lapses(n),
         \/ "run-time shape" \notin Lapses(n)
         \/ n.op_type = "Reshape" /\ valid(Operand(n, 2)) /\ Numbers(n, 2) = <<>>
  PROVE  Refused(dispatch_l2(n, stray)) \/ TypedOutcome(n, dispatch_l2(n, stray))
<1> DEFINE r == dispatch_l2(n, stray)
<1>1. Refused(Failure)
  BY DEF Failure, Refused
<1>2. CASE n.op_type \in {"Add", "Mul", "Sub"}
  <2>1. r = convert_binary_l2(n)
    BY <1>2 DEF dispatch_l2
  <2> HIDE DEF r
  <2>2. n.op_type \in Adding
    BY <1>2 DEF Adding
  <2>3. Refused(convert_binary_l2(n)) \/ TypedOutcome(n, convert_binary_l2(n))
    BY <2>2, AddingL2Typed, Zenon
  <2>4. QED
    BY <2>1, <2>3 DEF r
<1>3. ASSUME Treated(n, r) PROVE Refused(r) \/ TypedOutcome(n, r)
  <2> HIDE DEF r
  <2>1. r = Failure \/ TypedOutcome(n, r)
    BY <1>3, Zenon DEF Treated
  <2>2. QED
    BY <1>1, <2>1
<1>4. CASE n.op_type = "MatMul"
  <2>1. r = convert_matmul_l2(n)
    BY <1>4 DEF dispatch_l2
  <2> HIDE DEF r
  <2>2. QED
    BY <1>3, <1>4, <2>1, MatMulL2Typed DEF r
<1>5. CASE n.op_type = "Conv"
  <2>1. r = convert_conv_l2(n)
    BY <1>5 DEF dispatch_l2
  <2> HIDE DEF r
  <2>2. QED
    BY <1>3, <1>5, <2>1, ConvL2Typed DEF r
<1>6. CASE n.op_type = "Reshape"
  <2>1. r = convert_reshape_l2(n)
    BY <1>6 DEF dispatch_l2
  <2> HIDE DEF r
  <2>2. QED
    BY <1>3, <1>6, <2>1, ReshapeL2Typed DEF r
<1>7. CASE n.op_type = "Transpose"
  <2>1. r = convert_transpose_l2(n, stray)
    BY <1>7 DEF dispatch_l2
  <2> HIDE DEF r
  <2>2. QED
    BY <1>3, <1>7, <2>1, TransposeL2Typed DEF r
<1>8. QED
  BY <1>2, <1>4, <1>5, <1>6, <1>7 DEF SecondTier, FirstTier

\* The first tier converts every node well.
LEMMA FirstTierTyped ==
  ASSUME NEW n, Ready(n), n.op_type \in FirstTier, NEW stray, ~Shapeless(n),
         FirstLapses(n) = {}, "run-time shape" \notin Lapses(n)
  PROVE  TypedOutcome(n, dispatch(n, stray))
<1>1. valid(Operand(n, 1))
  BY NoneMissing
<1>2. CASE n.op_type \in {"Add", "Mul"}
  <2>1. dispatch(n, stray) = convert_same_shape(n, BinaryMnemonic[n.op_type])
    BY <1>2 DEF dispatch
  <2>2. n.op_type \in Added
    BY <1>2 DEF Added
  <2>3. QED
    BY <2>1, <2>2, AddedL1Typed, Zenon
<1>3. CASE n.op_type = "MatMul"
  BY <1>3, MatMulL1Typed DEF dispatch
<1>4. CASE n.op_type = "Conv"
  BY <1>4, ConvL1Typed DEF dispatch
<1>5. CASE n.op_type = "Reshape"
  BY <1>5, ReshapeL1Typed DEF dispatch
<1>6. CASE n.op_type = "Transpose"
  BY <1>1, <1>6, TransposedTyped DEF dispatch
<1>7. QED
  BY <1>2, <1>3, <1>4, <1>5, <1>6 DEF FirstTier

-----------------------------------------------------------------------------
(***************************************************************************)
(* A shape, once settled, stays as it is.                                  *)
(***************************************************************************)
\* ONNX's shape of a node depends on the shapes that count.
LEMMA DimsAgree ==
  ASSUME NEW n, n.op_type # "Concat", NEW ks, NEW ds, NEW es, ds[1] = es[1],
         n.op_type \in {"Add", "Mul", "Sub", "Div", "Pow", "MatMul", "Conv"} => ds[2] = es[2]
  PROVE  OnnxDims(n, ds, ks) = OnnxDims(n, es, ks)
<1>1. CASE n.op_type \in Broadcasting
  <2>1. ASSUME NEW fs PROVE OnnxDims(n, fs, ks) = BroadcastDims(fs[1], fs[2])
    BY <1>1, OnnxKinds
  <2>2. ds[2] = es[2]
    BY <1>1 DEF Broadcasting
  <2>3. QED
    BY <2>1, <2>2
<1>2. CASE n.op_type = "Conv"
  <2>1. ASSUME NEW fs PROVE OnnxDims(n, fs, ks) = ConvolvedDims(n, fs[1], fs[2])
    BY <1>2, OnnxKinds
  <2>2. QED
    BY <1>2, <2>1
<1>3. CASE n.op_type = "MatMul"
  <2> DEFINE Batch(dims) == SubSeq(dims, 1, Len(dims) - 2)
             M(d, e) == BroadcastDims(Batch(d), Batch(e))
                          \o (IF Len(d) > 1 THEN <<d[Len(d) - 1]>> ELSE <<>>)
                          \o (IF Len(e) > 1 THEN <<Last(e)>> ELSE <<>>)
  <2>1. ASSUME NEW fs PROVE OnnxDims(n, fs, ks) = M(fs[1], fs[2])
    BY <1>3, Mnemonics DEF OnnxDims
  <2> HIDE DEF M
  <2>2. QED
    BY <1>3, <2>1
<1>4. CASE n.op_type = "Slice"
  <2> DEFINE Listed(i, default) == IF Len(ks) < i \/ ks[i] = <<>> THEN default ELSE ks[i]
             S(d) == SlicedDims(d, ks[2], ks[3], Listed(4, AllAxes(Len(d))),
                                Listed(5, [i \in 1 .. Len(d) |-> 1]))
  <2>1. ASSUME NEW fs PROVE OnnxDims(n, fs, ks) = S(fs[1])
    BY <1>4, Mnemonics DEF OnnxDims
  <2> HIDE DEF S
  <2>2. QED
    BY <2>1
<1>5. CASE n.op_type = "ReduceMean"
  <2> DEFINE axes(d) == IF Len(ks) > 1 /\ ks[2] # <<>> THEN ks[2] ELSE get_ints_attr(n, "axes", AllAxes(Len(d)))
             reduced(d) == {AxisOf(a, Len(d)) : a \in ToSet(axes(d))}
             R(d) == IF get_int_attr(n, "keepdims", 1) = 0 THEN Without(Type(d, "f32"), reduced(d))
                     ELSE [k \in 1 .. Len(d) |-> IF k - 1 \in reduced(d) THEN 1 ELSE d[k]]
  <2>1. ASSUME NEW fs PROVE OnnxDims(n, fs, ks) = R(fs[1])
    BY <1>5, Mnemonics DEF OnnxDims
  <2> HIDE DEF R
  <2>2. QED
    BY <2>1
<1>6. CASE n.op_type = "Reshape"
  <2> DEFINE R(d) == [i \in DOMAIN ks[2] |->
                        CASE ks[2][i] = 0 -> d[i]
                          [] ks[2][i] = -1 -> OpenSize(ks[2], d)
                          [] OTHER -> ks[2][i]]
  <2>1. ASSUME NEW fs PROVE OnnxDims(n, fs, ks) = R(fs[1])
    BY <1>6, Mnemonics DEF OnnxDims
  <2> HIDE DEF R
  <2>2. QED
    BY <2>1
<1>7. CASE n.op_type = "Transpose"
  <2> DEFINE T(d) == [i \in 1 .. Len(d) |->
                        d[get_ints_attr(n, "perm", Reverse(AllAxes(Len(d))))[i] + 1]]
  <2>1. ASSUME NEW fs PROVE OnnxDims(n, fs, ks) = T(fs[1])
    BY <1>7, Mnemonics DEF OnnxDims
  <2> HIDE DEF T
  <2>2. QED
    BY <2>1
<1>8. CASE n.op_type \notin Broadcasting \cup {"Slice", "Concat", "ReduceMean", "MatMul", "Conv",
                                              "Reshape", "Transpose"}
  <2>1. ASSUME NEW fs PROVE OnnxDims(n, fs, ks) = fs[1]
    BY <1>8, Mnemonics DEF OnnxDims, Broadcasting
  <2>2. QED
    BY <2>1
<1>9. QED
  BY <1>1, <1>2, <1>3, <1>4, <1>5, <1>6, <1>7, <1>8

\* The values that a node reads are known, and stay.
LEMMA OutputKept ==
  ASSUME NEW n, Reads(n) \subseteq DOMAIN n.inputs, UNCHANGED <<graph, type_map>>,
         \A k \in Reads(n) : n.inputs[k] \in DOMAIN value_map,
         \A x \in DOMAIN value_map : x \in DOMAIN value_map' /\ value_map'[x] = value_map[x]
  PROVE  OutputDims(n)' = OutputDims(n)
<1> DEFINE D == DOMAIN n.inputs
           ds == [k \in D |-> Operand(n, k).type.dims]
           es == [k \in D |-> Operand(n, k)'.type.dims]
           ks == [k \in D |-> Numbers(n, k)]
<1>1. \A k : Numbers(n, k)' = Numbers(n, k)
  BY DEF Numbers, Extracted, HasInput, IsInitializer
<1>2. Declared(n)' = Declared(n)
  BY DEF Declared, get_type
<1>3. \A k \in Reads(n) : Operand(n, k)' = Operand(n, k)
  BY DEF Operand, lookup
<1>4. \A k \in Reads(n) : ds[k] = es[k]
  BY <1>3
<1>5. OutputDims(n) = IF n.op_type = "Reshape" /\ Numbers(n, 2) = <<>> THEN Declared(n).dims
                      ELSE OnnxDims(n, ds, ks)
  BY DEF OutputDims
<1>6. OutputDims(n)' = IF n.op_type = "Reshape" /\ Numbers(n, 2) = <<>> THEN Declared(n).dims
                       ELSE OnnxDims(n, es, ks)
  <2>1. OutputDims(n)' = IF n.op_type = "Reshape" /\ Numbers(n, 2)' = <<>> THEN Declared(n)'.dims
                         ELSE OnnxDims(n, es, [k \in D |-> Numbers(n, k)'])
    BY DEF OutputDims
  <2>2. [k \in D |-> Numbers(n, k)'] = ks
    BY <1>1
  <2> HIDE DEF ks, es
  <2>3. QED
    BY <1>1, <1>2, <2>1, <2>2
<1>7. OnnxDims(n, ds, ks) = OnnxDims(n, es, ks)
  <2>1. CASE n.op_type = "Concat"
    <3>1. Reads(n) = D
      BY <2>1 DEF Reads
    <3>2. ds = es
      BY <1>4, <3>1
    <3> HIDE DEF ds, es
    <3>3. QED
      BY <3>2
  <2>2. CASE n.op_type # "Concat"
    <3>1. /\ ds[1] = es[1]
          /\ n.op_type \in {"Add", "Mul", "Sub", "Div", "Pow", "MatMul", "Conv"} => ds[2] = es[2]
      <4> HIDE DEF ds, es
      <4>1. QED
        BY <1>4, <2>2 DEF Reads
    <3> HIDE DEF ds, es, ks
    <3>2. QED
      BY <2>2, <3>1, DimsAgree
  <2>3. QED
    BY <2>1, <2>2
<1> HIDE DEF ds, es, ks
<1>8. QED
  BY <1>5, <1>6, <1>7

-----------------------------------------------------------------------------
(***************************************************************************)
(* The invariant: as long as nothing was overlooked, what was built is     *)
(* well typed, and what was computed has the shape that ONNX gives it.     *)
(***************************************************************************)
\* Node n has a value, of ONNX's shape, and so have the operands that count.
HasShape(n) ==
  /\ value_map[n.output].type.dims = OutputDims(n)
  /\ \A k \in Reads(n) : k \in DOMAIN n.inputs /\ n.inputs[k] \in DOMAIN value_map

Settled ==
  \A i \in DOMAIN graph.nodes :
    i < next /\ graph.nodes[i].output \in DOMAIN value_map => HasShape(graph.nodes[i])

Typing == lapses = {} => Tensors /\ TypedBody(body) /\ Settled

\* Operands that are read are inputs.
LEMMA ReadsInputs ==
  ASSUME NEW g \in Graphs, NEW i \in DOMAIN g.nodes
  PROVE  /\ Len(g.nodes[i].inputs) \in Arity(g.nodes[i].op_type)
         /\ g.nodes[i].op_type \in Patterns => Reads(g.nodes[i]) \subseteq DOMAIN g.nodes[i].inputs
<1> DEFINE n == g.nodes[i]
<1>1. IsOnnxGraph(g)
  BY GraphsAssumption
<1>2. Len(n.inputs) \in Arity(n.op_type)
  BY <1>1, Zenon DEF IsOnnxGraph
<1>3. IsSequence(n.inputs)
  BY NodeFacts
<1> HIDE DEF n
<1>4. Len(n.inputs) \in Nat /\ DOMAIN n.inputs = 1 .. Len(n.inputs)
  BY <1>3, SequenceFacts
<1>5. ASSUME n.op_type \in {"Add", "Mul", "Sub", "Div", "Pow", "MatMul", "Conv"}
      PROVE  Reads(n) \subseteq DOMAIN n.inputs
  BY <1>5, <1>2, <1>3, InputKinds DEF Reads, Broadcasting
<1>6. CASE n.op_type = "Concat"
  BY <1>2, <1>6 DEF Reads, n
<1>7. ASSUME n.op_type \in Patterns, n.op_type # "Concat",
             n.op_type \notin {"Add", "Mul", "Sub", "Div", "Pow", "MatMul", "Conv"}
      PROVE  Reads(n) \subseteq DOMAIN n.inputs
  BY <1>7, Mnemonics, <1>2, <1>3, InputKinds DEF Reads, Patterns, Elementwise
<1>8. QED
  BY <1>2, <1>5, <1>6, <1>7 DEF n

\* Names keep their values, and the nodes that are new have been given a shape.
LEMMA SettledStep ==
  ASSUME Settled, UNCHANGED <<graph, type_map>>,
         \A x \in DOMAIN value_map : x \in DOMAIN value_map' /\ value_map'[x] = value_map[x],
         \A i \in DOMAIN graph.nodes :
           i < next' /\ graph.nodes[i].output \in DOMAIN value_map' =>
             \/ i < next /\ graph.nodes[i].output \in DOMAIN value_map
             \/ /\ value_map'[graph.nodes[i].output].type.dims = OutputDims(graph.nodes[i])
                /\ \A k \in Reads(graph.nodes[i]) :
                     k \in DOMAIN graph.nodes[i].inputs
                       /\ graph.nodes[i].inputs[k] \in DOMAIN value_map
  PROVE  Settled'
<1>1. ASSUME NEW n,
             value_map'[n.output].type.dims = OutputDims(n),
             \A k \in Reads(n) : k \in DOMAIN n.inputs /\ n.inputs[k] \in DOMAIN value_map
      PROVE  HasShape(n)'
  BY <1>1, OutputKept DEF HasShape
<1>2. ASSUME NEW i \in DOMAIN graph.nodes, i < next', graph.nodes[i].output \in DOMAIN value_map'
      PROVE  HasShape(graph.nodes[i])'
  <2> DEFINE n == graph.nodes[i]
  <2>1. CASE i < next /\ n.output \in DOMAIN value_map
    BY <2>1, <1>1 DEF Settled, HasShape
  <2>2. CASE ~(i < next /\ n.output \in DOMAIN value_map)
    BY <1>2, <2>2, <1>1
  <2>3. QED
    BY <2>1, <2>2
<1>3. QED
  BY <1>2 DEF Settled

\* A node was converted well and entered, or nothing has come of it.
LEMMA TypingNode ==
  ASSUME CountInv, next \in DOMAIN graph.nodes, Fresh, Tensors, TypedBody(body), Settled,
         UNCHANGED <<graph, type_map>>, next' = next + 1, NEW r, body' = r.body,
         \/ r.body = body /\ value_map' = value_map
         \/ /\ TypedOutcome(Current, r) /\ Current.op_type \in Patterns
            /\ value_map' = value_map \/ value_map' = Entered(Current.output, r.value)
  PROVE  Tensors' /\ TypedBody(body') /\ Settled'
<1> DEFINE out == Current.output
<1>1. /\ graph \in Graphs /\ DOMAIN graph.nodes = 1 .. Len(graph.nodes) /\ Len(graph.nodes) \in Nat
      /\ Current = graph.nodes[next]
  BY GraphFacts DEF CountInv, Current
<1>2. DOMAIN graph.nodes \subseteq Int /\ next \in Int
  BY <1>1
<1>3. /\ \A i \in DOMAIN graph.nodes : graph.nodes[i].output = out => i = next
      /\ out # ""
  BY <1>1, NameFacts
<1>4. out \notin DOMAIN value_map
  <2>1. next >= next
    BY <1>2
  <2>2. QED
    BY <1>1, <2>1 DEF Fresh
<1>5. /\ DOMAIN value_map' = DOMAIN value_map \/ DOMAIN value_map' = {out} \cup DOMAIN value_map
      /\ \A x \in DOMAIN value_map : x \in DOMAIN value_map' /\ value_map'[x] = value_map[x]
  BY <1>4 DEF Entered
<1>6. ASSUME out \in DOMAIN value_map'
      PROVE  TypedOutcome(Current, r) /\ Current.op_type \in Patterns /\ value_map'[out] = r.value
  <2>1. value_map' # value_map
    BY <1>4, <1>6
  <2>2. QED
    BY <2>1 DEF Entered
<1>7. Tensors'
  <2>1. ASSUME NEW x \in DOMAIN value_map' PROVE Tensor(value_map'[x].type) /\ x # ""
    <3>1. CASE x = out
      BY <1>3, <1>6, <3>1 DEF TypedOutcome
    <3>2. CASE x \in DOMAIN value_map
      BY <1>5, <3>2 DEF Tensors
    <3>3. QED
      BY <1>5, <3>1, <3>2
  <2>2. QED
    BY <2>1 DEF Tensors
<1>8. TypedBody(body')
  BY DEF TypedOutcome
<1>9. ASSUME NEW i \in DOMAIN graph.nodes, i < next', graph.nodes[i].output \in DOMAIN value_map'
      PROVE  \/ i < next /\ graph.nodes[i].output \in DOMAIN value_map
             \/ /\ value_map'[graph.nodes[i].output].type.dims = OutputDims(graph.nodes[i])
                /\ \A k \in Reads(graph.nodes[i]) :
                     k \in DOMAIN graph.nodes[i].inputs
                       /\ graph.nodes[i].inputs[k] \in DOMAIN value_map
  <2>1. CASE i = next
    BY <1>1, <1>6, <1>9, <2>1, ReadsInputs, ValidMapped DEF TypedOutcome, Operand
  <2>2. CASE i # next
    <3>1. i < next
      BY <1>2, <1>9, <2>2
    <3>2. QED
      BY <1>3, <1>5, <1>9, <2>2, <3>1
  <2>3. QED
    BY <2>1, <2>2
<1>10. Settled'
  BY <1>5, <1>9, SettledStep
<1>11. QED
  BY <1>7, <1>8, <1>10

-----------------------------------------------------------------------------
(***************************************************************************)
(* The steps keep the invariant.                                           *)
(***************************************************************************)
\* What it says that a tier has overlooked nothing in a node.
LEMMA TierNone ==
  ASSUME NEW n, NEW result, TierLapses(n, result) = {}
  PROVE  /\ ~Shapeless(n)
         /\ tier = 1 => Lapses(n) \subseteq {"group"} /\ FirstLapses(n) = {}
         /\ tier # 1 /\ ~result.ok => ~valid(result.value)
         /\ tier # 1 /\ result.ok =>
              \/ Lapses(n) = {}
              \/ /\ n.op_type = "Reshape" /\ valid(Operand(n, 2)) /\ Numbers(n, 2) = <<>>
                 /\ Lapses(n) \subseteq {"run-time shape"}
<1>1. ~Shapeless(n)
  <2>1. Shapeless(n) => "shapeless" \in TierLapses(n, result)
    BY Zenon DEF TierLapses
  <2>2. QED
    BY <2>1
<1>2. ASSUME tier = 1 PROVE Lapses(n) \subseteq {"group"} /\ FirstLapses(n) = {}
  BY <1>2 DEF TierLapses
<1>3. ASSUME tier # 1, ~result.ok PROVE ~valid(result.value)
  BY <1>3 DEF TierLapses
<1>4. ASSUME tier # 1, result.ok
      PROVE  \/ Lapses(n) = {}
             \/ /\ n.op_type = "Reshape" /\ valid(Operand(n, 2)) /\ Numbers(n, 2) = <<>>
                /\ Lapses(n) \subseteq {"run-time shape"}
  BY <1>4 DEF TierLapses
<1>5. QED
  BY <1>1, <1>2, <1>3, <1>4

\* The node at hand may be converted.
LEMMA CurrentReady ==
  ASSUME CountInv, next \in DOMAIN graph.nodes, Tensors, TypedBody(body),
         Lapses(Current) \subseteq Pardoned
  PROVE  Ready(Current)
  BY NodeFacts, ReadsInputs DEF CountInv, Ready, Current

\* A node of the first or second tier.
LEMMA TypingTier ==
  ASSUME CountInv, BodyInv, Progress, Typing, AtNode, NEW stray, NEW result, Enter(result),
         \/ tier = 1 /\ Current.op_type \in FirstTier /\ result = dispatch(Current, stray)
         \/ tier = 2 /\ Current.op_type \in SecondTier /\ result = dispatch_l2(Current, stray)
  PROVE  Typing'
<1> DEFINE n == Current
<1>1. SUFFICES ASSUME lapses' = {} PROVE Tensors' /\ TypedBody(body') /\ Settled'
  BY DEF Typing
<1>2. /\ UNCHANGED <<graph, type_map>> /\ next' = next + 1 /\ body' = result.body
      /\ value_map' = IF valid(result.value) THEN Entered(n.output, result.value) ELSE value_map
      /\ lapses = {} /\ TierLapses(n, result) = {}
  BY <1>1 DEF Enter
<1>3. /\ Tensors /\ TypedBody(body) /\ Settled /\ Fresh /\ next \in DOMAIN graph.nodes
  BY <1>2, GraphFacts DEF Typing, Progress, AtNode, CountInv
<1>4. n.op_type \in Patterns
  BY Mnemonics DEF Patterns, SecondTier, FirstTier
<1>5. Lapses(n) \subseteq Pardoned => Ready(n)
  BY <1>3, CurrentReady
<1>5a. tier = 2 => tier # 1 /\ n.op_type \in SecondTier /\ result = dispatch_l2(n, stray)
  OBVIOUS
<1> HIDE DEF n
<1>6. \/ TypedOutcome(n, result)
      \/ result.body = body /\ ~valid(result.value)
  <2>0. /\ ~Shapeless(n)
        /\ tier # 1 /\ ~result.ok => ~valid(result.value)
        /\ tier # 1 /\ result.ok =>
             \/ Lapses(n) = {}
             \/ /\ n.op_type = "Reshape" /\ valid(Operand(n, 2)) /\ Numbers(n, 2) = <<>>
                /\ Lapses(n) \subseteq {"run-time shape"}
    BY <1>2, TierNone, Zenon
  <2>1. CASE tier = 1
    <3>1. /\ ~Shapeless(n) /\ FirstLapses(n) = {} /\ Lapses(n) \subseteq {"group"}
          /\ n.op_type \in FirstTier /\ result = dispatch(n, stray)
      BY <1>2, <2>1, TierNone DEF n
    <3>2. Lapses(n) \subseteq Pardoned /\ "run-time shape" \notin Lapses(n)
      BY <3>1 DEF Pardoned
    <3>3. QED
      BY <1>5, <3>1, <3>2, FirstTierTyped
  <2>2. CASE tier = 2 /\ result.ok
    BY <1>5a, <2>0, <2>2, <1>5, SecondTierTyped DEF Pardoned, Refused
  <2>3. CASE tier = 2 /\ ~result.ok
    BY <1>5a, <2>0, <2>3, ProgramLooser, DispatchL2Outcome DEF AtNode, BodyInv, Outcome
  <2>4. QED
    BY <2>1, <2>2, <2>3
<1>7. \/ result.body = body /\ value_map' = value_map
      \/ /\ TypedOutcome(Current, result) /\ Current.op_type \in Patterns
         /\ value_map' = value_map \/ value_map' = Entered(Current.output, result.value)
  BY <1>2, <1>4, <1>6 DEF n
<1>8. QED
  BY <1>2, <1>3, <1>7, TypingNode

\* A node of the third tier.
LEMMA TypingConvert ==
  ASSUME CountInv, BodyInv, Progress, Typing, Convert
  PROVE  Typing'
<1> DEFINE n == Current
<1>1. SUFFICES ASSUME lapses' = {} PROVE Tensors' /\ TypedBody(body') /\ Settled'
  BY DEF Typing
<1>2. PICK stray \in Stray : \E result \in {matchAndRewrite(n, stray)} :
        /\ body' = result.body
        /\ value_map' = Mapped(n, result)
        /\ lapses' = lapses \cup (IF result.ok THEN Lapses(n) ELSE {})
  BY Zenon DEF Convert
<1> DEFINE r == matchAndRewrite(n, stray)
<1>3. /\ body' = r.body /\ value_map' = Mapped(n, r)
      /\ lapses = {} /\ (r.ok => Lapses(n) = {})
      /\ n.op_type \in Patterns /\ stage = "nodes" /\ next' = next + 1 /\ next <= Len(graph.nodes)
      /\ UNCHANGED <<graph, type_map>>
  BY <1>1, <1>2 DEF Convert
<1>4. /\ Tensors /\ TypedBody(body) /\ Settled /\ Fresh /\ next \in DOMAIN graph.nodes
  BY <1>3, GraphFacts DEF Typing, Progress, CountInv
<1>5. Lapses(n) = {} => Ready(n)
  BY <1>4, CurrentReady
<1>6. Lapses(n) = {} => Treated(n, matchAndRewrite(n, stray))
  <2> HIDE DEF n
  <2>1. QED
    BY <1>3, <1>5, PatternsTyped
<1>7. Outcome(r, TRUE)
  <2>1. MapKnown /\ Program(body, TRUE)
    BY <1>3, ProgramLooser DEF BodyInv
  <2> HIDE DEF n
  <2>2. QED
    BY <1>3, <2>1, PatternOutcome
<1> HIDE DEF r, n
<1>8. CASE r.ok
  BY <1>3, <1>6, <1>8, <1>4, TypingNode DEF r, Treated, Failure, Mapped, n
<1>9. CASE ~r.ok
  BY <1>3, <1>7, <1>9, <1>4, TypingNode DEF Outcome, Mapped
<1>10. QED
  BY <1>8, <1>9

\* The types that a graph gives its names have shapes of integers.
LEMMA AllTypesFacts ==
  ASSUME NEW g \in Graphs
  PROVE  /\ NamesOf(g.inputs) \cup NamesOf(g.initializers) \subseteq DOMAIN AllTypes(g)
         /\ \A name \in DOMAIN AllTypes(g) : Tensor(AllTypes(g)[name])
<1>1. IsOnnxGraph(g)
  BY GraphsAssumption
<1>2. /\ g.inputs \in Seq(ValueInfoProto) /\ g.outputs \in Seq(ValueInfoProto)
      /\ g.value_info \in Seq(ValueInfoProto) /\ g.initializers \in Seq(ValueInfoProto)
  BY <1>1, Zenon DEF IsOnnxGraph
<1>3. ASSUME NEW v \in ValueInfoProto PROVE Tensor(v.type)
  BY <1>3 DEF ValueInfoProto, Tensor, Type
<1>4. ASSUME NEW typed \in Seq(ValueInfoProto)
      PROVE  DOMAIN Types(typed) = NamesOf(typed) /\ \A name \in NamesOf(typed) : Tensor(Types(typed)[name])
  <2>1. DOMAIN Types(typed) = NamesOf(typed)
    BY DEF Types, NamesOf
  <2>2. ASSUME NEW name \in NamesOf(typed) PROVE Tensor(Types(typed)[name])
    <3> DEFINE x == CHOOSE x \in ToSet(typed) : x.name = name
    <3>1. Types(typed)[name] = x.type
      BY DEF Types, NamesOf
    <3>2. \E v \in ToSet(typed) : v.name = name
      BY DEF NamesOf, ToSet
    <3>3. x \in ToSet(typed)
      BY <3>2
    <3> HIDE DEF x
    <3>4. x \in ValueInfoProto
      <4> HIDE DEF ValueInfoProto
      <4>1. QED
        BY <3>3 DEF ToSet
    <3>5. QED
      BY <1>3, <3>1, <3>4
  <2>3. QED
    BY <2>1, <2>2
<1> DEFINE T(f) == \A x \in DOMAIN f : Tensor(f[x])
<1>5. ASSUME NEW f, NEW h, T(f), T(h) PROVE T(Overriding(f, h))
  <2>1. ASSUME NEW x \in DOMAIN Overriding(f, h) PROVE Tensor(Overriding(f, h)[x])
    BY <2>1, <1>5 DEF Overriding
  <2>2. QED
    BY <2>1
<1>6. T(Types(g.outputs)) /\ T(Types(g.inputs)) /\ T(Types(g.value_info)) /\ T(Types(g.initializers))
  BY <1>2, <1>4
<1> HIDE DEF T
<1>7. T(AllTypes(g))
  BY <1>5, <1>6 DEF AllTypes
<1>8. NamesOf(g.inputs) \cup NamesOf(g.initializers) \subseteq DOMAIN AllTypes(g)
  BY <1>2, <1>4 DEF AllTypes, Overriding
<1>9. QED
  BY <1>7, <1>8 DEF T

\* The context knows the types of its values, and the constants have one.
LEMMA TypingPrepare ==
  ASSUME CountInv, Prepare, next = 1
  PROVE  Typing'
<1> DEFINE types == AllTypes(graph)
           inits == graph.initializers
<1>1. SUFFICES ASSUME lapses' = {} PROVE Tensors' /\ TypedBody(body') /\ Settled'
  BY DEF Typing
<1>2. graph \in Graphs /\ DOMAIN graph.nodes = 1 .. Len(graph.nodes) /\ Len(graph.nodes) \in Nat
  BY GraphFacts DEF CountInv
<1>3. /\ type_map' = types /\ UNCHANGED <<graph, next>>
      /\ body' = [i \in DOMAIN inits |-> Operation(<<"ssa", i - 1>>, "stablehlo.constant", <<>>, <<>>,
                                                   types[inits[i].name])]
      /\ lapses' = UNION {ConstantLapses(x.name, types[x.name]) : x \in ToSet(inits)}
  BY Zenon DEF Prepare
<1>4. /\ IsSequence(body')
      /\ DOMAIN value_map' = NamesOf(graph.inputs) \cup NamesOf(inits)
      /\ \A x \in DOMAIN value_map' : value_map'[x].type = types[x]
  BY <1>2, PrepareBody DEF Program
<1>5. /\ NamesOf(graph.inputs) \cup NamesOf(inits) \subseteq DOMAIN types
      /\ \A name \in DOMAIN types : Tensor(types[name])
      /\ "" \notin NamesOf(graph.inputs) \cup NamesOf(inits)
  <2>1. IsOnnxGraph(graph)
    BY <1>2, GraphsAssumption
  <2>2. "" \notin NamesOf(graph.inputs) \cup NamesOf(inits)
    BY <2>1, Zenon DEF IsOnnxGraph
  <2>3. QED
    BY <1>2, <2>2, AllTypesFacts
<1> HIDE DEF types
<1>6. Tensors'
  BY <1>3, <1>4, <1>5 DEF Tensors
<1>7. \A x \in ToSet(inits) : ~Dynamic(types[x.name]) /\ types[x.name].elem # "unknown"
  <2>1. ASSUME NEW x \in ToSet(inits), Dynamic(types[x.name]) PROVE "dynamic" \in lapses'
    BY <1>3, <2>1 DEF ConstantLapses
  <2>2. ASSUME NEW x \in ToSet(inits), types[x.name].elem = "unknown" PROVE "unknown" \in lapses'
    BY <1>3, <2>2 DEF ConstantLapses
  <2>3. QED
    BY <1>1, <2>1, <2>2
<1>8. ASSUME NEW i \in DOMAIN body' PROVE WellTyped(body'[i])
  <2> DEFINE t == types[inits[i].name]
  <2>1. body'[i] = Operation(<<"ssa", i - 1>>, "stablehlo.constant", <<>>, <<>>, t) /\ inits[i] \in ToSet(inits)
    BY <1>3 DEF ToSet
  <2>2. ~Dynamic(t) /\ t.elem # "unknown"
    BY <1>7, <2>1
  <2> HIDE DEF t
  <2>3. Sound("stablehlo.constant", <<>>, <<>>, t)
    BY <2>2, SoundConstant
  <2>4. QED
    BY <2>1, <2>3 DEF Sound
<1>9. TypedBody(body')
  BY <1>4, <1>8 DEF TypedBody
<1>10. Settled'
  BY <1>2, <1>3 DEF Settled
<1>11. QED
  BY <1>6, <1>9, <1>10

\* A step that changes nothing that the invariant looks at.
LEMMA TypingKept ==
  ASSUME Typing, UNCHANGED <<graph, type_map, value_map, body, next>>, lapses \subseteq lapses'
  PROVE  Typing'
<1>1. SUFFICES ASSUME lapses' = {} PROVE Tensors' /\ TypedBody(body') /\ Settled'
  BY DEF Typing
<1>2. Tensors /\ TypedBody(body) /\ Settled
  BY <1>1 DEF Typing
<1>3. Settled'
  BY <1>2, SettledStep
<1>4. QED
  BY <1>2, <1>3 DEF Tensors

\* The return is not looked at.
LEMMA TypingFinalize ==
  ASSUME Typing, Finalize
  PROVE  Typing'
<1>1. SUFFICES ASSUME lapses' = {} PROVE Tensors' /\ TypedBody(body') /\ Settled'
  BY DEF Typing
<1>2. /\ body' = Append(body, Operation(<<>>, "func.return", Found, <<>>, Unknown))
      /\ UNCHANGED <<graph, type_map, value_map, next, lapses>>
  BY Zenon DEF Finalize, Found, Outs
<1>3. Tensors /\ TypedBody(body) /\ Settled
  BY <1>1, <1>2 DEF Typing
<1>4. Settled'
  BY <1>2, <1>3, SettledStep
<1>5. TypedBody(body')
  <2> DEFINE ret == Operation(<<>>, "func.return", Found, <<>>, Unknown)
  <2>1. ret.mnemonic = "func.return"
    BY DEF Operation
  <2> HIDE DEF ret
  <2>2. IsSequence(body)
    BY <1>3 DEF TypedBody
  <2>3. /\ IsSequence(Append(body, ret))
        /\ \A i \in DOMAIN Append(body, ret) : Append(body, ret)[i] = ret \/ (i \in DOMAIN body /\ Append(body, ret)[i] = body[i])
    BY <2>2, AppendFacts
  <2>4. QED
    BY <1>2, <1>3, <2>1, <2>3 DEF TypedBody, ret
<1>6. QED
  BY <1>2, <1>3, <1>4, <1>5 DEF Tensors

\* Every step keeps the invariant.
LEMMA TypingStep == ASSUME SInv, Typing, LoweringNext PROVE Typing'
<1>1. CountInv /\ BodyInv /\ (stage # "done" => Progress)
  BY DEF SInv, LInv
<1>2. CASE Prepare
  BY <1>1, <1>2, TypingPrepare DEF Progress, Prepare
<1>3. CASE Dispatch
  <2>1. PICK stray \in Stray : \E result \in {dispatch(Current, stray)} : Enter(result)
    BY <1>3, Zenon DEF Dispatch
  <2>2. Enter(dispatch(Current, stray)) /\ AtNode /\ tier = 1 /\ Current.op_type \in FirstTier
    BY <1>3, <2>1 DEF Dispatch
  <2>3. stage # "done"
    BY <2>2 DEF AtNode
  <2>4. QED
    BY <1>1, <2>2, <2>3, TypingTier
<1>4. CASE DispatchL2
  <2>1. PICK stray \in Stray : \E result \in {dispatch_l2(Current, stray)} : Enter(result)
    BY <1>4, Zenon DEF DispatchL2
  <2>2. Enter(dispatch_l2(Current, stray)) /\ AtNode /\ tier = 2 /\ Current.op_type \in SecondTier
    BY <1>4, <2>1 DEF DispatchL2
  <2>3. stage # "done"
    BY <2>2 DEF AtNode
  <2>4. QED
    BY <1>1, <2>2, <2>3, TypingTier
<1>5. CASE Convert
  BY <1>1, <1>5, TypingConvert DEF Convert
<1>6. CASE SkipUnsupported \/ NoPattern \/ SkipLegal
  <2>1. /\ stage = "nodes" /\ next \in DOMAIN graph.nodes /\ next' = next + 1
        /\ UNCHANGED <<graph, type_map, value_map, body>> /\ lapses \subseteq lapses'
    BY SMTT(30), <1>1, <1>6, GraphFacts DEF SkipUnsupported, NoPattern, SkipLegal, AtNode, CountInv
  <2>2. SUFFICES ASSUME lapses' = {} PROVE Tensors' /\ TypedBody(body') /\ Settled'
    BY DEF Typing
  <2>3. Tensors /\ TypedBody(body) /\ Settled /\ Fresh
    BY <1>1, <2>1, <2>2 DEF Typing, Progress
  <2> DEFINE r == [body |-> body]
  <2>4. body' = r.body /\ r.body = body /\ value_map' = value_map
    BY <2>1
  <2> HIDE DEF r
  <2>5. QED
    BY <1>1, <2>1, <2>3, <2>4, TypingNode
<1>7. CASE Stop \/ ReadBeyondInputs \/ Terminating
  BY <1>7, TypingKept DEF Stop, ReadBeyondInputs, Terminating, vars
<1>8. CASE Finalize
  BY <1>8, TypingFinalize
<1>9. QED
  BY <1>2, <1>3, <1>4, <1>5, <1>6, <1>7, <1>8 DEF LoweringNext, Shared, Framework

\* What is built from a model in which nothing was overlooked is a program that
\* the dialect accepts, and the value that stands for a node's output has the
\* shape that ONNX gives it: in every tier, for every graph.
THEOREM ProgramsTypeCheck == LoweringSpec => []ProgramTypeChecks
<1>1. LoweringInit => Typing
  <2>1. ASSUME LoweringInit PROVE Tensors /\ TypedBody(body) /\ Settled
    BY <2>1 DEF LoweringInit, Init, Tensors, TypedBody, IsSequence, Settled
  <2>2. QED
    BY <2>1 DEF Typing
<1>2. SInv /\ Typing /\ [LoweringNext]_loweringVars => Typing'
  <2>1. ASSUME Typing, UNCHANGED loweringVars PROVE Typing'
    BY <2>1, TypingKept DEF loweringVars, vars
  <2>2. QED
    BY <2>1, TypingStep
<1>3. SInv /\ Typing => ProgramTypeChecks
  <2>1. SUFFICES ASSUME SInv, Typing, lapses = {}
                 PROVE  /\ \A op \in ToSet(body) : op.mnemonic # "func.return" => WellTyped(op)
                        /\ \A i \in 1 .. next - 1 :
                             graph.nodes[i].output \in DOMAIN value_map =>
                               value_map[graph.nodes[i].output].type.dims = OutputDims(graph.nodes[i])
    BY DEF ProgramTypeChecks
  <2>2. /\ TypedBody(body) /\ Settled
        /\ next \in 1 .. Len(graph.nodes) + 1 /\ DOMAIN graph.nodes = 1 .. Len(graph.nodes)
        /\ Len(graph.nodes) \in Nat
    BY <2>1, GraphFacts DEF Typing, SInv, LInv, CountInv
  <2>3. \A i \in 1 .. next - 1 : i \in DOMAIN graph.nodes /\ i < next
    BY <2>2
  <2>4. \A op \in ToSet(body) : op.mnemonic # "func.return" => WellTyped(op)
    BY <2>2 DEF TypedBody, ToSet
  <2>5. QED
    BY <2>2, <2>3, <2>4 DEF Settled, HasShape
<1>4. QED
  BY <1>1, <1>2, <1>3, SuccessInvariant, PTL DEF LoweringSpec
=============================================================================
