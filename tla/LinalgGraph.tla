---------------------------- MODULE LinalgGraph ----------------------------
(***************************************************************************)
(* The mutable graph of stage P6 (src/src/mlir/gpu/6_linalg_opt/           *)
(* linalg_ir.h): operators that own bodies of scalar steps, values with    *)
(* use lists, and the methods of Graph that the passes call.               *)
(*                                                                         *)
(* Values are numbered as make_val numbers them and live as long as the    *)
(* graph.  Operators are known by their addresses, as the fusion           *)
(* candidates know them; erase_op frees the address and a later operator   *)
(* may be given it again.  All tensors have one square shape, so that      *)
(* shapes, loop ranges and tile sizes tell nothing apart; the iterators of *)
(* an operator follow from its mnemonic.                                   *)
(***************************************************************************)
EXTENDS Naturals, SequencesExt

CONSTANT NumArgs  \* the arguments of the function are the values 1..NumArgs

ASSUME NumArgsAssumption == NumArgs \in Nat

Args == 1 .. NumArgs

(***************************************************************************)
(* Operators.  A position in a body is a block argument (operands, then    *)
(* accumulators, from 1 on) or, behind them, the result of a step.         *)
(***************************************************************************)
BodyStep(f, a, b) == [op |-> f, arg0 |-> a, arg1 |-> b]

Generic(ins, body, yield, result) ==
  [mnemonic |-> "linalg.generic", ins |-> ins, outs |-> <<>>, body |-> body,
   yield |-> yield, fused |-> <<>>, result |-> result]

add_elemwise(f, a, b, result) ==
  Generic(<<a, b>>, <<BodyStep(f, 1, 2)>>, 3, result)

add_unary(f, a, result) == Generic(<<a>>, <<BodyStep(f, 1, 1)>>, 2, result)

add_matmul(a, b, init, result) ==
  [mnemonic |-> "linalg.matmul", ins |-> <<a, b>>, outs |-> <<init>>,
   body |-> <<BodyStep("arith.mulf", 1, 2), BodyStep("arith.addf", 4, 3)>>,
   yield |-> 5, fused |-> <<>>, result |-> result]

add_fill(result) ==
  [mnemonic |-> "linalg.fill", ins |-> <<>>, outs |-> <<>>, body |-> <<>>,
   yield |-> 0, fused |-> <<>>, result |-> result]

IsGeneric(o) == o.mnemonic \in {"linalg.generic", "linalg.matmul"}

IsElementwise(o) == o.mnemonic = "linalg.generic"

HasReduction(o) == o.mnemonic = "linalg.matmul"

\* The operands that count as uses.
Operands(o) == ToSet(o.ins) \cup ToSet(o.outs)

\* FusedOp: a consumer fused into a tile loop keeps its body, with the args
\* block arguments that its first step counts, and those of its inputs that are
\* not the producer's result; not where among them the result stood.
FusedOp(o, producer) ==
  [extra_ins |-> SelectSeq(o.ins, LAMBDA v : v # producer.result),
   args |-> Len(o.ins), body |-> o.body, yield |-> o.yield]

\* Everything the printed operator reads.
Reads(o) == Operands(o) \cup UNION {ToSet(f.extra_ins) : f \in ToSet(o.fused)}

(***************************************************************************)
(* The graph: op maps the address of every live operator to it, ops lists  *)
(* these addresses in program order, users has a use list for every value. *)
(***************************************************************************)
Position(g, a) == CHOOSE i \in DOMAIN g.ops : g.ops[i] = a

IsLive(g, a) == a \in DOMAIN g.op

Definers(g, v) == {a \in DOMAIN g.op : g.op[a].result = v}

IsReturned(g, v) == v \in ToSet(g.returns)

Readers(g, v) == {a \in DOMAIN g.op : v \in Operands(g.op[a])}

\* faulty: values with several users count as well.
HasOneUser_Some(g, v) == g.users[v] # {}

\* The single use the cost filter and both rewrites ask for.
HasOneUser(g, v) == Cardinality(g.users[v]) = 1

\* The addresses an allocation may return: one never used, or a freed one.
Allocatable(g) == g.freed \cup {Cardinality((DOMAIN g.op) \cup g.freed) + 1}

\* Operands, use lists and returns; nothing else knows a value.
replace_all_uses(g, old, new) ==
  LET rename(s) == ReplaceAll(s, old, new) IN
  [g EXCEPT !.op      = [a \in DOMAIN @ |-> [@[a] EXCEPT !.ins = rename(@),
                                                         !.outs = rename(@)]],
            !.users   = [@ EXCEPT ![old] = @ \ Readers(g, old),
                                  ![new] = @ \cup Readers(g, old)],
            !.returns = rename(@)]

\* The operator leaves the list and the use lists, its address is free.
erase_op(g, a) ==
  [g EXCEPT !.op    = [b \in (DOMAIN @) \ {a} |-> @[b]],
            !.ops   = Remove(@, a),
            !.freed = @ \cup {a},
            !.users = [v \in DOMAIN @ |->
                        IF v \in Operands(g.op[a]) THEN @[v] \ {a} ELSE @[v]]]

\* An operator allocated at a and inserted at position i of the list.
InsertOp(g, a, i, o) ==
  [g EXCEPT !.op    = [b \in (DOMAIN @) \cup {a} |-> IF b = a THEN o ELSE @[b]],
            !.ops   = InsertAt(@, i, a),
            !.freed = @ \ {a},
            !.users = [v \in DOMAIN @ |->
                        IF v \in Operands(o) THEN @[v] \cup {a} ELSE @[v]]]

\* make_val
NewValue(g) == [g EXCEPT !.users = Append(@, {})]

Newest(g) == Len(g.users)

\* The graph that calls of add_arg, add_fill, add_matmul, add_elemwise and
\* add_unary build: the k-th operator has address k and defines value NumArgs + k.
Built(program, returns) ==
  [op      |-> program,
   ops     |-> [k \in DOMAIN program |-> k],
   users   |-> [v \in 1 .. NumArgs + Len(program) |->
                 {k \in DOMAIN program : v \in Operands(program[k])}],
   returns |-> returns,
   freed   |-> {}]

(***************************************************************************)
(* What a graph computes, as terms over the arguments.                     *)
(***************************************************************************)
Unknown == <<"?">>

Arguments == <<<<"A">>, <<"B">>, <<"C">>, <<"D">>>>

IsKnown(t) == t # Unknown

\* The yield of a body whose block arguments are the given terms.
RunBody(body, yield, in) ==
  LET Do(t, s) == Append(t, <<s.op, t[s.arg0], t[s.arg1]>>)
  IN  FoldLeft(Do, in, body)[yield]

\* The term of operator o when values have the terms t.  A fused consumer reads
\* the accumulator where it has no input left: as its first block arguments.
Apply(o, t) ==
  LET In(s) == [k \in DOMAIN s |-> t[s[k]]]
      Fuse(acc, f) ==
        RunBody(f.body, f.yield,
                [k \in 1 .. f.args - Len(f.extra_ins) |-> acc] \o In(f.extra_ins))
      computed == CASE o.mnemonic = "linalg.fill" -> <<"0">>
                    [] HasReduction(o) -> <<"matmul">> \o In(o.ins \o o.outs)
                    [] OTHER -> RunBody(o.body, o.yield, In(o.ins))
  IN  FoldLeft(Fuse, computed, o.fused)

\* The terms of all values, found in as many rounds as there are operators:
\* the list need not be in the order of the definitions.
Meaning(g) ==
  LET Step(t, a) ==
        LET o == g.op[a] IN
        IF IsKnown(t[o.result]) \/ \E v \in Reads(o) : ~IsKnown(t[v]) THEN t
        ELSE [t EXCEPT ![o.result] = Apply(o, t)]
      Round(t, n) == FoldLeft(Step, t, g.ops)
  IN  FoldLeft(Round, [v \in DOMAIN g.users |->
                        IF v \in Args THEN Arguments[v] ELSE Unknown], g.ops)

\* The tensors the function returns.
Results(g) == LET t == Meaning(g) IN [k \in DOMAIN g.returns |-> t[g.returns[k]]]
=============================================================================
