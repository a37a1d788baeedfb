----------------------------- MODULE ShloGraph -----------------------------
(***************************************************************************)
(* The mutable graph of stage P5                                           *)
(* (src/src/mlir/gpu/5_stablehlo_opt/shlo_graph.h) with its use-def        *)
(* chains, and what a graph computes.                                      *)
(*                                                                         *)
(* Every operator of the stage has one result, so an operator and its      *)
(* result share a number.  A graph is a record:                            *)
(*   value    the operators and arguments ever made, Graph::vals_          *)
(*   ops      the operators in the list Graph::ops, in order               *)
(*   users    Value::users of each value                                   *)
(*   returns  Graph::returns                                               *)
(* An erased operator leaves ops; its value stays, without definition.     *)
(*                                                                         *)
(* Shapes: the permutations the passes name, [0,2,3,1] and [0,3,1,2], and  *)
(* those of the built-in transpose graph are rotations of three            *)
(* dimensions.  A permutation is its rotation 0..2, compose_perms is       *)
(* addition modulo 3, and a static shape is the rotation that leads to it  *)
(* from one shape with three different extents (0 is NCHW, 1 is NHWC).     *)
(***************************************************************************)
EXTENDS Integers, Sequences, FiniteSets, SequencesExt

Dynamic == -1

Rotations == 0..2

Types == [elem : {"F32", "I64"}, dims : {Dynamic} \cup Rotations]

IsStatic(t) == t.dims # Dynamic

Binary == {"add", "multiply", "subtract", "divide", "maximum", "minimum"}

Elementwise == Binary \cup {"negate", "abs", "exponential", "log"}

Mnemonics == Elementwise \cup
  {"arg", "constant", "transpose", "reshape", "broadcast_in_dim",
   "get_dimension_size", "convolution"}

NoGroup == -1

NoAttrs == [permutation |-> 0, fusion_group |-> NoGroup, layout |-> "NCHW",
            input_layout |-> "NCHW", fused_bn |-> FALSE]

Arity(mn) ==
  CASE mn \in {"arg", "constant"} -> 0
    [] mn \in Binary \cup {"convolution"} -> 2
    [] OTHER -> 1

Layouts == {"NCHW", "NHWC"}

\* What the builders may set: fusion groups are for pass_fusion_detect to assign.
Attributes ==
  [permutation : Rotations, fusion_group : {NoGroup}, layout : Layouts,
   input_layout : Layouts, fused_bn : BOOLEAN]

\* An operator.  data is the number a splat constant holds.  legal says that
\* Stage 6 has renamed it.
Op(mn, operands, type, data, attrs) ==
  [mnemonic |-> mn, operands |-> operands, type |-> type, data |-> data,
   attrs |-> attrs, legal |-> FALSE]

\* What the builders of the stage give to add_op.
IsOperator(op) ==
  /\ op \in [mnemonic : Mnemonics, operands : Seq(Nat), type : Types, data : Int,
            attrs : Attributes, legal : BOOLEAN]
  /\ Len(op.operands) = Arity(op.mnemonic)

(***************************************************************************)
(* Queries.                                                                *)
(***************************************************************************)
Live(g) == ToSet(g.ops)

Operands(g, o) == ToSet(g.value[o].operands)

\* defining_op && defining_op->mnemonic == mn
Is(g, v, mn) == v \in Live(g) /\ g.value[v].mnemonic = mn

IsReturned(g, v) == v \in ToSet(g.returns)

IsDead(g, o) == ~IsReturned(g, o) /\ g.users[o] = {}

\* Every use list holds the live operators that have the value as an operand.
UsersMirror(g) ==
  \A v \in DOMAIN g.value : g.users[v] = {o \in Live(g) : v \in Operands(g, o)}

\* Live operators read arguments and results of live operators.
Closed(g) ==
  \A o \in Live(g) : \A v \in Operands(g, o) :
    \/ v \in Live(g)
    \/ v \in DOMAIN g.value /\ g.value[v].mnemonic = "arg"

(***************************************************************************)
(* Updates.                                                                *)
(***************************************************************************)
EmptyGraph == [value |-> <<>>, ops |-> <<>>, users |-> <<>>, returns |-> <<>>]

AddArg(g, type) ==
  [g EXCEPT !.value = Append(@, Op("arg", <<>>, type, 0, NoAttrs)),
            !.users = Append(@, {})]

AddOp(g, op) ==
  LET o == Len(g.value) + 1 IN
  [g EXCEPT
     !.value = Append(@, op),
     !.ops   = Append(@, o),
     !.users = Append([v \in DOMAIN @ |->
                 IF v \in ToSet(op.operands) THEN @[v] \cup {o} ELSE @[v]], {})]

AddConstant(g, type, n) == AddOp(g, Op("constant", <<>>, type, n, NoAttrs))

\* The result of the operator that was added last.
Newest(g) == Len(g.value)

Renamed(s, old, new) == [k \in DOMAIN s |-> IF s[k] = old THEN new ELSE s[k]]

WithOperand(op, old, new) == [op EXCEPT !.operands = Renamed(@, old, new)]

ReplaceAllUses(g, old, new) ==
  IF old = new THEN g ELSE
  LET readers == {o \in Live(g) : old \in Operands(g, o)}
      moved   == [g.users EXCEPT ![old] = @ \ readers, ![new] = @ \cup readers]
  IN [g EXCEPT
        !.value   = [v \in DOMAIN @ |->
                      IF v \in readers THEN WithOperand(@[v], old, new) ELSE @[v]],
        !.users   = moved,
        !.returns = Renamed(@, old, new)]

\* The place of a live operator: the list holds it once.
Position(g, o) == CHOOSE i \in DOMAIN g.ops : g.ops[i] = o

EraseOp_UserKept(g, o) == \* faulty: the operands keep the operator as a user
  [g EXCEPT !.ops = RemoveAt(@, Position(g, o))]

EraseOp(g, o) ==
  [g EXCEPT
     !.ops   = RemoveAt(@, Position(g, o)),
     !.users = [v \in DOMAIN @ |-> IF v \in Operands(g, o) THEN @[v] \ {o} ELSE @[v]]]

\* The pair of calls by which every rewrite ends.
Replaced(g, o, new) == EraseOp(ReplaceAllUses(g, o, new), o)

\* The graphs that add_arg and add_op make, operands before the operators.
IsBuilt(g) ==
  /\ g = [value |-> g.value, ops |-> g.ops, users |-> g.users, returns |-> g.returns]
  /\ g.value \in Seq(ToSet(g.value))
  /\ \A v \in DOMAIN g.value : IsOperator(g.value[v])
  /\ g.ops \in Seq(DOMAIN g.value)
  /\ \A i, j \in DOMAIN g.ops : g.ops[i] = g.ops[j] => i = j
  /\ \A o \in Live(g) :
       /\ g.value[o].mnemonic # "arg"
       /\ \A v \in Operands(g, o) : v < o
  /\ g.users \in Seq(SUBSET Live(g)) /\ Len(g.users) = Len(g.value)
  /\ g.returns \in Seq(DOMAIN g.value)
  /\ UsersMirror(g) /\ Closed(g)

(***************************************************************************)
(* What a graph computes.  A tensor holds one entry per rotation, and a    *)
(* transpose rotates them, so that layouts are told apart; numbers are     *)
(* residues.  The convolution treats its three entries differently.        *)
(***************************************************************************)
Modulus == 97

Undefined == [dims |-> Dynamic, at |-> <<0, 0, 0>>]

IsDefined(t) == t.dims # Dynamic

Splat(dims, n) == [dims |-> dims, at |-> <<n % Modulus, n % Modulus, n % Modulus>>]

Transposed(t, p) ==
  [dims |-> (t.dims + p) % 3,
   at   |-> CASE p = 0 -> t.at
              [] p = 1 -> <<t.at[2], t.at[3], t.at[1]>>
              [] p = 2 -> <<t.at[3], t.at[1], t.at[2]>>]

Calc(mn, a, b) ==
  CASE mn = "add" -> (a + b) % Modulus
    [] mn = "multiply" -> (a * b) % Modulus
    [] mn = "subtract" -> (a - b) % Modulus

Entrywise(mn, a, b) ==
  <<Calc(mn, a[1], b[1]), Calc(mn, a[2], b[2]), Calc(mn, a[3], b[3])>>

\* The extent that a get_dimension_size asks for.
Extent(dims) == dims + 2

ArgTensor(k, dims) ==
  [dims |-> dims,
   at   |-> <<(7 * k) % Modulus, (7 * k + 2) % Modulus, (7 * k + 5) % Modulus>>]

\* The attribute fused_bn changes nothing: the operator holds no scale and no bias.
Convolved(op, x, w) ==
  LET in == IF op.attrs.input_layout = "NHWC" THEN Transposed(x, 2).at ELSE x.at
      y  == <<in[1] + 2 * in[2], in[2] + 3 * in[3], in[1] - in[3]>>
  IN Transposed([dims |-> 0, at |-> Entrywise("multiply", y, w.at)],
                IF op.attrs.layout = "NHWC" THEN 1 ELSE 0)

Apply(op, in) ==
  CASE op.mnemonic = "constant" -> Splat(op.type.dims, op.data)
    [] op.mnemonic \in Binary ->
         IF in[1].dims = in[2].dims
         THEN [in[1] EXCEPT !.at = Entrywise(op.mnemonic, in[1].at, in[2].at)]
         ELSE Undefined
    [] op.mnemonic = "negate" ->
         [in[1] EXCEPT !.at = Entrywise("subtract", <<0, 0, 0>>, @)]
    [] op.mnemonic = "transpose" -> Transposed(in[1], op.attrs.permutation)
    [] op.mnemonic = "reshape" -> [in[1] EXCEPT !.dims = op.type.dims]
    [] op.mnemonic = "broadcast_in_dim" -> in[1]
    [] op.mnemonic = "get_dimension_size" -> Splat(0, Extent(in[1].dims))
    [] op.mnemonic = "convolution" ->
         IF in[1].dims = IF op.attrs.input_layout = "NHWC" THEN 1 ELSE 0
         THEN Convolved(op, in[1], in[2])
         ELSE Undefined

\* The tensors of the operands.
In(g, t, o) == [k \in DOMAIN g.value[o].operands |-> t[g.value[o].operands[k]]]

\* The tensors t and that of o, if those of its operands are in t and it is not.
Evaluated(g, t, o) ==
  LET in == In(g, t, o) IN
  IF IsDefined(t[o]) \/ \E k \in DOMAIN in : ~IsDefined(in[k]) THEN t
  ELSE [t EXCEPT ![o] = Apply(g.value[o], in)]

\* Each operator of the list once.
Round(g, t) ==
  LET after[k \in 0 .. Len(g.ops)] ==
        IF k = 0 THEN t ELSE Evaluated(g, after[k - 1], g.ops[k])
  IN  after[Len(g.ops)]

Given(g) ==
  [v \in DOMAIN g.value |-> IF g.value[v].mnemonic = "arg"
                            THEN ArgTensor(v, g.value[v].type.dims) ELSE Undefined]

\* The tensor of every value, found by as many rounds as there are operators:
\* the list need not be in the order of the definitions.
Meaning(g) ==
  LET after[n \in 0 .. Len(g.ops)] == IF n = 0 THEN Given(g) ELSE Round(g, after[n - 1])
  IN  after[Len(g.ops)]

\* The tensors t are what all of g computes, but for the operator c.
SolvesBut(g, t, c) == \A o \in Live(g) \ {c} : t[o] = Apply(g.value[o], In(g, t, o))

\* The operators that Apply computes.
Computed ==
  {"add", "multiply", "subtract", "negate", "transpose", "reshape", "broadcast_in_dim",
   "constant", "get_dimension_size", "convolution"}

\* Weights are constants or arguments.
IsWeight(g, v) == Is(g, v, "constant") \/ g.value[v].mnemonic = "arg"

\* Every tensor is computed, with the shape its type declares if it declares one;
\* shape inference can find the others.  Convolutions are as P4 emits them.
IsWellTyped(g) ==
  LET tensor == Meaning(g) IN
  /\ \A v \in DOMAIN g.value : g.value[v].mnemonic = "arg" => IsStatic(g.value[v].type)
  /\ \A o \in Live(g) : LET op == g.value[o] IN
       /\ op.mnemonic \in Computed
       /\ IsDefined(tensor[o])
       /\ \/ tensor[o].dims = op.type.dims
          \/ ~IsStatic(op.type) /\ op.mnemonic \in Elementwise \cup {"transpose"}
       /\ op.attrs.layout = "NCHW" /\ op.attrs.input_layout = "NCHW"
       /\ op.mnemonic = "convolution" => IsWeight(g, op.operands[2])
=============================================================================
