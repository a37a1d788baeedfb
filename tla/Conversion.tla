----------------------------- MODULE Conversion -----------------------------
(***************************************************************************)
(* Stage P4, third tier: the pattern-based conversion of ONNX graphs to    *)
(* StableHLO (src/src/mlir/gpu/4_onnx_to_stablehlo/conversion_framework.h, *)
(* onnx_to_shlo_utils.h and run_level3.cpp).                               *)
(*                                                                         *)
(* One step prepares the context, converts one node, or closes the         *)
(* function.  A node that cannot be converted is counted and passed over:  *)
(* there is no rollback.  Tensors are kept as types; the numbers in an     *)
(* initializer count only where a pattern reads them, and there as they    *)
(* are decoded: whatever their type, as the function at hand expects them. *)
(* Reshape, slices, convolutions and reductions have their attributes in   *)
(* full.                                                                   *)
(***************************************************************************)
EXTENDS StableHlo, TLC

CONSTANTS
  Graphs,  \* the ONNX graphs that may be loaded
  Stray    \* the numbers that a read beyond the end of a shape may give

ASSUME StrayAssumption == Stray \subseteq Int

ValueInfoProto == [name : STRING, type : [dims : Seq(Int), elem : STRING]]

NodeProto ==
  [op_type : STRING, inputs : Seq(STRING), output : STRING,
   at : [axis : Seq(Int), axes : Seq(Int), keepdims : Seq(Int), perm : Seq(Int),
         strides : Seq(Int), pads : Seq(Int), dilations : Seq(Int), kernel_shape : Seq(Int),
         auto_pad : STRING, group : Seq(Int)]]

\* The numbers of an initializer, and what its bytes or its typed fields read
\* as 64-bit numbers, as floats and as bytes.
TensorData == [numbers : Seq(Int), int64s : Seq(Int), floats : Seq(Int), bytes : Seq(Int)]

\* Numbers are stored as what the type says: of another type they read as anything.
IsStored(data, elem) ==
  /\ elem = "i64" => data.int64s = data.numbers
  /\ elem = "f32" => data.floats = data.numbers

NamesOf(typed) == {typed[i].name : i \in DOMAIN typed}

\* How many inputs ONNX lets a node of this kind have.
Arity(op) ==
  CASE op \in {"Add", "Mul", "Sub", "Div", "Pow", "MatMul", "Reshape"} -> {2}
    [] op \in {"Sqrt", "Exp", "Sin", "Cos", "Neg", "Erf", "Softmax", "Transpose"} -> {1}
    [] op \in {"Conv", "DequantizeLinear", "QuantizeLinear"} -> 2 .. 3
    [] op = "ReduceMean" -> 1 .. 2
    [] op = "Slice" -> 3 .. 5
    [] OTHER -> Nat

\* What ONNX's checker sees to: a name is not empty and given once, an initializer
\* has its numbers, and an output of the graph is computed or passed through.
IsOnnxGraph(g) ==
  /\ g.inputs \in Seq(ValueInfoProto) /\ g.outputs \in Seq(ValueInfoProto)
  /\ g.value_info \in Seq(ValueInfoProto) /\ g.initializers \in Seq(ValueInfoProto)
  /\ g.nodes \in Seq(NodeProto)
  /\ g.data \in [NamesOf(g.initializers) -> TensorData]
  /\ \A x \in ToSet(g.initializers) : IsStored(g.data[x.name], x.type.elem)
  /\ "" \notin NamesOf(g.inputs) \cup NamesOf(g.initializers)
  /\ \A i \in DOMAIN g.nodes :
       /\ Len(g.nodes[i].inputs) \in Arity(g.nodes[i].op_type)
       /\ g.nodes[i].output \notin {""} \cup NamesOf(g.inputs) \cup NamesOf(g.initializers)
       /\ \A k \in DOMAIN g.nodes : g.nodes[k].output = g.nodes[i].output => k = i
  /\ NamesOf(g.outputs) \subseteq NamesOf(g.inputs) \cup NamesOf(g.initializers)
                                   \cup {g.nodes[i].output : i \in DOMAIN g.nodes}

ASSUME GraphsAssumption == \A g \in Graphs : IsOnnxGraph(g)

VARIABLES
  graph,     \* onnx::GraphProto
  stage,     \* "init", "nodes", "done"
  next,      \* the node that applyFullConversion looks at
  type_map,  \* Context::type_map
  value_map, \* Context::value_map
  body,      \* FuncOp::body
  results,   \* FuncOp::results
  stats,     \* ConversionStats
  errors,    \* Context::errors
  lapses     \* history: what the patterns have overlooked in the nodes so far

vars == <<graph, stage, next, type_map, value_map, body, results, stats, errors, lapses>>

(***************************************************************************)
(* ONNX nodes.  An attribute that is absent is <<>>; a graph holds its     *)
(* inputs, initializers, outputs and value_info with their types.          *)
(***************************************************************************)
NoAttributes ==
  [axis |-> <<>>, axes |-> <<>>, keepdims |-> <<>>, perm |-> <<>>, strides |-> <<>>,
   pads |-> <<>>, dilations |-> <<>>, kernel_shape |-> <<>>, auto_pad |-> "",
   group |-> <<>>]

Node(op, ins, out, attributes) ==
  [op_type |-> op, inputs |-> ins, output |-> out, at |-> attributes @@ NoAttributes]

get_int_attr(n, key, def) == IF n.at[key] = <<>> THEN def ELSE n.at[key][1]

get_ints_attr(n, key, def) == IF n.at[key] = <<>> THEN def ELSE n.at[key]

HasInput(n, i) == Len(n.inputs) >= i /\ n.inputs[i] # ""

lookup(name) == IF name \in DOMAIN value_map THEN value_map[name] ELSE Invalid

Operand(n, i) == lookup(n.inputs[i])

get_type(name) == IF name \in DOMAIN type_map THEN type_map[name] ELSE Unknown

\* The type of a node's output, when value_info or the outputs tell its shape.
Declared(n) == get_type(n.output)

IsInitializer(name) == name \in DOMAIN graph.data

\* The initializer given as input i as it reads, or <<>> when there is none.
Extracted(n, i, as) ==
  IF HasInput(n, i) /\ IsInitializer(n.inputs[i]) THEN graph.data[n.inputs[i]][as] ELSE <<>>

\* Both read the bytes without a look at the type of the initializer.
extract_int64s(n, i) == Extracted(n, i, "int64s")

extract_floats(n, i) == Extracted(n, i, "floats")

\* What ONNX means by it.
Numbers(n, i) == Extracted(n, i, "numbers")

At(dims, i, stray) == IF i \in DOMAIN dims THEN dims[i] ELSE stray

\* C++'s division rounds towards zero.
Quotient(a, b) == IF a >= 0 THEN a \div b ELSE -((-a) \div b)

Larger(a, b) == IF a > b THEN a ELSE b

AxisOf(a, r) == IF a < 0 THEN a + r ELSE a

(***************************************************************************)
(* Patterns.  Each gives the body and the value to map the output to, or   *)
(* Failure.                                                                *)
(***************************************************************************)
Failure == [ok |-> FALSE, body |-> body, value |-> Invalid]

Success(built) == [ok |-> TRUE, body |-> built.body, value |-> built.value]

\* The dimension that two broadcast to; -2 stands for a clash.
BroadcastDim(a, b) ==
  IF a = b THEN a ELSE IF a = 1 THEN b ELSE IF b = 1 THEN a
  ELSE IF a = -1 \/ b = -1 THEN -1 ELSE -2

\* faulty: the shapes are aligned at their first dimension.
AlignedDim_Left(t, i, r) == IF i > rank(t) THEN 1 ELSE t.dims[i]

\* Dimension i of t seen as a type of rank r.
AlignedDim(t, i, r) == IF i <= r - rank(t) THEN 1 ELSE t.dims[i - (r - rank(t))]

broadcast_result_type(a, b) ==
  LET r == Larger(rank(a), rank(b))
      dims == [i \in 1 .. r |-> BroadcastDim(AlignedDim(a, i, r), AlignedDim(b, i, r))]
  IN IF -2 \in ToSet(dims) THEN Unknown ELSE Type(dims, a.elem)

maybe_broadcast(built, v, t) ==
  IF v.type = t THEN [built EXCEPT !.value = v]
  ELSE Emit(built.body, "stablehlo.broadcast_in_dim", <<v>>,
            <<[i \in 1 .. rank(v.type) |-> rank(t) - rank(v.type) + i - 1]>>, t)

Start == [body |-> body, value |-> Invalid]

Combine(mnemonic, l, r, t) ==
  LET bl == maybe_broadcast(Start, l, t)
      br == maybe_broadcast(bl, r, t)
  IN Success(Emit(br.body, mnemonic, <<bl.value, br.value>>, <<>>, t))

\* Add, Mul and Sub; an empty shape means failure.
BinaryConversion(n, mnemonic) ==
  LET l == Operand(n, 1)
      r == Operand(n, 2)
      t == broadcast_result_type(l.type, r.type)
  IN IF ~valid(l) \/ ~valid(r) \/ t.dims = <<>> THEN Failure ELSE Combine(mnemonic, l, r, t)

DivOpConversion(n) ==
  LET l == Operand(n, 1)
      r == Operand(n, 2)
      t == broadcast_result_type(l.type, r.type)
  IN IF \/ ~valid(l) \/ ~valid(r)
        \/ t.dims = <<>> /\ rank(l.type) # 0 /\ rank(r.type) # 0
     THEN Failure ELSE Combine("stablehlo.divide", l, r, t)

\* Only squares, written as products.
PowOpConversion(n) ==
  LET x == Operand(n, 1)
  IN IF ~valid(x) \/ ~valid(Operand(n, 2)) \/ extract_floats(n, 2) # <<2>> THEN Failure
     ELSE Success(Emit(body, "stablehlo.multiply", <<x, x>>, <<>>, x.type))

UnaryConversion(n, mnemonic) ==
  LET x == Operand(n, 1)
  IN IF ~valid(x) THEN Failure ELSE Success(Emit(body, mnemonic, <<x>>, <<>>, x.type))

\* seq with the entries at the listed axes replaced by the listed numbers.
Overlaid(seq, axes, numbers) ==
  [i \in DOMAIN seq |->
     LET at == {k \in DOMAIN axes \cap DOMAIN numbers : axes[k] = i - 1}
     IN IF at = {} THEN seq[i] ELSE numbers[Max(at)]]

SliceLength(start, limit, stride) ==
  LET len == limit - start
  IN Larger(0, IF stride # 1 /\ len > 0 THEN Quotient(len + stride - 1, stride) ELSE len)

SliceAxes(n) ==
  LET given == extract_int64s(n, 4)
  IN IF given = <<>> THEN AllAxes(Len(extract_int64s(n, 2)))
     ELSE [i \in DOMAIN given |-> AxisOf(given[i], rank(Operand(n, 1).type))]

\* The bounds are passed on as they are, negative or beyond the end, and read
\* for every axis, listed or not.
SliceOpConversion(n, stray) ==
  LET x == Operand(n, 1)
      r == rank(x.type)
      starts == extract_int64s(n, 2)
      ends == extract_int64s(n, 3)
      axes == SliceAxes(n)
      Read(s) == [k \in DOMAIN axes |-> At(s, k, stray)]
      start == Overlaid([i \in 1 .. r |-> 0], axes, Read(starts))
      limit == Overlaid(x.type.dims, axes, Read(ends))
      stride == Overlaid([i \in 1 .. r |-> 1], axes, extract_int64s(n, 5))
      t == IF Declared(n).dims # <<>> THEN Declared(n)
           ELSE Type([i \in 1 .. r |-> SliceLength(start[i], limit[i], stride[i])], x.type.elem)
  IN IF \/ ~valid(x) \/ ~IsInitializer(n.inputs[2]) \/ ~IsInitializer(n.inputs[3])
        \/ Len(starts) # Len(ends) \/ ~(ToSet(axes) \subseteq Axes(x.type))
     THEN Failure
     ELSE Success(Emit(body, "stablehlo.slice", <<x>>, <<start, limit, stride>>, t))

\* What the values take up along an axis together.
TotalSize(xs, axis) == Total([i \in DOMAIN xs |-> Dim(xs[i].type, axis)])

ConcatOpConversion(n) ==
  LET xs == [i \in DOMAIN n.inputs |-> Operand(n, i)]
      t == xs[1].type
      axis == AxisOf(get_int_attr(n, "axis", 0), rank(t))
  IN IF xs = <<>> \/ \E x \in ToSet(xs) : ~valid(x) THEN Failure
     ELSE Success(Emit(body, "stablehlo.concatenate", xs, <<<<axis>>>>,
                       IF Declared(n).dims # <<>> THEN Declared(n)
                       ELSE [t EXCEPT !.dims[axis + 1] = TotalSize(xs, axis)]))

\* The shape with the given axes gone, or kept with size 1.
MeanDims(t, axes, keep) ==
  IF keep THEN Overlaid(t.dims, axes, [i \in DOMAIN axes |-> 1])
  ELSE Without(t, ToSet(axes))

\* The axes are read from the attribute only; without it all are reduced.
ReducedAxes(n) ==
  LET r == rank(Operand(n, 1).type)
      listed == get_ints_attr(n, "axes", AllAxes(r))
  IN [i \in DOMAIN listed |-> AxisOf(listed[i], r)]

ReduceMeanOpConversion(n) ==
  LET x == Operand(n, 1)
      r == rank(x.type)
      axes == ReducedAxes(n)
      keep == get_int_attr(n, "keepdims", 1) # 0
      t == IF Declared(n).dims = <<>> /\ r # Len(axes)
           THEN Type(MeanDims(x.type, axes, keep), x.type.elem) ELSE Declared(n)
      scalar == Scalar(x.type.elem)
      zero == Emit(body, "stablehlo.constant", <<>>, <<>>, scalar)
      sum == Emit(zero.body, "stablehlo.reduce", <<x, zero.value>>, <<axes>>,
                  Type(Without(x.type, ToSet(axes)), x.type.elem))
      shaped == IF keep THEN Emit(sum.body, "stablehlo.reshape", <<sum.value>>, <<>>, t) ELSE sum
      count == Emit(shaped.body, "stablehlo.constant", <<>>, <<>>, scalar)
      spread == maybe_broadcast(count, count.value, t)
  IN IF \/ ~valid(x) \/ x.type.elem # "f32" \/ ~(ToSet(axes) \subseteq Axes(x.type))
        \/ \E a \in ToSet(axes) : Dim(x.type, a) < 0
     THEN Failure
     ELSE Success(Emit(spread.body, "stablehlo.divide", <<shaped.value, spread.value>>, <<>>, t))

\* Batch axes are paired from the front, and only when both sides have some.
MatMulOpConversion(n) ==
  LET x == Operand(n, 1)
      y == Operand(n, 2)
      rx == rank(x.type)
      ry == rank(y.type)
      batch == AllAxes(Larger(0, IF rx < ry THEN rx - 2 ELSE ry - 2))
      dims == [i \in DOMAIN batch |-> x.type.dims[i]]
                \o (IF rx >= 2 THEN <<x.type.dims[rx - 1]>> ELSE <<>>)
                \o (IF ry >= 2 THEN <<y.type.dims[ry]>> ELSE <<>>)
  IN IF ~valid(x) \/ ~valid(y) THEN Failure
     ELSE Success(Emit(body, "stablehlo.dot_general", <<x, y>>,
                       <<batch, batch, <<rx - 1>>, <<Larger(0, ry - 2)>>>>,
                       IF Declared(n).dims # <<>> THEN Declared(n)
                       ELSE Type(dims, x.type.elem)))

\* What "same" padding adds in all to an axis of this size.
SamePadding(size, stride, span) ==
  Larger(0, (Quotient(size + stride - 1, stride) - 1) * stride + span - size)

ConvolvedSize(size, low, high, span, stride) ==
  IF size < 0 THEN -1 ELSE Quotient(size + low + high - span, stride) + 1

\* The convolution and its bias, spread along the channels; a bias whose name
\* has no value is left out.
Convolve(n, x, k, lists, t) ==
  LET conv == Emit(body, "stablehlo.convolution", <<x, k>>, lists, t)
      spread == Emit(conv.body, "stablehlo.broadcast_in_dim", <<Operand(n, 3)>>, <<<<1>>>>, t)
  IN IF HasInput(n, 3) /\ valid(Operand(n, 3))
     THEN Success(Emit(spread.body, "stablehlo.add", <<conv.value, spread.value>>, <<>>, t))
     ELSE Success(conv)

\* The strides, the padding before and behind, the dilations and the group.
ConvLists(n) ==
  LET x == Operand(n, 1).type
      k == Operand(n, 2).type
      axes == 1 .. rank(x) - 2
      ones == [i \in axes |-> 1]
      strides == get_ints_attr(n, "strides", ones)
      dilations == get_ints_attr(n, "dilations", ones)
      sizes == get_ints_attr(n, "kernel_shape", [i \in axes |-> k.dims[2 + i]])
      total == [i \in axes |->
                  SamePadding(x.dims[2 + i], strides[i], Spread(sizes[i], dilations[i]))]
      half == [i \in axes |-> total[i] \div 2]
      rest == [i \in axes |-> total[i] - half[i]]
      pads == get_ints_attr(n, "pads", [i \in 1 .. 2 * (rank(x) - 2) |-> 0])
      padding == CASE n.at.auto_pad = "SAME_UPPER" -> <<half, rest>>
                   [] n.at.auto_pad = "SAME_LOWER" -> <<rest, half>>
                   [] OTHER -> <<[i \in axes |-> pads[i]], [i \in axes |-> pads[i + rank(x) - 2]]>>
  IN <<strides, padding[1], padding[2], dilations, <<get_int_attr(n, "group", 1)>>>>

ConvType(n) ==
  LET x == Operand(n, 1).type
      k == Operand(n, 2).type
      l == ConvLists(n)
      axes == 1 .. rank(x) - 2
      sizes == get_ints_attr(n, "kernel_shape", [i \in axes |-> k.dims[2 + i]])
      convolved == [i \in axes |-> ConvolvedSize(x.dims[2 + i], l[2][i], l[3][i],
                                                 Spread(sizes[i], l[4][i]), l[1][i])]
  IN IF Declared(n).dims # <<>> THEN Declared(n)
     ELSE Type(<<x.dims[1], k.dims[1] * Larger(1, l[5][1])>> \o convolved, x.elem)

ConvOpConversion(n) ==
  LET x == Operand(n, 1)
      k == Operand(n, 2)
  IN IF ~valid(x) \/ ~valid(k) \/ rank(x.type) < 3 THEN Failure
     ELSE Convolve(n, x, k, ConvLists(n), ConvType(n))

\* exp(x - max) over its sum; an eight-operation expansion.
SoftmaxOpConversion(n) ==
  LET x == Operand(n, 1)
      t == x.type
      axis == AxisOf(get_int_attr(n, "axis", -1), rank(t))
      reduced == Type(Without(t, {axis}), t.elem)
      Over(b, v, init) == Emit(b, "stablehlo.reduce", <<v, init>>, <<<<axis>>>>, reduced)
      Spread_(b) == Emit(b.body, "stablehlo.broadcast_in_dim", <<b.value>>,
                         <<OtherAxes(rank(t), {axis})>>, t)
      low == Emit(body, "stablehlo.constant", <<>>, <<>>, Scalar(t.elem))
      zero == Emit(low.body, "stablehlo.constant", <<>>, <<>>, Scalar(t.elem))
      max == Spread_(Over(zero.body, x, low.value))
      shifted == Emit(max.body, "stablehlo.subtract", <<x, max.value>>, <<>>, t)
      exp == Emit(shifted.body, "stablehlo.exponential", <<shifted.value>>, <<>>, t)
      sum == Spread_(Over(exp.body, exp.value, zero.value))
  IN IF ~valid(x) \/ t.elem # "f32" \/ axis \notin Axes(t) THEN Failure
     ELSE Success(Emit(sum.body, "stablehlo.divide", <<exp.value, sum.value>>, <<>>, t))

\* The asked-for shape with 0 copied from the operand and -1 worked out.
ReshapedDims(asked, t) ==
  LET dims == [i \in DOMAIN asked |-> IF asked[i] = 0 /\ i <= rank(t) THEN t.dims[i] ELSE asked[i]]
      known == Product([i \in DOMAIN dims |-> IF dims[i] > 0 THEN dims[i] ELSE 1])
      open == {i \in DOMAIN asked : asked[i] = -1}
  IN [i \in DOMAIN dims |->
        IF open # {} /\ i = Max(open) /\ num_elements(t) > 0
        THEN Quotient(num_elements(t), known) ELSE dims[i]]

ReshapeOpConversion(n) ==
  LET x == Operand(n, 1)
      t == IF Declared(n).dims # <<>> THEN Declared(n)
           ELSE Type(ReshapedDims(extract_int64s(n, 2), x.type), x.type.elem)
  IN IF ~valid(x) \/ (Declared(n).dims = <<>> /\ ~IsInitializer(n.inputs[2])) THEN Failure
     ELSE Success(Emit(body, "stablehlo.reshape", <<x>>, <<>>, t))

\* What perm is when it is not given: the axes in reverse.
perm_of(n) == get_ints_attr(n, "perm", Reverse(AllAxes(rank(Operand(n, 1).type))))

\* The entries of perm are used as they are.
Transposed(n, stray) ==
  LET x == Operand(n, 1)
      perm == perm_of(n)
      dims == [i \in DOMAIN perm |-> At(x.type.dims, perm[i] + 1, stray)]
  IN Success(Emit(body, "stablehlo.transpose", <<x>>, <<perm>>, Type(dims, x.type.elem)))

TransposeOpConversion(n, stray) ==
  IF ~valid(Operand(n, 1)) THEN Failure ELSE Transposed(n, stray)

\* The value passes through as it is: nothing is rounded.
QuantizeLinearOpConversion(n) ==
  IF ~valid(Operand(n, 1)) THEN Failure ELSE Success([body |-> body, value |-> Operand(n, 1)])

to_f32(b, v) ==
  IF v.type.elem = "f32" THEN [body |-> b, value |-> v]
  ELSE Emit(b, "stablehlo.convert", <<v>>, <<>>, Type(v.type.dims, "f32"))

\* A scale or zero point as a scalar, whatever its rank.
to_f32_scalar(b, v) ==
  LET f == to_f32(b, v)
  IN IF rank(v.type) = 0 THEN f
     ELSE Emit(f.body, "stablehlo.broadcast_in_dim", <<f.value>>, <<<<>>>>, Scalar("f32"))

DequantizeLinearOpConversion(n) ==
  LET q == to_f32(body, Operand(n, 1))
      t == q.value.type
      zp == to_f32_scalar(q.body, Operand(n, 3))
      scale == to_f32_scalar(zp.body, Operand(n, 2))
      Spread_(b, v) == Emit(b, "stablehlo.broadcast_in_dim", <<v>>, <<<<>>>>, t)
      zp_b == Spread_(scale.body, zp.value)
      scale_b == Spread_(zp_b.body, scale.value)
      sub == Emit(scale_b.body, "stablehlo.subtract", <<q.value, zp_b.value>>, <<>>, t)
  IN IF ~HasInput(n, 3) \/ \E i \in 1 .. 3 : ~valid(Operand(n, i)) THEN Failure
     ELSE Success(Emit(sub.body, "stablehlo.multiply", <<sub.value, scale_b.value>>, <<>>, t))

-----------------------------------------------------------------------------
(***************************************************************************)
(* The framework: each operation has at most one pattern, so the order of  *)
(* the benefits decides nothing.                                           *)
(***************************************************************************)
BinaryMnemonic ==
  [Add |-> "stablehlo.add", Mul |-> "stablehlo.multiply", Sub |-> "stablehlo.subtract"]

UnaryMnemonic ==
  [Sqrt |-> "stablehlo.sqrt", Exp |-> "stablehlo.exponential", Sin |-> "stablehlo.sine",
   Cos |-> "stablehlo.cosine", Neg |-> "stablehlo.negate", Erf |-> "chlo.erf"]

\* populate_onnx_to_stablehlo_patterns
Patterns ==
  DOMAIN BinaryMnemonic \cup DOMAIN UnaryMnemonic \cup
    {"Div", "Pow", "Slice", "Concat", "ReduceMean", "MatMul", "Conv", "Softmax", "Reshape",
     "Transpose", "QuantizeLinear", "DequantizeLinear"}

matchAndRewrite(n, stray) ==
  CASE n.op_type \in DOMAIN BinaryMnemonic -> BinaryConversion(n, BinaryMnemonic[n.op_type])
    [] n.op_type \in DOMAIN UnaryMnemonic -> UnaryConversion(n, UnaryMnemonic[n.op_type])
    [] n.op_type = "Div" -> DivOpConversion(n)
    [] n.op_type = "Pow" -> PowOpConversion(n)
    [] n.op_type = "Slice" -> SliceOpConversion(n, stray)
    [] n.op_type = "Concat" -> ConcatOpConversion(n)
    [] n.op_type = "ReduceMean" -> ReduceMeanOpConversion(n)
    [] n.op_type = "MatMul" -> MatMulOpConversion(n)
    [] n.op_type = "Conv" -> ConvOpConversion(n)
    [] n.op_type = "Softmax" -> SoftmaxOpConversion(n)
    [] n.op_type = "Reshape" -> ReshapeOpConversion(n)
    [] n.op_type = "Transpose" -> TransposeOpConversion(n, stray)
    [] n.op_type = "QuantizeLinear" -> QuantizeLinearOpConversion(n)
    [] n.op_type = "DequantizeLinear" -> DequantizeLinearOpConversion(n)

isLegal(mnemonic) == mnemonic \in Dialect \cup {"func.return"}

(***************************************************************************)
(* What ONNX says of a node: its shape and what the operands have to be.   *)
(***************************************************************************)
\* Shapes by ONNX's rules: of a node whose operands have the dimensions ds and,
\* where they are constants, the numbers ks.
BroadcastDims(a, b) ==
  LET r == Larger(Len(a), Len(b))
      Padded(s, i) == IF i <= r - Len(s) THEN 1 ELSE s[i - (r - Len(s))]
  IN [i \in 1 .. r |-> IF Padded(a, i) = 1 THEN Padded(b, i) ELSE Padded(a, i)]

\* A slice bound counted from the end when negative, and kept within the axis.
Clamped(bound, size) ==
  LET b == AxisOf(bound, size) IN IF b < 0 THEN 0 ELSE IF b > size THEN size ELSE b

SlicedDims(dims, starts, ends, axes, steps) ==
  [k \in DOMAIN dims |->
     LET at == {i \in DOMAIN starts : AxisOf(axes[i], Len(dims)) = k - 1}
         Length(i) == RoundUp(Clamped(ends[i], dims[k]) - Clamped(starts[i], dims[k]), steps[i])
     IN IF at = {} THEN dims[k] ELSE Length(Max(at))]

ConvolvedDims(n, dims, kernel) ==
  LET sp == Len(dims) - 2
      stride == get_ints_attr(n, "strides", [i \in 1 .. sp |-> 1])
      dilation == get_ints_attr(n, "dilations", [i \in 1 .. sp |-> 1])
      pads == get_ints_attr(n, "pads", [i \in 1 .. 2 * sp |-> 0])
  IN <<dims[1], kernel[1]>> \o
     [i \in 1 .. sp |->
        IF n.at.auto_pad \in {"SAME_UPPER", "SAME_LOWER"} THEN RoundUp(dims[i + 2], stride[i])
        ELSE (dims[i + 2] + pads[i] + pads[i + sp] - Spread(kernel[i + 2], dilation[i]))
                \div stride[i] + 1]

\* The size that a reshape to the asked dimensions gives to -1.
OpenSize(asked, dims) ==
  Product(dims) \div Product([i \in DOMAIN asked |->
    CASE asked[i] = -1 -> 1 [] asked[i] = 0 -> dims[i] [] OTHER -> asked[i]])

OnnxDims(n, ds, ks) ==
  LET d == ds[1]
      r == Len(d)
      axis == AxisOf(get_int_attr(n, "axis", 0), r) + 1
      axes == IF Len(ks) > 1 /\ ks[2] # <<>> THEN ks[2] ELSE get_ints_attr(n, "axes", AllAxes(r))
      reduced == {AxisOf(a, r) : a \in ToSet(axes)}
      Listed(i, default) == IF Len(ks) < i \/ ks[i] = <<>> THEN default ELSE ks[i]
      Batch(dims) == SubSeq(dims, 1, Len(dims) - 2)
  IN CASE n.op_type \in DOMAIN BinaryMnemonic \cup {"Div", "Pow"} -> BroadcastDims(d, ds[2])
       [] n.op_type = "Slice" ->
            SlicedDims(d, ks[2], ks[3], Listed(4, AllAxes(r)), Listed(5, [i \in 1 .. r |-> 1]))
       [] n.op_type = "Concat" ->
            [d EXCEPT ![axis] = Total([i \in DOMAIN ds |-> ds[i][axis]])]
       [] n.op_type = "ReduceMean" ->
            IF get_int_attr(n, "keepdims", 1) = 0 THEN Without(Type(d, "f32"), reduced)
            ELSE [k \in 1 .. r |-> IF k - 1 \in reduced THEN 1 ELSE d[k]]
       [] n.op_type = "MatMul" ->
            BroadcastDims(Batch(d), Batch(ds[2]))
              \o (IF r > 1 THEN <<d[r - 1]>> ELSE <<>>)
              \o (IF Len(ds[2]) > 1 THEN <<Last(ds[2])>> ELSE <<>>)
       [] n.op_type = "Conv" -> ConvolvedDims(n, d, ds[2])
       [] n.op_type = "Reshape" ->
            [i \in DOMAIN ks[2] |->
               CASE ks[2][i] = 0 -> d[i]
                 [] ks[2][i] = -1 -> OpenSize(ks[2], d)
                 [] OTHER -> ks[2][i]]
       [] n.op_type = "Transpose" ->
            [i \in 1 .. r |-> d[get_ints_attr(n, "perm", Reverse(AllAxes(r)))[i] + 1]]
       [] OTHER -> d

\* The shape of a node's output, given the operands at hand; that of a reshape
\* without numbers is the declared one.
OutputDims(n) ==
  IF n.op_type = "Reshape" /\ Numbers(n, 2) = <<>> THEN Declared(n).dims
  ELSE OnnxDims(n, [k \in DOMAIN n.inputs |-> Operand(n, k).type.dims],
                [k \in DOMAIN n.inputs |-> Numbers(n, k)])

ConvAccepted(n) ==
  LET x == Operand(n, 1).type
      k == Operand(n, 2).type
      bias == Operand(n, 3)
      axes == 1 .. rank(x) - 2
      group == get_int_attr(n, "group", 1)
      stride == get_ints_attr(n, "strides", [i \in axes |-> 1])
      dilation == get_ints_attr(n, "dilations", [i \in axes |-> 1])
      pads == get_ints_attr(n, "pads", [i \in 1 .. 2 * (rank(x) - 2) |-> 0])
  IN /\ rank(x) >= 3 /\ rank(k) = rank(x) /\ k.elem = x.elem
     /\ group > 0 /\ x.dims[2] = k.dims[2] * group /\ k.dims[1] % group = 0
     /\ DOMAIN stride = axes /\ DOMAIN dilation = axes /\ Len(pads) = 2 * (rank(x) - 2)
     /\ n.at.kernel_shape \in {<<>>, SubSeq(k.dims, 3, rank(k))}
     /\ n.at.auto_pad \in {"VALID", "SAME_UPPER", "SAME_LOWER"} => n.at.pads = <<>>
     /\ \A i \in axes :
          /\ stride[i] > 0 /\ dilation[i] > 0 /\ k.dims[i + 2] > 0 /\ x.dims[i + 2] > 0
          /\ n.at.auto_pad \notin {"SAME_UPPER", "SAME_LOWER"} =>
               Spread(k.dims[i + 2], dilation[i])
                 <= x.dims[i + 2] + pads[i] + pads[i + rank(x) - 2]
     /\ HasInput(n, 3) /\ valid(bias) => bias.type = Type(<<k.dims[1]>>, x.elem)

\* At most one number is open, the sizes agree, and the shape is a list of 64-bit
\* numbers.
ReshapeAccepted(n) ==
  LET d == Operand(n, 1).type.dims
      asked == Numbers(n, 2)
      open == {i \in DOMAIN asked : asked[i] = -1}
  IN /\ \A i \in DOMAIN asked : asked[i] >= -1 /\ (asked[i] = 0 => i <= Len(d))
     /\ \A i, j \in open : i = j
     /\ open # {} => \A k \in DOMAIN d : d[k] > 0
     /\ valid(Operand(n, 2)) => Operand(n, 2).type = Type(<<Len(OutputDims(n))>>, "i64")
     /\ (asked = <<>> /\ Dynamic(Declared(n))) \/ Product(OutputDims(n)) = Product(d)

\* Do the operands have the types that ONNX asks for?
OperandsAccepted(n) ==
  LET t(i) == Operand(n, i).type
      x == t(1)
      y == t(2)
      axis == AxisOf(get_int_attr(n, "axis", 0), rank(x))
  IN CASE n.op_type \in DOMAIN BinaryMnemonic \cup {"Div"} -> x.elem = y.elem
       [] n.op_type = "Pow" -> ToSet(y.dims) \subseteq {1}
       [] n.op_type = "Slice" ->
            /\ Len(SliceAxes(n)) = Len(Numbers(n, 2)) /\ Distinct(SliceAxes(n))
            /\ Len(Numbers(n, 5)) \in {0, Len(Numbers(n, 2))}
       [] n.op_type = "Concat" ->
            /\ axis \in Axes(x)
            /\ \A i \in DOMAIN n.inputs :
                 /\ t(i).elem = x.elem /\ rank(t(i)) = rank(x)
                 /\ \A d \in Axes(x) \ {axis} : Dim(t(i), d) = Dim(x, d)
       [] n.op_type = "ReduceMean" -> Distinct(ReducedAxes(n))
       [] n.op_type = "MatMul" ->
            /\ rank(x) >= 1 /\ rank(y) >= 1 /\ x.elem = y.elem
            /\ x.dims[rank(x)] = Dim(y, Larger(0, rank(y) - 2))
       [] n.op_type = "Conv" -> ConvAccepted(n)
       [] n.op_type = "Reshape" -> ReshapeAccepted(n)
       [] n.op_type = "DequantizeLinear" -> t(3).dims = y.dims
       [] OTHER -> TRUE

\* The nodes whose declared type a pattern takes as it is.
Declaring == {"Slice", "Concat", "ReduceMean", "MatMul", "Conv", "Reshape"}

\* ONNX's checker accepts the node, and its shape inference the declared type; a
\* reshape to a shape that is known at run time only may be declared with open axes.
Accepted(n) ==
  /\ OperandsAccepted(n)
  /\ n.op_type \in Declaring /\ Declared(n).dims # <<>> =>
       /\ Declared(n).elem = Operand(n, 1).type.elem
       /\ \/ n.op_type = "Reshape" /\ Numbers(n, 2) = <<>>
          \/ Declared(n).dims = OutputDims(n)

\* Each slice lies within its axis.
WithinBounds(n) ==
  \A k \in DOMAIN Numbers(n, 2) :
    /\ 0 <= Numbers(n, 2)[k] /\ Numbers(n, 2)[k] <= Numbers(n, 3)[k]
    /\ Numbers(n, 3)[k] <= Dim(Operand(n, 1).type, SliceAxes(n)[k])

(***************************************************************************)
(* What a pattern overlooks in the node at hand.  The typing and shape     *)
(* properties are stated for graphs in which none of this has come up.     *)
(***************************************************************************)
\* Does input i read as other numbers than it holds?
Misread(n, i) ==
  \/ n.op_type \in {"Slice", "Reshape"} /\ extract_int64s(n, i) # Numbers(n, i)
  \/ n.op_type = "Pow" /\ extract_floats(n, i) # Numbers(n, i)

Lapses(n) ==
  LET t(i) == Operand(n, i).type
      given == {i \in DOMAIN n.inputs : HasInput(n, i) /\ valid(Operand(n, i))}
      When(cond, lapse) == IF cond THEN {lapse} ELSE {}
      undeclared == Declared(n).dims = <<>>
  IN When(\E i \in given : Dynamic(t(i)), "dynamic")
       \cup When(\E i \in given : t(i).elem = "unknown", "unknown")
       \cup When(isLegal(n.op_type), "skipped")
       \cup When(~Accepted(n), "mistyped")
       \cup When(\E i \in 2 .. Len(n.inputs) : Misread(n, i), "encoding")
       \cup CASE n.op_type = "Slice" ->
                   When(Accepted(n) /\ ~WithinBounds(n), "bounds")
                     \cup When(\E i \in {4, 5} : HasInput(n, i) /\ ~IsInitializer(n.inputs[i]),
                               "run-time axes")
                     \cup When(\E step \in ToSet(Numbers(n, 5)) : step <= 0, "step")
              [] n.op_type = "Pow" -> When(rank(t(2)) > rank(t(1)), "exponent")
              [] n.op_type = "ReduceMean" ->
                   When(HasInput(n, 2), "axes")
                     \cup When(/\ undeclared
                               /\ Len(get_ints_attr(n, "axes", t(1).dims)) = rank(t(1)), "scalar")
              [] n.op_type = "MatMul" ->
                   When(/\ \/ rank(t(2)) > 2
                           \/ rank(t(1)) > 2 /\ undeclared
                        /\ \/ rank(t(1)) # rank(t(2))
                           \/ SubSeq(t(1).dims, 1, rank(t(1)) - 2)
                                # SubSeq(t(2).dims, 1, rank(t(2)) - 2), "batch")
              [] n.op_type = "Transpose" ->
                   When(Len(perm_of(n)) # rank(t(1)) \/ ToSet(perm_of(n)) # Axes(t(1)), "perm")
              [] n.op_type = "Reshape" -> When(Dynamic(Declared(n)), "run-time shape")
              [] n.op_type = "Conv" -> When(undeclared /\ get_int_attr(n, "group", 1) > 1, "group")
              [] n.op_type = "DequantizeLinear" ->
                   When(~HasInput(n, 3) \/ rank(t(2)) > 0, "scale")
              [] OTHER -> {}

-----------------------------------------------------------------------------
(***************************************************************************)
(* main: init, create_func_args and emit_initializers; applyFullConversion;*)
(* finalize and verifyLegality.                                            *)
(***************************************************************************)
NoStats == [total |-> 0, converted |-> 0, already_legal |-> 0, failed |-> 0]

Init ==
  /\ graph \in Graphs
  /\ stage = "init"
  /\ next = 1
  /\ type_map = <<>> /\ value_map = <<>>
  /\ body = <<>> /\ results = <<>>
  /\ stats = NoStats
  /\ errors = 0
  /\ lapses = {}

Types(typed) == [name \in {typed[i].name : i \in DOMAIN typed} |->
                   (CHOOSE x \in ToSet(typed) : x.name = name).type]

\* f, and h where f says nothing.
Overriding(f, h) == [x \in DOMAIN f \cup DOMAIN h |-> IF x \in DOMAIN f THEN f[x] ELSE h[x]]

\* Later sources override earlier ones.
AllTypes(g) ==
  Overriding(Types(g.outputs),
    Overriding(Types(g.inputs), Overriding(Types(g.value_info), Types(g.initializers))))

\* emit_initializers: what a constant of type t is written with.
Literal(name, t) ==
  LET data == graph.data[name]
  IN CASE t.elem \in {"i64", "i32"} -> data.int64s
       [] t.elem = "i8" -> data.bytes
       [] OTHER -> data.floats

\* What goes wrong with an initializer that gets the type t.
ConstantLapses(name, t) ==
  {lapse \in {"unknown", "dynamic", "encoding"} :
     \/ lapse = "dynamic" /\ Dynamic(t)
     \/ lapse = "unknown" /\ t.elem = "unknown"
     \/ lapse = "encoding" /\ Literal(name, t) # graph.data[name].numbers}

\* Inputs that are initializers get no argument.
Prepare ==
  /\ stage = "init"
  /\ LET types == AllTypes(graph)
         args == Kept(graph.inputs, {x \in ToSet(graph.inputs) : ~IsInitializer(x.name)})
         arg == [i \in DOMAIN args |-> Value(<<"arg", i - 1>>, types[args[i].name])]
     IN /\ type_map' = types
        /\ body' = [i \in DOMAIN graph.initializers |->
                     Operation(<<"ssa", i - 1>>, "stablehlo.constant", <<>>, <<>>,
                               types[graph.initializers[i].name])]
        /\ value_map' =
             [name \in NamesOf(args) \cup NamesOf(graph.initializers) |->
                IF IsInitializer(name)
                THEN LET i == CHOOSE k \in DOMAIN graph.initializers :
                                graph.initializers[k].name = name
                     IN Value(<<"ssa", i - 1>>, types[name])
                ELSE arg[CHOOSE k \in DOMAIN args : args[k].name = name]]
  /\ stage' = "nodes"
  /\ lapses' = UNION {ConstantLapses(x.name, type_map'[x.name]) : x \in ToSet(graph.initializers)}
  /\ UNCHANGED <<graph, next, results, stats, errors>>

Current == graph.nodes[next]

Counted(field) == [stats EXCEPT !.total = @ + 1, ![field] = @ + 1]

\* A node that is legal already is passed over.
SkipLegal ==
  /\ stage = "nodes" /\ next <= Len(graph.nodes)
  /\ isLegal(Current.op_type)
  /\ next' = next + 1
  /\ stats' = Counted("already_legal")
  /\ lapses' = lapses \cup Lapses(Current)
  /\ UNCHANGED <<graph, stage, type_map, value_map, body, results, errors>>

\* faulty: a missing pattern is only a warning.
NoPatternStats_Warned == Counted("already_legal")

NoPatternStats == Counted("failed")

NoPattern ==
  /\ stage = "nodes" /\ next <= Len(graph.nodes)
  /\ ~isLegal(Current.op_type) /\ Current.op_type \notin Patterns
  /\ next' = next + 1
  /\ stats' = NoPatternStats
  /\ UNCHANGED <<graph, stage, type_map, value_map, body, results, errors, lapses>>

\* The value map after a name was given a value.
Entered(name, v) ==
  [x \in {name} \cup DOMAIN value_map |-> IF x = name THEN v ELSE value_map[x]]

\* faulty: the output is entered before the operands are looked at.
Mapped_Early(n, result) == Entered(n.output, result.value)

\* The value map after a pattern was tried.
Mapped(n, result) == IF result.ok THEN Entered(n.output, result.value) ELSE value_map

Convert ==
  /\ stage = "nodes" /\ next <= Len(graph.nodes)
  /\ ~isLegal(Current.op_type) /\ Current.op_type \in Patterns
  /\ \E stray \in Stray : \E result \in {matchAndRewrite(Current, stray)} :
       /\ body' = result.body
       /\ value_map' = Mapped(Current, result)
       /\ stats' = Counted(IF result.ok THEN "converted" ELSE "failed")
       /\ errors' = IF result.ok THEN errors ELSE errors + 1
       /\ lapses' = lapses \cup (IF result.ok THEN Lapses(Current) ELSE {})
  /\ next' = next + 1
  /\ UNCHANGED <<graph, stage, type_map, results>>

\* Does perm name an axis that the operand does not have?
PermBeyond(n) ==
  n.op_type = "Transpose" /\ ~(ToSet(perm_of(n)) \subseteq Axes(Operand(n, 1).type))

\* Are more axes listed than there are bounds?  The first one that the operand
\* does not have ends the pattern.
BoundsBeyond(n) ==
  /\ n.op_type = "Slice" /\ Len(extract_int64s(n, 2)) = Len(extract_int64s(n, 3))
  /\ IsInitializer(n.inputs[2]) /\ IsInitializer(n.inputs[3])
  /\ \E k \in DOMAIN SliceAxes(n) :
       /\ k > Len(extract_int64s(n, 2))
       /\ ToSet(SubSeq(SliceAxes(n), 1, k)) \subseteq Axes(Operand(n, 1).type)

\* DequantizeLinear reads its third input, which ONNX makes optional, beyond
\* the end of the list, Transpose the axes that perm names, and Slice a start and
\* an end for every axis: the program may stop there.
ReadBeyondInputs ==
  /\ stage = "nodes" /\ next <= Len(graph.nodes)
  /\ \/ Current.op_type = "DequantizeLinear" /\ ~HasInput(Current, 3)
     \/ (PermBeyond(Current) \/ BoundsBeyond(Current)) /\ valid(Operand(Current, 1))
  /\ stage' = "crashed"
  /\ UNCHANGED <<graph, next, type_map, value_map, body, results, stats, errors, lapses>>

Finalize ==
  /\ stage = "nodes" /\ next > Len(graph.nodes)
  /\ LET outs == [i \in DOMAIN graph.outputs |-> lookup(graph.outputs[i].name)]
         found == Kept(outs, {v \in ToSet(outs) : valid(v)})
     IN /\ results' = found
        /\ errors' = errors + Len(outs) - Len(found)
        /\ body' = Append(body, Operation(<<>>, "func.return", found, <<>>, Unknown))
  /\ stage' = "done"
  /\ UNCHANGED <<graph, next, type_map, value_map, stats, lapses>>

verifyLegality == \A op \in ToSet(body) : isLegal(op.mnemonic)

ExitZero == stats.failed = 0 /\ verifyLegality

Terminating == stage \in {"done", "crashed"} /\ UNCHANGED vars

Next ==
  \/ Prepare \/ SkipLegal \/ NoPattern \/ Convert \/ ReadBeyondInputs \/ Finalize
  \/ Terminating

Spec == Init /\ [][Next]_vars

-----------------------------------------------------------------------------
(***************************************************************************)
(* Properties.                                                             *)
(***************************************************************************)
\* Every emitted operation satisfies the rules of the dialect, and the value
\* that stands for a node's output has the shape that ONNX gives it, whether
\* the model declares that shape or leaves it to the pattern.
ProgramTypeChecks ==
  lapses = {} =>
    /\ \A op \in ToSet(body) : op.mnemonic # "func.return" => WellTyped(op)
    /\ \A i \in 1 .. next - 1 :
         LET n == graph.nodes[i]
         IN n.output \in DOMAIN value_map =>
           value_map[n.output].type.dims = OutputDims(n)

\* The framework has no rollback ("rollback -- omitted here"): a node that
\* fails must leave neither an operation nor a value behind.  A node that the
\* second tier reports an error for leaves no operation.
NoRollbackNeeded ==
  [][/\ stats'.failed > stats.failed => UNCHANGED <<body, value_map>>
     /\ stage' = "nodes" /\ errors' > errors => UNCHANGED body]_vars
=============================================================================
