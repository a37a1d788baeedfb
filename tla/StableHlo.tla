----------------------------- MODULE StableHlo -----------------------------
(***************************************************************************)
(* The StableHLO values and operations that stage P4 builds                *)
(* (src/src/mlir/gpu/4_onnx_to_stablehlo/stablehlo_ir.h), and the typing   *)
(* rules of the dialect, which the builder does not check: the text it     *)
(* prints is meant for the StableHLO tools.  An operation holds the values *)
(* it was built from, with the types they had, and its integer lists.      *)
(***************************************************************************)
EXTENDS Integers, SequencesExt

Type(dims, elem) == [dims |-> dims, elem |-> elem]

Unknown == Type(<<>>, "unknown")

Scalar(elem) == Type(<<>>, elem)

Value(name, type) == [name |-> name, type |-> type]

\* Value{}, what a lookup in vain returns.
Invalid == Value(<<>>, Unknown)

valid(v) == v.name # <<>>

rank(t) == Len(t.dims)

Dynamic(t) == \E i \in DOMAIN t.dims : t.dims[i] < 0

Product(dims) ==
  LET of[k \in 0 .. Len(dims)] == IF k = 0 THEN 1 ELSE of[k - 1] * dims[k]
  IN of[Len(dims)]

num_elements(t) == IF Dynamic(t) THEN -1 ELSE Product(t.dims)

\* The entries of s that are in S, in their order.
Kept(s, S) ==
  LET of[k \in 0 .. Len(s)] ==
        IF k = 0 THEN <<>>
        ELSE IF s[k] \in S THEN Append(of[k - 1], s[k]) ELSE of[k - 1]
  IN of[Len(s)]

Operation(name, mnemonic, operands, lists, type) ==
  [mnemonic |-> mnemonic, name |-> name, operands |-> operands, lists |-> lists, type |-> type]

\* The value of the operation appended last, and the body it ends.
Built(body) == [body |-> body, value |-> Value(Last(body).name, Last(body).type)]

\* faulty: set_insertion_point's reset is lost between two operations.
fresh_ssa_Stuck(body) == <<"ssa", 0>>

fresh_ssa(body) == <<"ssa", Len(body)>>

\* Every emit_* function: append one operation and return its value.
Emit(body, mnemonic, operands, lists, type) ==
  Built(Append(body, Operation(fresh_ssa(body), mnemonic, operands, lists, type)))

-----------------------------------------------------------------------------
(***************************************************************************)
(* The typing rules.  Dimensions of the dialect count from 0.              *)
(***************************************************************************)
Dim(t, d) == t.dims[d + 1]

Axes(t) == 0 .. rank(t) - 1

AllAxes(r) == [i \in 1 .. r |-> i - 1]

\* The axes of a tensor of rank r that are not in S, in order.
OtherAxes(r, S) == Kept(AllAxes(r), (0 .. r - 1) \ S)

\* The dimensions of t without those numbered in S, in order.
Without(t, S) ==
  [i \in DOMAIN OtherAxes(rank(t), S) |-> Dim(t, OtherAxes(rank(t), S)[i])]

Total(sizes) ==
  LET of[k \in 0 .. Len(sizes)] == IF k = 0 THEN 0 ELSE of[k - 1] + sizes[k]
  IN of[Len(sizes)]

Distinct(dims) == IsInjective(dims)

RoundUp(n, d) == (n + d - 1) \div d

BroadcastTypes(x, dims, t) ==
  /\ ~Dynamic(t) /\ t.elem = x.elem
  /\ Len(dims) = rank(x) /\ Distinct(dims) /\ ToSet(dims) \subseteq Axes(t)
  /\ \A i \in DOMAIN dims : x.dims[i] \in {1, Dim(t, dims[i])}

SliceTypes(x, start, limit, stride, t) ==
  /\ t.elem = x.elem /\ rank(t) = rank(x)
  /\ \A i \in DOMAIN x.dims :
       /\ 0 <= start[i] /\ start[i] <= limit[i] /\ limit[i] <= x.dims[i] /\ stride[i] > 0
       /\ t.dims[i] = RoundUp(limit[i] - start[i], stride[i])

ConcatenateTypes(types, axis, t) ==
  /\ axis \in Axes(t)
  /\ \A i \in DOMAIN types :
       /\ types[i].elem = t.elem /\ rank(types[i]) = rank(t)
       /\ Without(types[i], {axis}) = Without(t, {axis})
  /\ Dim(t, axis) = Total([i \in DOMAIN types |-> Dim(types[i], axis)])

DotTypes(x, y, lb, rb, lc, rc, t) ==
  /\ x.elem = y.elem /\ t.elem = x.elem
  /\ ToSet(lb \o lc) \subseteq Axes(x) /\ Distinct(lb \o lc)
  /\ ToSet(rb \o rc) \subseteq Axes(y) /\ Distinct(rb \o rc)
  /\ \A i \in DOMAIN lb : Dim(x, lb[i]) = Dim(y, rb[i])
  /\ \A i \in DOMAIN lc : Dim(x, lc[i]) = Dim(y, rc[i])
  /\ t.dims = [i \in DOMAIN lb |-> Dim(x, lb[i])]
                \o Without(x, ToSet(lb \o lc)) \o Without(y, ToSet(rb \o rc))

Spread(size, dilation) == (size - 1) * dilation + 1

ConvolutionTypes(x, k, strides, low, high, dilations, group, t) ==
  /\ rank(k) = rank(x) /\ rank(t) = rank(x)
  /\ t.dims[1] = x.dims[1] /\ t.dims[2] = k.dims[1]
  /\ x.dims[2] = k.dims[2] * group /\ k.dims[1] % group = 0
  /\ \A i \in DOMAIN strides :
       t.dims[i + 2] = (x.dims[i + 2] + low[i] + high[i]
                          - Spread(k.dims[i + 2], dilations[i])) \div strides[i] + 1

Unary == {"stablehlo.sqrt", "stablehlo.exponential", "stablehlo.sine", "stablehlo.cosine",
          "stablehlo.negate", "chlo.erf"}

Binary == {"stablehlo.add", "stablehlo.multiply", "stablehlo.subtract", "stablehlo.divide"}

Dialect ==
  Unary \cup Binary \cup
    {"stablehlo.constant", "stablehlo.convert", "stablehlo.broadcast_in_dim",
     "stablehlo.slice", "stablehlo.concatenate", "stablehlo.reduce",
     "stablehlo.dot_general", "stablehlo.convolution", "stablehlo.reshape",
     "stablehlo.dynamic_reshape", "stablehlo.transpose"}

ShapesFit(op) ==
  LET x == op.operands[1].type
      y == op.operands[2].type
      t == op.type
      l == op.lists
  IN CASE op.mnemonic = "stablehlo.constant" -> ~Dynamic(t)
       [] op.mnemonic \in Binary -> x = t /\ y = t
       [] op.mnemonic \in Unary -> x = t
       [] op.mnemonic = "stablehlo.convert" -> x.dims = t.dims
       [] op.mnemonic = "stablehlo.broadcast_in_dim" -> BroadcastTypes(x, l[1], t)
       [] op.mnemonic = "stablehlo.slice" -> SliceTypes(x, l[1], l[2], l[3], t)
       [] op.mnemonic = "stablehlo.concatenate" ->
            ConcatenateTypes([i \in DOMAIN op.operands |-> op.operands[i].type], l[1][1], t)
       [] op.mnemonic = "stablehlo.reduce" ->
            /\ y = Scalar(x.elem) /\ Distinct(l[1]) /\ ToSet(l[1]) \subseteq Axes(x)
            /\ t = Type(Without(x, ToSet(l[1])), x.elem)
       [] op.mnemonic = "stablehlo.dot_general" -> DotTypes(x, y, l[1], l[2], l[3], l[4], t)
       [] op.mnemonic = "stablehlo.convolution" ->
            ConvolutionTypes(x, y, l[1], l[2], l[3], l[4], l[5][1], t)
       [] op.mnemonic = "stablehlo.reshape" ->
            x.elem = t.elem /\ ~Dynamic(t) /\ num_elements(x) = num_elements(t)
       [] op.mnemonic = "stablehlo.dynamic_reshape" ->
            /\ x.elem = t.elem /\ y.elem \in {"i32", "i64"}
            /\ rank(y) = 1 /\ y.dims[1] \in {rank(t), -1}
       [] op.mnemonic = "stablehlo.transpose" ->
            /\ t.elem = x.elem /\ Distinct(l[1]) /\ ToSet(l[1]) = Axes(x)
            /\ t.dims = [i \in DOMAIN l[1] |-> Dim(x, l[1][i])]

\* Is the operation one that the dialect's verifier accepts?
WellTyped(op) ==
  /\ op.mnemonic \in Dialect
  /\ op.type.elem # "unknown"
  /\ \A v \in ToSet(op.operands) : v.type.elem # "unknown"
  /\ ShapesFit(op)
=============================================================================
