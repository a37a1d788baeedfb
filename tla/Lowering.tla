------------------------------ MODULE Lowering ------------------------------
(***************************************************************************)
(* The three tiers of stage P4, which share the context and the builder    *)
(* (src/src/mlir/gpu/4_onnx_to_stablehlo/run_level1.cpp, run_level2.cpp    *)
(* and run_level3.cpp).                                                    *)
(*                                                                         *)
(* The first tier converts six operations and checks nothing, the second   *)
(* converts seven, broadcasts and reports errors, the third is Conversion. *)
(* The first two pass over an operation they do not know and exit with     *)
(* status 0 when no error was reported.                                    *)
(***************************************************************************)
EXTENDS Conversion

VARIABLES
  tier,   \* the program that runs
  counts  \* Context::converted and Context::skipped

loweringVars == <<vars, tier, counts>>

-----------------------------------------------------------------------------
(***************************************************************************)
(* First tier.  An operand without a value has an empty name and no shape, *)
(* and is used all the same.                                               *)
(***************************************************************************)
\* convert_add and convert_mul: the result has the left operand's type.
convert_same_shape(n, mnemonic) ==
  Success(Emit(body, mnemonic, <<Operand(n, 1), Operand(n, 2)>>, <<>>, Operand(n, 1).type))

\* A product of the first two axes, whatever the ranks; batches only when declared.
convert_matmul(n, stray) ==
  LET x == Operand(n, 1).type
      y == Operand(n, 2).type
      plain == rank(x) = 2 /\ rank(y) \in {1, 2}
      dims == IF rank(y) = 1 /\ plain THEN <<x.dims[1]>>
              ELSE <<At(x.dims, 1, stray), At(y.dims, rank(y), stray)>>
  IN Success(Emit(body, "stablehlo.dot_general", <<Operand(n, 1), Operand(n, 2)>>,
                  <<<<>>, <<>>, <<rank(x) - 1>>, <<Larger(0, rank(y) - 2)>>>>,
                  IF ~plain /\ Declared(n).dims # <<>> THEN Declared(n) ELSE Type(dims, x.elem)))

\* Neither auto_pad nor kernel_shape is read.
convert_conv(n, stray) ==
  LET x == Operand(n, 1)
      k == Operand(n, 2)
      sp == rank(x.type) - 2
      strides == get_ints_attr(n, "strides", [i \in 1 .. sp |-> 1])
      dilations == get_ints_attr(n, "dilations", [i \in 1 .. sp |-> 1])
      pads == get_ints_attr(n, "pads", [i \in 1 .. 2 * sp |-> 0])
      Out(i) == Quotient(x.type.dims[2 + i] + pads[i] + pads[i + sp]
                           - Spread(At(k.type.dims, 2 + i, stray), dilations[i]), strides[i]) + 1
      t == IF Declared(n).dims # <<>> THEN Declared(n)
           ELSE Type(<<x.type.dims[1], At(k.type.dims, 1, stray)>> \o [i \in 1 .. sp |-> Out(i)],
                     x.type.elem)
  IN Convolve(n, x, k,
              <<strides, SubSeq(pads, 1, sp), SubSeq(pads, sp + 1, 2 * sp), dilations,
                <<get_int_attr(n, "group", 1)>>>>, t)

\* The last -1 is worked out from the other numbers; a 0 is kept.
Inferred(asked, t) ==
  LET open == {i \in DOMAIN asked : asked[i] = -1}
      known == Product([i \in DOMAIN asked |-> IF asked[i] = -1 THEN 1 ELSE asked[i]])
  IN IF open = {} \/ known <= 0 \/ num_elements(t) <= 0 THEN asked
     ELSE [asked EXCEPT ![Max(open)] = num_elements(t) \div known]

convert_reshape(n) ==
  LET x == Operand(n, 1)
      t == IF Declared(n).dims = <<>> /\ IsInitializer(n.inputs[2])
           THEN Type(Inferred(extract_int64s(n, 2), x.type), x.type.elem) ELSE Declared(n)
  IN Success(Emit(body, "stablehlo.reshape", <<x>>, <<>>, t))

\* dispatch
FirstTier == {"Add", "Mul", "MatMul", "Conv", "Reshape", "Transpose"}

dispatch(n, stray) ==
  CASE n.op_type \in {"Add", "Mul"} -> convert_same_shape(n, BinaryMnemonic[n.op_type])
    [] n.op_type = "MatMul" -> convert_matmul(n, stray)
    [] n.op_type = "Conv" -> convert_conv(n, stray)
    [] n.op_type = "Reshape" -> convert_reshape(n)
    [] n.op_type = "Transpose" -> Transposed(n, stray)

\* A tensor of rank 0 or 1 has a negative number of spatial axes, and the
\* vector of that size cannot be built.
Throws(n) == n.op_type = "Conv" /\ rank(Operand(n, 1).type) < 2

\* Does the converter read a dimension that its operand does not have?
ReadsBeyond(n) ==
  LET x == Operand(n, 1).type
      y == Operand(n, 2).type
      undeclared == Declared(n).dims = <<>>
  IN CASE n.op_type = "MatMul" -> undeclared /\ (rank(x) = 0 \/ rank(y) = 0)
       [] n.op_type = "Conv" -> undeclared /\ rank(y) < rank(x)
       [] n.op_type = "Transpose" -> PermBeyond(n)
       [] OTHER -> FALSE

-----------------------------------------------------------------------------
(***************************************************************************)
(* Second tier.  A converter that reports an error returns before it emits *)
(* anything; operands that do not broadcast are an error, too, but the     *)
(* output then stands for the left operand.                                *)
(***************************************************************************)
emit_broadcast_binary(l, r, mnemonic) ==
  LET t == broadcast_result_type(l.type, r.type)
  IN IF t.dims = <<>> THEN [Failure EXCEPT !.value = l] ELSE Combine(mnemonic, l, r, t)

\* convert_add_l2, convert_mul_l2 and convert_sub_l2
convert_binary_l2(n) ==
  IF ~valid(Operand(n, 1)) \/ ~valid(Operand(n, 2)) THEN Failure
  ELSE emit_broadcast_binary(Operand(n, 1), Operand(n, 2), BinaryMnemonic[n.op_type])

convert_matmul_l2(n) ==
  IF rank(Operand(n, 1).type) < 1 \/ rank(Operand(n, 2).type) < 1 THEN Failure
  ELSE MatMulOpConversion(n)

\* Explicit padding is ignored when auto_pad says that there is none.
convert_conv_l2(n) ==
  ConvOpConversion(IF n.at.auto_pad = "VALID" THEN [n EXCEPT !.at.pads = <<>>] ELSE n)

\* A shape that is known at run time only makes the reshape dynamic.
convert_reshape_l2(n) ==
  LET x == Operand(n, 1)
      shape == lookup(n.inputs[2])
      given == Declared(n).dims # <<>>
      t == IF ~given /\ IsInitializer(n.inputs[2])
           THEN Type(ReshapedDims(extract_int64s(n, 2), x.type), x.type.elem) ELSE Declared(n)
      has_dynamic == Dynamic(t) \/ (~given /\ ~IsInitializer(n.inputs[2]))
  IN IF ~valid(x) THEN Failure
     ELSE IF has_dynamic /\ ~Dynamic(x.type) /\ valid(shape)
     THEN Success(Emit(body, "stablehlo.dynamic_reshape", <<x, shape>>, <<>>, t))
     ELSE Success(Emit(body, "stablehlo.reshape", <<x>>, <<>>, t))

\* perm has to have the right length and axes; it may still name one twice.
convert_transpose_l2(n, stray) ==
  LET x == Operand(n, 1).type
  IN IF Len(perm_of(n)) # rank(x) \/ PermBeyond(n) THEN Failure
     ELSE TransposeOpConversion(n, stray)

\* dispatch_l2
SecondTier == FirstTier \cup {"Sub"}

dispatch_l2(n, stray) ==
  CASE n.op_type \in {"Add", "Mul", "Sub"} -> convert_binary_l2(n)
    [] n.op_type = "MatMul" -> convert_matmul_l2(n)
    [] n.op_type = "Conv" -> convert_conv_l2(n)
    [] n.op_type = "Reshape" -> convert_reshape_l2(n)
    [] n.op_type = "Transpose" -> convert_transpose_l2(n, stray)

-----------------------------------------------------------------------------
(***************************************************************************)
(* What the first two tiers overlook, besides what the third does.         *)
(***************************************************************************)
FirstLapses(n) ==
  LET x == Operand(n, 1).type
      y == Operand(n, 2).type
      undeclared == Declared(n).dims = <<>>
      When(cond, lapse) == IF cond THEN {lapse} ELSE {}
  IN When(~valid(Operand(n, 1)) \/ (Len(n.inputs) > 1 /\ ~valid(Operand(n, 2))), "missing")
       \cup CASE n.op_type \in {"Add", "Mul"} -> When(x # y, "broadcast")
              [] n.op_type = "MatMul" ->
                   When(/\ ~(rank(x) = 2 /\ rank(y) \in {1, 2})
                        /\ undeclared \/ rank(y) > 2, "batch")
              [] n.op_type = "Conv" -> When(n.at.auto_pad \in {"SAME_UPPER", "SAME_LOWER"}, "auto_pad")
              [] n.op_type = "Reshape" -> When(undeclared /\ 0 \in ToSet(Numbers(n, 2)), "zero")
              [] OTHER -> {}

\* Does a reshape have neither a declared type nor numbers to go by?
Shapeless(n) ==
  n.op_type = "Reshape" /\ Declared(n).dims = <<>> /\ ~IsInitializer(n.inputs[2])

\* Is a bias named that has no value, and thus dropped?
BiasDropped(n) == n.op_type = "Conv" /\ HasInput(n, 3) /\ ~valid(Operand(n, 3))

TierLapses(n, result) ==
  (IF tier = 1 THEN (Lapses(n) \ {"group"}) \cup FirstLapses(n)
   ELSE IF ~result.ok THEN IF valid(result.value) THEN {"clash"} ELSE {}
   ELSE IF n.op_type = "Reshape" /\ valid(Operand(n, 2)) /\ Numbers(n, 2) = <<>>
        THEN Lapses(n) \ {"run-time shape"}
   ELSE Lapses(n))
    \cup (IF Shapeless(n) THEN {"shapeless"} ELSE {})
    \cup (IF BiasDropped(n) THEN {"bias"} ELSE {})

-----------------------------------------------------------------------------
(***************************************************************************)
(* main of the three programs.                                             *)
(***************************************************************************)
LoweringInit ==
  /\ Init
  /\ tier \in 1 .. 3
  /\ counts = [converted |-> 0, skipped |-> 0]

Supported == IF tier = 1 THEN FirstTier ELSE SecondTier

AtNode == tier < 3 /\ stage = "nodes" /\ next <= Len(graph.nodes)

\* An operation without a converter is a warning.
SkipUnsupported ==
  /\ AtNode
  /\ Current.op_type \notin Supported
  /\ next' = next + 1
  /\ counts' = [counts EXCEPT !.skipped = @ + 1]
  /\ UNCHANGED <<graph, stage, type_map, value_map, body, results, stats, errors, lapses, tier>>

\* The errors that a converter reports.
Reported(result) == IF result.ok THEN 0 ELSE 1

\* The end of a converter, with or without an error.
Enter(result) ==
  /\ body' = result.body
  /\ value_map' = IF valid(result.value) THEN Entered(Current.output, result.value) ELSE value_map
  /\ errors' = errors + Reported(result)
  /\ lapses' = lapses \cup TierLapses(Current, result)
  /\ counts' = [counts EXCEPT !.converted = @ + 1]
  /\ next' = next + 1
  /\ UNCHANGED <<graph, stage, type_map, results, stats, tier>>

Dispatch ==
  /\ AtNode /\ tier = 1
  /\ Current.op_type \in FirstTier
  /\ ~Throws(Current)
  /\ \E stray \in Stray : \E result \in {dispatch(Current, stray)} : Enter(result)

DispatchL2 ==
  /\ AtNode /\ tier = 2
  /\ Current.op_type \in SecondTier
  /\ \E stray \in Stray : \E result \in {dispatch_l2(Current, stray)} : Enter(result)

\* A vector of negative size, or a read beyond the end of a shape.
Stop ==
  /\ AtNode /\ tier = 1
  /\ Current.op_type \in FirstTier
  /\ Throws(Current) \/ ReadsBeyond(Current)
  /\ stage' = "crashed"
  /\ UNCHANGED <<graph, next, type_map, value_map, body, results, stats, errors, lapses, tier,
                 counts>>

\* The parts of Conversion: what all tiers share, and the framework.
Shared == Prepare \/ Finalize \/ Terminating

Framework == tier = 3 /\ (SkipLegal \/ NoPattern \/ Convert \/ ReadBeyondInputs)

LoweringNext ==
  \/ SkipUnsupported \/ Dispatch \/ DispatchL2 \/ Stop
  \/ (Shared \/ Framework) /\ UNCHANGED <<tier, counts>>

LoweringSpec == LoweringInit /\ [][LoweringNext]_loweringVars

ExitStatusZero == IF tier = 3 THEN ExitZero ELSE errors = 0

-----------------------------------------------------------------------------
(***************************************************************************)
(* Properties.                                                             *)
(***************************************************************************)
\* The stages, the counts and the names: every node seen is counted once, every
\* name is given once, and an operation reads arguments and earlier results
\* with the types they were given.
TypeOK ==
  /\ stage \in {"init", "nodes", "done", "crashed"}
  /\ next \in 1 .. Len(graph.nodes) + 1
  /\ next - 1 = IF tier = 3 THEN stats.total ELSE counts.converted + counts.skipped
  /\ stats.total = stats.converted + stats.already_legal + stats.failed
  /\ errors \in Nat
  /\ IsInjective([i \in DOMAIN body |-> body[i].name])
  /\ \A i \in DOMAIN body : \A v \in ToSet(body[i].operands) :
       \/ v = Invalid /\ "missing" \in lapses
       \/ v.name # <<>> /\ v.name[1] = "arg"
       \/ \E k \in 1 .. i - 1 : v = Value(body[k].name, body[k].type)

\* The inputs that a node computes from.  A reshape takes its shape from elsewhere.
DataInputs(n) == IF n.op_type = "Reshape" THEN {n.inputs[1]} ELSE ToSet(n.inputs)

\* What a node and what follows it need, if what follows needs names.
NeededBefore(n, names) == names \cup (IF n.output \in names THEN DataInputs(n) ELSE {})

\* The names that the outputs of a graph are computed from.
Needed(g) ==
  LET N == Len(g.nodes)
      needed[k \in 0 .. N] ==   \* what the last k nodes and the outputs need
        IF k = 0 THEN NamesOf(g.outputs)
        ELSE NeededBefore(g.nodes[N + 1 - k], needed[k - 1])
  IN needed[N]

\* The exit status looks at the failed nodes only (third tier) or at the errors
\* only (the others, which skip what they do not know): when it reports
\* success, every output of the graph has been computed, from nodes that have
\* all been converted, and returned.
SuccessReturnsAll ==
  stage = "done" /\ ExitStatusZero /\ lapses \cap {"skipped", "missing", "bias"} = {} =>
    /\ errors = 0
    /\ Len(results) = Len(graph.outputs)
    /\ \A i \in DOMAIN graph.nodes :
         LET name == graph.nodes[i].output
         IN tier = 3 \/ name \in Needed(graph) => name \in DOMAIN value_map
=============================================================================
