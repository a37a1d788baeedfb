------------------------------ MODULE ShloOpt ------------------------------
(***************************************************************************)
(* The StableHLO pass pipeline of stage P5                                 *)
(* (src/src/mlir/gpu/5_stablehlo_opt/run_stablehlo_opt.cpp).               *)
(*                                                                         *)
(* One step is one rewrite of the pass that runs, found by the pass's own  *)
(* scan of the operator list, or the end of a pass that finds no more.     *)
(* Most passes start their scan again after a rewrite; shape inference,    *)
(* fusion detection and the layout folds go on behind it.                  *)
(***************************************************************************)
EXTENDS ShloGraph

CONSTANT Graphs  \* the graphs the pipeline may be given

\* They are made with add_arg and add_op, operands before the operators.
ASSUME GraphsAssumption == \A g \in Graphs : IsBuilt(g)

\* The types they declare are right.  Only what is said of tensors rests on this.
ASSUME TypesAssumption == \A g \in Graphs : IsWellTyped(g)

VARIABLES
  graph,  \* the Graph that run_pipeline rewrites
  pass,   \* position in Pipeline of the pass that runs
  next    \* position in Graph::ops from which the pass scans

vars == <<graph, pass, next>>

\* The order in which run_pipeline calls the passes.
Pipeline ==
  <<"algebraic_simplify", "identity_elim",
    "shape_infer", "shape_fold", "shape_subgraph_elim",
    "cse", "constant_fold", "conv_bn_fusion", "dce", "fusion_detect",
    "transpose_elim", "transpose_push", "nchw_nhwc_layout", "nhwc_nchw_layout",
    "algebraic_simplify", "identity_elim", "dce",
    "legalize">>

Finished == pass > Len(Pipeline)

Running(p) == ~Finished /\ Pipeline[pass] = p

(***************************************************************************)
(* Stage 1: canonicalization.  The value that takes the place of the       *)
(* result of o, in a set that is empty when the pass leaves o alone.       *)
(***************************************************************************)
\* is_splat_f on the operator that defines v
IsSplat(g, v, n) ==
  /\ Is(g, v, "constant")
  /\ g.value[v].type.elem = "F32"
  /\ g.value[v].data = n

Simplified(g, o) ==
  LET mn == g.value[o].mnemonic
      l  == g.value[o].operands[1]
      r  == g.value[o].operands[2]
  IN IF mn \notin {"add", "multiply", "subtract"} THEN {}
     ELSE LET unit == IF mn = "multiply" THEN 1 ELSE 0 IN
          IF IsSplat(g, r, unit) THEN {l}
          ELSE IF mn # "subtract" /\ IsSplat(g, l, unit) THEN {r}
          ELSE IF mn = "multiply" /\ IsSplat(g, r, 0) THEN {r}
          ELSE IF mn = "multiply" /\ IsSplat(g, l, 0) THEN {l}
          ELSE {}

Identity(g, o) ==
  LET op   == g.value[o]
      same == g.value[op.operands[1]].type = op.type
  IN IF \/ op.mnemonic = "reshape" /\ same
        \/ op.mnemonic = "transpose" /\ op.attrs.permutation = 0
        \/ op.mnemonic = "broadcast_in_dim" /\ same /\ op.attrs.permutation = 0
     THEN {op.operands[1]} ELSE {}

(***************************************************************************)
(* Stage 2: shapes.                                                        *)
(***************************************************************************)
\* broadcast_shapes of operands that have one shape, as far as it is known; the
\* only operand of a unary operator is its last, too
BroadcastShapes(a, b) == IF IsStatic(a) THEN a ELSE [a EXCEPT !.dims = b.dims]

\* The type pass_shape_infer computes for o, or a dynamic one.
Inferred(g, o) ==
  LET op == g.value[o]
      in == g.value[op.operands[1]].type
  IN CASE op.mnemonic \in Elementwise ->
            BroadcastShapes(in, g.value[Last(op.operands)].type)
       [] op.mnemonic = "transpose" /\ IsStatic(in) ->
            [in EXCEPT !.dims = (@ + op.attrs.permutation) % 3]
       [] OTHER -> [op.type EXCEPT !.dims = Dynamic]

IsInferrable(g, o) == ~IsStatic(g.value[o].type) /\ IsStatic(Inferred(g, o))

IsFoldableSize(g, o) ==
  /\ g.value[o].mnemonic = "get_dimension_size"
  /\ IsStatic(g.value[g.value[o].operands[1]].type)

(***************************************************************************)
(* Stage 3: graph optimization.                                            *)
(***************************************************************************)
\* ops_equivalent
Equivalent(a, b) ==
  /\ a.mnemonic = b.mnemonic
  /\ a.type = b.type
  /\ a.operands = b.operands
  /\ a.data = b.data
  /\ a.attrs = b.attrs

\* The positions behind i of operators that do the same as the one at i.
Duplicates(g, i) ==
  {j \in (i + 1)..Len(g.ops) : Equivalent(g.value[g.ops[i]], g.value[g.ops[j]])}

IsFloatConstant(g, v) == Is(g, v, "constant") /\ g.value[v].type.elem = "F32"

IsConstantExpr(g, o) ==
  /\ g.value[o].mnemonic \in Binary \cup {"negate"}
  /\ \A v \in Operands(g, o) : IsFloatConstant(g, v)

Folded(g, o) ==
  LET op == g.value[o]
      a  == g.value[op.operands[1]].data
      b  == g.value[op.operands[Len(op.operands)]].data
  IN CASE op.mnemonic = "add" -> a + b
       [] op.mnemonic = "multiply" -> a * b
       [] op.mnemonic = "subtract" -> a - b
       [] op.mnemonic = "negate" -> 0 - a

\* The first constant operand of o and the operand beside it.
ConstantSplits(g, o) ==
  LET in == g.value[o].operands
      k  == IF Is(g, in[1], "constant") THEN 1 ELSE 2
  IN IF Is(g, in[k], "constant") THEN {[constant |-> in[k], other |-> in[3 - k]]}
     ELSE {}

HasOneUser(g, v) == Cardinality(g.users[v]) = 1

ScaledConvolutions_SharedScale(g, m) == \* faulty: others may read the scaled value
  {s \in IF Is(g, m, "multiply") THEN ConstantSplits(g, m) ELSE {} :
     Is(g, s.other, "convolution") /\ HasOneUser(g, s.other)}

ScaledConvolutions_SharedConv(g, m) == \* faulty: others may read the convolution
  {s \in IF Is(g, m, "multiply") THEN ConstantSplits(g, m) ELSE {} :
     HasOneUser(g, m) /\ Is(g, s.other, "convolution")}

\* multiply(conv, scale), the inner half of the pattern
ScaledConvolutions(g, m) ==
  {s \in IF Is(g, m, "multiply") THEN ConstantSplits(g, m) ELSE {} :
     HasOneUser(g, m) /\ Is(g, s.other, "convolution") /\ HasOneUser(g, s.other)}

\* add(multiply(conv, scale), bias)
NormalizedConvolutions(g, o) ==
  UNION {{[conv |-> s.other, mul |-> a.other] : s \in ScaledConvolutions(g, a.other)} :
          a \in IF g.value[o].mnemonic = "add" THEN ConstantSplits(g, o) ELSE {}}

\* Elementwise and not in the set assigned: the pass runs once, so that the
\* assigned operators are those with a fusion_group.
IsFusable(g, o) ==
  /\ g.value[o].mnemonic \in Elementwise
  /\ g.value[o].attrs.fusion_group = NoGroup

Chain_AnyUser(g, start) == \* faulty: follows one of several users
  LET upTo[n \in 1..Len(g.ops)] ==
        IF n = 1 THEN <<start>>
        ELSE LET c    == upTo[n - 1]
                 onto == {u \in g.users[Last(c)] : IsFusable(g, u)}
             IN IF onto # {} THEN Append(c, CHOOSE u \in onto : TRUE) ELSE c
  IN upTo[Len(g.ops)]

\* A chain that goes on if its last operator has one user, which is fusable.
Extended(g, chain) ==
  LET onto == {u \in g.users[Last(chain)] : IsFusable(g, u)} IN
  IF HasOneUser(g, Last(chain)) /\ onto # {}
  THEN Append(chain, CHOOSE u \in onto : TRUE) ELSE chain

\* The operators from start on, each the only user of the one before.
Chain(g, start) ==
  LET upTo[n \in 1..Len(g.ops)] ==
        IF n = 1 THEN <<start>> ELSE Extended(g, upTo[n - 1])
  IN upTo[Len(g.ops)]

FusionGroups(g) == {g.value[o].attrs.fusion_group : o \in Live(g)} \ {NoGroup}

(***************************************************************************)
(* Stage 4: layout.                                                        *)
(***************************************************************************)
NchwToNhwc == 1  \* kNchwToNhwcPerm
NhwcToNchw == 2  \* kNhwcToNchwPerm

Permutation(g, o) == g.value[o].attrs.permutation

Input(g, o) == g.value[o].operands[1]

IsTransposePair(g, o) ==
  g.value[o].mnemonic = "transpose" /\ Is(g, Input(g, o), "transpose")

IsPushable_AnyPermutations(g, o) == \* faulty: the permutations are not compared
  /\ g.value[o].mnemonic \in Binary
  /\ \A v \in Operands(g, o) : Is(g, v, "transpose")

IsPushable(g, o) ==
  /\ g.value[o].mnemonic \in Binary
  /\ \A v \in Operands(g, o) : Is(g, v, "transpose")
  /\ \A v, w \in Operands(g, o) : Permutation(g, v) = Permutation(g, w)

IsOutputLayout(g, o) ==
  /\ g.value[o].mnemonic = "transpose"
  /\ Permutation(g, o) = NchwToNhwc
  /\ Is(g, Input(g, o), "convolution")
  /\ HasOneUser(g, Input(g, o))

IsInputLayout(g, o) ==
  /\ g.value[o].mnemonic = "convolution"
  /\ Is(g, Input(g, o), "transpose")
  /\ Permutation(g, Input(g, o)) = NhwcToNchw
  /\ HasOneUser(g, Input(g, o))

(***************************************************************************)
(* The scans.                                                              *)
(***************************************************************************)
\* Does the pass rewrite the operator at position i of the list?
Matches(g, p, i) ==
  LET o == g.ops[i] IN
  CASE p = "algebraic_simplify" -> Simplified(g, o) # {}
    [] p = "identity_elim" -> Identity(g, o) # {}
    [] p = "shape_infer" -> IsInferrable(g, o)
    [] p = "shape_fold" -> IsFoldableSize(g, o)
    [] p = "shape_subgraph_elim" -> g.value[o].type.elem = "I64" /\ IsDead(g, o)
    [] p = "cse" -> Duplicates(g, i) # {}
    [] p = "constant_fold" -> IsConstantExpr(g, o)
    [] p = "conv_bn_fusion" -> NormalizedConvolutions(g, o) # {}
    [] p = "dce" -> IsDead(g, o)
    [] p = "fusion_detect" -> IsFusable(g, o) /\ Len(Chain(g, o)) >= 2
    [] p = "transpose_elim" -> IsTransposePair(g, o)
    [] p = "transpose_push" -> IsPushable(g, o)
    [] p = "nchw_nhwc_layout" -> IsOutputLayout(g, o)
    [] p = "nhwc_nchw_layout" -> IsInputLayout(g, o)
    [] p = "legalize" -> FALSE

Least(S) == CHOOSE i \in S : \A j \in S : i <= j
Greatest(S) == CHOOSE i \in S : \A j \in S : j <= i

\* The position the pass rewrites next, in a set that is empty when it finds
\* none: the dead are looked for from the end, and shape inference goes round
\* again while its last sweep has changed a type.
Found ==
  LET p     == Pipeline[pass]
      hits  == {i \in DOMAIN graph.ops : Matches(graph, p, i)}
      ahead == {i \in hits : i >= next}
  IN CASE p \in {"dce", "shape_subgraph_elim"} /\ hits # {} -> {Greatest(hits)}
       [] p \notin {"dce", "shape_subgraph_elim"} /\ ahead # {} -> {Least(ahead)}
       [] p = "shape_infer" /\ ahead = {} /\ hits # {} -> {Least(hits)}
       [] OTHER -> {}

\* The pass starts its scan again (changed = true; break).
Restart(g) == graph' = g /\ next' = 1 /\ UNCHANGED pass

\* The pass goes on behind position i.
SweepOn(g, i) == graph' = g /\ next' = i + 1 /\ UNCHANGED pass

(***************************************************************************)
(* The passes, one rewrite each.                                           *)
(***************************************************************************)
Init == graph \in Graphs /\ pass = 1 /\ next = 1

AlgebraicSimplify ==
  /\ Running("algebraic_simplify")
  /\ \E i \in Found : \E v \in Simplified(graph, graph.ops[i]) :
       Restart(Replaced(graph, graph.ops[i], v))

IdentityElim_NotErased == \* faulty: the operator stays in the list
  /\ Running("identity_elim")
  /\ \E i \in Found : \E v \in Identity(graph, graph.ops[i]) :
       Restart(ReplaceAllUses(graph, graph.ops[i], v))

IdentityElim ==
  /\ Running("identity_elim")
  /\ \E i \in Found : \E v \in Identity(graph, graph.ops[i]) :
       Restart(Replaced(graph, graph.ops[i], v))

ShapeInfer ==
  /\ Running("shape_infer")
  /\ \E i \in Found : LET o == graph.ops[i] IN
       SweepOn([graph EXCEPT !.value[o].type = Inferred(graph, o)], i)

\* The operator's place is taken by a constant at the end of the list.  (Bound
\* by \E rather than LET, a new graph is computed once when TLC asks whether
\* the action is enabled.)
FoldInto(o, n) ==
  \E g \in {AddConstant(graph, graph.value[o].type, n)} :
    Restart(Replaced(g, o, Newest(g)))

ShapeFold ==
  /\ Running("shape_fold")
  /\ \E i \in Found : LET o == graph.ops[i] IN
       FoldInto(o, Extent(graph.value[Input(graph, o)].type.dims))

ShapeSubgraphElim ==
  /\ Running("shape_subgraph_elim")
  /\ \E i \in Found : Restart(EraseOp(graph, graph.ops[i]))

Cse ==
  /\ Running("cse")
  /\ \E i \in Found :
       Restart(Replaced(graph, graph.ops[Least(Duplicates(graph, i))], graph.ops[i]))

ConstantFold ==
  /\ Running("constant_fold")
  /\ \E i \in Found : LET o == graph.ops[i] IN FoldInto(o, Folded(graph, o))

\* The convolution that stands for the normalized one: the scale and the bias are
\* not written down anywhere.
WithBn(conv, type) == [conv EXCEPT !.attrs.fused_bn = TRUE, !.type = type]

ConvBnFusion ==
  /\ Running("conv_bn_fusion")
  /\ \E i \in Found : LET o == graph.ops[i] IN
     \E m \in NormalizedConvolutions(graph, o) :
     \E marked \in {[graph EXCEPT !.value[m.conv] = WithBn(@, graph.value[o].type)]} :
     \E g \in {Replaced(marked, o, m.conv)} :
       Restart(EraseOp(g, m.mul))

Dce ==
  /\ Running("dce")
  /\ \E i \in Found : Restart(EraseOp(graph, graph.ops[i]))

FusionDetect ==
  /\ Running("fusion_detect")
  /\ \E i \in Found :
       LET members == ToSet(Chain(graph, graph.ops[i]))
           id      == Cardinality(FusionGroups(graph))
       IN SweepOn([graph EXCEPT !.value = [v \in DOMAIN @ |->
                    IF v \in members THEN [@[v] EXCEPT !.attrs.fusion_group = id]
                    ELSE @[v]]], i)

TransposeElim ==
  /\ Running("transpose_elim")
  /\ \E i \in Found :
       LET o        == graph.ops[i]
           prev     == Input(graph, o)
           composed == (Permutation(graph, prev) + Permutation(graph, o)) % 3
       IN \/ composed = 0 /\ Restart(Replaced(graph, o, Input(graph, prev)))
          \/ /\ composed # 0
             /\ \E g \in {AddOp(graph, Op("transpose", <<Input(graph, prev)>>,
                            graph.value[o].type, 0,
                            [NoAttrs EXCEPT !.permutation = composed]))} :
                  Restart(Replaced(g, o, Newest(g)))

TransposePush ==
  /\ Running("transpose_push")
  /\ \E i \in Found :
       LET o  == graph.ops[i]
           op == graph.value[o]
           l  == Input(graph, op.operands[1])
           r  == Input(graph, op.operands[2])
       IN \E nb \in {AddOp(graph, Op(op.mnemonic, <<l, r>>, graph.value[l].type, 0,
                       [op.attrs EXCEPT !.fusion_group = NoGroup]))} :
          \E nt \in {AddOp(nb, Op("transpose", <<Newest(nb)>>, op.type, 0,
                       [NoAttrs EXCEPT !.permutation =
                          Permutation(graph, op.operands[1])]))} :
            Restart(Replaced(nt, o, Newest(nt)))

\* permute_dims leaves a dynamic shape dynamic.
PermutedDims(t, p) == IF IsStatic(t) THEN [t EXCEPT !.dims = (@ + p) % 3] ELSE t

\* The convolution that writes its result the other way round.
WithNhwcOutput(conv) ==
  [conv EXCEPT !.type = PermutedDims(@, NchwToNhwc), !.attrs.layout = "NHWC"]

NchwNhwcLayout ==
  /\ Running("nchw_nhwc_layout")
  /\ \E i \in Found :
       LET o    == graph.ops[i]
           conv == Input(graph, o)
           g    == [graph EXCEPT !.value[conv] = WithNhwcOutput(@)]
       IN SweepOn(Replaced(g, o, conv), i)

NhwcNchwLayout ==
  /\ Running("nhwc_nchw_layout")
  /\ \E i \in Found :
       LET conv == graph.ops[i]
           t    == Input(graph, conv)
           g    == ReplaceAllUses(
                     [graph EXCEPT !.value[conv].attrs.input_layout = "NHWC"],
                     t, Input(graph, t))
       IN SweepOn(IF g.users[t] = {} THEN EraseOp(g, t) ELSE g, i)

\* The mnemonics stage6_legalize has no name for stay as they are.
Legalizable == Mnemonics \ {"arg", "exponential", "log"}

Legalize ==
  /\ Running("legalize")
  /\ graph' = [graph EXCEPT !.value = [v \in DOMAIN @ |->
                [@[v] EXCEPT !.legal = v \in Live(graph)
                                   /\ graph.value[v].mnemonic \in Legalizable]]]
  /\ pass' = pass + 1
  /\ next' = 1

EndPass ==
  /\ ~Finished /\ ~Running("legalize")
  /\ Found = {}
  /\ pass' = pass + 1
  /\ next' = 1
  /\ UNCHANGED graph

Next ==
  \/ AlgebraicSimplify \/ IdentityElim
  \/ ShapeInfer \/ ShapeFold \/ ShapeSubgraphElim
  \/ Cse \/ ConstantFold \/ ConvBnFusion \/ Dce \/ FusionDetect
  \/ TransposeElim \/ TransposePush \/ NchwNhwcLayout \/ NhwcNchwLayout
  \/ Legalize \/ EndPass

Spec == Init /\ [][Next]_vars

\* main calls the passes one after the other: the pipeline keeps running.
FairSpec == Spec /\ WF_vars(Next)

(***************************************************************************)
(* Properties.                                                             *)
(***************************************************************************)
TypeOK ==
  /\ pass \in 1..(Len(Pipeline) + 1)
  /\ next \in 1..(Len(graph.ops) + 2)
  /\ Live(graph) \subseteq DOMAIN graph.value
  /\ \A o \in Live(graph) :
       /\ graph.value[o].mnemonic \in Mnemonics
       /\ graph.value[o].type \in Types
       /\ graph.users[o] \subseteq Live(graph)

\* The use lists and the operands say the same, whatever the rewrites do, and
\* no operator reads a value whose operator has been erased: dead code
\* elimination and the single-use tests of three passes rely on it, and
\* erase_op does not look whether the result is still in use.
GraphConsistent == UsersMirror(graph) /\ Closed(graph)

\* The passes that take one user for one use although the value may be
\* returned as well.
ReturnBlind == {"conv_bn_fusion", "nchw_nhwc_layout", "nhwc_nchw_layout"}

Result(g, k) == Meaning(g)[g.returns[k]]

\* What the function returns has the tensors t after the step.  Left out are
\* returned values with a reader while one of the ReturnBlind passes runs.
ReturnsKept(t) ==
  \A k \in DOMAIN graph.returns :
    \/ ~Finished /\ Pipeline[pass] \in ReturnBlind
       /\ graph.users[graph.returns[k]] # {}
    \/ t[graph'.returns[k]] = Result(graph, k)

\* conv_bn_fusion has made the convolution c stand for the erased sum o.  The graph
\* computes what it did if c is taken to compute o, and c alone: nothing else has
\* changed, but no operator says how c is to be scaled and shifted.
NormalizationDropped(c, o) ==
  LET t == [Meaning(graph) EXCEPT ![c] = Meaning(graph)[o]] IN
  /\ graph'.value[c].mnemonic = "convolution" /\ graph'.value[c].attrs.fused_bn
  /\ SolvesBut(graph', t, c)
  /\ ReturnsKept(t)

\* No rewrite of any pass changes what the function returns, but conv_bn_fusion,
\* and that only by what the convolution it marks no longer does.
ResultsKept ==
  [][\/ graph' = graph
     \/ ReturnsKept(Meaning(graph'))
     \/ /\ Running("conv_bn_fusion")
        /\ \E c \in Live(graph') : \E o \in Live(graph) \ Live(graph') :
             NormalizationDropped(c, o)]_vars

\* Shape inference resolves every shape ("dynamic to static", P5 Step 2) and no
\* later rewrite brings a dynamic one back; a static shape, declared or
\* inferred, is that of the tensor that is computed, although layout folds and
\* pushed transposes retype what they touch.
ShapesRight ==
  LET tensor == Meaning(graph) IN
  \A o \in Live(graph) :
    /\ pass > 3 => IsStatic(graph.value[o].type)
    /\ IsStatic(graph.value[o].type) => tensor[o].dims = graph.value[o].type.dims

\* A member of a fusion group that feeds another member feeds nothing else,
\* also after the layout and clean-up passes have rewritten parts of the group.
FusedIntermediatesPrivate ==
  \A o \in Live(graph) :
    LET group == graph.value[o].attrs.fusion_group IN
    (/\ group # NoGroup
     /\ \E u \in graph.users[o] : graph.value[u].attrs.fusion_group = group)
    => Cardinality(graph.users[o]) = 1

\* Every pass stops rewriting, although three of them add operators.
Terminates == <>Finished
=============================================================================
