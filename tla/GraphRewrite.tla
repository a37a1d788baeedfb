--------------------------- MODULE GraphRewrite ---------------------------
(***************************************************************************)
(* Stage P3: the graph rewrites on mini_ir (src/src/mlir/gpu/              *)
(* 3_graph_optimize/run_graph_rewrite.cpp, ../common/mini_ir.h).           *)
(*                                                                         *)
(* Nodes refer to values by name, as in ONNX.  There are no use lists: a   *)
(* pass that renames an output or changes an initializer does not see who  *)
(* else reads it.  One step is one rewrite, at the first node that matches,*)
(* or the end of a pass.  A tensor is one number, a residue, and the order *)
(* of its axes; channels are treated alike.                                *)
(***************************************************************************)
EXTENDS Integers, SequencesExt

CONSTANT Graphs  \* the graphs that may be loaded

VARIABLES
  nodes,        \* Graph::nodes
  initializers, \* Graph::initializers, from names to tensors
  outputs,      \* Graph::output_names
  pass,         \* the pass that runs
  results,      \* history: what the loaded graph computes for its outputs
  lapses        \* history: what a rewrite so far has overlooked

vars == <<nodes, initializers, outputs, pass, results, lapses>>

Passes == {"conv_bn_fusion", "transpose_elimination", "constant_folding", "done"}

Inputs == {"X", "Y"}

(***************************************************************************)
(* Nodes and tensors.                                                      *)
(***************************************************************************)
Node(op, ins, out, perm) ==
  [op_type |-> op, inputs |-> ins, output |-> out, perm |-> perm]

Rank == 3

Identity == <<1, 2, 3>>

Permutations3 == {p \in [1 .. Rank -> 1 .. Rank] : Range(p) = 1 .. Rank}

Elementwise == {"Add", "Mul", "Sub"}

\* Nodes that have as many inputs as their operator takes, all from names.
Nodes(names) ==
  {n \in [op_type : STRING, inputs : Seq(names), output : STRING, perm : Permutations3] :
     CASE n.op_type = "BatchNormalization" -> Len(n.inputs) = 5
       [] n.op_type = "Conv" -> Len(n.inputs) \in {2, 3}
       [] n.op_type = "Transpose" -> Len(n.inputs) = 1
       [] n.op_type \in Elementwise -> Len(n.inputs) = 2
       [] OTHER -> TRUE}

\* A name is defined by one node, or given.
SingleAssignment(ns, given) ==
  /\ \A i, j \in DOMAIN ns : ns[i].output = ns[j].output => i = j
  /\ \A i \in DOMAIN ns : ns[i].output \notin given

\* Every name a node reads, and every name in outs, is given or defined before.
InOrder(ns, given, outs) ==
  /\ \A i \in DOMAIN ns : \A x \in ToSet(ns[i].inputs) :
       x \in given \/ \E k \in 1 .. i - 1 : ns[k].output = x
  /\ \A x \in ToSet(outs) : x \in given \/ \E k \in DOMAIN ns : ns[k].output = x

\* outputs[0] + "_fused_bias"
FusedBiasName(conv) == conv.output \o "_fused_bias"

\* An ONNX graph lists its nodes in order and defines every name once.  That
\* no node has the name of another's fused bias is expected, not checked.
ASSUME GraphsAssumption ==
  \A g \in Graphs :
    LET given == Inputs \cup DOMAIN g.initializers IN
    /\ g.nodes \in Seq(Nodes(STRING)) /\ g.outputs \in Seq(STRING)
    /\ SingleAssignment(g.nodes, given)
    /\ InOrder(g.nodes, given, g.outputs)
    /\ \A m, n \in ToSet(g.nodes) : FusedBiasName(m) # n.output

\* faulty: the permutations are composed the other way round.
Composed_Swapped(p1, p2) == [i \in 1 .. Rank |-> p2[p1[i]]]

Composed(p1, p2) == [i \in 1 .. Rank |-> p1[p2[i]]]

Modulus == 97

Tensor(n, axes) == [n |-> n % Modulus, axes |-> axes]

\* The tensors that are defined.
Tensors == [n : 0 .. Modulus - 1, axes : [1 .. Rank -> 1 .. Rank]]

Undefined == Tensor(0, <<0, 0, 0>>)

\* Stands for 1 / sqrt(var + eps), of which only the place matters.
InverseRoot(var) == var + 1

\* The per-channel factor and offset of a normalization with these parameters.
FusedScale(scale, var) == scale * InverseRoot(var)

FusedBias(scale, bias, mean, var) == bias - mean * FusedScale(scale, var)

Calc(op, a, b) ==
  CASE op = "Add" -> a + b
    [] op = "Mul" -> a * b
    [] op = "Sub" -> a - b

\* What an operator computes from tensors that are all defined.
Apply(op, perm, in) ==
  CASE op \in Elementwise ->
         IF in[1].axes = in[2].axes
         THEN Tensor(Calc(op, in[1].n, in[2].n), in[1].axes)
         ELSE Undefined
    [] op = "Transpose" ->
         Tensor(in[1].n, [k \in 1 .. Rank |-> in[1].axes[perm[k]]])
    [] op = "Conv" ->
         Tensor((in[1].n + 1) * in[2].n + (IF Len(in) = 3 THEN in[3].n ELSE 0), in[1].axes)
    [] op = "BatchNormalization" ->
         Tensor((in[1].n - in[4].n) * FusedScale(in[2].n, in[5].n) + in[3].n,
                in[1].axes)

\* What a node computes from the tensors t.
Value(n, t) ==
  LET in == [k \in DOMAIN n.inputs |-> t[n.inputs[k]]]
  IN  IF Undefined \in ToSet(in) THEN Undefined ELSE Apply(n.op_type, n.perm, in)

\* The tensors of the names that are given.
Known(inits, x) ==
  IF x \in DOMAIN inits THEN inits[x]
  ELSE IF x = "X" THEN Tensor(11, Identity)
  ELSE IF x = "Y" THEN Tensor(29, Identity)
  ELSE Undefined

\* The tensors of all names, node after node.
Meaning(ns, inits) ==
  LET names == Inputs \cup DOMAIN inits \cup {n.output : n \in ToSet(ns)}
                 \cup UNION {ToSet(n.inputs) : n \in ToSet(ns)}
      after[k \in 0 .. Len(ns)] ==
        IF k = 0 THEN [x \in names |-> Known(inits, x)]
        ELSE [after[k - 1] EXCEPT ![ns[k].output] = Value(ns[k], after[k - 1])]
  IN  after[Len(ns)]

\* The nodes are such as the tensors fit, and such as Apply computes.
ASSUME TensorsAssumption ==
  \A g \in Graphs :
    /\ g.initializers \in [DOMAIN g.initializers -> Tensors]
    /\ \A x \in DOMAIN g.initializers : x \in STRING
    /\ \A n \in ToSet(g.nodes) :
         /\ n.op_type \in Elementwise \cup {"Transpose", "Conv", "BatchNormalization"}
         /\ Meaning(g.nodes, g.initializers)[n.output] # Undefined

\* What the names in outs stand for.  A name that nothing defines is undefined.
Results(ns, inits, outs) ==
  LET t == Meaning(ns, inits)
  IN  [k \in DOMAIN outs |-> IF outs[k] \in DOMAIN t THEN t[outs[k]] ELSE Undefined]

(***************************************************************************)
(* Graph::find_producer and the tests of the passes.                       *)
(***************************************************************************)
is_initializer(x) == x \in DOMAIN initializers

\* The first of some positions in a list, 0 if there is none.
First(I) == IF I = {} THEN 0 ELSE Min(I)

\* The position of the first of the nodes ns that defines x.
Producer(ns, x) == First({i \in DOMAIN ns : ns[i].output = x})

find_producer(x) == Producer(nodes, x)

\* faulty: target refers to the place in the list and names the next node when
\* the elements move up.
erase_node_Aliased(ns, x) ==
  LET j == Producer(ns, x)
  IN  SubSeq(ns, 1, j - 1) \o SubSeq(ns, j + 2, Len(ns))

\* faulty: the node stays.
erase_node_Kept(ns, x) == ns

\* Graph::erase_node of the node that defines x.
erase_node(ns, x) == RemoveAt(ns, Producer(ns, x))

ProducedBy(x, op) == find_producer(x) # 0 /\ nodes[find_producer(x)].op_type = op

\* Does a node other than those at positions P, or the graph's user, see x?
ReadElsewhere(x, P) ==
  \/ x \in ToSet(outputs)
  \/ \E i \in DOMAIN nodes \ P : x \in ToSet(nodes[i].inputs)

LapseIf(P, lapse) == IF P THEN {lapse} ELSE {}

Lapses ==
  {"renamed",     \* a name that others read is not defined any more
   "shared",      \* an initializer that others read was changed
   "dynamicBias"} \* a bias that is computed was replaced

IsFusableBn(bn) ==
  /\ bn.op_type = "BatchNormalization"
  /\ ProducedBy(bn.inputs[1], "Conv")
  /\ \A k \in 2 .. 5 : is_initializer(bn.inputs[k])
  /\ is_initializer(nodes[find_producer(bn.inputs[1])].inputs[2])

FusableBns == {k \in DOMAIN nodes : IsFusableBn(nodes[k])}

IsTransposePair(t2) ==
  t2.op_type = "Transpose" /\ ProducedBy(t2.inputs[1], "Transpose")

TransposePairs == {k \in DOMAIN nodes : IsTransposePair(nodes[k])}

IsConstantNode(n) ==
  /\ n.op_type \in Elementwise
  /\ \A x \in ToSet(n.inputs) : is_initializer(x)

ConstantNodes == {k \in DOMAIN nodes : IsConstantNode(nodes[k])}

(***************************************************************************)
(* Pass 1: the parameters of a normalization move into the convolution     *)
(* before it.                                                              *)
(***************************************************************************)
HasBias(conv) == Len(conv.inputs) = 3 /\ is_initializer(conv.inputs[3])

\* new_bias = old_bias * a + b, per output channel.
NewBias(old, a, b) == Tensor(old.n * a + b, old.axes)

\* The initializers with the scaled weights and the new bias.
Rescaled(conv, bias, a, b) ==
  LET old == IF HasBias(conv) THEN initializers[bias] ELSE Tensor(0, Identity)
      w   == conv.inputs[2]
  IN [x \in DOMAIN initializers \cup {bias} |->
       IF x = bias THEN NewBias(old, a, b)
       ELSE IF x = w THEN Tensor(initializers[w].n * a, initializers[w].axes)
       ELSE initializers[x]]

ConvBnFusion ==
  /\ pass = "conv_bn_fusion"
  /\ FusableBns # {}
  /\ LET j    == First(FusableBns)
         bn   == nodes[j]
         i    == find_producer(bn.inputs[1])
         conv == nodes[i]
         P(k) == initializers[bn.inputs[k]].n
         bias == IF HasBias(conv) THEN conv.inputs[3] ELSE FusedBiasName(conv)
         fused == [conv EXCEPT !.inputs = <<@[1], @[2], bias>>,
                               !.output = bn.output]
     IN /\ initializers' = Rescaled(conv, bias, FusedScale(P(2), P(5)),
                                    FusedBias(P(2), P(3), P(4), P(5)))
        /\ nodes' = ReplaceAll(erase_node(nodes, bn.output), conv, fused)
        /\ lapses' = lapses
             \cup LapseIf(ReadElsewhere(conv.output, {j}), "renamed")
             \cup LapseIf(\/ ReadElsewhere(conv.inputs[2], {i, j})
                          \/ ReadElsewhere(bias, {i, j})
                          \/ ~IsInjective(conv.inputs)
                          \/ ~HasBias(conv) /\ bias \in Inputs \cup DOMAIN initializers,
                          "shared")
             \cup LapseIf(Len(conv.inputs) = 3 /\ ~HasBias(conv), "dynamicBias")
  /\ UNCHANGED <<outputs, pass, results>>

(***************************************************************************)
(* Pass 2: a transpose of a transpose.                                     *)
(***************************************************************************)
\* The pair is the identity: the readers of t2 read what t1 reads.
TransposeElim ==
  /\ pass = "transpose_elimination"
  /\ TransposePairs # {}
  /\ LET j  == First(TransposePairs)
         t2 == nodes[j]
         t1 == nodes[find_producer(t2.inputs[1])]
         rewired == [k \in DOMAIN nodes |->
           [nodes[k] EXCEPT !.inputs = ReplaceAll(@, t2.output, t1.inputs[1])]]
     IN /\ Composed(t1.perm, t2.perm) = Identity
        /\ nodes' = erase_node(erase_node(rewired, t2.output), t1.output)
        /\ outputs' = ReplaceAll(outputs, t2.output, t1.inputs[1])
        /\ lapses' = lapses \cup LapseIf(ReadElsewhere(t1.output, {j}), "renamed")
  /\ UNCHANGED <<initializers, pass, results>>

\* It is not: t1 becomes the composed transpose and defines t2's name.
TransposeMerge ==
  /\ pass = "transpose_elimination"
  /\ TransposePairs # {}
  /\ LET j  == First(TransposePairs)
         t2 == nodes[j]
         t1 == nodes[find_producer(t2.inputs[1])]
         merged == [t1 EXCEPT !.perm = Composed(t1.perm, t2.perm),
                              !.output = t2.output]
     IN /\ Composed(t1.perm, t2.perm) # Identity
        /\ nodes' = ReplaceAll(erase_node(nodes, t2.output), t1, merged)
        /\ lapses' = lapses \cup LapseIf(ReadElsewhere(t1.output, {j}), "renamed")
  /\ UNCHANGED <<initializers, outputs, pass, results>>

(***************************************************************************)
(* Pass 3: an elementwise node of initializers becomes an initializer.     *)
(***************************************************************************)
ConstantFold ==
  /\ pass = "constant_folding"
  /\ ConstantNodes # {}
  /\ LET j == First(ConstantNodes)
         n == nodes[j]
         a == initializers[n.inputs[1]]
         b == initializers[n.inputs[2]]
     IN /\ initializers' = [x \in DOMAIN initializers \cup {n.output} |->
             IF x = n.output THEN Tensor(Calc(n.op_type, a.n, b.n), a.axes)
             ELSE initializers[x]]
        /\ nodes' = erase_node(nodes, n.output)
  /\ UNCHANGED <<outputs, pass, results, lapses>>

EndPass ==
  /\ \/ /\ pass = "conv_bn_fusion"
        /\ FusableBns = {}
        /\ pass' = "transpose_elimination"
     \/ /\ pass = "transpose_elimination"
        /\ TransposePairs = {}
        /\ pass' = "constant_folding"
     \/ /\ pass = "constant_folding"
        /\ ConstantNodes = {}
        /\ pass' = "done"
  /\ UNCHANGED <<nodes, initializers, outputs, results, lapses>>

Init ==
  /\ \E g \in Graphs :
       /\ nodes = g.nodes
       /\ initializers = g.initializers
       /\ outputs = g.outputs
  /\ pass = "conv_bn_fusion"
  /\ results = Results(nodes, initializers, outputs)
  /\ lapses = {}

Terminating == pass = "done" /\ UNCHANGED vars

\* run_all_passes
Next ==
  \/ ConvBnFusion \/ TransposeElim \/ TransposeMerge \/ ConstantFold
  \/ EndPass \/ Terminating

Spec == Init /\ [][Next]_vars

(***************************************************************************)
(* Properties.                                                             *)
(***************************************************************************)
\* The passes keep the graph in single-assignment form: a name is defined by
\* one node or one initializer, and each transpose carries a permutation.
TypeOK ==
  /\ pass \in Passes /\ lapses \subseteq Lapses
  /\ SingleAssignment(nodes, Inputs \cup DOMAIN initializers)
  /\ \A n \in ToSet(nodes) : n.perm \in Permutations3

\* Every name a node reads is an input, an initializer or the output of an
\* earlier node, and every output of the graph is defined, unless a pass has
\* renamed a value that others read, too.
DefinedBeforeUse ==
  "renamed" \notin lapses =>
    InOrder(nodes, Inputs \cup DOMAIN initializers, outputs)

\* The graph computes what it was loaded to compute after every rewrite,
\* unless a rewrite has changed what others read or dropped a computed bias:
\* folded parameters, composed permutations and folded constants are right.
ResultsKept == lapses = {} => Results(nodes, initializers, outputs) = results
=============================================================================
