-------------------------- MODULE MCGraphRewrite --------------------------
(***************************************************************************)
(* Instances of GraphRewrite: graphs of four nodes around convolutions and *)
(* normalizations, around transposes, and around constants, and the three  *)
(* graphs that the program builds itself.                                  *)
(***************************************************************************)
EXTENDS GraphRewrite

Name(k) == <<"n1", "n2", "n3", "n4">>[k]

Earlier(k) == {Name(i) : i \in 1 .. k - 1}

Values(k) == {"X"} \cup Earlier(k)

Parameters ==
  [x \in {"w1", "w2", "b", "gamma", "beta", "mu", "var"} |->
    CASE x = "w1" -> Tensor(3, Identity) [] x = "w2" -> Tensor(5, Identity)
      [] x = "b" -> Tensor(7, Identity) [] x = "gamma" -> Tensor(2, Identity)
      [] x = "beta" -> Tensor(13, Identity) [] x = "mu" -> Tensor(4, Identity)
      [] x = "var" -> Tensor(17, Identity)]

Op(op, ins, k) == Node(op, ins, Name(k), Identity)

BatchNorm(v, k) == Op("BatchNormalization", <<v, "gamma", "beta", "mu", "var">>, k)

Convs(k, V, W, B) ==
  {Op("Conv", <<v, w>>, k) : v \in V, w \in W}
    \cup {Op("Conv", <<v, w, b>>, k) : v \in V, w \in W, b \in B}

Differences(k, V) == {Op("Sub", <<v, u>>, k) : v \in V, u \in V}

ConvPrograms ==
  {<<n1, n2, n3, n4>> :
     n1 \in Convs(1, {"X"}, {"w1"}, {"b", "beta", "Y"}),
     n2 \in {BatchNorm("n1", 2)} \cup Convs(2, {"X", "n1"}, {"w1", "w2"}, {"b"}),
     n3 \in {BatchNorm(v, 3) : v \in {"n1", "n2"}}
              \cup Convs(3, {"n2"}, {"w1", "w2"}, {"beta"}),
     n4 \in {BatchNorm(v, 4) : v \in {"n2", "n3"}}
              \cup {Op("Sub", <<"n3", u>>, 4) : u \in Values(4)}}

Swap == <<2, 1, 3>>

Turn == <<2, 3, 1>>

Transposes(k, V) ==
  {Node("Transpose", <<v>>, Name(k), p) : v \in V, p \in {Swap, Turn, <<3, 1, 2>>}}

TransposePrograms ==
  {<<n1, n2, n3, n4>> :
     n1 \in Transposes(1, {"X"}), n2 \in Transposes(2, {"X", "n1"}),
     n3 \in Transposes(3, {"n1", "n2"}) \cup Differences(3, {"n1", "n2"}),
     n4 \in Transposes(4, {"n2", "n3"}) \cup Differences(4, {"X", "n3"})}

ConstPrograms ==
  {<<n1, n2, n3>> :
     n1 \in Differences(1, {"X", "b", "w1"}),
     n2 \in Differences(2, {"n1", "b"}) \cup Convs(2, {"X"}, {"w1", "n1"}, {"n1"}),
     n3 \in Differences(3, {"X", "n1", "n2"}) \cup {BatchNorm("n2", 3)}}

Outs(p) == {<<p[Len(p)].output>>, <<p[Len(p)].output, p[Len(p) - 1].output>>}

Graph(p, inits, outs) == [nodes |-> p, initializers |-> inits, outputs |-> outs]

make_builtin_conv_bn ==
  Graph(<<Op("Conv", <<"X", "w1", "b">>, 1), BatchNorm("n1", 2)>>, Parameters, <<"n2">>)

make_builtin_transpose ==
  Graph(<<Node("Transpose", <<"X">>, "n1", Swap), Node("Transpose", <<"n1">>, "n2", Swap)>>,
        Parameters, <<"n2">>)

make_builtin_const_fold ==
  Graph(<<Op("Add", <<"b", "w1">>, 1), Op("Mul", <<"X", "n1">>, 2)>>, Parameters, <<"n2">>)

\* Graphs whose axes fit.
MCGraphs ==
  {make_builtin_conv_bn, make_builtin_transpose, make_builtin_const_fold}
    \cup UNION {{Graph(p, Parameters, outs) : outs \in Outs(p)} :
                p \in {q \in ConvPrograms \cup TransposePrograms \cup ConstPrograms :
                        \A x \in Inputs \cup {n.output : n \in ToSet(q)} :
                          Meaning(q, Parameters)[x] # Undefined}}
=============================================================================
