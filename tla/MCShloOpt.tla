----------------------------- MODULE MCShloOpt -----------------------------
(***************************************************************************)
(* Instances of ShloOpt for TLC: families of small graphs, each aimed at   *)
(* the passes that interact, built with the calls the built-in graphs are  *)
(* built with.                                                             *)
(***************************************************************************)
EXTENDS ShloOpt

F(d) == [elem |-> "F32", dims |-> d]
I64 == [elem |-> "I64", dims |-> 0]

OpOf(mn, operands, type) == Op(mn, operands, type, 0, NoAttrs)
TransposeOf(v, p, d) ==
  Op("transpose", <<v>>, F(d), 0, [NoAttrs EXCEPT !.permutation = p])

Floats(g) == {v \in DOMAIN g.value : g.value[v].type.elem = "F32"}

\* Operators on values of one shape; the result's type is given, or left
\* dynamic when dyn says so.
Binaries(g, mns, ls, rs, dyn) ==
  LET tensor == Meaning(g) IN
  UNION {{OpOf(mn, <<p[1], p[2]>>, F(d)) : d \in dyn \cup {tensor[p[1]].dims}} :
         <<mn, p>> \in mns \X {p \in ls \X rs : tensor[p[1]].dims = tensor[p[2]].dims}}

Unaries(g, mns, v) ==
  LET tensor == Meaning(g) IN {OpOf(mn, <<v>>, F(tensor[v].dims)) : mn \in mns}

Transposes(g, ps, vs, dyn) ==
  LET tensor == Meaning(g) IN
  UNION {{TransposeOf(v, p, d) : d \in dyn \cup {(tensor[v].dims + p) % 3}} :
         <<v, p>> \in vs \X ps}

Grown(g, ops) == {AddOp(g, op) : op \in ops}

\* The last value is returned, alone or with the one before.
Returning(g) == {[g EXCEPT !.returns = r] : r \in {<<Newest(g)>>, <<Newest(g) - 1, Newest(g)>>}}

\* Identities, constants, duplicates and dynamic shapes.
Scalars == AddConstant(AddConstant(AddArg(EmptyGraph, F(0)), F(0), 0), F(0), 1)

Arithmetic ==
  LET first  == Grown(Scalars, Binaries(Scalars, {"add", "subtract"}, {1, 2, 3}, {1, 2, 3},
                                        {Dynamic}))
      second == UNION {Grown(g, Binaries(g, {"multiply"}, {4}, {1, 2, 3, 4}, {})
                                \cup Unaries(g, {"reshape", "negate"}, 4)
                                \cup {OpOf("get_dimension_size", <<4>>, I64), g.value[4]})
                       : g \in first}
      third  == UNION {Grown(g, Binaries(g, {"subtract"}, {1, Newest(g)} \cap Floats(g),
                                         {4, Newest(g)} \cap Floats(g), {})) : g \in second}
  IN UNION {Returning(g) : g \in third}

\* Chains of transposes and elementwise operators.
Turned == AddArg(AddArg(EmptyGraph, F(0)), F(1))

Turns ==
  LET first  == Grown(Turned, Transposes(Turned, {0, 1, 2}, {1}, {}))
      second == UNION {Grown(g, Transposes(g, {1, 2}, {2, 3}, {Dynamic})) : g \in first}
      third  == UNION {Grown(g, Binaries(g, {"subtract"}, Floats(g), Floats(g), {Dynamic})
                                \cup Transposes(g, {1, 2}, {3, 4}, {})) : g \in second}
      fourth == UNION {Grown(g, Binaries(g, {"add"}, {5}, Floats(g), {})
                                \cup Transposes(g, {1}, {5}, {})) : g \in third}
  IN UNION {Returning(g) : g \in fourth}

\* A convolution with what the folds look for on either side of it.
Conv(v, w) == OpOf("convolution", <<v, w>>, F(0))

Filtered ==
  LET g == AddConstant(AddConstant(AddArg(AddArg(EmptyGraph, F(0)), F(1)), F(0), 2), F(0), 3)
      t == AddOp(g, TransposeOf(2, 2, 0))
  IN {AddOp(g, Conv(1, 3)), AddOp(t, Conv(5, 3))}

Convolutions ==
  LET first  == UNION {Grown(g, Binaries(g, {"multiply"}, {Newest(g)}, {3, 4}, {})
                                \cup Transposes(g, {1, 2}, {Newest(g)}, {Dynamic}))
                       : g \in Filtered}
      second == UNION {Grown(g, Binaries(g, {"add"}, {4, Newest(g)}, {4, Newest(g)}, {Dynamic})
                                \cup Transposes(g, {1, 2}, {Newest(g)}, {})
                                \cup {Conv(v, 3) : v \in {v \in {1, 5} : Meaning(g)[v].dims = 0}})
                       : g \in first}
      third  == UNION {Grown(g, Binaries(g, {"multiply"}, {Newest(g)}, Floats(g), {})
                                \cup Transposes(g, {1}, {Newest(g)}, {})) : g \in second}
  IN UNION {Returning(g) : g \in third}

(***************************************************************************)
(* Graphs the program builds itself.                                       *)
(***************************************************************************)
Build(g, ops) == FoldLeft(AddOp, g, ops)

Constant(n) == Op("constant", <<>>, F(0), n, NoAttrs)

make_test_stage1 ==
  [Build(AddArg(EmptyGraph, F(0)),
     <<Constant(0), Constant(1), OpOf("add", <<1, 2>>, F(0)),
       OpOf("multiply", <<4, 3>>, F(0)), OpOf("reshape", <<5>>, F(0)),
       TransposeOf(6, 0, 0)>>) EXCEPT !.returns = <<7>>]

make_test_stage2 ==
  [Build(AddArg(AddArg(EmptyGraph, F(0)), F(0)),
     <<OpOf("add", <<1, 2>>, F(Dynamic)), OpOf("multiply", <<3, 1>>, F(Dynamic)),
       OpOf("get_dimension_size", <<1>>, I64)>>) EXCEPT !.returns = <<4>>]

make_test_stage3 ==
  [Build(AddArg(AddArg(EmptyGraph, F(0)), F(0)),
     <<Constant(2), Constant(3), OpOf("add", <<3, 4>>, F(0)),
       OpOf("add", <<1, 2>>, F(0)), OpOf("add", <<1, 2>>, F(0)),
       OpOf("subtract", <<1, 2>>, F(0)), OpOf("multiply", <<6, 7>>, F(0)),
       OpOf("add", <<9, 5>>, F(0)), OpOf("add", <<10, 1>>, F(0)),
       OpOf("multiply", <<11, 2>>, F(0))>>) EXCEPT !.returns = <<12>>]

make_test_stage4 ==
  [Build(AddArg(AddArg(EmptyGraph, F(0)), F(0)),
     <<TransposeOf(1, 1, 1), TransposeOf(3, 2, 0), TransposeOf(4, 2, 2),
       TransposeOf(2, 2, 2), OpOf("add", <<5, 6>>, F(2))>>) EXCEPT !.returns = <<7>>]

make_test_nchw_nhwc_layout ==
  [Build(AddArg(AddArg(EmptyGraph, F(0)), F(1)),
     <<Constant(2), Conv(1, 3), TransposeOf(4, 1, 1), TransposeOf(2, 2, 0),
       Conv(6, 3)>>) EXCEPT !.returns = <<5, 7>>]

BuiltIn == {make_test_stage1, make_test_stage2, make_test_stage3, make_test_stage4,
            make_test_nchw_nhwc_layout}

\* Two convolutions, then the transposes of their results.
TwoConvolutions ==
  {[Build(AddArg(AddArg(EmptyGraph, F(0)), F(0)),
      <<Constant(2), Conv(1, 3), Conv(2, 3), TransposeOf(4, 1, 1), TransposeOf(5, 1, 1)>>)
    EXCEPT !.returns = <<6, 7>>]}

MCGraphs == Arithmetic \cup Turns \cup Convolutions \cup BuiltIn \cup TwoConvolutions
=============================================================================
