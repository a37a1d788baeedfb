---------------------------- MODULE MCConversion ----------------------------
(***************************************************************************)
(* Instances of Lowering: every pattern and converter on tensors of up to  *)
(* four axes, with and without declared result types, followed by a node   *)
(* that reads the result.                                                  *)
(***************************************************************************)
EXTENDS Lowering

F(dims) == Type(dims, "f32")

Typed(name, type) == [name |-> name, type |-> type]

\* A case: one node, the types of its operands, the numbers of those that are
\* initializers (<<>> for inputs of the graph), stored as bytes or not.
Case(op, types, numbers, attributes) ==
  [op |-> op, types |-> types, numbers |-> numbers, at |-> attributes, raw |-> TRUE]

\* What numbers of a type read as, where the 32-bit ones at even places are 0.
\* (2^30 has the bits of the float 2; other whole numbers read as tiny ones.)
Data(type, numbers, raw) ==
  LET Bytes(size) == [k \in 1 .. (size * Len(numbers)) \div 4 |->
                       IF numbers = <<1073741824>> THEN 2 ELSE 0]
  IN [numbers |-> numbers,
      int64s |-> CASE type.elem = "i64" -> numbers
                   [] raw /\ type.elem \in {"i32", "f32"} ->
                        [k \in 1 .. Len(numbers) \div 2 |-> numbers[2 * k - 1]]
                   [] OTHER -> <<>>,
      floats |-> CASE type.elem = "f32" -> numbers
                   [] raw /\ type.elem = "i64" -> Bytes(8)
                   [] raw /\ type.elem = "i32" -> Bytes(4)
                   [] OTHER -> <<>>,
      bytes |-> IF type.elem = "i8" THEN numbers ELSE <<>>]

NoNumbers(types) == [i \in DOMAIN types |-> <<>>]

Plain(op, dims, attributes) ==
  Case(op, [i \in DOMAIN dims |-> F(dims[i])], NoNumbers(dims), attributes)

Ints(numbers) == Type(<<Len(numbers)>>, "i64")

Shapes == {<<>>, <<1>>, <<3>>, <<2, 3>>, <<2, 1>>, <<4, 1, 3>>, <<-1, 3>>}

BinaryCases == {Plain(op, <<a, b>>, <<>>) : op \in {"Add", "Div"}, a \in Shapes, b \in Shapes}
                 \cup {Plain(op, <<<<2, 3>>, b>>, <<>>) : op \in {"Mul", "Sub"}, b \in {<<3>>, <<2, 3>>}}

PowCases ==
  {Case("Pow", <<F(<<3>>), F(dims)>>, <<<<>>, numbers>>, <<>>) :
     dims \in {<<>>, <<1, 1>>}, numbers \in {<<>>, <<2>>, <<3>>}}

UnaryCases == {Plain(op, <<<<2, 3>>>>, <<>>) :
                 op \in {"Sqrt", "Exp", "Sin", "Cos", "Neg", "Erf", "Relu", "stablehlo.add"}}

SliceCases ==
  {Case("Slice", <<F(<<4, 3>>), Ints(s), Ints(e), Ints(axes), Ints(steps)>>,
        <<<<>>, s, e, axes, steps>>, <<>>) :
     s \in {<<0>>, <<1>>}, e \in {<<3>>, <<-1>>, <<9>>}, axes \in {<<>>, <<1>>, <<-2>>, <<2>>},
     steps \in {<<>>, <<2>>}}
    \cup {Case("Slice", <<F(<<4, 3>>), Ints(<<1, 1>>), Ints(e)>>, <<<<>>, <<1, 1>>, e>>, <<>>) :
            e \in {<<3>>, <<3, 2>>}}
    \cup {Case("Slice", <<F(<<4, 3>>), Ints(<<1>>), Ints(<<2>>), Ints(<<1>>), Ints(<<1>>)>>,
               <<<<>>, <<1>>, <<2>>, axes, steps>>, <<>>) :
            axes \in {<<>>, <<1>>}, steps \in {<<1>>, <<-1>>}}
    \cup {Case("Slice", <<F(<<4, 3>>), Ints(<<1>>), Ints(<<1>>)>>, <<<<>>, <<1>>, <<>>>>, <<>>)}

ConcatCases == {Plain("Concat", <<<<2, 3>>, <<2, 3>>, <<2, 3>>>>, at) :
                  at \in {<<>>, [axis |-> <<1>>], [axis |-> <<-1>>]}}

ReduceCases ==
  {Plain("ReduceMean", <<<<2, 3, 4>>>>, [axes |-> axes, keepdims |-> keep]) :
     axes \in {<<>>, <<1>>, <<-1>>, <<0, 2>>, <<3>>}, keep \in {<<>>, <<0>>, <<1>>}}
    \cup {Case("ReduceMean", <<F(<<2, 3>>), Ints(<<1>>)>>, <<<<>>, <<1>>>>, <<>>),
          Plain("ReduceMean", <<<<2, -1>>>>, [axes |-> <<1>>]),
          Case("ReduceMean", <<Type(<<2, 3>>, "i8")>>, <<<<>>>>, <<>>)}

MatMulCases ==
  {Plain("MatMul", dims, <<>>) :
     dims \in {<<<<3>>, <<3>>>>, <<<<2, 3>>, <<3, 4>>>>, <<<<2, 3>>, <<3>>>>, <<<<3>>, <<3, 4>>>>,
               <<<<5, 2, 3>>, <<3, 4>>>>, <<<<5, 2, 3>>, <<5, 3, 4>>>>,
               <<<<5, 2, 3>>, <<1, 3, 4>>>>, <<<<2, 3>>, <<5, 3, 4>>>>, <<<<5, 2, 3>>, <<3>>>>,
               <<<<6, 5, 2, 3>>, <<6, 5, 3, 4>>>>, <<<<6, 5, 2, 3>>, <<5, 3, 4>>>>}}

ConvCases ==
  {Plain("Conv", dims, [auto_pad |-> pad, strides |-> strides, dilations |-> dilations]) :
     dims \in {<<<<1, 2, 7, 6>>, <<4, 2, 2, 3>>>>, <<<<1, 2, 7, 6>>, <<4, 2, 2, 3>>, <<4>>>>},
     pad \in {"", "VALID", "SAME_UPPER", "SAME_LOWER"}, strides \in {<<>>, <<2, 3>>},
     dilations \in {<<>>, <<2, 1>>}}
    \cup {Plain("Conv", <<<<1, 2, 5>>, <<4, 2, 3>>>>, [pads |-> <<1, 2>>, kernel_shape |-> <<3>>]),
          Plain("Conv", <<<<1, 2, 5>>, <<4, 1, 3>>>>, [group |-> <<2>>]),
          Plain("Conv", <<<<1, 2>>, <<4, 2>>>>, <<>>)}

SoftmaxCases == {Plain("Softmax", <<<<2, 3>>>>, [axis |-> axis]) : axis \in {<<>>, <<0>>, <<2>>}}

ReshapeCases ==
  {Case("Reshape", <<F(<<2, 6>>), Ints(asked)>>, <<<<>>, asked>>, <<>>) :
     asked \in {<<3, 4>>, <<-1>>, <<0, -1, 2>>, <<4, -1>>}}
    \cup {Case("Reshape", <<F(<<2, 6>>), Ints(<<3, 4>>)>>, <<<<>>, <<>>>>, <<>>)}

TransposeCases == {Plain("Transpose", <<<<2, 3, 4>>>>, [perm |-> perm]) :
                     perm \in {<<>>, <<1, 2, 0>>, <<0, 2, 1>>, <<1, 0>>, <<0, 1, 3>>,
                              <<0, 0, 1>>}}

QuantCases ==
  {Case(op, <<q, F(scale), zp>>, <<<<>>, <<1>>, <<0>>>>, <<>>) :
     op \in {"QuantizeLinear", "DequantizeLinear"},
     q \in {F(<<2, 3>>), Type(<<2, 3>>, "i8"), Type(<<>>, "i8")},
     scale \in {<<>>, <<1>>}, zp \in {Type(<<>>, "i8"), Unknown}}
    \cup {Plain("DequantizeLinear", <<<<2, 3>>, <<>>>>, <<>>)}

\* Bounds, axes and exponents of types that the patterns do not look at.
Int32s(numbers) == Type(<<Len(numbers)>>, "i32")

EncodedCases ==
  LET pair == <<1, 0>>
      ends == <<3, 0>>
  IN {[c EXCEPT !.raw = raw] : raw \in BOOLEAN, c \in
       {Case("Slice", <<F(<<4, 3>>), Int32s(pair), Int32s(ends)>>, <<<<>>, pair, ends>>, <<>>),
        Case("Slice", <<F(<<4, 3>>), Int32s(pair), Int32s(ends), Ints(<<0, 1>>)>>,
             <<<<>>, pair, ends, <<0, 1>>>>, <<>>),
        Case("Slice", <<F(<<4, 3>>), Ints(<<1>>), Ints(<<3>>), Int32s(<<1>>)>>,
             <<<<>>, <<1>>, <<3>>, <<1>>>>, <<>>),
        Case("Slice", <<F(<<4, 3>>), Int32s(pair), Ints(ends)>>, <<<<>>, pair, ends>>, <<>>)}
         \cup {Case("Pow", <<F(<<3>>), Type(<<>>, elem)>>, <<<<>>, <<2>>>>, <<>>) :
                 elem \in {"i32", "i64"}}
         \cup {Case("Pow", <<F(<<3>>), Type(<<>>, "i32")>>, <<<<>>, <<1073741824>>>>, <<>>),
               Case("Reshape", <<F(<<2, 6>>), Int32s(<<2, 0>>)>>, <<<<>>, <<2, 0>>>>, <<>>),
               Case("Add", <<F(<<2>>), F(<<2>>)>>, <<<<>>, <<5, 6>>>>, <<>>)}}

Cases == EncodedCases \cup BinaryCases \cup PowCases \cup UnaryCases \cup SliceCases \cup ConcatCases
           \cup ReduceCases \cup MatMulCases \cup ConvCases \cup SoftmaxCases
           \cup ReshapeCases \cup TransposeCases \cup QuantCases

\* An optional input that is not there has no name.
Names(c) == [i \in DOMAIN c.types |->
               IF c.types[i] = Ints(<<>>) THEN "" ELSE <<"x1", "x2", "x3", "x4", "x5">>[i]]

First(c) == Node(c.op, Names(c), "m", c.at)

Operands(c) == SelectSeq([i \in DOMAIN c.types |-> Typed(Names(c)[i], c.types[i])],
                         LAMBDA x : x.name # "")

Constants(c) == {Names(c)[i] : i \in {k \in DOMAIN c.types : c.numbers[k] # <<>>}}

\* Can the result's shape be told, so that the model may declare it?
Declarable(c) ==
  /\ \A i \in DOMAIN c.types : ~Dynamic(c.types[i])
  /\ c.op \notin {"Div", "Slice", "Softmax"}
  /\ c.op = "Add" => -2 \notin ToSet([i \in 1 .. 3 |->
       BroadcastDim(AlignedDim(c.types[1], i, 3), AlignedDim(c.types[2], i, 3))])
  /\ c.op = "Reshape" => c.numbers[2] # <<>>
  /\ c.at # [axes |-> <<3>>] @@ c.at
  /\ c.op = "Transpose" => c.at.perm \in {<<>>, <<1, 2, 0>>, <<0, 2, 1>>}

ValueInfo(c) ==
  {<<>>} \cup
    (IF Declarable(c)
     THEN {<<Typed("m", F(OnnxDims(First(c), [i \in DOMAIN c.types |-> c.types[i].dims],
                                   c.numbers)))>>}
     ELSE IF c.op = "Reshape" THEN {<<Typed("m", F(<<-1, 4>>))>>}
     ELSE {})

\* A node of another kind that reads the result, where that is a matrix.
Matrix(c) == c.types[1] = F(<<2, 3>>) /\ Len(c.types) = 1

Seconds(c) ==
  {<<>>, <<Node("Softmax", <<"m">>, "out", <<>>)>>, <<Node("Relu", <<"m">>, "out", <<>>)>>,
   <<Node("Add", <<"m", IF c.types[1] = F(<<2, 3>>) THEN "x1" ELSE "m">>, "out", <<>>)>>}
    \cup (IF Matrix(c)
          THEN {<<Node("Transpose", <<"m">>, "out", [perm |-> <<1, 0>>])>>}
          ELSE {})

\* The output is declared without a shape.
Graph(c, info, second) ==
  LET constants == Constants(c)
  IN [inputs |-> SelectSeq(Operands(c), LAMBDA x : x.name \notin constants),
      initializers |-> SelectSeq(Operands(c), LAMBDA x : x.name \in constants),
      data |-> [name \in constants |->
                  LET i == CHOOSE k \in DOMAIN c.types : Names(c)[k] = name
                  IN Data(c.types[i], c.numbers[i], c.raw)],
      value_info |-> info,
      nodes |-> <<First(c)>> \o second,
      outputs |-> <<Typed(IF second = <<>> THEN "m" ELSE "out", F(<<>>))>>]

\* Operands and a bias that are computed by a node that some tiers do not know.
Produced(op, dims, reader) ==
  LET types == [i \in DOMAIN dims |-> F(dims[i])]
  IN [Graph(Case(op, types, NoNumbers(types), <<>>), <<>>, <<reader>>)
        EXCEPT !.nodes[1].inputs = <<"x1">>]

ProducedGraphs ==
  UNION {{Produced(op, <<<<4>>, <<1, 2, 5>>, <<4, 2, 3>>>>, Node("Conv", <<"x2", "x3", "m">>, "out", <<>>)),
          Produced(op, <<<<1, 2, 5>>, <<4, 2, 3>>>>, Node("Conv", <<"m", "x2">>, "out", <<>>)),
          Produced(op, <<<<2, 3>>, <<3, 4>>>>, Node("MatMul", <<"m", "x2">>, "out", <<>>)),
          Produced(op, <<<<2, 3>>, <<3>>>>, Node("Mul", <<"x2", "m">>, "out", <<>>))} :
         op \in {"Neg", "Relu"}}

MCStray == {7}

MCGraphs == ProducedGraphs \cup UNION {{Graph(c, info, second) : info \in ValueInfo(c), second \in Seconds(c)} :
                   c \in Cases}
=============================================================================
