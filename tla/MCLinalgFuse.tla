--------------------------- MODULE MCLinalgFuse ---------------------------
(***************************************************************************)
(* Instances of LinalgFuse: chains of four elementwise operators and graphs *)
(* of one or two matrix products with elementwise operators behind or      *)
(* between them.                                                           *)
(***************************************************************************)
EXTENDS LinalgFuse

\* The operators that may be added when values 1..n exist.
Elementwise(n) ==
  {add_unary("relu", v, n + 1) : v \in 1 .. n}
    \cup {add_elemwise("sub", v, w, n + 1) : v \in 1 .. n, w \in 1 .. n}

Extended(programs, New(_)) ==
  UNION {{Append(s, o) : o \in New(NumArgs + Len(s))} : s \in programs}

\* Elementwise operators that read the value before them.
Chained(n) == {o \in Elementwise(n) : n \in Operands(o)}

Matmuls(n) ==
  {add_matmul(a, b, i, n + 1) : a \in {1, n}, b \in {1, 2}, i \in {1, 3, n}}

Nothing == {<<>>}

\* The arguments of the first operator are interchangeable.
First(n) == {add_unary("relu", 1, n + 1), add_elemwise("sub", 1, 2, n + 1)}

Chains == Extended(Extended(Extended(Extended(Nothing, First), Elementwise),
                            Chained), Chained)

OneProduct ==
  LET fill == Extended(Nothing, LAMBDA n : {add_fill(n + 1)})
      behind == Extended(Extended(Extended(fill,
                  LAMBDA n : {add_matmul(1, 2, 3, n + 1)}), Chained), Elementwise)
      between == Extended(Extended(Extended(fill, Elementwise), Matmuls), Chained)
  IN behind \cup between

TwoProducts ==
  LET fill == Extended(Nothing, LAMBDA n : {add_fill(n + 1)})
  IN  Extended(Extended(Extended(fill, Matmuls), Matmuls), Chained)

\* Long enough for an address to be freed and used again.
LongChains ==
  LET tail(n) == {add_unary("relu", n, n + 1), add_elemwise("sub", 1, n, n + 1),
                  add_elemwise("sub", n, n - 1, n + 1)}
      product == Extended(Extended(Nothing, LAMBDA n : {add_fill(n + 1)}),
                          LAMBDA n : {add_matmul(1, 2, 3, n + 1)})
  IN  Extended(Extended(Extended(Extended(product, tail), tail), tail), tail)

\* The last value is returned, or the last value and the one before it.
Returning(programs) ==
  UNION {LET n == NumArgs + Len(s) IN
         {Built(s, <<n>>), Built(s, <<n, n - 1>>)} : s \in programs}

MCGraphs == Returning(Chains \cup OneProduct \cup TwoProducts
                           \cup LongChains)
=============================================================================
