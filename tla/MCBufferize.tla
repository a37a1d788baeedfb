---------------------------- MODULE MCBufferize ----------------------------
(***************************************************************************)
(* Small graphs for the bufferization pipeline, over the arguments the     *)
(* program has.  Results are numbered in the order the graph builder       *)
(* creates them.                                                           *)
(***************************************************************************)
EXTENDS Bufferize

CONSTANTS a, b, bias

MCArgList == <<a, b, bias>>

Fill(r)          == [res |-> r, label |-> "zero_init", ins |-> <<>>, outs |-> <<>>]
Unary(r, l, v)   == [res |-> r, label |-> l, ins |-> <<v>>, outs |-> <<>>]
Binary(r, v, w)  == [res |-> r, label |-> "add", ins |-> <<v, w>>, outs |-> <<>>]
Matmul(r, v, c)  == [res |-> r, label |-> "matmul", ins |-> <<v, a>>, outs |-> <<c>>]

\* What the builder may append as operator r of a graph.
Available(r) == {a} \cup 1 .. r - 1

Elementwise(r) ==
  {Unary(r, l, v) : l \in {"relu", "neg"}, v \in Available(r)}
    \cup {Binary(r, v, w) : v \in Available(r), w \in Available(r)}

AnyOp(r) ==
  Elementwise(r) \cup {Fill(r)}
    \cup {Matmul(r, v, c) : v \in Available(r), c \in Available(r)}

\* Three operators of any kind, any of their results returned: duplicates and
\* dead operators included.
ShortGraphs ==
  {[ops |-> <<x, y, z>>, returns |-> R] :
     x \in AnyOp(1), y \in AnyOp(2), z \in AnyOp(3), R \in {{3}, {2, 3}}}

UsedIn(v, s) == \E i \in DOMAIN s : v \in {s[i].ins[k] : k \in DOMAIN s[i].ins}

\* Five operators, the first and last ones fixed in kind, without dead code.
LongGraphs ==
  {g \in {[ops |-> <<x, y, z, u, v>>, returns |-> {5}] :
            x \in {Unary(1, "relu", a)},
            y \in {Unary(2, "relu", 1), Binary(2, 1, a), Binary(2, a, 1)},
            z \in Elementwise(3), u \in Elementwise(4),
            v \in {Binary(5, p, q) : p \in 2 .. 4, q \in 2 .. 4}} :
     \A r \in 1 .. 4 : UsedIn(r, g.ops)}

\* The graph the program builds itself.
make_test_graph ==
  [ops |-> <<Fill(1),
             [res |-> 2, label |-> "matmul", ins |-> <<a, b>>, outs |-> <<1>>],
             Binary(3, 2, bias),
             Unary(4, "relu", 3),
             Unary(5, "neg", 3),
             Binary(6, 4, bias),
             Binary(7, 6, 5),
             Binary(8, a, a)>>,
   returns |-> {7}]

\* One value with three readers: relu overwrites it, neg overwrites its copy.
ThreeReaders ==
  {[ops |-> <<Unary(1, "relu", a), Unary(2, "relu", 1), Unary(3, "neg", 1),
              Binary(4, 1, a), Binary(5, 2, 3), Binary(6, 5, 4)>>,
    returns |-> {6}]}

\* A function that returns a matrix product.
ReturnedMatmul == {[ops |-> <<Fill(1), Matmul(2, a, 1)>>, returns |-> {2}]}

MCGraphs ==
  ShortGraphs \cup LongGraphs \cup ThreeReaders \cup ReturnedMatmul \cup {make_test_graph}

MCLabels == {"relu", "neg", "add"}
=============================================================================
