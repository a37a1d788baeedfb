------------------------------ MODULE LoopNest ------------------------------
(***************************************************************************)
(* Stage P8: a matrix product with bias and ReLU as loop nests over memory,*)
(* and the passes that tile, interchange, fuse, parallelize and vectorize  *)
(* them (src/src/mlir/gpu/8_scf_affine/run_scf_affine.cpp,                 *)
(* scf_affine_ir.h).  Every pass writes out the nests that it expects; no  *)
(* pass looks at dependences.  Sizes and tiles are parameters here, the    *)
(* program has 64 x 32 x 128 and 32 x 8 x 32.                              *)
(***************************************************************************)
EXTENDS Integers, SequencesExt

CONSTANTS
  M, N, K,    \* C is M x N, A is M x K
  TM, TN, TK  \* the tile sizes

ASSUME TilesFit ==
  /\ {M, N, K, TM, TN, TK} \subseteq Nat \ {0}
  /\ M % TM = 0 /\ N % TN = 0 /\ K % TK = 0

(***************************************************************************)
(* Stmt's factories.  An index is the list of variables that it adds up.   *)
(***************************************************************************)
Loop(kind, iv, ub, step, body) ==
  [kind |-> kind, iv |-> iv, lb |-> 0, ub |-> ub, step |-> step, body |-> body]

For(iv, ub, step, body) == Loop("FOR_LOOP", iv, ub, step, body)

ParFor(iv, ub, step, body) == Loop("PAR_LOOP", iv, ub, step, body)

Comment == [kind |-> "COMMENT", dead |-> FALSE]

DeadComment == [kind |-> "COMMENT", dead |-> TRUE]

VecLoad(reg, memref, indices, w) ==
  [kind |-> "LOAD", reg |-> reg, memref |-> memref, indices |-> indices, width |-> w]

VecStore(reg, memref, indices, w) ==
  [kind |-> "STORE", reg |-> reg, memref |-> memref, indices |-> indices, width |-> w]

Load(reg, memref, indices) == VecLoad(reg, memref, indices, 1)

Store(reg, memref, indices) == VecStore(reg, memref, indices, 1)

\* Also VecFMA (three operands) and broadcasts; it works lane by lane.
Arith(op, result, args, w) ==
  [kind |-> "ARITH", op |-> op, result |-> result, args |-> args, width |-> w]

Alloc(name) == [kind |-> "ALLOC", name |-> name]

Dealloc(name) == [kind |-> "DEALLOC", name |-> name]

\* A copy of the tile of B that starts at the given indices.
CopyOp(indices, dst) == [kind |-> "COPY", indices |-> indices, dst |-> dst]

is_loop(s) == s.kind \in {"FOR_LOOP", "PAR_LOOP"}

-----------------------------------------------------------------------------
(***************************************************************************)
(* The passes.                                                             *)
(***************************************************************************)
MulAdd(row, col, k) ==
  <<Load("a", "A", <<row, k>>), Load("b", "B", <<k, col>>), Load("c", "C", <<row, col>>),
    Arith("mulf", "t0", <<"a", "b">>, 1), Arith("addf", "t1", <<"c", "t0">>, 1),
    Store("t1", "C", <<row, col>>)>>

Bias(row, col) ==
  <<Load("bv", "bias", <<col>>), Load("c1", "C", <<row, col>>),
    Arith("addf", "t2", <<"c1", "bv">>, 1)>>

stage1_linalg_to_loop ==
  <<Comment,
    For("i", M, 1, <<For("j", N, 1, <<For("k", K, 1, MulAdd(<<"i">>, <<"j">>, <<"k">>))>>)>>),
    Comment,
    For("bi", M, 1, <<For("bj", N, 1, Bias(<<"bi">>, <<"bj">>)
                                        \o <<Store("t2", "C", <<<<"bi">>, <<"bj">>>>)>>)>>),
    Comment,
    For("ri", M, 1, <<For("rj", N, 1, <<Load("c2", "C", <<<<"ri">>, <<"rj">>>>),
                                        Arith("maxf", "t3", <<"c2">>, 1),
                                        Store("t3", "C", <<<<"ri">>, <<"rj">>>>)>>)>>),
    DeadComment,
    For("d", 1, 1, <<>>)>>

RECURSIVE remove_empty_loops(_)
remove_empty_loops(stmts) ==
  LET inner == [i \in DOMAIN stmts |->
                  IF is_loop(stmts[i])
                  THEN [stmts[i] EXCEPT !.body = remove_empty_loops(@)] ELSE stmts[i]]
  IN SelectSeq(inner, LAMBDA s : ~(is_loop(s) /\ s.body = <<>>))

stage2_loop_canon(f) ==
  SelectSeq(remove_empty_loops(f), LAMBDA s : ~(s.kind = "COMMENT" /\ s.dead))

Row == <<"io", "ii">>

Col == <<"jo", "ji">>

Depth == <<"ko", "ki">>

\* faulty: the outer loop advances by one row instead of a tile.
OuterNest_Overlapping(kind, inner) ==
  Loop(kind, "io", M - TM + 1, 1, <<For("jo", N, TN, <<For("ko", K, TK, inner)>>)>>)

\* The loops over tiles.
OuterNest(kind, inner) ==
  Loop(kind, "io", M, TM, <<For("jo", N, TN, <<For("ko", K, TK, inner)>>)>>)

stage3_tiling(f) ==
  [f EXCEPT ![1] = Comment,
            ![2] = OuterNest("FOR_LOOP",
                     <<For("ii", TM, 1, <<For("ji", TN, 1, <<For("ki", TK, 1,
                         MulAdd(Row, Col, Depth))>>)>>)>>)]

\* The headers of two nested loops change places.
Interchanged(a) ==
  LET b == a.body[1]
  IN [a EXCEPT !.iv = b.iv, !.lb = b.lb, !.ub = b.ub, !.step = b.step,
               !.body = <<[b EXCEPT !.iv = a.iv, !.lb = a.lb, !.ub = a.ub, !.step = a.step]>>]

\* faulty: the fused ReLU reads the value from before the bias.
FusedBody_Unchained ==
  Bias(<<"fi">>, <<"fj">>)
    \o <<Arith("maxf", "t3", <<"c1">>, 1), Store("t3", "C", <<<<"fi">>, <<"fj">>>>)>>

FusedBody ==
  Bias(<<"fi">>, <<"fj">>)
    \o <<Arith("maxf", "t3", <<"t2">>, 1), Store("t3", "C", <<<<"fi">>, <<"fj">>>>)>>

stage4_loop_transform(f) ==
  <<Comment, [f[2] EXCEPT !.body[1].body[1].body[1].body[1] = Interchanged(@)],
    Comment, For("fi", M, 1, <<For("fj", N, 1, FusedBody)>>)>>

stage5_parallelize(f) == [f EXCEPT ![2].kind = "PAR_LOOP", ![4].kind = "PAR_LOOP"]

\* faulty: the tile is released before the products are formed.
Tiled_EarlyRelease(body) ==
  <<Alloc("B_tile"), CopyOp(<<<<"ko">>, <<"jo">>>>, "B_tile"), Dealloc("B_tile"), body>>

\* The tile of B is allocated by each iteration over k for itself.
Tiled(body) ==
  <<Alloc("B_tile"), CopyOp(<<<<"ko">>, <<"jo">>>>, "B_tile"), body, Dealloc("B_tile")>>

stage6_mem_opt(f) ==
  [f EXCEPT ![1] = Comment,
            ![2] = OuterNest("PAR_LOOP", Tiled(
              For("ii", TM, 1, <<For("ji", TN, 1,
                <<Load("acc", "C", <<Row, Col>>),
                  For("ki", TK, 1,
                    <<Load("a", "A", <<Row, Depth>>),
                      Load("b", "B_tile", <<<<"ki">>, <<"ji">>>>),
                      Arith("mulf", "t0", <<"a", "b">>, 1),
                      Arith("addf", "acc", <<"acc", "t0">>, 1)>>),
                  Store("acc", "C", <<Row, Col>>)>>)>>)))]

\* Vectors of a tile's width.
stage7_vec_prep(f) ==
  [f EXCEPT ![1] = Comment,
            ![2] = OuterNest("PAR_LOOP", Tiled(
              For("ii", TM, 1,
                <<VecLoad("vacc", "C", <<Row, <<"jo">>>>, TN),
                  For("ki", TK, 1,
                    <<Load("a", "A", <<Row, Depth>>),
                      Arith("broadcast", "va", <<"a">>, TN),
                      VecLoad("vb", "B_tile", <<<<"ki">>, <<>>>>, TN),
                      Arith("fma", "vacc", <<"va", "vb", "vacc">>, TN)>>),
                  VecStore("vacc", "C", <<Row, <<"jo">>>>, TN)>>))),
            ![3] = Comment,
            ![4] = ParFor("fi", M, 1, <<For("fj", N, TN,
              <<VecLoad("vbias", "bias", <<<<"fj">>>>, TN),
                VecLoad("vc", "C", <<<<"fi">>, <<"fj">>>>, TN),
                Arith("fma", "vc", <<"vbias", "v_one", "vc">>, TN),
                Arith("maxf", "vc", <<"vc">>, TN),
                VecStore("vc", "C", <<<<"fi">>, <<"fj">>>>, TN)>>)>>)]
=============================================================================
