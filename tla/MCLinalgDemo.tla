--------------------------- MODULE MCLinalgDemo ---------------------------
(***************************************************************************)
(* The instance of LinalgFuse that run_linalg_opt builds for itself.       *)
(***************************************************************************)
EXTENDS LinalgFuse

\* make_test_graph: arguments %A, %B, %bias, %scale are the values 1 to 4.
make_test_graph ==
  Built(<<add_fill(5), add_matmul(1, 2, 5, 6),
          add_elemwise("arith.addf", 6, 3, 7), add_unary("arith.maximumf", 7, 8),
          add_elemwise("arith.mulf", 8, 8, 9), add_elemwise("arith.addf", 9, 8, 10),
          add_elemwise("arith.mulf", 10, 4, 11), add_elemwise("arith.addf", 1, 1, 12),
          add_elemwise("arith.mulf", 8, 4, 13), add_elemwise("arith.mulf", 8, 4, 14),
          add_elemwise("arith.addf", 11, 13, 15)>>, <<15>>)

DemoGraphs == {make_test_graph}
=============================================================================
