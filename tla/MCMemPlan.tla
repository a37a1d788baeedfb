----------------------------- MODULE MCMemPlan -----------------------------
(***************************************************************************)
(* Every small execution graph of three activations or outputs and one     *)
(* external buffer over three operators, with two sizes, and the graph     *)
(* run_memory_planning.cpp builds itself: the residual block Conv, BN,     *)
(* ReLU, Conv, Add, ReLU.                                                  *)
(***************************************************************************)
EXTENDS MemoryPlanning

\* The life of a computed buffer: the operator that writes it and a set of
\* later ones that read it (possibly none: a dead result).
Lives == {[def |-> d, uses |-> U] : d \in 0 .. 2, U \in SUBSET (1 .. 2)}

Legal(l) == \A u \in l.uses : l.def < u

\* Buffers 1 to 3 are numbered in the order they are written, 4 is external.
Before(l, m) == l.def <= m.def

MCBuffers == 1 .. 4

MCGraph(l, external, size, outs, ew) ==
  [ins  |-> [o \in 0 .. 2 |->
               {b \in 1 .. 3 : o \in l[b].uses}
                 \cup (IF o \in external.uses THEN {4} ELSE {})],
   outs |-> [o \in 0 .. 2 |->
               LET W == {b \in 1 .. 3 : l[b].def = o}
               IN  SelectSeq(<<1, 2, 3>>, LAMBDA b : b \in W)],
   elementwise |-> [o \in 0 .. 2 |-> ew],
   size |-> [b \in 1 .. 4 |-> IF b = 4 THEN 3 ELSE size[b]],
   role |-> [b \in 1 .. 4 |-> IF b = 4 THEN external.role
                              ELSE IF b \in outs THEN {"output"} ELSE {}]]

MCGraphs ==
  {MCGraph(l, x, s, outs, ew) :
     l \in {m \in [1 .. 3 -> {n \in Lives : Legal(n)}] :
              Before(m[1], m[2]) /\ Before(m[2], m[3])},
     x \in [role : {{"input"}, {"weight"}}, uses : {{}, {0}, {0, 2}}],
     s \in [1 .. 3 -> {1, 3}],
     outs \in {{}, {2}, {3}},
     ew \in BOOLEAN}

ResNetBuffers == 0 .. 9

Feature == 64 * 56 * 56 * 4   \* bytes of every feature map

\* 0 input, 1 conv1.weight, 2 conv1_out, 3 bn1.params, 4 bn1_out,
\* 5 relu1_out, 6 conv2.weight, 7 conv2_out, 8 add_out, 9 relu2_out
stage0_setup ==
  [ins  |-> [o \in 0 .. 5 |-> CASE o = 0 -> {0, 1}
                                [] o = 1 -> {2, 3}
                                [] o = 2 -> {4}
                                [] o = 3 -> {5, 6}
                                [] o = 4 -> {7, 0}
                                [] o = 5 -> {8}],
   outs |-> [o \in 0 .. 5 |-> CASE o = 0 -> <<2>>
                                [] o = 1 -> <<4>>
                                [] o = 2 -> <<5>>
                                [] o = 3 -> <<7>>
                                [] o = 4 -> <<8>>
                                [] o = 5 -> <<9>>],
   elementwise |-> [o \in 0 .. 5 |-> o \in {1, 2, 4, 5}],
   size |-> [b \in ResNetBuffers |-> CASE b \in {1, 6} -> 64 * 64 * 3 * 3 * 4
                                       [] b = 3 -> 64 * 4 * 4
                                       [] OTHER -> Feature],
   role |-> [b \in ResNetBuffers |-> CASE b = 0 -> {"input"}
                                       [] b \in {1, 3, 6} -> {"weight"}
                                       [] b = 9 -> {"output"}
                                       [] OTHER -> {}]]

ResNetGraphs == {stage0_setup}
=============================================================================
