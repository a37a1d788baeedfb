---------------------------- MODULE LinalgFuse ----------------------------
(***************************************************************************)
(* The fusion pipeline of stage P6 (src/src/mlir/gpu/6_linalg_opt/         *)
(* run_linalg_opt.cpp): cleaning, dependence edges, candidates and their   *)
(* filters, merging of elementwise operators, fusion of consumers into     *)
(* tiled reductions, cleaning.                                             *)
(*                                                                         *)
(* One step is one rewrite or the end of a pass that finds none.  The      *)
(* candidates are built once, before the rewrites, and hold addresses of   *)
(* operators; an operator created by a fusion may be allocated where an    *)
(* earlier fusion freed one.                                               *)
(***************************************************************************)
EXTENDS LinalgGraph

CONSTANT Graphs  \* the graphs the pipeline may be given

\* They are built with the add_ methods, operands before the operators.
ASSUME GraphsAssumption ==
  \A g \in Graphs :
    /\ g.freed = {}
    /\ \A v \in DOMAIN g.users : g.users[v] = Readers(g, v)
    /\ \A i \in DOMAIN g.ops : \A v \in Reads(g.op[g.ops[i]]) :
         v \in Args \/ \E j \in 1 .. i - 1 : g.op[g.ops[j]].result = v

VARIABLES
  graph,   \* the Graph that run_pipeline rewrites
  stage,   \* the pass that runs
  cands,   \* the fusion candidates
  results, \* history: the tensors the given graph returns
  lapses   \* history: what a rewrite so far has overlooked

vars == <<graph, stage, cands, results, lapses>>

Stages == {"pre-cse", "pre-dce", "candidates", "merge", "tile-and-fuse",
           "post-cse", "post-dce", "done"}

(***************************************************************************)
(* What rewrites overlook.  Each is a property of the rewrite that does    *)
(* it; the properties below say what holds as long as none has happened.   *)
(***************************************************************************)
Lapses ==
  {"accumulator",  \* CSE merged reductions with different accumulators
   "recycled",     \* a candidate named another operator than it was built for
   "returned",     \* the producer's result was returned, too
   "hoisted",      \* the fused operator precedes the definition of an operand
   "extra",        \* an extra input of a fused consumer lost its user
   "misplaced"}    \* a fused consumer had the producer's result behind another input

\* The set with the lapse in it that P describes, if P holds.
LapseIf(P, lapse) == IF P THEN {lapse} ELSE {}

(***************************************************************************)
(* Stages 0 and 6: canonicalize, which changes nothing, CSE and DCE.       *)
(***************************************************************************)
SameOp(a, b) ==
  /\ IsGeneric(a) /\ a.mnemonic = b.mnemonic
  /\ a.ins = b.ins
  /\ a.body = b.body

\* The positions of the first operator with a duplicate and of its first
\* duplicate, in a set that is empty if there is none.
Duplicates(g) ==
  LET same == {p \in (DOMAIN g.ops) \X (DOMAIN g.ops) :
                p[1] < p[2] /\ SameOp(g.op[g.ops[p[1]]], g.op[g.ops[p[2]]])}
  IN  {p \in same : \A q \in same : p[1] < q[1] \/ (p[1] = q[1] /\ p[2] <= q[2])}

Cse ==
  /\ stage \in {"pre-cse", "post-cse"}
  /\ \E p \in Duplicates(graph) :
       LET a == graph.ops[p[1]]
           b == graph.ops[p[2]]
       IN /\ graph' = erase_op(replace_all_uses(graph, graph.op[b].result,
                                                graph.op[a].result), b)
          /\ lapses' = lapses \cup
               LapseIf(graph.op[a].outs # graph.op[b].outs, "accumulator")
  /\ UNCHANGED <<stage, cands, results>>

EndCse ==
  /\ stage \in {"pre-cse", "post-cse"}
  /\ Duplicates(graph) = {}
  /\ stage' = IF stage = "pre-cse" THEN "pre-dce" ELSE "post-dce"
  /\ UNCHANGED <<graph, cands, results, lapses>>

IsDead(g, a) ==
  /\ ~IsReturned(g, g.op[a].result)
  /\ g.users[g.op[a].result] = {}

\* pass_dce scans from the end.
Dce ==
  /\ stage \in {"pre-dce", "post-dce"}
  /\ LET i == SelectLastInSeq(graph.ops, LAMBDA a : IsDead(graph, a)) IN
       /\ i # 0
       /\ graph' = erase_op(graph, graph.ops[i])
  /\ UNCHANGED <<stage, cands, results, lapses>>

EndDce ==
  /\ stage \in {"pre-dce", "post-dce"}
  /\ \A a \in ToSet(graph.ops) : ~IsDead(graph, a)
  /\ stage' = IF stage = "pre-dce" THEN "candidates" ELSE "done"
  /\ UNCHANGED <<graph, cands, results, lapses>>

(***************************************************************************)
(* Stages 1 to 4.  Only the use-def edges make candidates; alias edges are *)
(* printed.  edge names the results of the operators the candidate is      *)
(* built for: values are not freed, so it tells them from their successors.*)
(***************************************************************************)
Candidate(g, p, c) ==
  LET P == g.op[p]
      C == g.op[c]
  IN [producer |-> p, consumer |-> c, edge |-> <<P.result, C.result>>,
      accepted |-> /\ HasOneUser(g, P.result)
                   /\ ~(HasReduction(P) /\ HasReduction(C))]

\* The use-def edges into one operator, inputs before accumulators.
EdgesInto(g, c) ==
  LET defined == SelectSeq(g.op[c].ins \o g.op[c].outs,
                           LAMBDA v : Definers(g, v) # {})
  IN  [k \in DOMAIN defined |-> <<CHOOSE p \in Definers(g, defined[k]) : TRUE, c>>]

\* build_dep_graph and build_fusion_candidates
CandidatesOf(g) ==
  LET edges == FlattenSeq([i \in DOMAIN g.ops |-> EdgesInto(g, g.ops[i])])
      fusable == SelectSeq(edges, LAMBDA e : IsGeneric(g.op[e[1]])
                                             /\ IsGeneric(g.op[e[2]]))
      once == FoldLeft(LAMBDA s, e : IF Contains(s, e) THEN s ELSE Append(s, e),
                       <<>>, fusable)
  IN  [k \in DOMAIN once |-> Candidate(g, once[k][1], once[k][2])]

BuildCandidates ==
  /\ stage = "candidates"
  /\ cands' = CandidatesOf(graph)
  /\ stage' = "merge"
  /\ UNCHANGED <<graph, results, lapses>>

(***************************************************************************)
(* Stage 5: the rewrites.                                                  *)
(***************************************************************************)
\* The tests both rewrites begin with.  (is_elementwise is asked of freed
\* operators, too; whatever it answers, op_pos leaves the candidate out.)
IsReady(c) ==
  /\ c.accepted
  /\ IsLive(graph, c.producer) /\ IsLive(graph, c.consumer)
  /\ HasOneUser(graph, graph.op[c.producer].result)

IsMergeable(c) ==
  /\ IsReady(c)
  /\ IsElementwise(graph.op[c.producer]) /\ IsElementwise(graph.op[c.consumer])

IsTileFusable(c) == IsReady(c) /\ HasReduction(graph.op[c.producer])

\* A rewrite of candidate k took it for the operators that live there now.
Consumed(k) == cands' = [cands EXCEPT ![k].accepted = FALSE]

IsRecycled(c) ==
  c.edge # <<graph.op[c.producer].result, graph.op[c.consumer].result>>

\* Operands of C other than P's result that P does not precede.
HoistedAbove(g, p, v) ==
  \E a \in Definers(g, v) : Position(g, p) <= Position(g, a)

\* The inputs of P, and those of C that P lacks.
MergedInputs(P, C) ==
  FoldLeft(LAMBDA s, v : IF Contains(s, v) THEN s ELSE Append(s, v),
           P.ins, SelectSeq(C.ins, LAMBDA v : v # P.result))

InputArg(ins, v) == SelectLastInSeq(ins, LAMBDA w : w = v)

\* Where position i of P's body is in the merged one, whose inputs are ins.
ProducerArg(P, ins, i) ==
  IF i <= Len(P.ins) THEN InputArg(ins, P.ins[i]) ELSE Len(ins) + (i - Len(P.ins))

\* faulty: the consumer's steps are numbered as if the producer had none.
ConsumerArg_SameTemps(P, C, ins, i) ==
  IF i > Len(C.ins) THEN Len(ins) + (i - Len(C.ins))
  ELSE IF C.ins[i] = P.result THEN ProducerArg(P, ins, P.yield)
  ELSE InputArg(ins, C.ins[i])

\* faulty: the consumer's steps are numbered from the accumulator on.
ConsumerArg_Late(P, C, ins, i) ==
  IF i > Len(C.ins) THEN Len(ins) + Len(P.body) + (i - Len(C.ins)) + 1
  ELSE IF C.ins[i] = P.result THEN ProducerArg(P, ins, P.yield)
  ELSE InputArg(ins, C.ins[i])

\* Where position i of C's body is: P's yield stands for P's result.
ConsumerArg(P, C, ins, i) ==
  IF i > Len(C.ins) THEN Len(ins) + Len(P.body) + (i - Len(C.ins))
  ELSE IF C.ins[i] = P.result THEN ProducerArg(P, ins, P.yield)
  ELSE InputArg(ins, C.ins[i])

\* The operator that runs the body of P and then that of C.
MergedGeneric(P, C, result) ==
  LET ins == MergedInputs(P, C)
      Moved(s, Arg(_)) == BodyStep(s.op, Arg(s.arg0), Arg(s.arg1))
      first  == [k \in DOMAIN P.body |->
                  Moved(P.body[k], LAMBDA i : ProducerArg(P, ins, i))]
      second == [k \in DOMAIN C.body |->
                  Moved(C.body[k], LAMBDA i : ConsumerArg(P, C, ins, i))]
  IN  Generic(ins, first \o second, ConsumerArg(P, C, ins, C.yield), result)

\* The merged operator is allocated at a while p and c are still there, takes
\* over the uses of c, and is inserted where p stands.
Merged(g, p, c, a) ==
  LET new == NewValue(g)
      fr  == Newest(new)
      fop == MergedGeneric(g.op[p], g.op[c], fr)
      all == replace_all_uses(new, g.op[c].result, fr)
  IN  erase_op(erase_op(InsertOp(all, a, Position(g, p), fop), c), p)

\* Pass 5a: the first candidate that can be merged, then from the start again.
MergeElementwise ==
  /\ stage = "merge"
  /\ LET k == SelectInSeq(cands, IsMergeable)
         p == cands[k].producer
         c == cands[k].consumer
     IN /\ k # 0
        /\ \E a \in Allocatable(graph) : graph' = Merged(graph, p, c, a)
        /\ Consumed(k)
        /\ lapses' = lapses
             \cup LapseIf(IsRecycled(cands[k]), "recycled")
             \cup LapseIf(IsReturned(graph, graph.op[p].result), "returned")
             \cup LapseIf(\E v \in Operands(graph.op[c]) \ {graph.op[p].result} :
                            HoistedAbove(graph, p, v), "hoisted")
  /\ UNCHANGED <<stage, results>>

EndMerge ==
  /\ stage = "merge"
  /\ SelectInSeq(cands, IsMergeable) = 0
  /\ stage' = "tile-and-fuse"
  /\ UNCHANGED <<graph, cands, results, lapses>>

\* The consumer becomes a FusedOp of the producer, which takes over its uses.
TileFused(g, p, c) ==
  LET with == [g EXCEPT !.op[p].fused = Append(@, FusedOp(g.op[c], g.op[p]))]
  IN  erase_op(replace_all_uses(with, g.op[c].result, g.op[p].result), c)

\* The body of C goes on reading the block arguments that it read before.
IsMisplaced(P, C) ==
  \E i, j \in DOMAIN C.ins : i < j /\ C.ins[i] # P.result /\ C.ins[j] = P.result

\* Pass 5c.
TileAndFuse ==
  /\ stage = "tile-and-fuse"
  /\ LET k == SelectInSeq(cands, IsTileFusable)
         p == cands[k].producer
         c == cands[k].consumer
     IN /\ k # 0
        /\ graph' = TileFused(graph, p, c)
        /\ Consumed(k)
        /\ lapses' = lapses
             \cup LapseIf(IsRecycled(cands[k]), "recycled")
             \cup LapseIf(IsReturned(graph, graph.op[p].result), "returned")
             \cup LapseIf(Operands(graph.op[c])
                            \ (Args \cup {graph.op[p].result}) # {}, "extra")
             \cup LapseIf(IsMisplaced(graph.op[p], graph.op[c]), "misplaced")
  /\ UNCHANGED <<stage, results>>

EndTileAndFuse ==
  /\ stage = "tile-and-fuse"
  /\ SelectInSeq(cands, IsTileFusable) = 0
  /\ stage' = "post-cse"
  /\ UNCHANGED <<graph, cands, results, lapses>>

(***************************************************************************)
(* run_pipeline                                                            *)
(***************************************************************************)
Init ==
  /\ graph \in Graphs
  /\ stage = "pre-cse"
  /\ cands = <<>>
  /\ results = Results(graph)
  /\ lapses = {}

Terminating == stage = "done" /\ UNCHANGED vars

Next ==
  \/ Cse \/ EndCse \/ Dce \/ EndDce
  \/ BuildCandidates
  \/ MergeElementwise \/ EndMerge
  \/ TileAndFuse \/ EndTileAndFuse
  \/ Terminating

Spec == Init /\ [][Next]_vars

(***************************************************************************)
(* Properties.                                                             *)
(***************************************************************************)
\* The positions in a body of n block arguments refer to block arguments and
\* to earlier steps.
IsBody(body, yield, n) ==
  /\ \A k \in DOMAIN body : {body[k].arg0, body[k].arg1} \subseteq 1 .. n + k - 1
  /\ yield \in 1 .. n + Len(body)

\* The list holds every live operator once, no freed address is live, values
\* have one definition, and the block arguments of every body, merged or
\* fused, exist.
TypeOK ==
  /\ stage \in Stages /\ lapses \subseteq Lapses
  /\ DOMAIN graph.op = ToSet(graph.ops)
  /\ Len(graph.ops) = Cardinality(DOMAIN graph.op)
  /\ graph.freed \cap (DOMAIN graph.op) = {}
  /\ \A v \in DOMAIN graph.users : Cardinality(Definers(graph, v)) <= 1
  /\ \A a \in DOMAIN graph.op :
       LET o == graph.op[a] IN
       /\ IsGeneric(o) => IsBody(o.body, o.yield, Len(o.ins) + Len(o.outs))
       /\ \A f \in ToSet(o.fused) : IsBody(f.body, f.yield, f.args)

\* Every use list holds exactly the operators that have the value among their
\* operands, whatever the rewrites overlook: dead-code elimination and both
\* fusions decide by these lists alone.
UsersMirrorOperands ==
  \A v \in DOMAIN graph.users : graph.users[v] = Readers(graph, v)

\* Every value that the printed function reads or returns is an argument or
\* the result of an operator before, as long as no rewrite has erased a
\* returned producer, dropped an extra input, hoisted a consumer or worked on a
\* recycled address.
DefinedBeforeUse ==
  lapses \cap {"recycled", "returned", "hoisted", "extra"} = {} =>
    /\ \A i \in DOMAIN graph.ops : \A v \in Reads(graph.op[graph.ops[i]]) :
         v \in Args \/ \E j \in 1 .. i - 1 : graph.op[graph.ops[j]].result = v
    /\ \A v \in ToSet(graph.returns) : v \in Args \/ Definers(graph, v) # {}

\* The graph is one that can be printed and rewritten on: the use lists are
\* right at all times, and values are defined before they are used.
GraphConsistent == UsersMirrorOperands /\ DefinedBeforeUse

\* The function returns the tensors it was given to return, after every
\* rewrite, as long as the rewrites have overlooked at most an order: merged
\* bodies, renumbered operands and consumers fused behind the result that they
\* read first compute what they stand for.
ResultsKept == lapses \subseteq {"hoisted"} => Results(graph) = results

\* Fusion creates no cycle: among any operators there is one that reads none
\* of the others' results.  (Stated by the guide to these compilers,
\* src/src/mlir/gpu/docs/AI_COMPILER_INTERVIEW.md:388.)
NoCycle ==
  \A S \in SUBSET (DOMAIN graph.op) \ {{}} :
    \E a \in S : \A b \in S : graph.op[b].result \notin Reads(graph.op[a])
=============================================================================
