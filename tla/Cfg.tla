-------------------------------- MODULE Cfg --------------------------------
(***************************************************************************)
(* Control-flow graphs as the LLVM passes of src/src/pass see them: the    *)
(* queries of the LLVM library they call, as they use them.  A graph is a  *)
(* function succ from blocks to the sequence of successors of the block's  *)
(* terminator; <<>> is a return or unreachable.                            *)
(***************************************************************************)
EXTENDS Naturals, Sequences, FiniteSets

Targets(succ, b) == {succ[b][i] : i \in DOMAIN succ[b]}

predecessors(succ, b) == {p \in DOMAIN succ : b \in Targets(succ, p)}

\* The blocks a path from "from" leads to without entering "avoid".
Reached(succ, from, avoid) ==
    LET after[n \in 0 .. Cardinality(DOMAIN succ)] ==
            IF n = 0 THEN {from} \ avoid
            ELSE LET before == after[n - 1]
                 IN before \cup
                    ((UNION {Targets(succ, b) : b \in before}) \ avoid)
    IN after[Cardinality(DOMAIN succ)]

\* Every path from the entry to b passes through a.
Dominates(succ, entry, a, b) ==
    /\ b \in Reached(succ, entry, {})
    /\ b \notin Reached(succ, entry, {a})

Latches(succ, entry, h) ==
    {n \in predecessors(succ, h) : Dominates(succ, entry, h, n)}

\* The natural loop of header h: what reaches a back edge without passing h.
LoopBlocks(succ, entry, h) ==
    {h} \cup {b \in Reached(succ, entry, {}) \ {h} :
                Reached(succ, b, {h}) \cap Latches(succ, entry, h) # {}}

\* LoopInfo: every natural loop, as its header and its blocks.
Loops(succ, entry) ==
    {[header |-> h, blocks |-> LoopBlocks(succ, entry, h)] :
        h \in {b \in DOMAIN succ : Latches(succ, entry, b) # {}}}

\* LI.begin() to LI.end(): the loops that lie in no other loop.
TopLevel(loops) ==
    {l \in loops : \A m \in loops : m # l => l.header \notin m.blocks}

\* L->getSubLoops() is empty.
Innermost(loops) ==
    {l \in loops : \A m \in loops : m # l => m.header \notin l.blocks}

ExitEdges(succ, l) ==
    {e \in UNION {{<<b, i>> : i \in DOMAIN succ[b]} : b \in l.blocks} :
        succ[e[1]][e[2]] \notin l.blocks}

\* L->getExitBlock() finds a block only when exactly one edge leaves.
HasExitBlock(succ, l) == Cardinality(ExitEdges(succ, l)) = 1

ExitingBlock(succ, l) == (CHOOSE e \in ExitEdges(succ, l) : TRUE)[1]

ExitBlock(succ, l) ==
    LET exit == CHOOSE e \in ExitEdges(succ, l) : TRUE IN succ[exit[1]][exit[2]]

OutsidePreds(succ, l) == predecessors(succ, l.header) \ l.blocks
=============================================================================
