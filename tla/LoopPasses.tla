----------------------------- MODULE LoopPasses -----------------------------
(***************************************************************************)
(* The two passes that take whole loops out of a function.                 *)
(* RemoveTrivialLoopPass turns the branches into an endless loop into      *)
(* unreachable.  RemoveZeroTripLoopPass makes the preheader of a loop      *)
(* whose back edge is never taken branch to the exit block, and replaces   *)
(* the values of the loop used there by what they are on entry.  Both go   *)
(* through the loops LoopInfo found in the unchanged function.             *)
(*                                                                         *)
(* Values are those of one loop: "iv", the PHI of its header, which is     *)
(* "init" on entry; "body", any other value computed in the loop; "const", *)
(* one from elsewhere; "poison" is what the library puts in the place of a *)
(* value whose block it deletes.  Dominator trees are left out.            *)
(***************************************************************************)
EXTENDS Cfg

CONSTANTS
    Blocks,     \* the blocks of a function
    Entry,
    NoBlock,    \* no PHI to look after
    Functions   \* for each pass, the functions to run it on

Passes == {"RemoveTrivialLoop", "RemoveZeroTripLoop"}

Values == {"const", "iv", "body", "init", "poison"}

(***************************************************************************)
(* succ: the successors of each block; zero: the headers of the loops for  *)
(* which ScalarEvolution proves a backedge-taken count of 0; header: the   *)
(* loop whose values are followed; of: the value used; at: whether an      *)
(* instruction of the loop's exit block uses it or one further on; join:   *)
(* a block the loop exits to, with a PHI that selects it for the edges     *)
(* from the loop, or NoBlock.                                              *)
(***************************************************************************)
IsFunction(g) ==
    /\ g.succ \in [Blocks -> Seq(Blocks \ {Entry})]
    /\ g.zero \subseteq Blocks
    /\ g.of # "const" \/ g.join # NoBlock =>
        \E l \in Loops(g.succ, Entry) :
            /\ l.header = g.header /\ g.header \in g.zero
            /\ g.join = NoBlock
               \/ \E e \in ExitEdges(g.succ, l) : g.join = g.succ[e[1]][e[2]]
    /\ g.of \in {"const", "iv", "body"}
    /\ g.at \in {"exit", "beyond"}
    /\ g.join \in Blocks \cup {NoBlock}

ASSUME FunctionsAssumption ==
    /\ IsFiniteSet(Blocks) /\ Entry \in Blocks /\ NoBlock \notin Blocks
    /\ \A pass \in Passes : \A g \in Functions[pass] : IsFunction(g)

VARIABLES
    pass,       \* which of the two passes runs
    source,     \* the function as the pass found it
    loops,      \* LoopInfo: the loops of that function
    todo,       \* the top-level loops still to look at
    live,       \* the blocks of the function
    succ,       \* the successors of each block's terminator
    operand,    \* what the instruction behind the loop uses
    phi,        \* the <<incoming block, value>> pairs of the PHI in join
    stage       \* run, done, or undefined

vars == <<pass, source, loops, todo, live, succ, operand, phi, stage>>

-----------------------------------------------------------------------------
\* faulty: nested loops are gone through as well
Visited_All(found) == found

\* LI.begin() to LI.end().
Visited(found) == TopLevel(found)

\* The PHI as the source has it: the value followed for edges from its loop.
Incoming(g, found) ==
    {<<p, IF p \in (CHOOSE l \in found : l.header = g.header).blocks
          THEN g.of ELSE "const">> : p \in predecessors(g.succ, g.join)}

Init ==
    /\ pass \in Passes
    /\ source \in Functions[pass]
    /\ loops = Loops(source.succ, Entry)
    /\ todo = Visited(loops)
    /\ live = Blocks
    /\ succ = source.succ
    /\ operand = source.of
    /\ phi = IF source.join = NoBlock THEN {} ELSE Incoming(source, loops)
    /\ stage = "run"

\* What is left of a value when the blocks outside "kept" are deleted.
Survives(v, kept) ==
    IF v \in {"iv", "body"} /\ source.header \notin kept THEN "poison" ELSE v

\* removeUnreachableBlocks(): the entry reaches every block that is kept.
DeleteUnreachable(l, rewired, used, pairs) ==
    LET kept == Reached(rewired, Entry, {})
    IN /\ live' = live \cap kept
       /\ succ' = [b \in Blocks |-> IF b \in kept THEN rewired[b] ELSE <<>>]
       /\ operand' = Survives(used, kept)
       /\ phi' = {<<p[1], Survives(p[2], kept)>> :
                    p \in {x \in pairs : x[1] \in kept}}

-----------------------------------------------------------------------------
(* RemoveTrivialLoopPass *)

\* getExitBlock() is null: no exit, or several.
LooksEndless(l) == ~HasExitBlock(succ, l)

\* faulty: a branch into the loop may also lead elsewhere
CanRewrite_Any(l) == OutsidePreds(succ, l) # {}

\* Every branch into the loop is unconditional.
CanRewrite(l) == \A b \in OutsidePreds(succ, l) : succ[b] = <<l.header>>

Endless(l) == LooksEndless(l) /\ CanRewrite(l)

\* Every branch into the loop becomes unreachable.
CutLoop(l) ==
    /\ pass = "RemoveTrivialLoop"
    /\ Endless(l)
    /\ DeleteUnreachable(l,
            [b \in Blocks |-> IF b \in OutsidePreds(succ, l) THEN <<>> ELSE succ[b]],
            operand, phi)
    /\ UNCHANGED stage

-----------------------------------------------------------------------------
(* RemoveZeroTripLoopPass *)

\* getLoopPreheader(): the only way in, and a block that leads nowhere else.
HasPreheader(l) ==
    \E p \in OutsidePreds(succ, l) :
        OutsidePreds(succ, l) = {p} /\ succ[p] = <<l.header>>

\* A constant backedge-taken count of 0, one exit block and a preheader.
ZeroTrip(l) ==
    /\ l.header \in source.zero
    /\ HasExitBlock(succ, l)
    /\ HasPreheader(l)

\* faulty: the value on the back edge is taken
AtEntry_Latch(l, v) ==
    IF l.header = source.header /\ v = "iv" THEN "body" ELSE v

\* Step A: the header's PHI is replaced by its value on entry.
AtEntry(l, v) == IF l.header = source.header /\ v = "iv" THEN "init" ELSE v

\* The PHI is in the loop's exit block.
RepairsPhi(l) == ExitBlock(succ, l) = source.join

IncomingBlocks == {p[1] : p \in phi}

\* The PHI has no entry for the header, which fails an assertion, or no other,
\* and removing it deletes the PHI that an entry is then added to.
PhiBreaks(l) ==
    RepairsPhi(l) /\ (l.header \notin IncomingBlocks \/ IncomingBlocks = {l.header})

\* Step C-1: the PHI entry of the header becomes the preheader's.
MovedIncoming(pairs, h, pre) ==
    {p \in pairs : p[1] # h} \cup
    {<<pre, p[2]>> : p \in {x \in pairs : x[1] = h}}

BreakPhi(l) ==
    /\ pass = "RemoveZeroTripLoop"
    /\ ZeroTrip(l) /\ PhiBreaks(l)
    /\ stage' = "undefined"
    /\ UNCHANGED <<live, succ, operand, phi>>

\* Steps A, B and C: uses in the exit block, the preheader's branch, the exit's
\* PHI, and the blocks of the loop.
BypassLoop(l) ==
    /\ pass = "RemoveZeroTripLoop"
    /\ ZeroTrip(l) /\ ~PhiBreaks(l)
    /\ LET Exit == ExitBlock(succ, l)
           Preheader == CHOOSE p \in OutsidePreds(succ, l) : TRUE
           entering == {<<p[1], AtEntry(l, p[2])>> : p \in phi}
       IN DeleteUnreachable(l,
            [succ EXCEPT ![Preheader] = <<Exit>>],
            IF source.at = "exit" THEN AtEntry(l, operand) ELSE operand,
            IF RepairsPhi(l) THEN MovedIncoming(entering, l.header, Preheader)
            ELSE phi)
    /\ UNCHANGED stage

-----------------------------------------------------------------------------
\* A loop that contains loops, or that does not meet the pass's conditions.
SkipLoop(l) ==
    /\ l \in Innermost(loops) =>
        CASE pass = "RemoveTrivialLoop" -> ~Endless(l)
          [] pass = "RemoveZeroTripLoop" -> ~ZeroTrip(l)
    /\ UNCHANGED <<live, succ, operand, phi, stage>>

\* The blocks of the loop were deleted with an earlier one.
ReadDeleted ==
    /\ stage' = "undefined"
    /\ UNCHANGED <<live, succ, operand, phi>>

VisitLoop ==
    /\ stage = "run"
    /\ \E l \in todo :
        /\ \/ l \notin Innermost(loops) /\ SkipLoop(l)
           \/ l \in Innermost(loops) /\ ~ l.blocks \subseteq live /\ ReadDeleted
           \/ /\ l \in Innermost(loops) /\ l.blocks \subseteq live
              /\ SkipLoop(l) \/ CutLoop(l) \/ BreakPhi(l) \/ BypassLoop(l)
        /\ todo' = todo \ {l}
    /\ UNCHANGED <<pass, source, loops>>

EndPass ==
    /\ stage = "run" /\ todo = {}
    /\ stage' = "done"
    /\ UNCHANGED <<pass, source, loops, todo, live, succ, operand, phi>>

Next == VisitLoop \/ EndPass

Spec == Init /\ [][Next]_vars

-----------------------------------------------------------------------------
TypeOK ==
    /\ pass \in Passes
    /\ IsFunction(source)
    /\ todo \subseteq TopLevel(loops)
    /\ live \subseteq Blocks
    /\ succ \in [Blocks -> Seq(Blocks)]
    /\ operand \in Values
    /\ phi \subseteq Blocks \X Values
    /\ stage \in {"run", "done", "undefined"}

Removed == {l \in loops : l.header \in Reached(source.succ, Entry, {}) \ live}

\* No top-level loop is left by several edges, so that having no exit block
\* and having no exit are the same.
SingleExits == \A l \in TopLevel(loops) : Cardinality(ExitEdges(source.succ, l)) <= 1

\* The blocks on a way from the entry to a return.
OnWayToReturn ==
    {b \in Reached(source.succ, Entry, {}) :
        \E r \in Reached(source.succ, b, {}) : source.succ[r] = <<>>}

\* Cutting endless loops never touches an execution that returns: every block
\* on a way to a return stays, with its terminator (the safety condition of
\* remove_trivial_loop_passes.cpp:12 to 14).
ReturnsKept ==
    pass = "RemoveTrivialLoop" /\ SingleExits =>
        \A b \in OnWayToReturn : b \in live /\ succ[b] = source.succ[b]

\* A top-level, innermost endless loop that only unconditional branches enter
\* is gone at the end, also when other loops were cut before it.
EndlessLoopsGone ==
    stage = "done" /\ pass = "RemoveTrivialLoop" =>
        \A l \in TopLevel(loops) \cap Innermost(loops) :
            /\ ExitEdges(source.succ, l) = {}
            /\ \A b \in OutsidePreds(source.succ, l) : source.succ[b] = <<l.header>>
            => l.blocks \cap live = {}

\* Bypassing loops takes nothing else away: every other block the entry
\* reached it still reaches, by the terminators of the source, and what branched
\* to a removed loop led nowhere else.
OnlyLoopsBypassed ==
    pass = "RemoveZeroTripLoop" =>
        /\ Reached(source.succ, Entry, {}) \ live
             \subseteq UNION {l.blocks : l \in Removed}
        /\ \A b \in live : succ[b] # source.succ[b] =>
                \E l \in Removed : source.succ[b] = <<l.header>>

\* Both passes take away the loops they mean to and nothing else, whatever was
\* cut before.
FlowKept == ReturnsKept /\ EndlessLoopsGone /\ OnlyLoopsBypassed

\* What a value is behind a loop whose back edge is not taken.
OnExit(v) == IF v = "iv" THEN "init" ELSE v

\* An instruction of the exit block of a bypassed loop that uses the header's
\* PHI, or one that uses a value from elsewhere, sees what it saw in the
\* source, in whatever order loops go.
ValueKept ==
    \/ source.of = "const"
    \/ pass = "RemoveZeroTripLoop" /\ source.of = "iv" /\ source.at = "exit"
    => OnExit(operand) = OnExit(source.of)

\* A PHI behind the loops has one entry per predecessor at all times, and
\* selects the same values as in the source.
PhiKept ==
    source.join \in live /\ stage # "undefined" =>
        /\ IncomingBlocks = predecessors(succ, source.join)
        /\ \A p, q \in phi : p[1] = q[1] => p = q
        /\ source.of # "body" =>
            {OnExit(p[2]) : p \in phi} \subseteq
                {OnExit(p[2]) : p \in Incoming(source, loops)}
        /\ \A l \in Removed : \A p \in phi :
            /\ l.header = source.header /\ source.of = "iv"
            /\ source.succ[p[1]] = <<l.header>>
            => p[2] = "init"

\* Loops leave to the PHI's block from their header only, and there is
\* another way to it.
RepairablePhi ==
    \A l \in loops :
        source.join # NoBlock /\ ExitEdges(source.succ, l) # {} =>
            /\ ExitBlock(source.succ, l) = source.join =>
                    ExitingBlock(source.succ, l) = l.header
            /\ \E p \in predecessors(source.succ, source.join) \ {l.header} :
                    p \in Reached(source.succ, Entry, {})

\* The passes never look at a Loop whose blocks they deleted with another one,
\* and break no PHI.
PassDefined ==
    (pass = "RemoveTrivialLoop" => SingleExits) /\ RepairablePhi
        => stage # "undefined"

\* Behind the loops every use and every PHI has the value it had, and the
\* passes get there without looking at what they have deleted.
ValuesKept == ValueKept /\ PhiKept /\ PassDefined
=============================================================================
