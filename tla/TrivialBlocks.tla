--------------------------- MODULE TrivialBlocks ---------------------------
(***************************************************************************)
(* The two passes that splice out blocks holding nothing but an            *)
(* unconditional branch: RemoveTrivialBlockPass, which takes a snapshot of *)
(* the candidates and rewrites predecessors and PHIs itself, and           *)
(* RemoveEmptyBlockPass, which decides block by block and leaves the       *)
(* rewriting to replaceAllUsesWith.                                        *)
(*                                                                         *)
(* Every other block than the entry holds one PHI: the set of its          *)
(* <<incoming block, value>> pairs.  The dominator tree is not modelled.   *)
(***************************************************************************)
EXTENDS Cfg, Functions

CONSTANTS
    Layout,     \* the blocks in the function's order, the entry first
    Vals,       \* the values PHIs select
    Graphs      \* the functions to run on: [succ, empty, phi]

Blocks == Range(Layout)
Entry == Layout[1]

\* No branch leads to the entry; a block that is empty has no PHI, and the
\* PHI of any other has entries for the block's predecessors.
IsFunction(g) ==
    /\ g.succ \in [Blocks -> Seq(Blocks \ {Entry})]
    /\ g.empty \subseteq Blocks \ {Entry}
    /\ g.phi \in [Blocks -> SUBSET (Blocks \X Vals)]
    /\ \A b \in g.empty : g.phi[b] = {}
    /\ \A b \in Blocks \ g.empty :
            {p[1] : p \in g.phi[b]} = predecessors(g.succ, b)

ASSUME LayoutAssumption ==
    /\ Layout \in Seq(Blocks) /\ Layout # <<>> /\ IsInjective(Layout)
    /\ \A g \in Graphs : IsFunction(g)

VARIABLES
    source,     \* the function as the pass found it
    pass,       \* which of the two passes runs
    todo,       \* the candidates, or the blocks still to visit
    live,       \* the blocks of the function
    succ,       \* the successors of each block's terminator
    phi,        \* the incoming pairs of each block's PHI
    stage       \* collect, remove, done, or undefined after a failed assertion

vars == <<source, pass, todo, live, succ, phi, stage>>

-----------------------------------------------------------------------------
Passes == {"RemoveTrivialBlock", "RemoveEmptyBlock"}

\* Not the entry, a single instruction, and that an unconditional branch.
IsTrivial(b) == b \in source.empty /\ b # Entry /\ Len(succ[b]) = 1

Init ==
    /\ source \in Graphs
    /\ pass \in Passes
    /\ todo = <<>>
    /\ live = Blocks
    /\ succ = source.succ
    /\ phi = source.phi
    /\ stage = "collect"

\* faulty: only the first successor of a terminator is redirected
Retarget_First(targets, from, to) ==
    [i \in DOMAIN targets |->
        IF i = 1 /\ targets[i] = from THEN to ELSE targets[i]]

Retarget(targets, from, to) ==
    [i \in DOMAIN targets |-> IF targets[i] = from THEN to ELSE targets[i]]

\* faulty: value and block of a new entry are swapped
Reincoming_Swapped(pairs, from, preds) ==
    {p \in pairs : p[1] # from} \cup
    {<<p[2], q>> : q \in preds, p \in {x \in pairs : x[1] = from}}

\* faulty: the first predecessor only takes over the entry
Reincoming_One(pairs, from, preds) ==
    {p \in pairs : p[1] # from} \cup
    (IF preds = {} THEN {}
     ELSE {<<CHOOSE q \in preds : TRUE, p[2]>> :
                p \in {x \in pairs : x[1] = from}})

\* The PHI entry of the removed block becomes one entry per predecessor.
Reincoming(pairs, from, preds) ==
    {p \in pairs : p[1] # from} \cup
    {<<q, p[2]>> : q \in preds, p \in {x \in pairs : x[1] = from}}

\* The candidates in the function's order.
Candidates ==
    LET of[n \in 0 .. Len(Layout)] ==
            IF n = 0 THEN <<>>
            ELSE IF IsTrivial(Layout[n]) THEN Append(of[n - 1], Layout[n])
            ELSE of[n - 1]
    IN of[Len(Layout)]

\* RemoveTrivialBlockPass snapshots its candidates; RemoveEmptyBlockPass
\* visits every block and looks at it then.
Collect ==
    /\ stage = "collect"
    /\ stage' = "remove"
    /\ todo' = IF pass = "RemoveTrivialBlock"
                 THEN Candidates ELSE Layout
    /\ UNCHANGED <<source, pass, live, succ, phi>>

\* deleteBB empties the block at once; the branches that still lead to it
\* are whatever the redirection has left.
RemoveTrivial ==
    /\ stage = "remove" /\ pass = "RemoveTrivialBlock" /\ todo # <<>>
    /\ LET BB == Head(todo)
           Succ == succ[BB][1]
           Preds == predecessors(succ, BB)
       IN /\ succ' = [b \in Blocks |->
                        IF b = BB THEN <<>>
                        ELSE IF b \in Preds THEN Retarget(succ[b], BB, Succ)
                        ELSE succ[b]]
          /\ phi' = [phi EXCEPT ![Succ] = Reincoming(@, BB, Preds)]
          /\ live' = live \ {BB}
    /\ todo' = Tail(todo)
    /\ UNCHANGED <<source, pass, stage>>

\* A block that is not trivial stays.
SkipBlock ==
    /\ stage = "remove" /\ pass = "RemoveEmptyBlock" /\ todo # <<>>
    /\ ~IsTrivial(Head(todo))
    /\ todo' = Tail(todo)
    /\ UNCHANGED <<source, pass, live, succ, phi, stage>>

\* BB.replaceAllUsesWith(Succ) redirects every branch to BB, and makes the
\* PHI entries that came from BB come from Succ; a block that branches to
\* itself fails the library's assertion.
ReplaceBlock ==
    /\ stage = "remove" /\ pass = "RemoveEmptyBlock" /\ todo # <<>>
    /\ IsTrivial(Head(todo))
    /\ LET BB == Head(todo)
           Succ == succ[BB][1]
       IN IF Succ = BB
            THEN /\ stage' = "undefined"
                 /\ UNCHANGED <<live, succ, phi>>
            ELSE /\ succ' = [b \in Blocks |->
                               IF b = BB THEN <<>>
                               ELSE Retarget(succ[b], BB, Succ)]
                 /\ phi' = [phi EXCEPT ![Succ] = Reincoming(@, BB, {Succ})]
                 /\ live' = live \ {BB}
                 /\ stage' = stage
    /\ todo' = Tail(todo)
    /\ UNCHANGED <<source, pass>>

EndPass ==
    /\ stage = "remove" /\ todo = <<>>
    /\ stage' = "done"
    /\ UNCHANGED <<source, pass, todo, live, succ, phi>>

Next == Collect \/ RemoveTrivial \/ SkipBlock \/ ReplaceBlock \/ EndPass

Spec == Init /\ [][Next]_vars

-----------------------------------------------------------------------------
\* The last edge of the route that leaves block b by its i-th successor and
\* goes on through trivial blocks.
LastEdge(s, empty, b, i) ==
    LET edge[n \in 0 .. Len(Layout)] ==
            IF n = 0 THEN <<b, s[b][i]>>
            ELSE LET last == edge[n - 1]
                 IN IF last[2] \in empty /\ s[last[2]] # <<>>
                      THEN <<last[2], s[last[2]][1]>> ELSE last
    IN edge[Len(Layout)]

Forwarders == {b \in source.empty : Len(source.succ[b]) = 1}

\* No cycle of trivial blocks.
NoEmptyLoop ==
    \A b \in Forwarders : LastEdge(source.succ, Forwarders, b, 1)[2] \notin Forwarders

\* What block b's i-th successor leads to: the block and what its PHI takes.
Landing(s, ph, b, i) ==
    LET last == LastEdge(s, Forwarders, b, i)
    IN <<last[2], {p[2] : p \in {x \in ph[last[2]] : x[1] = last[1]}}>>

\* No block reaches a PHI by two routes that carry different values.
NoForkedPhi ==
    \A b \in Blocks \ Forwarders : \A i, j \in DOMAIN source.succ[b] :
        LET to(k) == Landing(source.succ, source.phi, b, k)
        IN to(i)[1] = to(j)[1] => to(i)[2] = to(j)[2]

TypeOK ==
    /\ IsFunction(source)
    /\ pass \in Passes
    /\ todo \in Seq(Blocks)
    /\ live \subseteq Blocks
    /\ succ \in [Blocks -> Seq(Blocks)]
    /\ phi \in [Blocks -> SUBSET (Blocks \X Vals)]
    /\ stage \in {"collect", "remove", "done", "undefined"}

\* Whatever has been spliced out so far, each way out of a block that stays
\* leads to the same block as in the source.
SameDestinations ==
    NoEmptyLoop =>
        \A b \in Blocks \ Forwarders : \A i \in DOMAIN source.succ[b] :
            /\ i \in DOMAIN succ[b]
            /\ LastEdge(succ, live \cap Forwarders, b, i)[2]
                 = LastEdge(source.succ, Forwarders, b, i)[2]

\* When a pass is done none of the blocks it could splice out is left, however
\* long the chains ("run the pass: they should be merged away",
\* remove_trivial_block.ll:2).
NoTrivialLeft ==
    stage = "done" /\ NoEmptyLoop => live \cap Forwarders = {}

\* A pass splices out all the empty blocks it is for and changes no route.
RoutesKept == SameDestinations /\ NoTrivialLeft

\* With RemoveTrivialBlockPass the PHI at a route's end selects the value it
\* selected in the source, for any order of removal along chains.
PhiValuesKept ==
    NoEmptyLoop /\ NoForkedPhi /\ pass = "RemoveTrivialBlock" =>
        \A b \in Blocks \ Forwarders : \A i \in DOMAIN source.succ[b] :
            Landing(succ, phi, b, i) = Landing(source.succ, source.phi, b, i)

\* RemoveTrivialBlockPass keeps exactly one PHI entry block per predecessor,
\* in the middle of the pass too.
PhisMatchPredecessors ==
    NoEmptyLoop /\ pass = "RemoveTrivialBlock" =>
        \A b \in live \ source.empty : b # Entry =>
            {p[1] : p \in phi[b]} = predecessors(succ, b)

\* The PHIs of RemoveTrivialBlockPass stay right after every single removal:
\* their entries match the predecessors and each route brings its value.
PhisKept == PhiValuesKept /\ PhisMatchPredecessors
=============================================================================
