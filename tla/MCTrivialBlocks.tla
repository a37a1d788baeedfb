-------------------------- MODULE MCTrivialBlocks --------------------------
(***************************************************************************)
(* Every function of an entry and three more blocks: the entry and the     *)
(* first two end in a branch or a two-way branch (whose two successors are *)
(* listed in block order), the last one in a return or a branch.  Any set  *)
(* of the unconditional blocks may be empty.  PHI values are those of the  *)
(* incoming blocks, which tells all of them apart, or all the same.        *)
(***************************************************************************)
EXTENDS TrivialBlocks, TLC

CONSTANTS e, a, b, c, same

MCLayout == <<e, a, b, c>>
MCVals == {e, a, b, c, same}

Others == {a, b, c}
Jumps == {<<x>> : x \in Others}
Splits == {<<a, a>>, <<a, b>>, <<a, c>>, <<b, b>>, <<b, c>>, <<c, c>>}

Flows ==
    {(e :> s[1]) @@ (a :> s[2]) @@ (b :> s[3]) @@ (c :> s[4]) :
        s \in (Jumps \cup Splits) \X ({<<>>} \cup Jumps \cup Splits)
                 \X (Jumps \cup {<<a, c>>, <<b, c>>, <<c, c>>})
                 \X ({<<>>} \cup Jumps)}

Flow(s, hollow, distinct) ==
    [succ |-> s, empty |-> hollow,
     phi |-> [x \in {e} \cup Others |->
                IF x \in hollow THEN {}
                ELSE {<<p, IF distinct THEN p ELSE same>> :
                        p \in predecessors(s, x)}]]

MCGraphs ==
    UNION {{Flow(s, hollow, distinct) :
               hollow \in SUBSET {x \in Others : Len(s[x]) = 1},
               distinct \in BOOLEAN} : s \in Flows}
=============================================================================
