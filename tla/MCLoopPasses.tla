---------------------------- MODULE MCLoopPasses ----------------------------
(***************************************************************************)
(* Functions of an entry, three inner blocks that branch to one or two     *)
(* blocks, and a returning block.  RemoveTrivialLoopPass runs on all of    *)
(* them; RemoveZeroTripLoopPass on those that have a loop with one exit,   *)
(* with any of its loops known to run once and every kind of use behind.   *)
(***************************************************************************)
EXTENDS LoopPasses, TLC

CONSTANTS e, a, b, c, d

MCBlocks == {e, a, b, c, d}
Jumps == {<<a>>, <<b>>, <<c>>, <<d>>}
Splits == {<<a, b>>, <<a, c>>, <<a, d>>, <<b, c>>, <<b, d>>, <<c, d>>}

Flow(s) == (e :> s[1]) @@ (a :> s[2]) @@ (b :> s[3]) @@ (c :> s[4]) @@ (d :> <<>>)

Function(s, zero, header, of, at, join) ==
    [succ |-> s, zero |-> zero, header |-> header,
     of |-> of, at |-> at, join |-> join]

Plain(s) == Function(s, {}, e, "const", "exit", NoBlock)

\* The uses behind one flow's loops: one of them is followed.
Uses(s) ==
    LET found == Loops(s, e)
    IN UNION {{Function(s, zero, l.header, of, at, join) :
                 zero \in {z \in SUBSET {m.header : m \in found} : l.header \in z},
                 of \in {"const", "iv", "body"}, at \in {"exit", "beyond"},
                 join \in {NoBlock, ExitBlock(s, l)}} :
              l \in {m \in found : HasExitBlock(s, m)}}

MCFunctions ==
    [name \in Passes |->
        IF name = "RemoveTrivialLoop"
        THEN {Plain(Flow(s)) :
                 s \in {<<a>>, <<a, b>>, <<a, d>>} \X (Jumps \cup Splits)
                         \X (Jumps \cup Splits) \X (Jumps \cup Splits)}
        ELSE UNION {Uses(Flow(s)) :
                 s \in {<<a>>, <<a, b>>} \X (Jumps \cup Splits)
                         \X (Jumps \cup Splits) \X (Jumps \cup {<<c, d>>})}]
=============================================================================
