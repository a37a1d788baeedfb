------------------------------ MODULE FrontEnds ------------------------------
(***************************************************************************)
(* One language, several front ends.  The same text is read and run by the *)
(* evaluator of V4, by the grammar and visitor of the ANTLR front end, and *)
(* by the earlier interpreters V1 and V2 as far as their language goes.    *)
(* FrontEndsAgree compares what they print and how they end, under         *)
(* conditions each of which names a difference between two of them.        *)
(***************************************************************************)
EXTENDS Compiler, LangGrammar, Visitor, InterpreterV1, InterpreterV2

CONSTANTS
  GrammarSpelling(_), \* the tokens of a program for the ANTLR front end
  Decrements          \* pairs: tokens with decrements, the same program without

-----------------------------------------------------------------------------
(***************************************************************************)
(* The ANTLR front end.                                                    *)
(***************************************************************************)
\* A break or continue that leaves the statement.
RECURSIVE Jumping(_)
Jumping(s) ==
  \/ s.node \in {"break", "continue"}
  \/ /\ s.node \notin {"while", "function", "closure"}
     /\ \E k \in DOMAIN Children(s) : Jumping(Children(s)[k])

Declares(s) == Of(<<s>>, "let") \cup Of(<<s>>, "function") # {}

LeftByJump(s) == \E w \in Of(<<s>>, "while") : Jumping(w.body)

\* A block that a jump leaves stays the current scope: nothing is declared in
\* it, nor behind the loop in the same list of statements.
JumpsLeaveNoNames(p) ==
  \A b \in Of(p, "block") \cup {BlockStmt(p)} :
    /\ Jumping(b) => ~Declares(b)
    /\ \A k, l \in DOMAIN b.statements :
         k < l /\ LeftByJump(b.statements[k]) => ~Declares(b.statements[l])

\* The value of && and || is that of an operand, and the right one may be left
\* out: both are truth values, and the right one calls nothing and cannot fail.
RECURSIVE Truth(_)
Truth(e) ==
  \/ e.node = "literal" /\ e.value.type = "bool"
  \/ e.node = "unary" /\ e.op = "!"
  \/ e.node = "binary" /\ e.op \in Comparisons
  \/ e.node = "binary" /\ e.op \in {"&&", "||"} /\ Truth(e.left) /\ Truth(e.right)

LogicIsPure(p) ==
  \A n \in Of(p, "binary") :
    n.op \in {"&&", "||"} =>
      /\ Truth(n.left) /\ Truth(n.right)
      /\ Of(<<n.right>>, "call") = {}
      /\ \A b \in Of(<<n.right>>, "binary") : b.op # "%"

\* In a chain of calls, one without arguments would take those of the next.
ChainsPassArguments(p) ==
  \A n \in Of(p, "call") : n.callee.node = "call" => n.callee.args # <<>>

\* The arguments of a call that fails have been evaluated, which V4 does not do.
AntlrComparable(p) ==
  /\ JumpsLeaveNoNames(p) /\ LogicIsPure(p) /\ ChainsPassArguments(p)
  /\ Of(p, "typeof") = {}
  /\ \A i \in DOMAIN p : JumpsInLoops(p[i], FALSE)
  /\ meaning.exc \notin {"error", "fuel"}

\* A run against that of V4's evaluator on the same program.
MeansThis(run) == run.out = meaning.out /\ run.exc = meaning.exc

AntlrAgrees(p) ==
  \E parsed \in {RuleProgram(GrammarSpelling(p))} :
    /\ parsed.next # Failed
    /\ AntlrComparable(p) => MeansThis(VisitProgram(parsed.tree))

\* x--, --x and what is computed from them.
DecrementsAgree(p) ==
  \A pair \in Decrements :
    pair[2] = p => MeansThis(VisitProgram(RuleProgram(pair[1]).tree))

-----------------------------------------------------------------------------
(***************************************************************************)
(* Interpreter V2.                                                         *)
(***************************************************************************)
\* The texts V2 reads.  The parentheses of V4's precedence are there for V2's:
\* no comparison is an operand of another one without them.
InV2(p) ==
  /\ \A kind \in {"unary", "ternary", "typeof", "closure", "break", "continue"} :
       Of(p, kind) = {}
  /\ \A n \in Of(p, "binary") :
       /\ n.op # "%"
       /\ n.op \in Comparisons =>
            \A side \in {n.left, n.right} : side.node = "binary" => side.op \notin Comparisons
  /\ \A n \in Of(p, "assign") : n.op = "="
  /\ \A n \in Of(p, "expr") : n.expr.node # "call"
  /\ \A n \in Of(p, "call") : n.callee.node = "var"
  /\ Of(p, "function") = {p[f] : f \in Functions(p)}

\* Strings are printed only: anywhere else they would be the number 0.
StringsArePrinted(p) ==
  LET nodes == NodesOfAll(p)
      IsText(e) == e.node = "literal" /\ e.value.type = "string"
  IN  \A i \in DOMAIN nodes :
        nodes[i].node # "print" =>
          \A k \in DOMAIN Children(nodes[i]) : ~IsText(Children(nodes[i])[k])

\* Functions are known before they are declared, and see and cannot change the
\* variables of whoever calls them.
V2Comparable(p) ==
  /\ InV2(p) /\ StringsArePrinted(p) /\ FunctionsFirst(p) /\ Closed(p)
  /\ meaning.exc \notin {"fuel", "error"}

V2Agrees(p) ==
  \E parsed \in {V2Program(V2Lexed(Spelling(p)), 1, <<>>, <<>>)} :
    /\ InV2(p) => parsed.next # Failed
    /\ V2Comparable(p) => MeansThis(V2Run(parsed))

-----------------------------------------------------------------------------
(***************************************************************************)
(* Interpreter V1: assignments and prints of sums and products, to which   *)
(* V4 wants declarations.  V1 has none: its variables begin with 0.        *)
(***************************************************************************)
Undeclared(p) == SelectSeq(p, LAMBDA s : s.node # "let")

InV1(p) ==
  /\ \A i \in DOMAIN p :
       \/ p[i].node = "let" /\ p[i].init = LiteralExpr(IntValue(0))
       \/ p[i].node = "assign" /\ p[i].op = "="
       \/ p[i].node = "print" /\ Len(p[i].exprs) = 1
  /\ \A n \in Of(p, "literal") : n.value.type = "int"
  /\ \A n \in Of(p, "binary") : n.op \in {"+", "-", "*"}
  /\ \A kind \in {"unary", "ternary", "typeof", "closure", "call"} : Of(p, kind) = {}
  /\ \A i, j \in DOMAIN p : p[j].node = "let" /\ i < j => p[i].node = "let"

V1Agrees(p) ==
  InV1(p) =>
    \E parsed \in {V1Program(Spelling(Undeclared(p)), 1)} :
      /\ parsed.next # Failed
      /\ meaning.exc = "none" => V1Run(parsed.tree) = meaning.out

-----------------------------------------------------------------------------
(***************************************************************************)
(* Every front end reads the program that was written and prints what V4's *)
(* evaluator prints: the parser of V4 gives the tree back, the grammar     *)
(* derives the same program, and V1 and V2 agree on their part of the      *)
(* language, although scopes, calls, operators and lists of arguments are  *)
(* implemented four times.                                                 *)
(***************************************************************************)
FrontEndsAgree ==
  /\ ParsesBack
  /\ stage = "parse" =>
       /\ AntlrAgrees(written) /\ DecrementsAgree(written)
       /\ V1Agrees(written) /\ V2Agrees(written)
=============================================================================
