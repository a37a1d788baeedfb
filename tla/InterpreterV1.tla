---------------------------- MODULE InterpreterV1 ----------------------------
(***************************************************************************)
(* Interpreter V1 (src/include/ast/interpreter_v1.hpp): assignments and    *)
(* prints of integer expressions over one map of variables, in which a     *)
(* missing name is 0.  Its texts are given as tokens of LangParser; only   *)
(* "print" is a keyword of its lexer.  Division is left out.               *)
(***************************************************************************)
EXTENDS LangParser

RECURSIVE V1Expr(_, _), V1ExprRest(_, _), V1TermRest(_, _), V1Program(_, _)

V1Factor(ts, i) ==
  LET e == V1Expr(ts, i + 1) IN
  CASE Sees(ts, i, "int") -> Parsed(LiteralExpr(IntValue(ts[i][2])), i + 1)
    [] Sees(ts, i, "id") -> Parsed(VarExpr(ts[i][2]), i + 1)
    [] Symbol(ts, i) = "(" -> Parsed(e.tree, Expect(ts, e.next, ")"))
    [] OTHER -> Parsed(NoTree, Failed)

\* The loop of parseTerm, with the node built so far, and that of parseExpr.
V1TermRest(ts, node) ==
  IF Symbol(ts, node.next) # "*" THEN node
  ELSE LET right == V1Factor(ts, node.next + 1) IN
       V1TermRest(ts, Parsed(BinaryExpr("*", node.tree, right.tree), right.next))

V1Term(ts, i) == V1TermRest(ts, V1Factor(ts, i))

V1ExprRest(ts, node) ==
  IF Symbol(ts, node.next) \notin {"+", "-"} THEN node
  ELSE LET right == V1Term(ts, node.next + 1) IN
       V1ExprRest(ts, Parsed(BinaryExpr(Symbol(ts, node.next), node.tree,
                                        right.tree), right.next))

V1Expr(ts, i) == V1ExprRest(ts, V1Term(ts, i))

V1Stmt(ts, i) ==
  LET value == V1Expr(ts, Expect(ts, i + 1, "="))
      shown == V1Expr(ts, Expect(ts, i + 1, "("))
  IN  CASE Sees(ts, i, "id") ->
             Parsed(AssignStmt(ts[i][2], "=", value.tree), Expect(ts, value.next, ";"))
        [] Keyword(ts, i) = "print" ->
             Parsed(PrintStmt(<<shown.tree>>),
                    Expect(ts, Expect(ts, shown.next, ")"), ";"))
        [] OTHER -> Parsed(NoTree, Failed)

\* parseProgram, from a position on.
V1Program(ts, i) ==
  IF i = Failed \/ Sees(ts, i, "eof") THEN Parsed(<<>>, i)
  ELSE LET s == V1Stmt(ts, i)
           rest == V1Program(ts, s.next)
       IN  Parsed(<<s.tree>> \o rest.tree, rest.next)

-----------------------------------------------------------------------------
(***************************************************************************)
(* ctx is a function from the names it holds to integers.                  *)
(***************************************************************************)
V1Read(ctx, x) == IF x \in DOMAIN ctx THEN ctx[x] ELSE 0

RECURSIVE V1Eval(_, _), V1Exec(_, _, _)
V1Eval(e, ctx) ==
  CASE e.node = "literal" -> e.value.num
    [] e.node = "var" -> V1Read(ctx, e.name)
    [] e.op = "+" -> V1Eval(e.left, ctx) + V1Eval(e.right, ctx)
    [] e.op = "-" -> V1Eval(e.left, ctx) - V1Eval(e.right, ctx)
    [] e.op = "*" -> V1Eval(e.left, ctx) * V1Eval(e.right, ctx)

\* What the statements print, one after the other.
V1Exec(stmts, ctx, out) ==
  IF stmts = <<>> THEN out
  ELSE LET s == Head(stmts) IN
       IF s.node = "print"
       THEN V1Exec(Tail(stmts), ctx,
                   Append(out, <<"number", V1Eval(s.exprs[1], ctx)>>))
       ELSE V1Exec(Tail(stmts),
                   [x \in DOMAIN ctx \cup {s.name} |->
                      IF x = s.name THEN V1Eval(s.value, ctx) ELSE ctx[x]], out)

V1Run(program) == V1Exec(program, <<>>, <<>>)
=============================================================================
