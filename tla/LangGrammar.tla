----------------------------- MODULE LangGrammar -----------------------------
(***************************************************************************)
(* The grammar of the ANTLR front end (src/antlr/Lang.g4) as its generated *)
(* parser reads it (src/antlr/generated/LangParser.cpp): one operator per  *)
(* rule, taking the first alternative that fits the tokens ahead.  Tokens, *)
(* positions and failure are those of LangParser.  The trees are LangTree's*)
(* with three more nodes, which the visitor tells apart:                   *)
(*   paren    a parenthesised expression                                   *)
(*   postfix  calls and decrements behind a primary, in their order        *)
(*   predec   a decrement in front                                         *)
(* The recovery of the ANTLR library from a syntax error is left out.      *)
(***************************************************************************)
EXTENDS LangParser

ParenExpr(e) == [node |-> "paren", expr |-> e]

PostfixExpr(e, ops) ==
  IF ops = <<>> THEN e ELSE [node |-> "postfix", primary |-> e, ops |-> ops]

PredecExpr(e) == [node |-> "predec", operand |-> e]

CallOp(args) == [op |-> "call", args |-> args]

DecOp == [op |-> "dec"]

RECURSIVE Rule(_, _, _), RuleLevel(_, _, _), RuleRest(_, _, _),
          RuleUnary(_, _), RulePostfix(_, _, _), RuleExpressionList(_, _),
          RuleParameterList(_, _), RuleStatements(_, _)

\* The two rules that the others come back to; Rule is at the end.
RuleExpression(ts, i) == Rule(ts, "expression", i)

RuleStatement(ts, i) == Rule(ts, "statement", i)

\* The repetition statement* of a block and of a program.
RuleStatements(ts, i) ==
  IF Symbol(ts, i) = "}" \/ Sees(ts, i, "eof") \/ i = Failed
  THEN Parsed(<<>>, i)
  ELSE LET s == RuleStatement(ts, i)
           rest == RuleStatements(ts, s.next)
       IN  Parsed(<<s.tree>> \o rest.tree, rest.next)

RuleBlock(ts, i) ==
  LET inner == RuleStatements(ts, Expect(ts, i, "{"))
  IN  Parsed(BlockStmt(inner.tree), Expect(ts, inner.next, "}"))

-----------------------------------------------------------------------------
(***************************************************************************)
(* Expressions.                                                            *)
(***************************************************************************)
RuleExpressionList(ts, i) ==
  LET e == RuleExpression(ts, i)
      more == RuleExpressionList(ts, e.next + 1)
  IN  IF Symbol(ts, e.next) = "," THEN Parsed(<<e.tree>> \o more.tree, more.next)
      ELSE Parsed(<<e.tree>>, e.next)

RuleParameterList(ts, i) ==
  LET name == <<TokenAt(ts, i)[2]>>
      next == ExpectType(ts, i, "id")
      more == RuleParameterList(ts, next + 1)
  IN  IF Symbol(ts, next) = "," THEN Parsed(name \o more.tree, more.next)
      ELSE Parsed(name, next)

\* LPAREN parameterList? RPAREN, shared by both kinds of functions.
RuleParameters(ts, i) ==
  LET params == RuleParameterList(ts, i + 1) IN
  IF Symbol(ts, i) = "(" /\ Symbol(ts, i + 1) = ")" THEN Parsed(<<>>, i + 2)
  ELSE Parsed(params.tree,
              IF Symbol(ts, i) = "(" THEN Expect(ts, params.next, ")") ELSE Failed)

\* An anonymous function has an arrow in front of its body.
RulePrimary(ts, i) ==
  CASE Sees(ts, i, "int") -> Parsed(LiteralExpr(IntValue(ts[i][2])), i + 1)
    [] Sees(ts, i, "string") -> Parsed(LiteralExpr(StringValue(ts[i][2])), i + 1)
    [] Keyword(ts, i) \in {"true", "false"} ->
         Parsed(LiteralExpr(BoolValue(Keyword(ts, i) = "true")), i + 1)
    [] Sees(ts, i, "id") -> Parsed(VarExpr(ts[i][2]), i + 1)
    [] Symbol(ts, i) = "(" ->
         LET e == RuleExpression(ts, i + 1)
         IN  Parsed(ParenExpr(e.tree), Expect(ts, e.next, ")"))
    [] Keyword(ts, i) = "fn" ->
         LET params == RuleParameters(ts, i + 1)
             body == RuleBlock(ts, Expect(ts, params.next, "=>"))
         IN  Parsed(ClosureExpr(params.tree, body.tree), body.next)
    [] OTHER -> Parsed(NoTree, Failed)

\* The repetition (LPAREN expressionList? RPAREN | DEC)* of postfix: from is
\* the primary, with the position behind the operators found so far.
RulePostfix(ts, from, ops) ==
  LET i == from.next
      args == RuleExpressionList(ts, i + 1)
      Further(op, next) == RulePostfix(ts, [from EXCEPT !.next = next], Append(ops, op))
  IN  CASE Symbol(ts, i) = "--" -> Further(DecOp, i + 1)
        [] Symbol(ts, i) = "(" /\ Symbol(ts, i + 1) = ")" ->
             Further(CallOp(<<>>), i + 2)
        [] Symbol(ts, i) = "(" ->
             Further(CallOp(args.tree), Expect(ts, args.next, ")"))
        [] OTHER -> Parsed(PostfixExpr(from.tree, ops), i)

RuleUnary(ts, i) ==
  LET e == RuleUnary(ts, i + 1) IN
  CASE Symbol(ts, i) \in {"-", "!"} ->
         Parsed(UnaryExpr(Symbol(ts, i), e.tree), e.next)
    [] Symbol(ts, i) = "--" -> Parsed(PredecExpr(e.tree), e.next)
    [] Keyword(ts, i) = "typeof" -> Parsed(TypeofExpr(e.tree), e.next)
    [] OTHER -> RulePostfix(ts, RulePrimary(ts, i), <<>>)

\* logicalOr, logicalAnd, equality, relational, additive, multiplicative.
RuleLevel(ts, i, level) ==
  IF level > Len(Levels) THEN RuleUnary(ts, i)
  ELSE RuleRest(ts, RuleLevel(ts, i, level + 1), level)

\* The repetition (op operand)* of one of them; the visitor folds from the left.
RuleRest(ts, left, level) ==
  IF Symbol(ts, left.next) \notin Levels[level] THEN left
  ELSE LET right == RuleLevel(ts, left.next + 1, level + 1) IN
       RuleRest(ts, Parsed(BinaryExpr(Symbol(ts, left.next), left.tree,
                                      right.tree), right.next), level)

\* expression: ternaryExpression: logicalOr (QUESTION expression COLON expression)?
\* behind its logicalOr, c.
RuleTernary(ts, c) ==
  IF Symbol(ts, c.next) # "?" THEN c
  ELSE LET t == RuleExpression(ts, c.next + 1)
           f == RuleExpression(ts, Expect(ts, t.next, ":"))
       IN  Parsed(TernaryExpr(c.tree, t.tree, f.tree), f.next)

-----------------------------------------------------------------------------
(***************************************************************************)
(* Statements.                                                             *)
(***************************************************************************)
\* varDecl: (LET | CONST) ID ASSIGN expression
RuleVarDecl(ts, i) ==
  LET name == ExpectType(ts, i + 1, "id")
      e == RuleExpression(ts, Expect(ts, name, "="))
  IN  Parsed(VarDeclStmt(TokenAt(ts, i + 1)[2], e.tree), e.next)

RuleFunctionDecl(ts, i) ==
  LET params == RuleParameters(ts, ExpectType(ts, i + 1, "id"))
      body == RuleBlock(ts, params.next)
  IN  Parsed(FunctionStmt(TokenAt(ts, i + 1)[2], params.tree, body.tree), body.next)

\* The optional else belongs to the nearest if.
RuleIfStatement(ts, i) ==
  LET c == RuleExpression(ts, Expect(ts, i + 1, "("))
      t == RuleStatement(ts, Expect(ts, c.next, ")"))
      e == RuleStatement(ts, t.next + 1)
  IN  IF Keyword(ts, t.next) = "else"
      THEN Parsed(IfStmt(c.tree, t.tree, e.tree), e.next)
      ELSE Parsed(IfStmt(c.tree, t.tree, NoTree), t.next)

RuleWhileStatement(ts, i) ==
  LET c == RuleExpression(ts, Expect(ts, i + 1, "("))
      b == RuleStatement(ts, Expect(ts, c.next, ")"))
  IN  Parsed(WhileStmt(c.tree, b.tree), b.next)

\* The parentheses of print are not optional here.
RulePrintStatement(ts, i) ==
  LET es == RuleExpressionList(ts, Expect(ts, i + 1, "("))
  IN  Parsed(PrintStmt(es.tree), Expect(ts, es.next, ")"))

RuleReturnStatement(ts, i) ==
  LET e == RuleExpression(ts, i + 1) IN
  IF Symbol(ts, i + 1) = ";" THEN Parsed(ReturnStmt(NoTree), i + 1)
  ELSE Parsed(ReturnStmt(e.tree), e.next)

RuleAssignmentStatement(ts, i) ==
  LET e == RuleExpression(ts, i + 2)
  IN  Parsed(AssignStmt(ts[i][2], Symbol(ts, i + 1), e.tree), e.next)

\* A statement and the semicolon behind it.
Terminated(ts, s) == Parsed(s.tree, Expect(ts, s.next, ";"))

RuleAnyStatement(ts, i) ==
  LET word == Keyword(ts, i)
      e == RuleExpression(ts, i)
  IN  CASE word \in {"let", "const"} -> Terminated(ts, RuleVarDecl(ts, i))
        [] word = "fn" /\ Sees(ts, i + 1, "id") -> RuleFunctionDecl(ts, i)
        [] word = "if" -> RuleIfStatement(ts, i)
        [] word = "while" -> RuleWhileStatement(ts, i)
        [] word = "print" -> Terminated(ts, RulePrintStatement(ts, i))
        [] word = "return" -> Terminated(ts, RuleReturnStatement(ts, i))
        [] word = "break" -> Terminated(ts, Parsed(BreakStmt, i + 1))
        [] word = "continue" -> Terminated(ts, Parsed(ContinueStmt, i + 1))
        [] Symbol(ts, i) = "{" -> RuleBlock(ts, i)
        [] Sees(ts, i, "id") /\ Symbol(ts, i + 1) \in AssignOps ->
             Terminated(ts, RuleAssignmentStatement(ts, i))
        [] OTHER -> Terminated(ts, Parsed(ExprStmt(e.tree), e.next))

Rule(ts, rule, i) ==
  IF rule = "expression" THEN RuleTernary(ts, RuleLevel(ts, i, 1))
  ELSE RuleAnyStatement(ts, i)

\* program: statement* EOF
RuleProgram(ts) ==
  LET all == RuleStatements(ts, 1)
  IN  Parsed(all.tree, ExpectType(ts, all.next, "eof"))
=============================================================================
