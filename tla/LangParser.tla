----------------------------- MODULE LangParser -----------------------------
(***************************************************************************)
(* The recursive-descent parser of interpreter V4.  A program is the       *)
(* sequence of tokens its lexer returns, each the pair of a token type and *)
(* a text (the number itself for a number).  A parse function takes the    *)
(* tokens and a position and gives the tree it built and the position      *)
(* behind it; position 0 stands for the exception thrown at an unexpected  *)
(* token.  No token is found there, so the callers fail as well.           *)
(***************************************************************************)
EXTENDS LangTree

Failed == 0

TokenAt(ts, i) == IF i = Failed THEN <<"failed", "">>
                  ELSE IF i <= Len(ts) THEN ts[i] ELSE <<"eof", "">>

Sees(ts, i, type) == TokenAt(ts, i)[1] = type

Symbol(ts, i) == IF Sees(ts, i, "op") THEN TokenAt(ts, i)[2] ELSE ""

Keyword(ts, i) == IF Sees(ts, i, "keyword") THEN TokenAt(ts, i)[2] ELSE ""

\* Parser::expect for a symbol, and its counterpart for a type of token.
Expect(ts, i, symbol) == IF Symbol(ts, i) = symbol THEN i + 1 ELSE Failed

ExpectType(ts, i, type) == IF Sees(ts, i, type) THEN i + 1 ELSE Failed

Parsed(tree, i) == [tree |-> tree, next |-> i]

(***************************************************************************)
(* The left-associative binary operators, loosest first: parseLogicalOr,   *)
(* parseLogicalAnd, parseEquality, parseRelational, parseAdditive and      *)
(* parseMultiplicative.                                                    *)
(***************************************************************************)
Levels == << {"||"}, {"&&"}, {"==", "!="}, {"<", ">", "<=", ">="},
             {"+", "-"}, {"*", "/", "%"} >>

AssignOps == {"=", "+=", "-=", "*=", "/="}

RECURSIVE Descend(_, _, _), ParseLevel(_, _, _), ParseRest(_, _, _),
          ParseUnary(_, _), ParseCalls(_, _), ParseStatements(_, _)

\* The two functions that the others come back to; Descend is at the end.
ParseExpression(ts, i) == Descend(ts, "expression", i)

ParseStatement(ts, i) == Descend(ts, "statement", i)

\* The loops of parseBlock and parseProgram: they end before "}" or at the
\* end of the text.  (At a "}" on top level parseProgram fails; the modelled
\* texts have none.)
ParseStatements(ts, i) ==
  IF Symbol(ts, i) = "}" \/ Sees(ts, i, "eof") \/ i = Failed
  THEN Parsed(<<>>, i)
  ELSE LET s == ParseStatement(ts, i)
           rest == ParseStatements(ts, s.next)
       IN  Parsed(<<s.tree>> \o rest.tree, rest.next)

ParseBlock(ts, i) ==
  LET inner == ParseStatements(ts, Expect(ts, i, "{"))
  IN  Parsed(BlockStmt(inner.tree), Expect(ts, inner.next, "}"))

-----------------------------------------------------------------------------
(***************************************************************************)
(* Expressions.                                                            *)
(***************************************************************************)
\* Behind "(": expressions between commas up to and including ")".
ParseArgs(ts, i) ==
  LET RECURSIVE More(_, _)
      More(found, j) ==
        LET e == ParseExpression(ts, j)
            all == Append(found, e.tree) IN
        IF Symbol(ts, e.next) = "," THEN More(all, e.next + 1)
        ELSE Parsed(all, Expect(ts, e.next, ")"))
  IN  IF Symbol(ts, i) = ")" THEN Parsed(<<>>, i + 1) ELSE More(<<>>, i)

\* Behind "(": names between commas up to and including ")".
ParseParams(ts, i) ==
  LET RECURSIVE More(_, _)
      More(found, j) ==
        LET all == Append(found, TokenAt(ts, j)[2])
            next == ExpectType(ts, j, "id") IN
        IF Symbol(ts, next) = "," THEN More(all, next + 1)
        ELSE Parsed(all, Expect(ts, next, ")"))
  IN  IF Symbol(ts, i) = ")" THEN Parsed(<<>>, i + 1) ELSE More(<<>>, i)

ParsePrimary(ts, i) ==
  CASE Sees(ts, i, "int") -> Parsed(LiteralExpr(IntValue(ts[i][2])), i + 1)
    [] Sees(ts, i, "string") ->
         Parsed(LiteralExpr(StringValue(ts[i][2])), i + 1)
    [] Keyword(ts, i) \in {"true", "false"} ->
         Parsed(LiteralExpr(BoolValue(Keyword(ts, i) = "true")), i + 1)
    [] Sees(ts, i, "id") -> Parsed(VarExpr(ts[i][2]), i + 1)
    [] Symbol(ts, i) = "(" ->
         LET e == ParseExpression(ts, i + 1)
         IN  Parsed(e.tree, Expect(ts, e.next, ")"))
    [] Keyword(ts, i) = "fn" ->
         LET params == ParseParams(ts, Expect(ts, i + 1, "("))
             body == ParseBlock(ts, params.next)
         IN  Parsed(ClosureExpr(params.tree, body.tree), body.next)
    [] OTHER -> Parsed(NoTree, Failed)

\* The loop of parsePostfix.
ParseCalls(ts, callee) ==
  IF Symbol(ts, callee.next) # "(" THEN callee
  ELSE LET args == ParseArgs(ts, callee.next + 1) IN
       ParseCalls(ts, Parsed(CallExpr(callee.tree, args.tree), args.next))

ParseUnary(ts, i) ==
  CASE Symbol(ts, i) \in {"-", "!"} ->
         LET e == ParseUnary(ts, i + 1)
         IN  Parsed(UnaryExpr(Symbol(ts, i), e.tree), e.next)
    [] Keyword(ts, i) = "typeof" ->
         LET e == ParseUnary(ts, i + 1) IN Parsed(TypeofExpr(e.tree), e.next)
    [] OTHER -> ParseCalls(ts, ParsePrimary(ts, i))

ParseLevel(ts, i, level) ==
  IF level > Len(Levels) THEN ParseUnary(ts, i)
  ELSE ParseRest(ts, ParseLevel(ts, i, level + 1), level)

\* The loop of one level, with the operand parsed so far.
ParseRest(ts, left, level) ==
  IF Symbol(ts, left.next) \notin Levels[level] THEN left
  ELSE LET right == ParseLevel(ts, left.next + 1, level + 1) IN
       ParseRest(ts, Parsed(BinaryExpr(Symbol(ts, left.next), left.tree,
                                       right.tree), right.next), level)

\* parseTernary, to which parseExpression leads, behind its condition c:
\* right-associative.
ParseTernary(ts, c) ==
  IF Symbol(ts, c.next) # "?" THEN c
  ELSE LET t == ParseExpression(ts, c.next + 1)
           f == ParseExpression(ts, Expect(ts, t.next, ":"))
       IN  Parsed(TernaryExpr(c.tree, t.tree, f.tree), f.next)

-----------------------------------------------------------------------------
(***************************************************************************)
(* Statements.                                                             *)
(***************************************************************************)
ParseVarDecl(ts, i) ==
  LET name == ExpectType(ts, i + 1, "id")
      e == ParseExpression(ts, Expect(ts, name, "="))
  IN  Parsed(VarDeclStmt(TokenAt(ts, i + 1)[2], e.tree), Expect(ts, e.next, ";"))

ParseFunctionDecl(ts, i) ==
  LET name == ExpectType(ts, i + 1, "id")
      params == ParseParams(ts, Expect(ts, name, "("))
      body == ParseBlock(ts, params.next)
  IN  Parsed(FunctionStmt(TokenAt(ts, i + 1)[2], params.tree, body.tree),
             body.next)

ParseIfStmt(ts, i) ==
  LET c == ParseExpression(ts, Expect(ts, i + 1, "("))
      t == ParseStatement(ts, Expect(ts, c.next, ")"))
      e == ParseStatement(ts, t.next + 1)
  IN  IF Keyword(ts, t.next) = "else"
      THEN Parsed(IfStmt(c.tree, t.tree, e.tree), e.next)
      ELSE Parsed(IfStmt(c.tree, t.tree, NoTree), t.next)

ParseWhileStmt(ts, i) ==
  LET c == ParseExpression(ts, Expect(ts, i + 1, "("))
      b == ParseStatement(ts, Expect(ts, c.next, ")"))
  IN  Parsed(WhileStmt(c.tree, b.tree), b.next)

\* The parenthesis behind "print" is taken for the one around the arguments.
ParsePrintStmt(ts, i) ==
  LET hasParen == Symbol(ts, i + 1) = "("
      RECURSIVE More(_, _)
      More(found, j) ==
        LET e == ParseExpression(ts, j)
            all == Append(found, e.tree) IN
        IF Symbol(ts, e.next) = "," THEN More(all, e.next + 1)
        ELSE Parsed(all, IF hasParen THEN Expect(ts, e.next, ")") ELSE e.next)
      es == More(<<>>, IF hasParen THEN i + 2 ELSE i + 1)
  IN  Parsed(PrintStmt(es.tree), Expect(ts, es.next, ";"))

ParseReturnStmt(ts, i) ==
  LET e == ParseExpression(ts, i + 1) IN
  IF Symbol(ts, i + 1) = ";" THEN Parsed(ReturnStmt(NoTree), i + 2)
  ELSE Parsed(ReturnStmt(e.tree), Expect(ts, e.next, ";"))

(***************************************************************************)
(* A statement that begins with a name: an assignment, one call, or the    *)
(* bare name.  Any other expression that begins with a name is refused.    *)
(***************************************************************************)
ParseNamed(ts, i) ==
  LET name == ts[i][2]
      value == ParseExpression(ts, i + 2)
      args == ParseArgs(ts, i + 2)
  IN  CASE Symbol(ts, i + 1) \in AssignOps ->
             Parsed(AssignStmt(name, Symbol(ts, i + 1), value.tree),
                    Expect(ts, value.next, ";"))
        [] Symbol(ts, i + 1) = "(" ->
             Parsed(ExprStmt(CallExpr(VarExpr(name), args.tree)),
                    Expect(ts, args.next, ";"))
        [] OTHER -> Parsed(ExprStmt(VarExpr(name)), Expect(ts, i + 1, ";"))

ParseAnyStatement(ts, i) ==
  LET word == Keyword(ts, i)
      e == ParseExpression(ts, i)
  IN  CASE word \in {"let", "const"} -> ParseVarDecl(ts, i)
        [] word = "fn" -> ParseFunctionDecl(ts, i)
        [] word = "if" -> ParseIfStmt(ts, i)
        [] word = "while" -> ParseWhileStmt(ts, i)
        [] word = "print" -> ParsePrintStmt(ts, i)
        [] word = "return" -> ParseReturnStmt(ts, i)
        [] word = "break" -> Parsed(BreakStmt, Expect(ts, i + 1, ";"))
        [] word = "continue" -> Parsed(ContinueStmt, Expect(ts, i + 1, ";"))
        [] Symbol(ts, i) = "{" -> ParseBlock(ts, i)
        [] Sees(ts, i, "id") -> ParseNamed(ts, i)
        [] OTHER -> Parsed(ExprStmt(e.tree), Expect(ts, e.next, ";"))

Descend(ts, rule, i) ==
  IF rule = "expression" THEN ParseTernary(ts, ParseLevel(ts, i, 1))
  ELSE ParseAnyStatement(ts, i)

ParseProgram(ts) ==
  LET all == ParseStatements(ts, 1) IN
  Parsed(all.tree, ExpectType(ts, all.next, "eof"))
=============================================================================
