---------------------------- MODULE InterpreterV2 ----------------------------
(***************************************************************************)
(* Interpreter V2 (src/include/ast/interpreter_v2.hpp).  It differs from V4*)
(* in kind: functions live in a table that parsing fills, a call works on  *)
(* a copy of the caller's scopes, and binary operators are parsed by       *)
(* climbing precedences.  A state st of its evaluation is a record of the  *)
(* scopes, innermost last, and the fields out, exc, val and fuel that the  *)
(* state of Evaluator has, too.  Division and concatenation are left out.  *)
(***************************************************************************)
EXTENDS LangParser, Evaluator

(***************************************************************************)
(* nextToken: the tokens V2 makes of a text given as tokens of V4.  What   *)
(* it does not know ends the text for the parser that looks at it.         *)
(***************************************************************************)
V2Keywords == {"let", "fn", "return", "if", "else", "while", "print"}

V2Token(t) ==
  CASE t[1] = "keyword" /\ t[2] \in {"true", "false"} ->
         << <<"int", IF t[2] = "true" THEN 1 ELSE 0>> >>
    [] t[1] = "keyword" /\ t[2] \notin V2Keywords -> << <<"id", t[2]>> >>
    [] t[1] = "op" /\ t[2] \in {"+=", "-=", "*="} ->
         << <<"op", CASE t[2] = "+=" -> "+" [] t[2] = "-=" -> "-" [] t[2] = "*=" -> "*">>,
            <<"op", "=">> >>
    [] t[1] = "op" /\ t[2] \in {"!", "%", "?", ":"} -> << <<"eof", "?">> >>
    [] OTHER -> <<t>>

RECURSIVE V2Lexed(_)
V2Lexed(ts) == IF ts = <<>> THEN <<>> ELSE V2Token(Head(ts)) \o V2Lexed(Tail(ts))

-----------------------------------------------------------------------------
(***************************************************************************)
(* The parser.                                                             *)
(***************************************************************************)
V2Prec(op) ==
  CASE op = "||" -> 1
    [] op = "&&" -> 2
    [] op \in Comparisons -> 3
    [] op \in {"+", "-"} -> 4
    [] op = "*" -> 5
    [] OTHER -> -1

RECURSIVE V2Parse(_, _, _), V2BinOpRHS(_, _, _), V2Tighter(_, _, _),
          V2Args(_, _), V2Statements(_, _)

\* The functions that the others come back to; V2Parse is below.
V2Primary(ts, i) == V2Parse(ts, "primary", i)

V2Statement(ts, i) == V2Parse(ts, "statement", i)

V2Block(ts, i) == V2Parse(ts, "block", i)

V2Expression(ts, i) == V2Parse(ts, "expression", i)

\* parseBinOpRHS with the operand parsed so far, and its inner loop.
V2BinOpRHS(ts, p, lhs) ==
  LET op == Symbol(ts, lhs.next)
      rhs == V2Tighter(ts, V2Prec(op), V2Primary(ts, lhs.next + 1))
  IN  IF V2Prec(op) < p THEN lhs
      ELSE V2BinOpRHS(ts, p, Parsed(BinaryExpr(op, lhs.tree, rhs.tree), rhs.next))

V2Tighter(ts, p, rhs) ==
  LET p2 == V2Prec(Symbol(ts, rhs.next))
  IN  IF p2 <= p THEN rhs ELSE V2Tighter(ts, p, V2BinOpRHS(ts, p2, rhs))

V2Args(ts, i) ==
  LET e == V2Expression(ts, i)
      more == V2Args(ts, e.next + 1)
  IN  IF Symbol(ts, e.next) = "," THEN Parsed(<<e.tree>> \o more.tree, more.next)
      ELSE Parsed(<<e.tree>>, e.next)

V2AnyPrimary(ts, i) ==
  LET args == IF Symbol(ts, i + 2) = ")" THEN Parsed(<<>>, i + 2) ELSE V2Args(ts, i + 2)
      e == V2Expression(ts, i + 1)
  IN  CASE Sees(ts, i, "int") -> Parsed(LiteralExpr(IntValue(ts[i][2])), i + 1)
        [] Sees(ts, i, "string") -> Parsed(LiteralExpr(StringValue(ts[i][2])), i + 1)
        [] Sees(ts, i, "id") /\ Symbol(ts, i + 1) = "(" ->
             Parsed(CallExpr(VarExpr(ts[i][2]), args.tree), Expect(ts, args.next, ")"))
        [] Sees(ts, i, "id") -> Parsed(VarExpr(ts[i][2]), i + 1)
        [] Symbol(ts, i) = "(" -> Parsed(e.tree, Expect(ts, e.next, ")"))
        [] OTHER -> Parsed(NoTree, Failed)

\* The loop of parseBlock; only "}" ends it.
V2Statements(ts, i) ==
  IF Symbol(ts, i) = "}" \/ i = Failed THEN Parsed(<<>>, i)
  ELSE LET s == V2Statement(ts, i)
           rest == V2Statements(ts, s.next)
       IN  Parsed(<<s.tree>> \o rest.tree, rest.next)

V2BlockStmt(ts, i) ==
  LET inner == V2Statements(ts, Expect(ts, i, "{"))
  IN  Parsed(BlockStmt(inner.tree), Expect(ts, inner.next, "}"))

V2Print(ts, i) ==
  LET paren == Symbol(ts, i + 1) = "("
      es == V2Args(ts, IF paren THEN i + 2 ELSE i + 1)
  IN  Parsed(PrintStmt(es.tree),
             Expect(ts, IF paren THEN Expect(ts, es.next, ")") ELSE es.next, ";"))

V2If(ts, i) ==
  LET c == V2Expression(ts, Expect(ts, i + 1, "("))
      t == V2Statement(ts, Expect(ts, c.next, ")"))
      e == V2Statement(ts, t.next + 1)
  IN  IF Keyword(ts, t.next) = "else"
      THEN Parsed(IfStmt(c.tree, t.tree, e.tree), e.next)
      ELSE Parsed(IfStmt(c.tree, t.tree, NoTree), t.next)

\* Behind a name that is no assignment the expression goes on with an
\* operator; a call is not looked for any more.
V2AnyStatement(ts, i) ==
  LET word == Keyword(ts, i)
      named == ExpectType(ts, i + 1, "id")
      let == V2Expression(ts, Expect(ts, named, "="))
      c == V2Expression(ts, Expect(ts, i + 1, "("))
      body == V2Statement(ts, Expect(ts, c.next, ")"))
      result == IF Symbol(ts, i + 1) = ";" THEN Parsed(NoTree, i + 1)
                ELSE V2Expression(ts, i + 1)
      value == V2Expression(ts, i + 2)
      e == IF Sees(ts, i, "id")
           THEN V2BinOpRHS(ts, 0, Parsed(VarExpr(ts[i][2]), i + 1))
           ELSE V2Expression(ts, i)
  IN  CASE word = "let" ->
             Parsed(VarDeclStmt(TokenAt(ts, i + 1)[2], let.tree), Expect(ts, let.next, ";"))
        [] word = "print" -> V2Print(ts, i)
        [] word = "if" -> V2If(ts, i)
        [] word = "while" -> Parsed(WhileStmt(c.tree, body.tree), body.next)
        [] word = "return" -> Parsed(ReturnStmt(result.tree), Expect(ts, result.next, ";"))
        [] Symbol(ts, i) = "{" -> V2Block(ts, i)
        [] Sees(ts, i, "id") /\ Symbol(ts, i + 1) = "=" ->
             Parsed(AssignStmt(ts[i][2], "=", value.tree), Expect(ts, value.next, ";"))
        [] OTHER -> Parsed(ExprStmt(e.tree), Expect(ts, e.next, ";"))

V2Parse(ts, rule, i) ==
  CASE rule = "primary" -> V2AnyPrimary(ts, i)
    [] rule = "expression" -> V2BinOpRHS(ts, 0, V2Primary(ts, i))
    [] rule = "block" -> V2BlockStmt(ts, i)
    [] rule = "statement" -> V2AnyStatement(ts, i)

\* parseFunction, which enters the definition into funcTable.
V2Function(ts, i) ==
  LET params == ParseParams(ts, Expect(ts, ExpectType(ts, i + 1, "id"), "("))
      body == V2Block(ts, params.next)
  IN  Parsed([name |-> TokenAt(ts, i + 1)[2], params |-> params.tree, body |-> body.tree],
             body.next)

V2Enter(table, f) ==
  [x \in DOMAIN table \cup {f.name} |-> IF x = f.name THEN f ELSE table[x]]

\* The loop of main: the statements, and the last definition of each function.
RECURSIVE V2Program(_, _, _, _)
V2Program(ts, i, table, stmts) ==
  LET f == V2Function(ts, i)
      s == V2Statement(ts, i)
  IN  CASE i = Failed \/ Sees(ts, i, "eof") ->
             [functions |-> table, statements |-> stmts, next |-> i]
        [] Keyword(ts, i) = "fn" ->
             V2Program(ts, f.next, V2Enter(table, f.tree), stmts)
        [] OTHER -> V2Program(ts, s.next, table, Append(stmts, s.tree))

-----------------------------------------------------------------------------
(***************************************************************************)
(* Env: the scopes, innermost last.                                        *)
(***************************************************************************)
Push(st, scope) == [st EXCEPT !.scopes = Append(@, scope)]

Pop(st) == [st EXCEPT !.scopes = SubSeq(@, 1, Len(@) - 1)]

\* The scopes that hold x; get and has look for the last of them.
Holders(st, x) == {i \in DOMAIN st.scopes : x \in DOMAIN st.scopes[i]}

Innermost(scopes) == CHOOSE i \in scopes : \A j \in scopes : j <= i

V2Get(st, x) ==
  IF Holders(st, x) = {} THEN Throw(st, "error")
  ELSE Yields(st, st.scopes[Innermost(Holders(st, x))][x])

V2Put(st, i, x, v) ==
  [st EXCEPT !.scopes[i] = [y \in DOMAIN @ \cup {x} |-> IF y = x THEN v ELSE @[y]]]

RECURSIVE V2Eval(_, _, _), V2EvalArgs(_, _, _, _), V2Exec(_, _, _),
          V2ExecAll(_, _, _), V2ExecPrint(_, _, _), V2ExecWhile(_, _, _)

\* Strings compare as the number 0 that they carry.
V2Combine(op, l, r) ==
  IntValue(CASE op \in {"+", "-", "*"} -> Arithmetic(op, l, r).num
             [] op \in Comparisons -> BoolValue(Compare(op, l.num, r.num)).num
             [] op = "&&" -> BoolValue(l.num # 0 /\ r.num # 0).num
             [] op = "||" -> BoolValue(l.num # 0 \/ r.num # 0).num)

V2EvalBinary(fs, e, st) ==
  LET l == V2Eval(fs, e.left, st)
      r == V2Eval(fs, e.right, l)
  IN  IF Running(r) THEN Yields(r, V2Combine(e.op, l.val, r.val)) ELSE r

V2EvalArgs(fs, args, values, st) ==
  IF args = <<>> \/ ~Running(st) THEN [after |-> st, values |-> values]
  ELSE LET v == V2Eval(fs, Head(args), st)
       IN  V2EvalArgs(fs, Tail(args), Append(values, v.val), v)

(***************************************************************************)
(* CallExpr::eval.  The body runs on a copy of the caller's scopes: it may *)
(* read the caller's variables, and what it writes to them is lost.        *)
(***************************************************************************)
V2Call(fs, e, st) ==
  LET f == fs[e.callee.name]
      passed == V2EvalArgs(fs, e.args, <<>>, st)
      local == [x \in {f.params[i] : i \in DOMAIN f.params} |->
                  passed.values[CHOOSE i \in DOMAIN f.params :
                    /\ f.params[i] = x
                    /\ \A j \in i + 1 .. Len(f.params) : f.params[j] # x]]
      done == V2Exec(fs, f.body, Push(Burn(passed.after), local))
      back == [done EXCEPT !.scopes = st.scopes]
  IN  CASE e.callee.name \notin DOMAIN fs -> Throw(st, "error")
        [] Len(f.params) # Len(e.args) -> Throw(st, "error")
        [] ~Running(passed.after) -> passed.after
        [] done.exc = "return" -> [back EXCEPT !.exc = "none"]
        [] OTHER -> Yields(back, IntValue(0))

V2Eval(fs, e, st) ==
  CASE ~Running(st) -> st
    [] e.node = "literal" -> Yields(st, e.value)
    [] e.node = "var" -> V2Get(st, e.name)
    [] e.node = "binary" -> V2EvalBinary(fs, e, st)
    [] e.node = "call" -> V2Call(fs, e, st)

-----------------------------------------------------------------------------
(***************************************************************************)
(* Statements.                                                             *)
(***************************************************************************)
V2ExecBlock(fs, s, st) ==
  LET done == V2ExecAll(fs, s.statements, Push(st, <<>>))
  IN  IF Running(done) THEN Pop(done) ELSE done

V2ExecLet(fs, s, st) ==
  LET v == V2Eval(fs, s.init, st)
  IN  IF Running(v) THEN V2Put(v, Len(v.scopes), s.name, v.val) ELSE v

\* The name is looked for before the value is computed.
V2ExecAssign(fs, s, st) ==
  LET v == V2Eval(fs, s.value, st)
  IN  CASE Holders(st, s.name) = {} -> Throw(st, "error")
        [] ~Running(v) -> v
        [] OTHER -> V2Put(v, Innermost(Holders(v, s.name)), s.name, v.val)

V2ExecIf(fs, s, st) ==
  LET c == V2Eval(fs, s.condition, st)
  IN  CASE ~Running(c) -> c
        [] c.val.num # 0 -> V2Exec(fs, s.thenStmt, c)
        [] s.elseStmt # NoTree -> V2Exec(fs, s.elseStmt, c)
        [] OTHER -> c

V2ExecWhile(fs, s, st) ==
  LET c == V2Eval(fs, s.condition, Burn(st))
      body == V2Exec(fs, s.body, c)
  IN  CASE ~Running(c) \/ c.val.num = 0 -> c
        [] Running(body) -> V2ExecWhile(fs, s, body)
        [] OTHER -> body

V2ExecReturn(fs, s, st) ==
  LET v == IF s.value = NoTree THEN Yields(st, IntValue(0))
           ELSE V2Eval(fs, s.value, st)
  IN  IF Running(v) THEN Throw(v, "return") ELSE v

V2ExecPrint(fs, exprs, st) ==
  IF exprs = <<>> THEN st
  ELSE LET v == V2Eval(fs, Head(exprs), st) IN
       V2ExecPrint(fs, Tail(exprs),
                   IF Running(v) THEN [v EXCEPT !.out = Append(@, Printed(v.val))]
                   ELSE v)

V2ExecAll(fs, stmts, st) ==
  IF stmts = <<>> THEN st
  ELSE V2ExecAll(fs, Tail(stmts), V2Exec(fs, Head(stmts), st))

V2Exec(fs, s, st) ==
  CASE ~Running(st) -> st
    [] s.node = "expr" -> V2Eval(fs, s.expr, st)
    [] s.node = "block" -> V2ExecBlock(fs, s, st)
    [] s.node = "let" -> V2ExecLet(fs, s, st)
    [] s.node = "assign" -> V2ExecAssign(fs, s, st)
    [] s.node = "print" -> V2ExecPrint(fs, s.exprs, st)
    [] s.node = "if" -> V2ExecIf(fs, s, st)
    [] s.node = "while" -> V2ExecWhile(fs, s, st)
    [] s.node = "return" -> V2ExecReturn(fs, s, st)

V2Run(parsed) ==
  V2ExecAll(parsed.functions, parsed.statements,
            [scopes |-> << <<>> >>, out |-> <<>>, exc |-> "none",
             val |-> IntValue(0), fuel |-> Fuel])
=============================================================================
