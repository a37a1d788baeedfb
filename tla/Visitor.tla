------------------------------- MODULE Visitor -------------------------------
(***************************************************************************)
(* The interpreter of the ANTLR front end, src/antlr/InterpreterVisitor.hpp.*)
(* Values, scopes and exceptions are those of Evaluator; its state has one *)
(* field more, cur, the visitor's currentEnv: the scope is not passed down *)
(* as an argument but kept in a member, which visitBlock puts back at the  *)
(* end of a block and a call after its body or a return, while a break or  *)
(* a continue passes both by.  The trees are those of LangGrammar.         *)
(***************************************************************************)
EXTENDS Evaluator

Enter(st, parent) ==
  LET new == NewEnv(st, parent) IN [new EXCEPT !.cur = Newest(new)]

BackTo(st, scope) == [st EXCEPT !.cur = scope]

RECURSIVE Visit(_, _), VisitAll(_, _), VisitPrint(_, _), VisitWhile(_, _),
          VisitOps(_, _, _, _), VisitArgs(_, _, _)

-----------------------------------------------------------------------------
(***************************************************************************)
(* Expressions.                                                            *)
(***************************************************************************)
\* visitAdditive, visitMultiplicative, visitRelational and visitEquality.
VisitBinary(e, st) ==
  LET l == Visit(e.left, st)
      r == Visit(e.right, l)
  IN  IF Running(r) THEN Combine(r, e.op, l.val, r.val) ELSE r

\* visitLogicalAnd and visitLogicalOr: the right operand is visited only when
\* the left one does not decide, and the operand itself is the value.
VisitLogical(e, st) ==
  LET l == Visit(e.left, st) IN
  IF ~Running(l) \/ ToBool(l.val) = (e.op = "||") THEN l ELSE Visit(e.right, l)

VisitTernary(e, st) ==
  LET c == Visit(e.condition, st)
  IN  Visit(IF ToBool(c.val) THEN e.trueExpr ELSE e.falseExpr, c)

VisitUnary(e, st) ==
  LET v == Visit(e.operand, st)
  IN  IF Running(v) THEN Yields(v, Negated(e.op, v.val)) ELSE v

\* Value has no constructor for a C string: the name of the type is made a bool.
VisitTypeof(e, st) ==
  LET v == Visit(e.operand, st)
  IN  IF Running(v) THEN Yields(v, BoolValue(TRUE)) ELSE v

(***************************************************************************)
(* Decrements.  In front, getVarName looks for a variable without any      *)
(* arguments behind it and does not visit the operand.                     *)
(***************************************************************************)
Lowered(x, st) ==
  LET old == Get(st, st.cur, x)
      type == IF old.val.type = "int" THEN "int" ELSE "double"
  IN  IF Running(old)
      THEN Set(old, old.cur, x, Value(type, ToNumber(old.val) - 1, ""))
      ELSE old

NameOf(e) == IF e.node = "var" THEN e.name ELSE ""

DecrementedName(e) ==
  IF e.node = "postfix"
  THEN IF \A k \in DOMAIN e.ops : e.ops[k] \in {[op |-> "dec"], [op |-> "call", args |-> <<>>]}
       THEN NameOf(e.primary) ELSE ""
  ELSE NameOf(e)

VisitPredec(e, st) ==
  LET x == DecrementedName(e.operand)
      new == Lowered(x, st)
  IN  IF x = "" THEN Throw(st, "error")
      ELSE IF Running(new) THEN Get(new, new.cur, x) ELSE new

\* Behind a primary: the variable is read, lowered, and its old value yielded.
VisitPostdec(x, st) == IF x = "" THEN Throw(st, "error") ELSE Lowered(x, st)

(***************************************************************************)
(* A call of the value st yields: the arguments come first, then their     *)
(* number is compared.                                                     *)
(***************************************************************************)
VisitArgs(args, values, st) ==
  IF args = <<>> \/ ~Running(st) THEN [after |-> st, values |-> values]
  ELSE LET v == Visit(Head(args), st)
       IN  VisitArgs(Tail(args), Append(values, v.val), v)

VisitCall(args, st) ==
  LET f == st.val.function
      passed == VisitArgs(args, <<>>, st)
      called == Enter(Burn(passed.after), f.env)
      bound == [called EXCEPT !.envs[called.cur].vars =
                  [x \in {f.params[i] : i \in DOMAIN f.params} |->
                     passed.values[CHOOSE i \in DOMAIN f.params :
                       /\ f.params[i] = x
                       /\ \A j \in i + 1 .. Len(f.params) : f.params[j] # x]]]
      done == Visit(f.body, bound)
  IN  CASE st.val.type # "function" -> Throw(st, "error")
        [] ~Running(passed.after) -> passed.after
        [] Len(passed.values) # Len(f.params) -> Throw(passed.after, "error")
        [] Running(done) -> BackTo(Yields(done, NoneValue), st.cur)
        [] done.exc = "return" -> BackTo([done EXCEPT !.exc = "none"], st.cur)
        [] OTHER -> done

(***************************************************************************)
(* visitFunctionCall: what stands behind a primary, from left to right.    *)
(* The argument lists are counted apart from the calls, and a call without *)
(* arguments has no list: it takes that of the next call that has one.     *)
(***************************************************************************)
ArgLists(ops) ==
  LET calls == SelectSeq(ops, LAMBDA o : o.op = "call" /\ o.args # <<>>)
  IN  [k \in DOMAIN calls |-> calls[k].args]

VisitOps(e, k, list, st) ==
  LET lists == ArgLists(e.ops)
      args == IF list \in DOMAIN lists THEN lists[list] ELSE <<>>
  IN  CASE k > Len(e.ops) \/ ~Running(st) -> st
        [] e.ops[k].op = "dec" ->
             VisitOps(e, k + 1, list, VisitPostdec(NameOf(e.primary), st))
        [] OTHER -> VisitOps(e, k + 1, list + 1, VisitCall(args, st))

VisitPostfix(e, st) == VisitOps(e, 1, 1, Visit(e.primary, st))

-----------------------------------------------------------------------------
(***************************************************************************)
(* Statements.                                                             *)
(***************************************************************************)
\* faulty: the scope of the block stays the current one.
VisitBlock_Leaky(s, st) == VisitAll(s.statements, Enter(st, st.cur))

VisitBlock(s, st) ==
  LET done == VisitAll(s.statements, Enter(st, st.cur))
  IN  IF Running(done) THEN BackTo(done, st.cur) ELSE done

VisitVarDecl(s, st) ==
  LET v == Visit(s.init, st)
  IN  IF Running(v) THEN Define(v, v.cur, s.name, v.val) ELSE v

VisitAssign(s, st) ==
  LET v == Visit(s.value, st)
      old == Get(v, v.cur, s.name)
      op == CASE s.op = "+=" -> "+" [] s.op = "-=" -> "-" [] s.op = "*=" -> "*"
  IN  CASE ~Running(v) -> v
        [] s.op = "=" -> Set(v, v.cur, s.name, v.val)
        [] ~Running(old) -> old
        [] OTHER -> Set(v, v.cur, s.name, Arithmetic(op, old.val, v.val))

VisitIf(s, st) ==
  LET c == Visit(s.condition, st)
  IN  CASE ~Running(c) -> c
        [] ToBool(c.val) -> Visit(s.thenStmt, c)
        [] s.elseStmt # NoTree -> Visit(s.elseStmt, c)
        [] OTHER -> c

\* Around the loop a break is caught, around each iteration a continue.
VisitLoop(s, st) ==
  LET done == VisitWhile(s, st)
  IN  IF done.exc = "break" THEN [done EXCEPT !.exc = "none"] ELSE done

VisitWhile(s, st) ==
  LET c == Visit(s.condition, Burn(st))
      body == Visit(s.body, c)
  IN  CASE ~Running(c) \/ ~ToBool(c.val) -> c
        [] body.exc = "continue" -> VisitWhile(s, [body EXCEPT !.exc = "none"])
        [] Running(body) -> VisitWhile(s, body)
        [] OTHER -> body

VisitReturn(s, st) ==
  LET v == IF s.value = NoTree THEN Yields(st, NoneValue) ELSE Visit(s.value, st)
  IN  IF Running(v) THEN Throw(v, "return") ELSE v

VisitPrint(exprs, st) ==
  IF exprs = <<>> THEN st
  ELSE LET v == Visit(Head(exprs), st) IN
       VisitPrint(Tail(exprs),
                  IF Running(v) THEN [v EXCEPT !.out = Append(@, Printed(v.val))]
                  ELSE v)

VisitAll(stmts, st) ==
  IF stmts = <<>> THEN st ELSE VisitAll(Tail(stmts), Visit(Head(stmts), st))

\* The virtual method of a node.
Visit(n, st) ==
  CASE ~Running(st) -> st
    [] n.node = "literal" -> Yields(st, n.value)
    [] n.node = "var" -> Get(st, st.cur, n.name)
    [] n.node = "paren" -> Visit(n.expr, st)
    [] n.node = "binary" /\ n.op \in {"&&", "||"} -> VisitLogical(n, st)
    [] n.node = "binary" -> VisitBinary(n, st)
    [] n.node = "unary" -> VisitUnary(n, st)
    [] n.node = "predec" -> VisitPredec(n, st)
    [] n.node = "postfix" -> VisitPostfix(n, st)
    [] n.node = "ternary" -> VisitTernary(n, st)
    [] n.node = "typeof" -> VisitTypeof(n, st)
    [] n.node = "closure" -> Yields(st, Closure(n, st.cur))
    [] n.node = "expr" -> Visit(n.expr, st)
    [] n.node = "block" -> VisitBlock(n, st)
    [] n.node = "let" -> VisitVarDecl(n, st)
    [] n.node = "assign" -> VisitAssign(n, st)
    [] n.node = "print" -> VisitPrint(n.exprs, st)
    [] n.node = "if" -> VisitIf(n, st)
    [] n.node = "while" -> VisitLoop(n, st)
    [] n.node = "return" -> VisitReturn(n, st)
    [] n.node \in {"break", "continue"} -> Throw(st, n.node)
    [] n.node = "function" -> Define(st, st.cur, n.name, Closure(n, st.cur))

\* visitProgram, in the global scope.
VisitProgram(program) ==
  VisitAll(program, [envs |-> Start.envs, out |-> <<>>, exc |-> "none",
                     val |-> NoneValue, fuel |-> Fuel, cur |-> 1])
=============================================================================
