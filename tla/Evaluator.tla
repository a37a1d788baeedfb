------------------------------ MODULE Evaluator ------------------------------
(***************************************************************************)
(* The tree-walking evaluator of interpreter V4: Expr::eval and            *)
(* Stmt::exec.  A state st of the evaluation is a record                   *)
(*   envs   the scopes created so far; a scope has variables and a parent  *)
(*          (0 for none), and lives as long as a closure may refer to it   *)
(*   out    what was printed                                               *)
(*   exc    the C++ exception in flight: "none", "return", "break",        *)
(*          "continue", "error" (std::runtime_error), "trap" (remainder    *)
(*          by zero) or "fuel" (the bound on loop iterations and calls)    *)
(*   val    the value of the last expression or of the return in flight    *)
(*   fuel   iterations and calls left                                      *)
(* While an exception is in flight no operator changes the state except    *)
(* those that catch it.                                                    *)
(***************************************************************************)
EXTENDS LangTree

CONSTANT Fuel
ASSUME FuelAssumption == Fuel \in Nat

Running(st) == st.exc = "none"

Throw(st, exc) == [st EXCEPT !.exc = exc]

Yields(st, v) == [st EXCEPT !.val = v]

Burn(st) == IF st.fuel = 0 THEN Throw(st, "fuel")
            ELSE [st EXCEPT !.fuel = @ - 1]

-----------------------------------------------------------------------------
(***************************************************************************)
(* Env: scopes and the chain of their parents.                             *)
(***************************************************************************)
NewEnv(st, parent) ==
  [st EXCEPT !.envs = Append(@, [vars |-> <<>>, parent |-> parent])]

Newest(st) == Len(st.envs)

Define(st, env, x, v) ==
  [st EXCEPT !.envs[env].vars =
     [y \in DOMAIN @ \cup {x} |-> IF y = x THEN v ELSE @[y]]]

\* The scope in which Env::get and Env::set find x, 0 when there is none.
RECURSIVE ScopeOf(_, _, _)
ScopeOf(st, env, x) ==
  IF env = 0 \/ x \in DOMAIN st.envs[env].vars THEN env
  ELSE ScopeOf(st, st.envs[env].parent, x)

Get(st, env, x) ==
  LET scope == ScopeOf(st, env, x) IN
  IF scope = 0 THEN Throw(st, "error") ELSE Yields(st, st.envs[scope].vars[x])

Set(st, env, x, v) ==
  LET scope == ScopeOf(st, env, x) IN
  IF scope = 0 THEN Throw(st, "error") ELSE Define(st, scope, x, v)

-----------------------------------------------------------------------------
(***************************************************************************)
(* Operators.  Arithmetic stays int between ints and is double otherwise.  *)
(***************************************************************************)
Arithmetic(op, l, r) ==
  Value(IF l.type = "int" /\ r.type = "int" THEN "int" ELSE "double",
        CASE op = "+" -> ToNumber(l) + ToNumber(r)
          [] op = "-" -> ToNumber(l) - ToNumber(r)
          [] op = "*" -> ToNumber(l) * ToNumber(r), "")

\* The remainder of C++ and of LLVM's srem: its sign is the dividend's.
Remainder(a, b) ==
  LET Abs(n) == IF n < 0 THEN -n ELSE n
      rem == Abs(a) % Abs(b)
  IN  IF a < 0 THEN -rem ELSE rem

Compare(op, a, b) == CASE op = "==" -> a = b
                       [] op = "!=" -> a # b
                       [] op = "<" -> a < b
                       [] op = ">" -> a > b
                       [] op = "<=" -> a <= b
                       [] op = ">=" -> a >= b

Comparisons == {"==", "!=", "<", ">", "<=", ">="}

\* BinaryExpr::eval behind the evaluation of both operands ("&&" and "||"
\* evaluate both, too).  Concatenation of strings is left out.
Combine(st, op, l, r) ==
  CASE op \in {"+", "-", "*"} -> Yields(st, Arithmetic(op, l, r))
    [] op = "%" -> IF ToNumber(r) = 0 THEN Throw(st, "trap")
                   ELSE Yields(st, IntValue(Remainder(ToNumber(l), ToNumber(r))))
    [] op \in Comparisons ->
         Yields(st, BoolValue(
           IF op \in {"==", "!="} /\ l.type = "string" /\ r.type = "string"
           THEN (l.text = r.text) = (op = "==")
           ELSE Compare(op, ToNumber(l), ToNumber(r))))
    [] op = "&&" -> Yields(st, BoolValue(ToBool(l) /\ ToBool(r)))
    [] op = "||" -> Yields(st, BoolValue(ToBool(l) \/ ToBool(r)))
    [] OTHER -> Throw(st, "error")

Negated(op, v) ==
  IF op = "!" THEN BoolValue(~ToBool(v))
  ELSE Value(IF v.type = "int" THEN "int" ELSE "double", -ToNumber(v), "")

TypeNames == {"int", "double", "string", "bool", "function"}

TypeName(v) == StringValue(IF v.type \in TypeNames THEN v.type ELSE "none")

\* What is printed of a value; the spelling of numbers is left out.
Printed(v) == IF v.type = "string" THEN <<"text", v.text>>
              ELSE <<"number", ToNumber(v)>>

RECURSIVE Eval(_, _, _), BindArgs(_, _, _, _, _, _), Exec(_, _, _),
          ExecAll(_, _, _), ExecWhile(_, _, _), ExecPrint(_, _, _)

EvalBinary(e, env, st) ==
  LET l == Eval(e.left, env, st)
      r == Eval(e.right, env, l)
  IN  IF Running(r) THEN Combine(r, e.op, l.val, r.val) ELSE r

EvalUnary(e, env, st) ==
  LET v == Eval(e.operand, env, st)
  IN  IF Running(v) THEN Yields(v, Negated(e.op, v.val)) ELSE v

EvalTernary(e, env, st) ==
  LET c == Eval(e.condition, env, st)
  IN  Eval(IF ToBool(c.val) THEN e.trueExpr ELSE e.falseExpr, env, c)

\* ClosureExpr::eval and FunctionStmt::exec keep the current scope.
Closure(n, env) ==
  FunctionValue([params |-> n.params, body |-> n.body, env |-> env])

EvalTypeof(e, env, st) ==
  LET v == Eval(e.operand, env, st)
  IN  IF Running(v) THEN Yields(v, TypeName(v.val)) ELSE v

(***************************************************************************)
(* CallExpr::eval.  The scope of the call is a child of the one the        *)
(* function was defined in.  A return is caught here; a break or continue  *)
(* is not, and goes on to a loop of the caller.                            *)
(***************************************************************************)
EvalCall(e, env, st) ==
  LET callee == Eval(e.callee, env, st)
      f == callee.val.function
      called == NewEnv(Burn(callee), f.env)
      bound == BindArgs(f.params, e.args, 1, env, Newest(called), called)
      done == Exec(f.body, Newest(called), bound)
  IN  CASE ~Running(callee) -> callee
        [] callee.val.type # "function" -> Throw(callee, "error")
        [] Len(e.args) # Len(f.params) -> Throw(callee, "error")
        [] done.exc = "return" -> [done EXCEPT !.exc = "none"]
        [] OTHER -> Yields(done, NoneValue)

BindArgs(params, args, i, env, callEnv, st) ==
  IF i > Len(args) THEN st
  ELSE LET arg == Eval(args[i], env, st) IN
       BindArgs(params, args, i + 1, env, callEnv,
                IF Running(arg) THEN Define(arg, callEnv, params[i], arg.val)
                ELSE arg)

Eval(e, env, st) ==
  CASE ~Running(st) -> st
    [] e.node = "literal" -> Yields(st, e.value)
    [] e.node = "var" -> Get(st, env, e.name)
    [] e.node = "binary" -> EvalBinary(e, env, st)
    [] e.node = "unary" -> EvalUnary(e, env, st)
    [] e.node = "ternary" -> EvalTernary(e, env, st)
    [] e.node = "call" -> EvalCall(e, env, st)
    [] e.node = "closure" -> Yields(st, Closure(e, env))
    [] e.node = "typeof" -> EvalTypeof(e, env, st)

-----------------------------------------------------------------------------
(***************************************************************************)
(* Statements.                                                             *)
(***************************************************************************)
ExecBlock(s, env, st) ==
  LET inner == NewEnv(st, env)
  IN  ExecAll(s.statements, Newest(inner), inner)

ExecVarDecl(s, env, st) ==
  LET v == Eval(s.init, env, st)
  IN  IF Running(v) THEN Define(v, env, s.name, v.val) ELSE v

ExecAssign(s, env, st) ==
  LET v == Eval(s.value, env, st)
      old == Get(v, env, s.name)
      op == CASE s.op = "+=" -> "+" [] s.op = "-=" -> "-" [] s.op = "*=" -> "*"
  IN  CASE ~Running(v) -> v
        [] s.op = "=" -> Set(v, env, s.name, v.val)
        [] ~Running(old) -> old
        [] OTHER -> Set(v, env, s.name, Arithmetic(op, old.val, v.val))

ExecIf(s, env, st) ==
  LET c == Eval(s.condition, env, st)
  IN  CASE ~Running(c) -> c
        [] ToBool(c.val) -> Exec(s.thenStmt, env, c)
        [] s.elseStmt # NoTree -> Exec(s.elseStmt, env, c)
        [] OTHER -> c

\* A break is caught around the loop, also when the condition threw it.
ExecLoop(s, env, st) ==
  LET done == ExecWhile(s, env, st)
  IN  IF done.exc = "break" THEN [done EXCEPT !.exc = "none"] ELSE done

ExecReturn(s, env, st) ==
  LET v == IF s.value = NoTree THEN Yields(st, NoneValue)
           ELSE Eval(s.value, env, st)
  IN  IF Running(v) THEN Throw(v, "return") ELSE v

Exec(s, env, st) ==
  CASE ~Running(st) -> st
    [] s.node = "expr" -> Eval(s.expr, env, st)
    [] s.node = "block" -> ExecBlock(s, env, st)
    [] s.node = "let" -> ExecVarDecl(s, env, st)
    [] s.node = "assign" -> ExecAssign(s, env, st)
    [] s.node = "print" -> ExecPrint(s.exprs, env, st)
    [] s.node = "if" -> ExecIf(s, env, st)
    [] s.node = "while" -> ExecLoop(s, env, st)
    [] s.node = "return" -> ExecReturn(s, env, st)
    [] s.node \in {"break", "continue"} -> Throw(st, s.node)
    [] s.node = "function" -> Define(st, env, s.name, Closure(s, env))

ExecAll(stmts, env, st) ==
  IF stmts = <<>> THEN st
  ELSE ExecAll(Tail(stmts), env, Exec(Head(stmts), env, st))

ExecPrint(exprs, env, st) ==
  IF exprs = <<>> THEN st
  ELSE LET v == Eval(Head(exprs), env, st) IN
       ExecPrint(Tail(exprs), env,
                 IF Running(v) THEN [v EXCEPT !.out = Append(@, Printed(v.val))]
                 ELSE v)

ExecWhile(s, env, st) ==
  LET c == Eval(s.condition, env, Burn(st))
      body == Exec(s.body, env, c)
  IN  IF ~Running(c) \/ ~ToBool(c.val) THEN c
      ELSE IF body.exc = "continue"
           THEN ExecWhile(s, env, [body EXCEPT !.exc = "none"])
      ELSE IF Running(body) THEN ExecWhile(s, env, body)
      ELSE body

\* A program: its statements in the global scope, until one throws.
Start == [envs |-> << [vars |-> <<>>, parent |-> 0] >>, out |-> <<>>,
          exc |-> "none", val |-> NoneValue, fuel |-> Fuel]

Interpret(program) == ExecAll(program, 1, Start)
=============================================================================
