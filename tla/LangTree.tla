------------------------------ MODULE LangTree ------------------------------
(***************************************************************************)
(* The syntax trees of interpreter V4 (src/include/ast/interpreter_v4.hpp) *)
(* and the values its programs compute with.  A node is a record whose     *)
(* field "node" names its class; an absent child is NoTree.                *)
(***************************************************************************)
EXTENDS Integers, Sequences

NoTree == [node |-> "none"]

-----------------------------------------------------------------------------
(***************************************************************************)
(* Values.  Doubles hold integers only: division, which alone leaves them, *)
(* is not an operator of the modelled language.                            *)
(***************************************************************************)
Value(type, num, text) == [type |-> type, num |-> num, text |-> text]

IntValue(n) == Value("int", n, "")

BoolValue(b) == Value("bool", IF b THEN 1 ELSE 0, "")

StringValue(s) == Value("string", 0, s)

NoneValue == Value("none", 0, "")

FunctionValue(f) ==
  [type |-> "function", num |-> 0, text |-> "", function |-> f]

\* toNumber and toInt agree on integers; what has no number counts as 0.
ToNumber(v) == v.num

ToBool(v) == IF v.type = "string" THEN v.text # "" ELSE v.num # 0

-----------------------------------------------------------------------------
(***************************************************************************)
(* Expressions.                                                            *)
(***************************************************************************)
LiteralExpr(v) == [node |-> "literal", value |-> v]

VarExpr(x) == [node |-> "var", name |-> x]

BinaryExpr(op, l, r) == [node |-> "binary", op |-> op, left |-> l, right |-> r]

UnaryExpr(op, e) == [node |-> "unary", op |-> op, operand |-> e]

TernaryExpr(c, t, f) ==
  [node |-> "ternary", condition |-> c, trueExpr |-> t, falseExpr |-> f]

CallExpr(callee, args) == [node |-> "call", callee |-> callee, args |-> args]

ClosureExpr(params, body) ==
  [node |-> "closure", params |-> params, body |-> body]

TypeofExpr(e) == [node |-> "typeof", operand |-> e]

-----------------------------------------------------------------------------
(***************************************************************************)
(* Statements.                                                             *)
(***************************************************************************)
ExprStmt(e) == [node |-> "expr", expr |-> e]

BlockStmt(stmts) == [node |-> "block", statements |-> stmts]

VarDeclStmt(x, e) == [node |-> "let", name |-> x, init |-> e]

AssignStmt(x, op, e) == [node |-> "assign", name |-> x, op |-> op, value |-> e]

PrintStmt(es) == [node |-> "print", exprs |-> es]

IfStmt(c, t, e) ==
  [node |-> "if", condition |-> c, thenStmt |-> t, elseStmt |-> e]

WhileStmt(c, b) == [node |-> "while", condition |-> c, body |-> b]

ReturnStmt(e) == [node |-> "return", value |-> e]

BreakStmt == [node |-> "break"]

ContinueStmt == [node |-> "continue"]

FunctionStmt(f, params, body) ==
  [node |-> "function", name |-> f, params |-> params, body |-> body]

-----------------------------------------------------------------------------
(***************************************************************************)
(* The nodes below a node, in source order, and all nodes of a tree.       *)
(***************************************************************************)
Children(n) ==
  CASE n.node = "binary" -> <<n.left, n.right>>
    [] n.node \in {"unary", "typeof"} -> <<n.operand>>
    [] n.node = "ternary" -> <<n.condition, n.trueExpr, n.falseExpr>>
    [] n.node = "call" -> <<n.callee>> \o n.args
    [] n.node \in {"closure", "function"} -> <<n.body>>
    [] n.node = "expr" -> <<n.expr>>
    [] n.node = "block" -> n.statements
    [] n.node = "let" -> <<n.init>>
    [] n.node \in {"assign", "return"} -> <<n.value>>
    [] n.node = "print" -> n.exprs
    [] n.node = "if" -> <<n.condition, n.thenStmt, n.elseStmt>>
    [] n.node = "while" -> <<n.condition, n.body>>
    [] OTHER -> <<>>

RECURSIVE Nodes(_), NodesOfAll(_)
Nodes(n) == <<n>> \o NodesOfAll(Children(n))

NodesOfAll(ns) ==
  IF ns = <<>> THEN <<>> ELSE Nodes(Head(ns)) \o NodesOfAll(Tail(ns))
=============================================================================
