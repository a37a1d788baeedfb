------------------------------- MODULE CodeGen -------------------------------
(***************************************************************************)
(* The LLVM code generator of interpreter V4: Expr::codegen,               *)
(* Stmt::codegen and the CodeGenContext they share.  A context cg is a     *)
(* record                                                                  *)
(*   module     the functions created, each with its basic blocks; a block *)
(*              is a sequence of instructions                              *)
(*   at         the insertion point, <<function, block>>                   *)
(*   scopes     namedValues: one map from names to allocas per scope       *)
(*   functions  from names to the function created last under that name    *)
(*   loops      loopStack, with the blocks continue and break branch to    *)
(*   current    currentFunction, 0 for nullptr                             *)
(*   regs       the number of registers used                               *)
(*   val        the operand the last expression yields                     *)
(*   thrown     std::runtime_error is in flight: nothing changes any more  *)
(* An operand has a type ("double", "i1" or "ptr") and is a constant or a  *)
(* register.  Conversions from i1 to double keep the number and are not    *)
(* instructions of the model.                                              *)
(***************************************************************************)
EXTENDS Evaluator

Constant(type, value) == [type |-> type, const |-> TRUE, value |-> value]

Register(type, r) == [type |-> type, const |-> FALSE, value |-> r]

Number(n) == Constant("double", <<"number", n>>)

Text(s) == Constant("ptr", <<"text", s>>)

Instr(op, dst, args, refs) ==
  [op |-> op, dst |-> dst, args |-> args, refs |-> refs]

Terminators == {"br", "condbr", "ret"}

-----------------------------------------------------------------------------
(***************************************************************************)
(* IRBuilder and CodeGenContext.                                           *)
(***************************************************************************)
BlockAt(cg) == cg.module[cg.at[1]].blocks[cg.at[2]]

\* BasicBlock::getTerminator: the last instruction, if it is one.
HasTerminator(block) ==
  block # <<>> /\ block[Len(block)].op \in Terminators

Emit(cg, instr) ==
  [cg EXCEPT !.module[cg.at[1]].blocks[cg.at[2]] = Append(@, instr)]

\* An instruction with a result.
EmitValue(cg, type, op, args, refs) ==
  [Emit(cg, Instr(op, cg.regs + 1, args, refs))
     EXCEPT !.regs = @ + 1, !.val = Register(type, cg.regs + 1)]

Br(cg, target) == Emit(cg, Instr("br", 0, <<>>, <<target>>))

CondBr(cg, cond, t, f) == Emit(cg, Instr("condbr", 0, <<cond>>, <<t, f>>))

\* faulty: the end of the block is not looked at.
BrUnlessTerminated_Always(cg, target) == Br(cg, target)

BrUnlessTerminated(cg, target) ==
  IF HasTerminator(BlockAt(cg)) THEN cg ELSE Br(cg, target)

\* BasicBlock::Create at the end of function f.
CreateBlock(cg, f) == [cg EXCEPT !.module[f].blocks = Append(@, <<>>)]

SetInsertPoint(cg, block) == [cg EXCEPT !.at = block]

PushScope(cg) == [cg EXCEPT !.scopes = Append(@, <<>>)]

PopScope(cg) == [cg EXCEPT !.scopes = SubSeq(@, 1, Len(@) - 1)]

NoAlloca == 0

\* faulty: the scopes are searched from the outside.
FindAlloca_Outermost(cg, x) ==
  LET found == {i \in DOMAIN cg.scopes : x \in DOMAIN cg.scopes[i]} IN
  IF found = {} THEN NoAlloca
  ELSE cg.scopes[CHOOSE i \in found : \A j \in found : i <= j][x]

FindAlloca(cg, x) ==
  LET found == {i \in DOMAIN cg.scopes : x \in DOMAIN cg.scopes[i]} IN
  IF found = {} THEN NoAlloca
  ELSE cg.scopes[CHOOSE i \in found : \A j \in found : j <= i][x]

DefineAlloca(cg, x, r) ==
  [cg EXCEPT !.scopes[Len(cg.scopes)] =
     [y \in DOMAIN @ \cup {x} |-> IF y = x THEN r ELSE @[y]]]

\* CreateAlloca and defineAlloca; the alloca is the operand val.
Declare(cg, x) ==
  LET slot == EmitValue(cg, "ptr", "alloca", <<>>, <<x>>)
  IN  DefineAlloca(slot, x, slot.val.value)

Store(cg, v, slot) == Emit(cg, Instr("store", 0, <<v>>, <<slot>>))

Rejected(cg) == [cg EXCEPT !.thrown = TRUE]

AsDouble(v) == IF v.type = "i1" THEN [v EXCEPT !.type = "double"] ELSE v

\* A condition: what is not an i1 is compared with 0.0.
AsBool(cg) ==
  IF cg.val.type = "i1" THEN cg
  ELSE EmitValue(cg, "i1", "!=", <<cg.val, Number(0)>>, <<>>)

-----------------------------------------------------------------------------
(***************************************************************************)
(* Expressions.                                                            *)
(***************************************************************************)
RECURSIVE GenExpr(_, _), GenArgs(_, _, _), Gen(_, _), GenAll(_, _),
          GenPrint(_, _)

GenLiteral(v, cg) ==
  [cg EXCEPT !.val = CASE v.type = "string" -> Text(v.text)
                       [] v.type = "bool" -> Constant("i1", <<"number", v.num>>)
                       [] OTHER -> Number(v.num)]

GenVar(x, cg) ==
  IF FindAlloca(cg, x) = NoAlloca THEN Rejected(cg)
  ELSE EmitValue(cg, "double", "load", <<>>, <<FindAlloca(cg, x)>>)

\* The instructions are those for doubles and truth values whatever the operands
\* are: fadd and fcmp of texts are emitted as well (InstrFits in Compiler).
GenBinary(e, cg) ==
  LET l == GenExpr(e.left, cg)
      r == GenExpr(e.right, l)
      lB == AsBool([r EXCEPT !.val = l.val])
      rB == AsBool([lB EXCEPT !.val = r.val])
      operands == <<AsDouble(l.val), AsDouble(r.val)>>
  IN  CASE r.thrown -> r
        [] e.op \in {"+", "-", "*", "%"} ->
             EmitValue(r, "double", e.op, operands, <<>>)
        [] e.op \in Comparisons -> EmitValue(r, "i1", e.op, operands, <<>>)
        [] e.op \in {"&&", "||"} ->
             EmitValue(rB, "i1", e.op, <<lB.val, rB.val>>, <<>>)

GenUnary(e, cg) ==
  LET v == GenExpr(e.operand, cg) IN
  CASE v.thrown -> v
    [] e.op = "-" -> EmitValue(v, "double", "neg", <<AsDouble(v.val)>>, <<>>)
    [] e.op = "!" -> LET b == AsBool(v)
                     IN  EmitValue(b, "i1", "not", <<b.val>>, <<>>)

\* Both arms are computed where the expression stands, then one is selected.
GenTernary(e, cg) ==
  LET c == GenExpr(e.condition, cg)
      b == AsBool(c)
      t == GenExpr(e.trueExpr, b)
      f == GenExpr(e.falseExpr, t)
  IN  CASE c.thrown -> c
        [] f.thrown -> f
        [] OTHER -> EmitValue(f, t.val.type, "select",
                              <<b.val, t.val, f.val>>, <<>>)

GenCall(e, cg) ==
  LET known == e.callee.node = "var" /\ e.callee.name \in DOMAIN cg.functions
      args == GenArgs(e.args, <<>>, cg)
  IN  CASE ~known -> Rejected(cg)
        [] args.cg.thrown -> args.cg
        [] OTHER -> EmitValue(args.cg, "double", "call", args.values,
                              <<cg.functions[e.callee.name]>>)

GenArgs(es, values, cg) ==
  IF es = <<>> THEN [cg |-> cg, values |-> values]
  ELSE LET v == GenExpr(Head(es), cg)
       IN  GenArgs(Tail(es), Append(values, AsDouble(v.val)), v)

GenTypeof(e, cg) ==
  [cg EXCEPT !.val = IF e.operand.node = "literal"
                     THEN Text(e.operand.value.type) ELSE Text("double")]

GenExpr(e, cg) ==
  CASE cg.thrown -> cg
    [] e.node = "literal" -> GenLiteral(e.value, cg)
    [] e.node = "var" -> GenVar(e.name, cg)
    [] e.node = "binary" -> GenBinary(e, cg)
    [] e.node = "unary" -> GenUnary(e, cg)
    [] e.node = "ternary" -> GenTernary(e, cg)
    [] e.node = "call" -> GenCall(e, cg)
    [] e.node = "closure" -> Rejected(cg)
    [] e.node = "typeof" -> GenTypeof(e, cg)

-----------------------------------------------------------------------------
(***************************************************************************)
(* Statements.                                                             *)
(***************************************************************************)
GenBlock(s, cg) == PopScope(GenAll(s.statements, PushScope(cg)))

\* The name is bound before its initial value is generated.
GenVarDecl(s, cg) ==
  LET slot == Declare(cg, s.name)
      v == GenExpr(s.init, slot)
  IN  IF v.thrown THEN v ELSE Store(v, AsDouble(v.val), slot.val.value)

GenAssign(s, cg) ==
  LET slot == FindAlloca(cg, s.name)
      v == GenExpr(s.value, cg)
      old == EmitValue(v, "double", "load", <<>>, <<slot>>)
      op == CASE s.op = "+=" -> "+" [] s.op = "-=" -> "-" [] s.op = "*=" -> "*"
      new == EmitValue(old, "double", op, <<old.val, AsDouble(v.val)>>, <<>>)
  IN  CASE slot = NoAlloca -> Rejected(cg)
        [] v.thrown -> v
        [] s.op = "=" -> Store(v, AsDouble(v.val), slot)
        [] OTHER -> Store(new, new.val, slot)

GenPrint(es, cg) ==
  IF es = <<>> \/ cg.thrown THEN cg
  ELSE LET v == GenExpr(Head(es), cg) IN
       GenPrint(Tail(es),
                IF v.thrown THEN v
                ELSE Emit(v, Instr("printf", 0, <<AsDouble(v.val)>>, <<>>)))

\* Behind the condition, c.
GenIf(s, c) ==
  LET f == c.at[1]
      hasElse == s.elseStmt # NoTree
      blocks == CreateBlock(CreateBlock(c, f), f)
      all == IF hasElse THEN CreateBlock(blocks, f) ELSE blocks
      last == Len(c.module[f].blocks)
      thenBB == <<f, last + 1>>
      elseBB == <<f, last + 2>>
      endBB == <<f, IF hasElse THEN last + 3 ELSE last + 2>>
      branch == CondBr(all, c.val, thenBB, IF hasElse THEN elseBB ELSE endBB)
      then == BrUnlessTerminated(Gen(s.thenStmt, SetInsertPoint(branch, thenBB)),
                                 endBB)
      both == IF ~hasElse THEN then
              ELSE BrUnlessTerminated(
                     Gen(s.elseStmt, SetInsertPoint(then, elseBB)), endBB)
  IN  IF c.thrown THEN c ELSE SetInsertPoint(both, endBB)

\* faulty: the blocks of a loop are not forgotten behind it.
GenWhile_NoPop(s, cg) ==
  LET f == cg.at[1]
      blocks == CreateBlock(CreateBlock(CreateBlock(cg, f), f), f)
      last == Len(blocks.module[f].blocks)
      condBB == <<f, last - 2>>
      bodyBB == <<f, last - 1>>
      exitBB == <<f, last>>
      entered == [SetInsertPoint(Br(blocks, condBB), condBB)
                    EXCEPT !.loops = Append(@, [cond |-> condBB, exit |-> exitBB])]
      c == AsBool(GenExpr(s.condition, entered))
      body == Gen(s.body, SetInsertPoint(CondBr(c, c.val, bodyBB, exitBB), bodyBB))
  IN  IF c.thrown THEN c
      ELSE SetInsertPoint(BrUnlessTerminated(body, condBB), exitBB)

GenWhile(s, cg) ==
  LET f == cg.at[1]
      blocks == CreateBlock(CreateBlock(CreateBlock(cg, f), f), f)
      last == Len(blocks.module[f].blocks)
      condBB == <<f, last - 2>>
      bodyBB == <<f, last - 1>>
      exitBB == <<f, last>>
      entered == [SetInsertPoint(Br(blocks, condBB), condBB)
                    EXCEPT !.loops = Append(@, [cond |-> condBB, exit |-> exitBB])]
      c == AsBool(GenExpr(s.condition, entered))
      body == Gen(s.body, SetInsertPoint(CondBr(c, c.val, bodyBB, exitBB), bodyBB))
      closed == BrUnlessTerminated(body, condBB)
  IN  IF c.thrown THEN c
      ELSE SetInsertPoint([closed EXCEPT !.loops = cg.loops], exitBB)

\* Without a value the type returned is that of currentFunction, int if null.
GenReturn(s, cg) ==
  LET v == GenExpr(s.value, cg)
      type == IF cg.current = 0 THEN "int" ELSE cg.module[cg.current].type
  IN  CASE s.value = NoTree ->
             Emit(cg, Instr("ret", 0, <<Number(0)>>, <<type>>))
        [] v.thrown -> v
        [] OTHER -> Emit(v, Instr("ret", 0, <<AsDouble(v.val)>>,
                                   <<AsDouble(v.val).type>>))

\* BreakStmt and ContinueStmt.
GenJump(s, cg) ==
  LET labels == cg.loops[Len(cg.loops)] IN
  IF cg.loops = <<>> THEN Rejected(cg)
  ELSE Br(cg, IF s.node = "break" THEN labels.exit ELSE labels.cond)

NewFunction(cg, type, params) ==
  [cg EXCEPT !.module =
     Append(@, [type |-> type, params |-> params, blocks |-> << <<>> >>])]

\* The parameters are registers -1, -2, ...; each is stored in an alloca.
RECURSIVE StoreParams(_, _, _)
StoreParams(params, i, cg) ==
  IF i > Len(params) THEN cg
  ELSE LET slot == Declare(cg, params[i]) IN
       StoreParams(params, i + 1,
                   Store(slot, Register("double", -i), slot.val.value))

(***************************************************************************)
(* FunctionStmt.  The insertion point stays at the end of the new          *)
(* function, the loops around it stay on the stack, and the scopes around  *)
(* it stay visible.                                                        *)
(***************************************************************************)
GenFunction(s, cg) ==
  LET created == NewFunction(cg, "double", s.params)
      f == Len(created.module)
      named == [SetInsertPoint(created, <<f, 1>>)
                  EXCEPT !.functions =
                    [g \in DOMAIN @ \cup {s.name} |-> IF g = s.name THEN f ELSE @[g]]]
      entry == StoreParams(s.params, 1, PushScope(named))
      body == [Gen(s.body, [entry EXCEPT !.current = f]) EXCEPT !.current = 0]
      ended == IF HasTerminator(BlockAt(body)) THEN body
               ELSE Emit(body, Instr("ret", 0, <<Number(0)>>, <<"double">>))
  IN  IF body.thrown THEN body ELSE PopScope(ended)

Gen(s, cg) ==
  CASE cg.thrown -> cg
    [] s.node = "expr" -> GenExpr(s.expr, cg)
    [] s.node = "block" -> GenBlock(s, cg)
    [] s.node = "let" -> GenVarDecl(s, cg)
    [] s.node = "assign" -> GenAssign(s, cg)
    [] s.node = "print" -> GenPrint(s.exprs, cg)
    [] s.node = "if" -> GenIf(s, AsBool(GenExpr(s.condition, cg)))
    [] s.node = "while" -> GenWhile(s, cg)
    [] s.node = "return" -> GenReturn(s, cg)
    [] s.node \in {"break", "continue"} -> GenJump(s, cg)
    [] s.node = "function" -> GenFunction(s, cg)

GenAll(stmts, cg) ==
  IF stmts = <<>> THEN cg ELSE GenAll(Tail(stmts), Gen(Head(stmts), cg))

\* The context generateProgram starts with: main, its entry and one scope.
NewModule ==
  NewFunction([module |-> <<>>, at |-> <<1, 1>>, scopes |-> << <<>> >>,
               functions |-> <<>>, loops |-> <<>>, current |-> 0, regs |-> 0,
               val |-> Number(0), thrown |-> FALSE], "int", <<>>)
=============================================================================
