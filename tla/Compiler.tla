------------------------------- MODULE Compiler -------------------------------
(***************************************************************************)
(* A program on its way through interpreter V4 as a compiler               *)
(* (run_interpreter_v4_llvm.cpp): the tokens are parsed, generateProgram   *)
(* emits the module, first all functions, then the other statements into   *)
(* main, and the module runs.  How LLVM runs a module is external: one     *)
(* action per instruction, frames with registers and with the cells its    *)
(* allocas reserve.  A cell is undefined until a number is stored to it,   *)
(* and what depends on an undefined value is undefined.                    *)
(***************************************************************************)
EXTENDS LangParser, CodeGen, FiniteSets

CONSTANTS
  Programs,   \* the programs as trees, sequences of statements
  Spelling(_),\* the tokens of a program
  MaxDepth,   \* frames on the stack
  MaxOutput   \* items printed

ASSUME BoundsAssumption == MaxDepth \in Nat \ {0} /\ MaxOutput \in Nat

-----------------------------------------------------------------------------
(***************************************************************************)
(* Conditions on a program under which the two ways of running it agree.   *)
(* Each names a difference between eval/exec and codegen.                  *)
(***************************************************************************)
Of(p, kind) ==
  LET nodes == SelectSeq(NodesOfAll(p), LAMBDA n : n.node = kind)
  IN  {nodes[i] : i \in DOMAIN nodes}

\* Nothing follows a break, continue or return in its block: it would be
\* emitted behind the terminator.
RECURSIVE EndsInJump(_)
EndsInJump(s) ==
  \/ s.node \in {"break", "continue", "return"}
  \/ /\ s.node = "block"
     /\ s.statements # <<>>
     /\ EndsInJump(s.statements[Len(s.statements)])

JumpsEndBlocks(p) ==
  \A b \in Of(p, "block") \cup {BlockStmt(p)} :
    \A k \in 1 .. Len(b.statements) - 1 : ~EndsInJump(b.statements[k])

Functions(p) == {i \in DOMAIN p : p[i].node = "function"}

Variables(p) == {n.name : n \in Of(p, "let")}

(***************************************************************************)
(* Functions are declared at the top, before the statements of main (they  *)
(* are generated before them and evaluated in their place), each once, and *)
(* no variable has the name of one.                                        *)
(***************************************************************************)
FunctionsFirst(p) ==
  /\ \A f \in Functions(p) : 1 .. f \subseteq Functions(p)
  /\ \A f, g \in Functions(p) : p[f].name = p[g].name => f = g
  /\ \A f \in Functions(p) : p[f].name \notin Variables(p)
  /\ Of(p, "function") = {p[f] : f \in Functions(p)}

CallsFit(p) ==
  \A n \in Of(p, "call"), f \in Functions(p) :
    n.callee = VarExpr(p[f].name) => Len(n.args) = Len(p[f].params)

\* main returns an int, and what is thrown in it is caught by nobody.
NoReturnInMain(p) ==
  \A i \in DOMAIN p \ Functions(p) : Of(<<p[i]>>, "return") = {}

\* Both arms of a ternary are computed.
ArmsArePure(p) ==
  \A n \in Of(p, "ternary") :
    LET arms == <<n.trueExpr, n.falseExpr>> IN
    /\ Of(arms, "call") = {}
    /\ \A b \in Of(arms, "binary") : b.op # "%"

\* A variable is bound before its initial value is generated.
InitsReadOthers(p) ==
  \A n \in Of(p, "let") : VarExpr(n.name) \notin Of(<<n.init>>, "var")

\* A declaration is bound for the rest of the block, executed or not.
DeclarationsInBlocks(p) ==
  /\ \A n \in Of(p, "if") : "let" \notin {n.thenStmt.node, n.elseStmt.node}
  /\ \A n \in Of(p, "while") : n.body.node # "let"

\* The type of anything but a literal is taken to be double.
TypeofLiterals(p) == \A n \in Of(p, "typeof") : n.operand.node = "literal"

\* The IR type of an expression; a variable is loaded as a double.
RECURSIVE IrType(_)
IrType(e) ==
  CASE e.node = "typeof" -> "ptr"
    [] e.node = "literal" -> (CASE e.value.type = "string" -> "ptr"
                                [] e.value.type = "bool" -> "i1"
                                [] OTHER -> "double")
    [] e.node = "ternary" -> IrType(e.trueExpr)
    [] e.node = "binary" /\ e.op \in Comparisons \cup {"&&", "||"} -> "i1"
    [] e.node = "unary" /\ e.op = "!" -> "i1"
    [] OTHER -> "double"

\* What operators, conditions, calls and returns compute with.
OperandsOf(n) ==
  CASE n.node = "binary" -> {n.left, n.right}
    [] n.node = "unary" -> {n.operand}
    [] n.node \in {"ternary", "if", "while"} -> {n.condition}
    [] n.node = "call" -> {n.args[k] : k \in DOMAIN n.args}
    [] n.node = "return" -> {n.value} \ {NoTree}
    [] n.node = "assign" /\ n.op # "=" -> {n.value}
    [] OTHER -> {}

\* All operators are generated as operators on doubles or truth values, also
\* for texts, and the arms of a ternary as they are.
OperandsFit(p) ==
  /\ LET nodes == NodesOfAll(p) IN
     \A i \in DOMAIN nodes : \A e \in OperandsOf(nodes[i]) : IrType(e) # "ptr"
  /\ \A n \in Of(p, "ternary") : IrType(n.trueExpr) = IrType(n.falseExpr)

\* A variable is a double: the text it was given is not in it.
VariablesHoldNumbers(p) ==
  /\ \A n \in Of(p, "let") : IrType(n.init) # "ptr"
  /\ \A n \in Of(p, "assign") : IrType(n.value) # "ptr"

\* A remainder by zero stops the evaluator and is undefined behaviour in LLVM.
Comparable(p, run) ==
  /\ JumpsEndBlocks(p) /\ FunctionsFirst(p) /\ CallsFit(p) /\ NoReturnInMain(p)
  /\ ArmsArePure(p) /\ InitsReadOthers(p) /\ DeclarationsInBlocks(p)
  /\ TypeofLiterals(p) /\ OperandsFit(p) /\ VariablesHoldNumbers(p)
  /\ run.exc \notin {"fuel", "trap"}

(***************************************************************************)
(* Programs the generator has to take: without closures, with functions    *)
(* that read only their own variables and call only themselves and earlier *)
(* ones, and that the evaluator runs to the end.                           *)
(***************************************************************************)
Declared(f) == {f.params[k] : k \in DOMAIN f.params} \cup Variables(<<f>>)

Closed(p) ==
  \A f \in Functions(p) :
    \A n \in Of(<<p[f].body>>, "var") \cup Of(<<p[f].body>>, "assign") :
      n.name \in Declared(p[f]) \cup {p[g].name : g \in Functions(p) \cap (1 .. f)}

RECURSIVE JumpsInLoops(_, _)
JumpsInLoops(s, inLoop) ==
  CASE s.node \in {"break", "continue"} -> inLoop
    [] OTHER -> \A k \in DOMAIN Children(s) :
                  JumpsInLoops(Children(s)[k],
                    s.node = "while" \/ (inLoop /\ s.node # "function"))

Compilable(p, run) == /\ Closed(p) /\ Of(p, "closure") = {}
                      /\ \A i \in DOMAIN p : JumpsInLoops(p[i], FALSE)
                      /\ run.exc = "none"

-----------------------------------------------------------------------------
VARIABLES
  written,    \* the program as it was meant
  meaning,    \* what evaluating it prints, how that ends, and what may be asked
              \* of compiling it
  program,    \* the program the parser returns
  stage,
  next,       \* the next statement of program that is generated
  cg,         \* the code generator's context
  frames,     \* the stack of the running module
  output

vars == <<written, meaning, program, stage, next, cg, frames, output>>

\* generateProgram's loop ends, and the module's run ends, in one of these.
Ends == {"ended", "unparsable", "rejected", "malformed", "trapped", "overflow"}

Stages == {"parse", "functions", "main", "run"} \cup Ends

\* Auxiliary: computed once for each program, read by no action.
Meaning(p, run) == [out |-> run.out,
                    exc |-> run.exc,
                    refusable |-> ~Compilable(p, run),
                    comparable |-> Comparable(p, run)]

Init == /\ written \in Programs
        /\ \E run \in {Interpret(written)} : meaning = Meaning(written, run)
        /\ program = <<>>
        /\ stage = "parse"
        /\ next = 1
        /\ cg = NewModule
        /\ frames = <<>>
        /\ output = <<>>

Parse ==
  /\ stage = "parse"
  /\ \E parsed \in {ParseProgram(Spelling(written))} :
       IF parsed.next = Failed
       THEN stage' = "unparsable" /\ UNCHANGED program
       ELSE stage' = "functions" /\ program' = parsed.tree
  /\ UNCHANGED <<written, meaning, next, cg, frames, output>>

-----------------------------------------------------------------------------
(***************************************************************************)
(* generateProgram.                                                        *)
(***************************************************************************)
\* An exception leaves generateProgram.
Generated(after, then) ==
  /\ cg' = after
  /\ stage' = IF after.thrown THEN "rejected" ELSE then

\* One iteration of the first loop: the insertion point is put back.
GenerateFunction ==
  /\ stage = "functions" /\ next <= Len(program)
  /\ IF program[next].node = "function"
     THEN \E after \in {Gen(program[next], cg)} :
            Generated(SetInsertPoint(after, cg.at), "functions")
     ELSE UNCHANGED <<cg, stage>>
  /\ next' = next + 1
  /\ UNCHANGED <<written, meaning, program, frames, output>>

EndFunctions ==
  /\ stage = "functions" /\ next > Len(program)
  /\ cg' = SetInsertPoint(cg, <<1, 1>>)
  /\ stage' = "main"
  /\ next' = 1
  /\ UNCHANGED <<written, meaning, program, frames, output>>

\* One iteration of the second loop.
GenerateStatement ==
  /\ stage = "main" /\ next <= Len(program)
  /\ IF program[next].node # "function"
     THEN \E after \in {Gen(program[next], cg)} : Generated(after, "main")
     ELSE UNCHANGED <<cg, stage>>
  /\ next' = next + 1
  /\ UNCHANGED <<written, meaning, program, frames, output>>

(***************************************************************************)
(* What LLVM asks of a module: a block ends with its only terminator;      *)
(* branches stay in the function and lead to blocks that exist; a function *)
(* uses its own allocas, returns its type and passes the arguments that    *)
(* the callee takes; operands have the types their instruction works on.   *)
(* (Of operands that have not, building the instruction fails an assertion *)
(* or the module that is printed cannot be read.)                          *)
(***************************************************************************)
Slots(f) ==
  UNION {{b[i].dst : i \in {j \in DOMAIN b : b[j].op = "alloca"}} :
           b \in {f.blocks[k] : k \in DOMAIN f.blocks}}

InstrFits(module, id, instr) ==
  LET f == module[id]
      All(type) == \A k \in DOMAIN instr.args : instr.args[k].type = type
  IN CASE instr.op \in {"br", "condbr"} ->
            /\ All("i1")
            /\ \A k \in DOMAIN instr.refs :
                 instr.refs[k][1] = id /\ instr.refs[k][2] \in DOMAIN f.blocks
       [] instr.op = "ret" -> instr.refs[1] = f.type
       [] instr.op \in {"load", "store"} -> instr.refs[1] \in Slots(f)
       [] instr.op = "call" ->
            All("double") /\ Len(instr.args) = Len(module[instr.refs[1]].params)
       [] instr.op \in {"+", "-", "*", "%", "neg"} \cup Comparisons -> All("double")
       [] instr.op \in {"&&", "||", "not"} -> All("i1")
       [] instr.op = "select" ->
            instr.args[1].type = "i1" /\ instr.args[2].type = instr.args[3].type
       [] instr.op = "printf" -> All("double") \/ All("ptr")
       [] instr.op = "alloca" -> All("double")

OneTerminator(block) ==
  /\ HasTerminator(block)
  /\ \A i \in 1 .. Len(block) - 1 : block[i].op \notin Terminators

WellFormed(module) ==
  \A id \in DOMAIN module : \A b \in DOMAIN module[id].blocks :
    LET block == module[id].blocks[b] IN
    /\ OneTerminator(block)
    /\ \A i \in DOMAIN block : InstrFits(module, id, block[i])

Frame(f, args, dst) ==
  [function |-> f, block |-> 1, ip |-> 1, dst |-> dst, cells |-> <<>>,
   regs |-> [r \in {-i : i \in DOMAIN args} |-> args[-r]]]

\* The return of main is added and the module is run if LLVM takes it.
EndModule ==
  /\ stage = "main" /\ next > Len(program)
  /\ \E after \in {IF HasTerminator(BlockAt(cg)) THEN cg
                   ELSE Emit(cg, Instr("ret", 0, <<Number(0)>>, <<"int">>))} :
       /\ cg' = after
       /\ IF WellFormed(after.module)
          THEN stage' = "run" /\ frames' = <<Frame(1, <<>>, 0)>>
          ELSE stage' = "malformed" /\ UNCHANGED frames
  /\ UNCHANGED <<written, meaning, program, next, output>>

-----------------------------------------------------------------------------
(***************************************************************************)
(* Running the module.                                                     *)
(***************************************************************************)
Undefined == <<"undefined", 0>>

Top == frames[Len(frames)]

Current == cg.module[Top.function].blocks[Top.block][Top.ip]

WithTop(frame) == [frames EXCEPT ![Len(frames)] = frame]

Extended(f, x, v) == [y \in DOMAIN f \cup {x} |-> IF y = x THEN v ELSE f[y]]

\* The value of an operand; a register that was not computed is undefined.
ValueOf(operand) ==
  IF operand.const THEN operand.value
  ELSE IF operand.value \in DOMAIN Top.regs THEN Top.regs[operand.value]
  ELSE Undefined

Bit(b) == IF b THEN 1 ELSE 0

Result(op, a) ==
  CASE op \in {"+", "-", "*"} ->
         Arithmetic(op, IntValue(a[1]), IntValue(a[2])).num
    [] op = "%" -> Remainder(a[1], a[2])
    [] op \in Comparisons -> Bit(Compare(op, a[1], a[2]))
    [] op = "&&" -> Bit(a[1] # 0 /\ a[2] # 0)
    [] op = "||" -> Bit(a[1] # 0 \/ a[2] # 0)
    [] op = "neg" -> -a[1]
    [] op = "not" -> Bit(a[1] = 0)

Computing == {"+", "-", "*", "%", "&&", "||", "neg", "not"} \cup Comparisons

\* The next instruction, and where it leaves the registers and the cells.
Step(regs, cells) ==
  /\ frames' = WithTop([Top EXCEPT !.ip = @ + 1, !.regs = regs, !.cells = cells])
  /\ UNCHANGED <<written, meaning, program, stage, next, cg, output>>

Stop(how) == /\ stage' = how
             /\ UNCHANGED <<written, meaning, program, next, cg, frames, output>>

\* srem by zero, or by what may be zero, is undefined behaviour: it stops the
\* program or gives anything.
Compute ==
  /\ stage = "run" /\ Current.op \in Computing
  /\ LET values == [i \in DOMAIN Current.args |-> ValueOf(Current.args[i])]
         numbers == [i \in DOMAIN values |-> values[i][2]]
         noDivisor == Current.op = "%" /\ (values[2] = Undefined \/ numbers[2] = 0)
         known == ~noDivisor /\ \A i \in DOMAIN values : values[i] # Undefined
     IN \/ Step(Extended(Top.regs, Current.dst,
                         IF known THEN <<"number", Result(Current.op, numbers)>>
                         ELSE Undefined), Top.cells)
        \/ noDivisor /\ Stop("trapped")

Select ==
  /\ stage = "run" /\ Current.op = "select"
  /\ LET c == ValueOf(Current.args[1])
         v == IF c = Undefined THEN Undefined
              ELSE ValueOf(Current.args[IF c[2] # 0 THEN 2 ELSE 3])
     IN  Step(Extended(Top.regs, Current.dst, v), Top.cells)

\* alloca, store and load; an alloca that runs again reserves a new cell.  The
\* address of a text, read as a double, is no number to speak of.
Memory ==
  /\ stage = "run" /\ Current.op \in {"alloca", "store", "load"}
  /\ CASE Current.op = "alloca" ->
            Step(Top.regs, Extended(Top.cells, Current.dst, Undefined))
       [] Current.op = "store" ->
            LET v == ValueOf(Current.args[1]) IN
            Step(Top.regs, Extended(Top.cells, Current.refs[1],
                                    IF v[1] = "text" THEN Undefined ELSE v))
       [] Current.op = "load" ->
            LET slot == Current.refs[1] IN
            Step(Extended(Top.regs, Current.dst,
                          IF slot \in DOMAIN Top.cells THEN Top.cells[slot]
                          ELSE Undefined), Top.cells)

Printf ==
  /\ stage = "run" /\ Current.op = "printf"
  /\ IF Len(output) = MaxOutput THEN Stop("overflow")
     ELSE /\ output' = Append(output, ValueOf(Current.args[1]))
          /\ frames' = WithTop([Top EXCEPT !.ip = @ + 1])
          /\ UNCHANGED <<written, meaning, program, stage, next, cg>>

\* A branch on an undefined condition may go either way.
Branch ==
  /\ stage = "run" /\ Current.op \in {"br", "condbr"}
  /\ \E k \in DOMAIN Current.refs :
       /\ Current.op = "condbr" =>
            LET c == ValueOf(Current.args[1])
            IN  c = Undefined \/ k = (IF c[2] # 0 THEN 1 ELSE 2)
       /\ frames' = WithTop([Top EXCEPT !.block = Current.refs[k][2], !.ip = 1])
  /\ UNCHANGED <<written, meaning, program, stage, next, cg, output>>

Call ==
  /\ stage = "run" /\ Current.op = "call"
  /\ IF Len(frames) = MaxDepth THEN Stop("overflow")
     ELSE /\ frames' = Append(WithTop([Top EXCEPT !.ip = @ + 1]),
                              Frame(Current.refs[1],
                                    [i \in DOMAIN Current.args |->
                                       ValueOf(Current.args[i])], Current.dst))
          /\ UNCHANGED <<written, meaning, program, stage, next, cg, output>>

Return ==
  /\ stage = "run" /\ Current.op = "ret"
  /\ IF Len(frames) = 1 THEN Stop("ended")
     ELSE LET caller == frames[Len(frames) - 1] IN
          /\ frames' = Append(SubSeq(frames, 1, Len(frames) - 2),
                         [caller EXCEPT !.regs =
                            Extended(@, Top.dst, ValueOf(Current.args[1]))])
          /\ UNCHANGED <<written, meaning, program, stage, next, cg, output>>

Done == stage \in Ends /\ UNCHANGED vars

Next == \/ Parse
        \/ GenerateFunction \/ EndFunctions \/ GenerateStatement \/ EndModule
        \/ Compute \/ Select \/ Memory \/ Printf \/ Branch \/ Call \/ Return
        \/ Done

Spec == Init /\ [][Next]_vars

(***************************************************************************)
(* A sequential program goes on until it ends.  A step is possible exactly *)
(* while stage is not one of Ends, so that this is WF_vars(Next) with the  *)
(* ENABLED predicate written out.                                          *)
(***************************************************************************)
Progress == []<>(stage \in Ends) \/ []<><<TRUE>>_vars

FairSpec == Spec /\ Progress

-----------------------------------------------------------------------------
(***************************************************************************)
(* Properties.                                                             *)
(***************************************************************************)
\* Every variable keeps its type: the blocks emitted consist of instructions,
\* the insertion point is a block, and every frame stands at an instruction.
TypeOK ==
  /\ stage \in Stages
  /\ next \in 1 .. Len(program) + 1
  /\ cg.at[1] \in DOMAIN cg.module
  /\ cg.at[2] \in DOMAIN cg.module[cg.at[1]].blocks
  /\ cg.loops = <<>> \/ cg.thrown
  /\ Len(frames) <= MaxDepth
  /\ Len(output) <= MaxOutput
  /\ stage = "run" =>
       \A i \in DOMAIN frames :
         LET f == frames[i] IN
         /\ f.block \in DOMAIN cg.module[f.function].blocks
         /\ f.ip \in 1 .. Len(cg.module[f.function].blocks[f.block])

\* Parsing the spelling of a tree, with no more parentheses than precedence
\* and associativity ask for, gives the tree back: the levels of the parser,
\* its right-associative ?:, its dangling else, its calls.
ParsesBack == /\ stage # "unparsable"
              /\ stage # "parse" => program = written

\* A module is well formed when the program has its functions first, nothing
\* behind a jump, no return in main and no text as an operand, whatever else it
\* does: the checks of GetInsertBlock()->getTerminator() in IfStmt, WhileStmt
\* and FunctionStmt are enough to give each block one terminator, and the
\* conversions of truth values to give every instruction operands of its type.
ModuleIsWellFormed ==
  stage = "malformed" =>
    ~(JumpsEndBlocks(written) /\ FunctionsFirst(written) /\
      CallsFit(written) /\ NoReturnInMain(written) /\ OperandsFit(written))

(***************************************************************************)
(* The compiled program does what the evaluated one does: it prints the    *)
(* same items in the same order and ends, or it is refused, and only when  *)
(* the program is not Compilable.                                          *)
(***************************************************************************)
Outcome ==
  IF ~meaning.comparable THEN (IF stage = "parse" THEN "running" ELSE "ended")
  ELSE CASE stage = "ended" -> "ended"
         [] stage = "rejected" -> "refused"
         [] stage \in {"unparsable", "malformed", "trapped", "overflow"} -> "wrong"
         [] OTHER -> "running"

Evaluated == INSTANCE Prints WITH
  text <- IF meaning.comparable THEN meaning.out ELSE <<>>,
  refusable <- meaning.refusable,
  printed <- IF meaning.comparable THEN output ELSE <<>>,
  outcome <- Outcome

CompiledPrintsSame == Evaluated!Spec
=============================================================================
