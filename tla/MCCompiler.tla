----------------------------- MODULE MCCompiler -----------------------------
(***************************************************************************)
(* Programs for Compiler: loops with jumps, functions and their bodies,    *)
(* the order of declarations, scopes, and expressions of two operators.    *)
(***************************************************************************)
EXTENDS FrontEnds, SequencesExt

Num(n) == LiteralExpr(IntValue(n))
Bool(b) == LiteralExpr(BoolValue(b))
x == VarExpr("x")
y == VarExpr("y")
z == VarExpr("z")
Plus(l, r) == BinaryExpr("+", l, r)
Less(l, r) == BinaryExpr("<", l, r)
Is(l, n) == BinaryExpr("==", l, Num(n))
CallOf(f, args) == CallExpr(VarExpr(f), args)
Show(e) == PrintStmt(<<e>>)
Let(v, e) == VarDeclStmt(v, e)
Bump(v) == AssignStmt(v, "+=", Num(1))
When(c, s) == IfStmt(c, s, NoTree)
Block(s) == BlockStmt(<<s>>)

-----------------------------------------------------------------------------
(***************************************************************************)
(* The tokens of a tree.  An expression is put in parentheses only where a *)
(* looser one may not stand; print arguments always are.                   *)
(***************************************************************************)
Op(s) == << <<"op", s>> >>
Word(s) == << <<"keyword", s>> >>
Name(s) == << <<"id", s>> >>

Tightness(e) ==
  CASE e.node = "ternary" -> 0
    [] e.node = "binary" -> CHOOSE k \in DOMAIN Levels : e.op \in Levels[k]
    [] e.node \in {"unary", "typeof"} -> 7
    [] OTHER -> 8

RECURSIVE Spell(_, _), SpellList(_), SpellStmt(_), SpellAll(_)

Names(params) ==
  FoldLeft(LAMBDA all, p : IF all = <<>> THEN Name(p) ELSE all \o Op(",") \o Name(p),
           <<>>, params)

SpellPlain(e) ==
  CASE e.node = "literal" ->
         (CASE e.value.type = "int" -> << <<"int", e.value.num>> >>
            [] e.value.type = "string" -> << <<"string", e.value.text>> >>
            [] OTHER -> Word(IF e.value.num = 1 THEN "true" ELSE "false"))
    [] e.node = "var" -> Name(e.name)
    [] e.node = "binary" ->
         Spell(e.left, Tightness(e)) \o Op(e.op) \o Spell(e.right, Tightness(e) + 1)
    [] e.node = "unary" -> Op(e.op) \o Spell(e.operand, 7)
    [] e.node = "typeof" -> Word("typeof") \o Spell(e.operand, 7)
    [] e.node = "ternary" ->
         Spell(e.condition, 1) \o Op("?") \o Spell(e.trueExpr, 0) \o Op(":")
           \o Spell(e.falseExpr, 0)
    [] e.node = "call" ->
         Spell(e.callee, 8) \o Op("(") \o SpellList(e.args) \o Op(")")
    [] e.node = "closure" ->
         Word("fn") \o Op("(") \o Names(e.params) \o Op(")") \o Op("=>") \o SpellStmt(e.body)

Spell(e, least) ==
  IF Tightness(e) < least THEN Op("(") \o SpellPlain(e) \o Op(")")
  ELSE SpellPlain(e)

SpellList(es) ==
  IF es = <<>> THEN <<>>
  ELSE Spell(Head(es), 0) \o
       (IF Len(es) = 1 THEN <<>> ELSE Op(",") \o SpellList(Tail(es)))

SpellStmt(s) ==
  CASE s.node = "expr" -> Spell(s.expr, 0) \o Op(";")
    [] s.node = "block" -> Op("{") \o SpellAll(s.statements) \o Op("}")
    [] s.node = "let" ->
         Word("let") \o Name(s.name) \o Op("=") \o Spell(s.init, 0) \o Op(";")
    [] s.node = "assign" -> Name(s.name) \o Op(s.op) \o Spell(s.value, 0) \o Op(";")
    [] s.node = "print" ->
         Word("print") \o Op("(") \o SpellList(s.exprs) \o Op(")") \o Op(";")
    [] s.node = "if" ->
         Word("if") \o Op("(") \o Spell(s.condition, 0) \o Op(")") \o
         SpellStmt(s.thenStmt) \o
         (IF s.elseStmt = NoTree THEN <<>> ELSE Word("else") \o SpellStmt(s.elseStmt))
    [] s.node = "while" ->
         Word("while") \o Op("(") \o Spell(s.condition, 0) \o Op(")") \o SpellStmt(s.body)
    [] s.node = "return" ->
         Word("return") \o (IF s.value = NoTree THEN <<>> ELSE Spell(s.value, 0)) \o Op(";")
    [] s.node \in {"break", "continue"} -> Word(s.node) \o Op(";")
    [] s.node = "function" ->
         Word("fn") \o Name(s.name) \o Op("(") \o Names(s.params) \o Op(")") \o SpellStmt(s.body)

SpellAll(stmts) ==
  IF stmts = <<>> THEN <<>> ELSE SpellStmt(Head(stmts)) \o SpellAll(Tail(stmts))

\* V4 has no arrow between the parameters of an anonymous function and its body.
SpellV4(stmts) == SelectSeq(SpellAll(stmts), LAMBDA t : t # <<"op", "=>">>)

-----------------------------------------------------------------------------
(***************************************************************************)
(* let x = 0; while (x < 2) { x += 1; u v } print x;                       *)
(***************************************************************************)
Jumps == {Show(x), BreakStmt, ContinueStmt, Block(BreakStmt), Let("x", Num(5))}

InLoop ==
  Jumps \cup {When(Is(x, 1), t) : t \in Jumps}
        \cup {IfStmt(Is(x, 1), t, e) : t, e \in Jumps}
        \cup {WhileStmt(Less(x, Num(2)), BlockStmt(<<Bump("x"), t>>)) : t \in Jumps}

Loops ==
  {<<Let("x", Num(0)),
     WhileStmt(Less(x, Num(2)), BlockStmt(<<Bump("x"), u, v>>)), Show(x)>> :
     u, v \in InLoop}

\* fn f(y) { u v } called from main, outside and inside a loop.
InFunction ==
  {ReturnStmt(y), ReturnStmt(NoTree), When(Less(y, Num(1)), ReturnStmt(Num(0))),
   IfStmt(Less(y, Num(1)), ReturnStmt(Num(0)), ReturnStmt(Plus(y, y))),
   Let("z", Plus(y, Num(1))), Let("y", Plus(y, Num(1))), Show(y),
   AssignStmt("y", "*=", Num(3)), ReturnStmt(Plus(CallOf("f", <<BinaryExpr("-", y, Num(1))>>), Num(1))),
   WhileStmt(Less(Num(0), y),
             BlockStmt(<<AssignStmt("y", "-=", Num(1)), When(Is(y, 1), BreakStmt)>>)),
   BreakStmt, Show(x), AssignStmt("x", "=", y), AssignStmt("y", "=", Plus(y, Num(2))),
   WhileStmt(Less(Num(0), y), AssignStmt("y", "=", BinaryExpr("-", y, Num(1)))),
   FunctionStmt("g", <<>>, Block(ReturnStmt(Num(7)))),
   ExprStmt(CallOf("g", <<>>))}

Mains ==
  {<<Show(Plus(CallOf("f", <<Num(1)>>), CallOf("f", <<Num(2)>>)))>>,
   <<Let("x", Num(0)),
     WhileStmt(Less(x, Num(2)),
               BlockStmt(<<Bump("x"), ExprStmt(CallOf("f", <<x>>)), Show(x)>>))>>,
   <<Let("x", CallOf("f", <<Num(2)>>)),
     AssignStmt("x", "=", Plus(x, CallOf("f", <<x>>))), Show(x)>>,
   <<Let("x", Num(0)), Let("y", CallOf("f", <<Num(1)>>)), Show(x)>>,
   <<Let("y", Num(9)),
     WhileStmt(Less(y, Num(10)),
               BlockStmt(<<Bump("y"), ExprStmt(CallOf("f", <<Num(3)>>))>>)), Show(y)>>}

Functions2 ==
  {<<FunctionStmt("f", <<"y">>, BlockStmt(<<u, v>>))>> \o m :
     u, v \in InFunction, m \in Mains}

\* Declarations and calls in every order.
Declarations ==
  {<<FunctionStmt("f", <<"y">>, Block(ReturnStmt(Plus(y, Num(1))))),
     FunctionStmt("g", <<"y">>, Block(ReturnStmt(CallOf("f", <<y>>)))),
     Let("x", CallOf("g", <<Num(1)>>)), Show(CallOf("f", <<Num(4)>>))>>,
   <<FunctionStmt("f", <<"y">>, Block(ReturnStmt(Plus(y, Num(1))))),
     FunctionStmt("f", <<"y">>, Block(ReturnStmt(y))),
     Let("f", Num(1)), Show(CallOf("f", <<Num(4)>>))>>}

Orders == UNION {{[i \in 1 .. 4 |-> p[perm[i]]] :
                    perm \in {q \in [1 .. 4 -> 1 .. 4] :
                                \A i, j \in 1 .. 4 : q[i] = q[j] => i = j}} :
                   p \in Declarations}

\* let x = 1; { u v } print x;
InBlock ==
  {Let("x", Num(2)), Let("x", Plus(x, Num(1))), Let("z", x), Bump("x"),
   AssignStmt("x", "=", Num(5)), When(Is(x, 1), Let("x", Num(2))), Show(z), Show(x),
   BlockStmt(<<Let("x", Num(3)), Bump("x"), Show(x)>>),
   WhileStmt(Less(x, Num(3)), Bump("x")),
   WhileStmt(Less(x, Num(3)),
             BlockStmt(<<Let("z", x), AssignStmt("x", "=", Plus(z, Num(1)))>>)),
   When(Less(x, Num(9)), IfStmt(Is(x, 1), Show(x), Show(Num(8)))),
   WhileStmt(Less(x, Num(3)), BlockStmt(<<Let("y", x), AssignStmt("x", "=", Plus(y, Num(1)))>>))}

Scopes == {<<Let("x", Num(1)), BlockStmt(<<u, v>>), Show(x)>> : u, v \in InBlock}

Operators == UNION {Levels[k] : k \in DOMAIN Levels} \ {"/"}

Nested ==
  {BinaryExpr(o, BinaryExpr(p, Num(5), Num(2)), Num(3)) : o, p \in Operators}
  \cup {BinaryExpr(o, Num(5), BinaryExpr(p, Num(2), Num(3))) : o, p \in Operators}
  \cup {UnaryExpr(o, BinaryExpr(p, Num(2), Num(3))) : o \in {"-", "!"}, p \in Operators}
  \cup {BinaryExpr(p, UnaryExpr(o, Num(2)), Bool(TRUE)) : o \in {"-", "!"}, p \in Operators}
  \cup {TernaryExpr(Bool(b), TernaryExpr(Bool(c), Num(1), Num(2)), Num(3)) : b, c \in BOOLEAN}
  \cup {TernaryExpr(Bool(b), Num(1), TernaryExpr(Bool(c), Num(2), Num(3))) : b, c \in BOOLEAN}
  \cup {TernaryExpr(TernaryExpr(Bool(b), Bool(c), Bool(TRUE)), Num(2), Num(3)) : b, c \in BOOLEAN}
  \cup {BinaryExpr("+", Num(1), TernaryExpr(Bool(TRUE), Num(2), Num(3))),
        TernaryExpr(Bool(FALSE), BinaryExpr("%", Num(1), Num(0)), Num(4)),
        TypeofExpr(Num(1)), TypeofExpr(UnaryExpr("-", Num(1))),
        LiteralExpr(StringValue("a")),
        CallExpr(ClosureExpr(<<"y">>, Block(ReturnStmt(Plus(y, y)))), <<Num(4)>>),
        CallExpr(CallExpr(ClosureExpr(<<"y">>, Block(ReturnStmt(
          ClosureExpr(<<"z">>, Block(ReturnStmt(Plus(y, z))))))), <<Num(4)>>), <<Num(5)>>)}

\* Logic with calls, chains of calls, and names that a scope left open hides.
Adds(v, w) == ClosureExpr(<<v>>, Block(ReturnStmt(Plus(VarExpr(v), w))))

Calls ==
  {<<FunctionStmt("f", <<"y">>, BlockStmt(<<Show(y), ReturnStmt(y)>>)),
     Show(BinaryExpr(o, l, r))>> :
     o \in {"&&", "||", "+"}, l, r \in {Num(2), Bool(FALSE), Less(Num(2), Num(1)),
                                      CallOf("f", <<Num(0)>>), CallOf("f", <<Num(3)>>)}}
  \cup {<<FunctionStmt("f", <<"y">>, BlockStmt(<<Show(y), ReturnStmt(y)>>)), u>> :
          u \in {Show(CallOf("f", <<CallOf("f", <<Num(1)>>), Num(2)>>)),
                 AssignStmt("z", "=", CallOf("f", <<Num(1)>>))}}
  \cup {<<FunctionStmt("f", ps, Block(ReturnStmt(Adds("z", Num(1))))),
          Show(CallExpr(CallOf("f", [k \in DOMAIN ps |-> Num(9)]), <<Num(4)>>))>> :
          ps \in {<<>>, <<"y">>}}
  \cup {<<FunctionStmt("f", <<>>, Block(ReturnStmt(z))), Let("x", Num(0)),
          WhileStmt(Less(x, Num(2)), Block(u)), Let("z", Num(6)), Show(CallOf("f", <<>>))>> :
          u \in {Bump("x"), BreakStmt}}
  \cup {<<Let("x", Num(1)), Let("f", Adds("y", x)), AssignStmt("x", "=", Num(5)),
          Show(CallOf("f", <<Num(2)>>)), BlockStmt(<<Let("x", Num(7)), u>>)>> :
          u \in {Show(CallOf("f", <<Num(2)>>)), Show(CallOf("f", <<>>))}}

\* Texts where numbers are asked for, and ternaries with arms of two types.
Txt(t) == LiteralExpr(StringValue(t))

Texts ==
  {<<Show(BinaryExpr("==", Txt("a"), Txt(t)))>> : t \in {"a", "b"}}
  \cup {<<Show(TernaryExpr(Less(Num(1), Num(2)), t, e))>> :
          t, e \in {Num(1), Less(Num(2), Num(3)), Txt("a"), Txt("b")}}
  \cup {<<FunctionStmt("f", <<"y">>, BlockStmt(<<Show(y), ReturnStmt(v)>>)), Show(CallOf("f", <<a>>))>> :
          v, a \in {Num(1), Bool(TRUE), Txt("a")}}
  \cup {<<Let("x", v), AssignStmt("x", o, a), Show(x)>> :
          v, a \in {Num(1), Bool(TRUE), Txt("a")}, o \in {"=", "-="}}
  \cup {<<IfStmt(v, Show(Num(1)), Show(Num(2)))>> : v \in {Num(0), Bool(TRUE), Txt("a")}}
  \cup {<<Let("x", BinaryExpr("%", Num(7), v)), Show(BinaryExpr("%", x, w)), Show(Num(1))>> :
          v, w \in {Num(0), Num(3)}}

Expressions == {<<PrintStmt(<<e, Num(0)>>)>> : e \in Nested}

-----------------------------------------------------------------------------
(***************************************************************************)
(* Texts with decrements and the same programs without.                    *)
(***************************************************************************)
AllDecrements ==
  LET begin == SpellAll(<<Let("x", Num(5))>>)
      down == AssignStmt("x", "-=", Num(1))
      first == AssignStmt("x", "-=", Num(2))
      shown(ts) == Word("print") \o Op("(") \o ts \o Op(")") \o Op(";")
      back == Name("x") \o Op("--")
      front == Op("--") \o Name("x")
  IN  {<<begin \o shown(back) \o shown(Name("x")),
         <<Let("x", Num(5)), Show(x), down, Show(x)>> >>,
       <<begin \o shown(front) \o shown(Name("x")),
         <<Let("x", Num(5)), down, Show(x), Show(x)>> >>,
       <<begin \o shown(front \o Op("+") \o back) \o shown(Name("x")),
         <<Let("x", Num(5)), down, Show(Plus(x, x)), down, Show(x)>> >>,
       <<begin \o shown(back \o Op("*") \o back \o Op(",") \o Name("x")),
         <<Let("x", Num(5)), first, Show(Num(20)), Show(x)>> >>,
       <<begin \o Word("while") \o Op("(") \o back \o Op(">") \o << <<"int", 3>> >> \o Op(")")
           \o shown(Name("x")),
         <<Let("x", Num(5)), down, Show(x), down, Show(x), down>> >>}

-----------------------------------------------------------------------------
\* Assignments of sums and products to variables that begin with 0.
Sums == {x, Num(2), Plus(x, BinaryExpr("*", y, Num(3))),
         BinaryExpr("*", Plus(x, Num(1)), y), BinaryExpr("-", BinaryExpr("-", x, y), Num(1)),
         BinaryExpr("-", x, BinaryExpr("-", y, Num(1)))}

Assignments ==
  {<<Let("x", Num(0)), Let("y", Num(0)), AssignStmt("x", "=", Plus(y, e)),
     AssignStmt("y", "=", Plus(e, f)), Show(f)>> : e, f \in Sums}

AllPrograms ==
  Loops \cup Functions2 \cup Orders \cup Scopes \cup Calls \cup Texts \cup Expressions
  \cup Assignments \cup {pair[2] : pair \in AllDecrements}
=============================================================================
