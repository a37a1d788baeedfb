----------------------------- MODULE Bufferize -----------------------------
(***************************************************************************)
(* One-shot bufferization, stage P7 (src/src/mlir/gpu/7_bufferize).        *)
(*                                                                         *)
(* A graph of tensor operators in SSA form is cleaned (Stage 0), its       *)
(* potential sharing is grouped (Stage 1), the operators that may          *)
(* overwrite an operand are found (Stages 2 and 3), every value gets a     *)
(* memref slot (Stage 4), copies rescue values with later readers          *)
(* (Stage 5) and the program that results is emitted (print_bufferized).   *)
(* The last part of the model runs that program on a memory whose cells    *)
(* hold the name of the value last stored there.                           *)
(***************************************************************************)
EXTENDS Integers, Sequences, FiniteSets

CONSTANTS
  ArgList,  \* Graph::args, in order
  Results,  \* values that operators may define
  Labels,   \* Op::label of the elementwise operators
  NoValue,  \* the null Value pointer, and the contents of a fresh buffer
  Graphs    \* the graphs the pipeline may be given

Args == {ArgList[k] : k \in DOMAIN ArgList}

Values == Args \cup Results

Ops == [res : Results, label : Labels \cup {"zero_init", "matmul"},
        ins : Seq(Values), outs : Seq(Values)]

Graph == [ops : Seq(Ops), returns : SUBSET Values]

Elements(s) == {s[i] : i \in DOMAIN s}

\* What an operator reads.
Reads(op) == Elements(op.ins) \cup Elements(op.outs)

DefinedIn(s) == {s[i].res : i \in DOMAIN s}

\* What add_fill, add_matmul, add_elemwise and add_unary make.
Built(op) ==
  CASE op.label = "zero_init" -> op.ins = <<>> /\ op.outs = <<>>
    [] op.label = "matmul"    -> Len(op.ins) = 2 /\ Len(op.outs) = 1
    [] OTHER                  -> op.ins # <<>> /\ op.outs = <<>>

\* Every result is a fresh value (make_val).
SingleDefinitions(s) == \A i, j \in DOMAIN s : s[i].res = s[j].res => i = j

\* The operands of an operator exist when it is added.
UsesDefined(s) ==
  \A i \in DOMAIN s : \A v \in Reads(s[i]) :
    v \in Args \/ \E j \in 1 .. i - 1 : s[j].res = v

\* What the builders of a graph guarantee.
IsBuilt(g) ==
  /\ \A i \in DOMAIN g.ops : Built(g.ops[i])
  /\ SingleDefinitions(g.ops)
  /\ UsesDefined(g.ops)
  /\ g.returns \subseteq Args \cup DefinedIn(g.ops)

ASSUME NoValueAssumption == NoValue \notin Values
ASSUME DisjointAssumption == Args \cap Results = {}
ASSUME ArgListAssumption ==
  /\ ArgList \in Seq(Args)
  /\ \A j, k \in DOMAIN ArgList : ArgList[j] = ArgList[k] => j = k
ASSUME GraphsAssumption  == Graphs \subseteq Graph
ASSUME BuilderAssumption == \A g \in Graphs : IsBuilt(g)

VARIABLES
  source,    \* the graph as it was given
  stage,     \* the stage that runs next
  ops,       \* Graph::ops
  returns,   \* Graph::returns
  next,      \* position of the loop over the operators, from 1
  group,     \* AliasInfo::val_to_group
  plan,      \* OpBufInfo per operator: decision, aliases_with, needs_copy_before
  slots,     \* BufPlan::slots, the owner of each
  slotOf,    \* BufPlan::val_to_slot, 0 for no slot
  copies,    \* BufPlan::copies
  redirect,  \* BufPlan::input_redirect, 0 for none
  mem,       \* the emitted program: contents of the allocated slots
  misread    \* the operators that have read something else than their operand

vars == <<source, stage, ops, returns, next, group, plan, slots, slotOf,
          copies, redirect, mem, misread>>

Stages == {"cse", "dce", "alias", "decide", "assign", "copy", "run", "done"}

(***************************************************************************)
(* The graph.                                                              *)
(***************************************************************************)
Operands(i) == Reads(ops[i])

\* Value::users as positions.
Users(v) == {i \in DOMAIN ops : v \in Operands(i)}

IsFill(i)   == ops[i].label = "zero_init"
IsMatmul(i) == ops[i].label = "matmul"

\* Value::defining_op is set.
IsDefined(v) == \E i \in DOMAIN ops : ops[i].res = v

\* Graph::erase_op, by position.
Without(s, i) == SubSeq(s, 1, i - 1) \o SubSeq(s, i + 1, Len(s))

Renamed(v, old, new) == IF v = old THEN new ELSE v

\* Graph::replace_all_uses in the operands of every operator.
ReplacedUses(s, old, new) ==
  [i \in DOMAIN s |->
     [s[i] EXCEPT !.ins  = [k \in DOMAIN @ |-> Renamed(@[k], old, new)],
                  !.outs = [k \in DOMAIN @ |-> Renamed(@[k], old, new)]]]

Unplanned == [decision |-> "UNDECIDED", alias |-> NoValue, copy |-> FALSE]

----------------------------------------------------------------------------
Init ==
  /\ source \in Graphs
  /\ stage = "cse"
  /\ ops = source.ops
  /\ returns = source.returns
  /\ next = 1
  /\ group = [v \in Values |-> NoValue]
  /\ plan = <<>>
  /\ slots = <<>>
  /\ slotOf = [v \in Values |-> 0]
  /\ copies = <<>>
  /\ redirect = <<>>
  /\ mem = <<>>
  /\ misread = {}

(***************************************************************************)
(* Stage 0, pass_cse: a later operator with the label and the inputs of an *)
(* earlier one (its outs are not compared) is replaced by it.  The first   *)
(* such pair goes first and the search restarts.                           *)
(***************************************************************************)
SameOp_AnyInputs(i, j) ==     \* faulty: only the labels are compared
  ~IsFill(i) /\ i < j /\ ops[i].label = ops[j].label

SameOp(i, j) ==
  /\ ~IsFill(i) /\ i < j
  /\ ops[i].label = ops[j].label
  /\ ops[i].ins = ops[j].ins

Duplicates == {p \in (DOMAIN ops) \X (DOMAIN ops) : SameOp(p[1], p[2])}

Cse ==
  /\ stage = "cse"
  /\ \E p \in Duplicates :
       /\ \A q \in Duplicates : p[1] < q[1] \/ (p[1] = q[1] /\ p[2] <= q[2])
       /\ LET old == ops[p[2]].res
              new == ops[p[1]].res
          IN  /\ ops' = Without(ReplacedUses(ops, old, new), p[2])
              /\ returns' = {Renamed(r, old, new) : r \in returns}
  /\ UNCHANGED <<source, stage, next, group, plan, slots, slotOf, copies,
                 redirect, mem, misread>>

EndCse ==
  /\ stage = "cse"
  /\ Duplicates = {}
  /\ stage' = "dce"
  /\ UNCHANGED <<source, ops, returns, next, group, plan, slots, slotOf,
                 copies, redirect, mem, misread>>

\* Stage 0, pass_dce: the last operator whose result nobody uses or returns
\* goes, and the search restarts.
IsDead(i) == ops[i].res \notin returns /\ Users(ops[i].res) = {}

Dce ==
  /\ stage = "dce"
  /\ \E i \in DOMAIN ops : /\ IsDead(i)
                           /\ \A j \in DOMAIN ops : IsDead(j) => j <= i
                           /\ ops' = Without(ops, i)
  /\ UNCHANGED <<source, stage, returns, next, group, plan, slots, slotOf,
                 copies, redirect, mem, misread>>

\* The end of Stage 0, and the arguments' groups with which Stage 1 starts.
EndDce ==
  /\ stage = "dce"
  /\ \A i \in DOMAIN ops : ~IsDead(i)
  /\ stage' = "alias"
  /\ group' = [v \in Values |-> IF v \in Args THEN v ELSE NoValue]
  /\ plan' = [i \in DOMAIN ops |-> Unplanned]
  /\ redirect' = [p \in (DOMAIN ops) \X Values |-> 0]
  /\ UNCHANGED <<source, ops, returns, next, slots, slotOf, copies, mem, misread>>

(***************************************************************************)
(* Stage 1: the result of a matmul joins the group of its accumulator, any *)
(* other result that of its first input.  A group is named by its root.    *)
(***************************************************************************)
AliasParent(i) ==
  IF IsFill(i) THEN NoValue
  ELSE IF IsMatmul(i) /\ ops[i].outs # <<>> THEN Head(ops[i].outs)
  ELSE IF ops[i].ins # <<>> THEN Head(ops[i].ins)
  ELSE NoValue

AliasRoot(i) ==
  LET parent == AliasParent(i)
  IN  IF parent = NoValue THEN ops[i].res
      ELSE IF group[parent] = NoValue THEN ops[i].res
      ELSE group[parent]

GroupAlias ==
  /\ stage = "alias"
  /\ next \in DOMAIN ops
  /\ group' = [group EXCEPT ![ops[next].res] = AliasRoot(next)]
  /\ next' = next + 1
  /\ UNCHANGED <<source, stage, ops, returns, plan, slots, slotOf, copies,
                 redirect, mem, misread>>

EndAlias ==
  /\ stage = "alias"
  /\ next \notin DOMAIN ops
  /\ stage' = "decide"
  /\ UNCHANGED <<source, ops, returns, next, group, plan, slots, slotOf,
                 copies, redirect, mem, misread>>

(***************************************************************************)
(* Stages 2 and 3.                                                         *)
(***************************************************************************)
\* The operand an operator would like to overwrite.
preferred_inplace(i) ==
  IF IsFill(i) THEN NoValue
  ELSE IF IsMatmul(i) /\ ops[i].outs # <<>> THEN Head(ops[i].outs)
  ELSE IF ops[i].ins # <<>> /\ IsDefined(Head(ops[i].ins)) THEN Head(ops[i].ins)
  ELSE NoValue

\* The write conflicts of an operator: later readers of what it overwrites.
LaterReaders(i) == {j \in Users(preferred_inplace(i)) : j > i}

OutOfPlace == [decision |-> "OUT_OF_PLACE", alias |-> NoValue, copy |-> FALSE]

Decision_AnyOperand(i) ==     \* faulty: overwrites the last operand
  IF IsFill(i)
    THEN [decision |-> "INPLACE", alias |-> NoValue, copy |-> FALSE]
  ELSE IF \/ ops[i].res \in returns
          \/ ~IsDefined(ops[i].ins[Len(ops[i].ins)])
    THEN OutOfPlace
  ELSE [decision |-> "INPLACE", alias |-> ops[i].ins[Len(ops[i].ins)],
        copy |-> LaterReaders(i) # {}]

\* An operator overwrites its preferred operand unless it defines a returned
\* value or the operand is a function argument; later readers are served by a
\* copy.
Decision(i) ==
  IF IsFill(i)
    THEN [decision |-> "INPLACE", alias |-> NoValue, copy |-> FALSE]
  ELSE IF \/ ops[i].res \in returns
          \/ preferred_inplace(i) = NoValue
          \/ ~IsDefined(preferred_inplace(i))
    THEN OutOfPlace
  ELSE [decision |-> "INPLACE", alias |-> preferred_inplace(i),
        copy |-> LaterReaders(i) # {}]

ArgSlot(v) == CHOOSE k \in DOMAIN ArgList : ArgList[k] = v

\* The end of Stage 3, and the argument slots with which Stage 4 starts.
Decide ==
  /\ stage = "decide"
  /\ plan' = [i \in DOMAIN ops |-> Decision(i)]
  /\ slots' = [k \in DOMAIN ArgList |-> "input"]
  /\ slotOf' = [v \in Values |-> IF v \in Args THEN ArgSlot(v) ELSE 0]
  /\ next' = 1
  /\ stage' = "assign"
  /\ UNCHANGED <<source, ops, returns, group, copies, redirect, mem, misread>>

(***************************************************************************)
(* Stage 4: a fill allocates, a returned value is an output argument, an   *)
(* in-place result lives where the value it overwrites lives, every other  *)
(* one is allocated.                                                       *)
(***************************************************************************)
Owner(i) == IF ~IsFill(i) /\ ops[i].res \in returns THEN "output" ELSE "local"

Inherits(i) ==
  /\ ~IsFill(i) /\ ops[i].res \notin returns
  /\ plan[i].alias # NoValue
  /\ slotOf[plan[i].alias] # 0

NewSlot_Next(owner) ==        \* faulty: the id of the slot after the new one
  /\ slots' = Append(slots, owner)
  /\ slotOf' = [slotOf EXCEPT ![ops[next].res] = Len(slots) + 2]

NewSlot(owner) ==
  /\ slots' = Append(slots, owner)
  /\ slotOf' = [slotOf EXCEPT ![ops[next].res] = Len(slots) + 1]

AssignSlot ==
  /\ stage = "assign"
  /\ next \in DOMAIN ops
  /\ IF Inherits(next)
       THEN /\ slotOf' = [slotOf EXCEPT ![ops[next].res] = slotOf[plan[next].alias]]
            /\ UNCHANGED slots
       ELSE NewSlot(Owner(next))
  /\ next' = next + 1
  /\ UNCHANGED <<source, stage, ops, returns, group, plan, copies, redirect,
                 mem, misread>>

EndAssign ==
  /\ stage = "assign"
  /\ next \notin DOMAIN ops
  /\ next' = 1
  /\ stage' = "copy"
  /\ UNCHANGED <<source, ops, returns, group, plan, slots, slotOf, copies,
                 redirect, mem, misread>>

(***************************************************************************)
(* Stage 5: the operand is copied to a fresh slot before the operator      *)
(* overwrites it, its later readers read the copy, and those that would    *)
(* overwrite the operand too overwrite the copy.                           *)
(***************************************************************************)
Moves(j, target) == plan[j].decision = "INPLACE" /\ plan[j].alias = target

MovedResults_None(i) == {}    \* faulty: a later writer stays on the original

MovedResults(i) ==
  {ops[j].res : j \in {k \in LaterReaders(i) : Moves(k, plan[i].alias)}}

InsertCopy ==
  /\ stage = "copy"
  /\ next \in DOMAIN ops
  /\ plan[next].copy
  /\ LET target == plan[next].alias
         dst    == Len(slots) + 1
     IN  /\ slotOf[target] # 0
         /\ slots' = Append(slots, "local")
         /\ copies' = Append(copies, [src |-> slotOf[target], dst |-> dst,
                                      before |-> next])
         /\ redirect' = [p \in DOMAIN redirect |->
                           IF p[1] \in LaterReaders(next) /\ p[2] = target
                             THEN dst ELSE redirect[p]]
         /\ slotOf' = [v \in Values |-> IF v \in MovedResults(next)
                                          THEN dst ELSE slotOf[v]]
  /\ next' = next + 1
  /\ UNCHANGED <<source, stage, ops, returns, group, plan, mem, misread>>

SkipCopy ==
  /\ stage = "copy"
  /\ next \in DOMAIN ops
  /\ ~(plan[next].copy /\ slotOf[plan[next].alias] # 0)
  /\ next' = next + 1
  /\ UNCHANGED <<source, stage, ops, returns, group, plan, slots, slotOf,
                 copies, redirect, mem, misread>>

----------------------------------------------------------------------------
(***************************************************************************)
(* The emitted program.  Its arguments hold their values when it starts.   *)
(***************************************************************************)
\* BufPlan::effective_slot.
effective_slot(i, v) == IF redirect[<<i, v>>] # 0 THEN redirect[<<i, v>>]
                                                  ELSE slotOf[v]

EndCopy ==
  /\ stage = "copy"
  /\ next \notin DOMAIN ops
  /\ next' = 1
  /\ mem' = [s \in {k \in DOMAIN slots : slots[k] # "local"} |->
               IF s \in DOMAIN ArgList THEN ArgList[s] ELSE NoValue]
  /\ stage' = "run"
  /\ UNCHANGED <<source, ops, returns, group, plan, slots, slotOf, copies,
                 redirect, misread>>

IsCopyTarget(s) == \E k \in DOMAIN copies : copies[k].dst = s

\* A local slot is allocated before the first operator whose result it holds,
\* the target of a copy where the copy is made.
AllocatedBefore(i) ==
  {s \in DOMAIN slots : /\ slots[s] = "local"
                        /\ ~IsCopyTarget(s)
                        /\ slotOf[ops[i].res] = s
                        /\ \A j \in 1 .. i - 1 : slotOf[ops[j].res] # s}

CopiesBefore_None(i) == {}    \* faulty: copies are not emitted

CopiesBefore(i) == {k \in DOMAIN copies : copies[k].before = i}

\* Memory when operator i starts: with its allocations and its copy made.
MemBefore(i) ==
  LET targets == {copies[k].dst : k \in CopiesBefore(i)}
      Source(s) == copies[CHOOSE k \in CopiesBefore(i) : copies[k].dst = s].src
  IN  [s \in DOMAIN mem \cup AllocatedBefore(i) \cup targets |->
         CASE s \in targets -> mem[Source(s)]
           [] s \in DOMAIN mem /\ s \notin targets -> mem[s]
           [] OTHER -> NoValue]

\* A matmul also reads its accumulator, in the slot of its result, and must
\* not read another operand from there.
ReadsRight(i, m) ==
  /\ \A v \in Elements(ops[i].ins) : m[effective_slot(i, v)] = v
  /\ IsMatmul(i) => /\ m[slotOf[ops[i].res]] = Head(ops[i].outs)
                    /\ \A v \in Elements(ops[i].ins) :
                         effective_slot(i, v) # slotOf[ops[i].res]

RunOp ==
  /\ stage = "run"
  /\ next \in DOMAIN ops
  /\ LET m == MemBefore(next)
     IN  /\ mem' = [m EXCEPT ![slotOf[ops[next].res]] = ops[next].res]
         /\ misread' = IF ReadsRight(next, m) THEN misread
                                              ELSE misread \cup {next}
  /\ next' = next + 1
  /\ UNCHANGED <<source, stage, ops, returns, group, plan, slots, slotOf,
                 copies, redirect>>

\* The deallocations at the end of the program free every local slot.
Return ==
  /\ stage = "run"
  /\ next \notin DOMAIN ops
  /\ mem' = [s \in {k \in DOMAIN mem : slots[k] # "local"} |-> mem[s]]
  /\ stage' = "done"
  /\ UNCHANGED <<source, ops, returns, next, group, plan, slots, slotOf,
                 copies, redirect, misread>>

Next ==
  \/ Cse \/ EndCse \/ Dce \/ EndDce
  \/ GroupAlias \/ EndAlias
  \/ Decide
  \/ AssignSlot \/ EndAssign
  \/ InsertCopy \/ SkipCopy \/ EndCopy
  \/ RunOp \/ Return

Spec == Init /\ [][Next]_vars

----------------------------------------------------------------------------
Plans == [decision : {"UNDECIDED", "INPLACE", "OUT_OF_PLACE"},
          alias : Values \cup {NoValue}, copy : BOOLEAN]

\* Every variable has the type of the C++ object it stands for.
TypeOK ==
  /\ source \in Graph
  /\ stage \in Stages
  /\ ops \in Seq(Ops)
  /\ returns \subseteq Values
  /\ next \in Nat
  /\ group \in [Values -> Values \cup {NoValue}]
  /\ plan \in Seq(Plans)
  /\ slots \in Seq({"input", "output", "local"})
  /\ slotOf \in [Values -> 0 .. Len(slots)]
  /\ copies \in Seq([src : Nat, dst : Nat, before : Nat])
  /\ stage \notin {"cse", "dce"} =>
       redirect \in [(DOMAIN ops) \X Values -> 0 .. Len(slots)]
  /\ mem \in [DOMAIN mem -> Values \cup {NoValue}]
  /\ misread \subseteq Nat

\* The value an SSA program computes for each of its values, as a term over
\* the arguments.
Meaning(s) ==
  LET m[k \in 0 .. Len(s)] ==
        IF k = 0 THEN [v \in Values |-> <<v>>]
        ELSE [m[k - 1] EXCEPT ![s[k].res] =
                <<s[k].label, [i \in DOMAIN s[k].ins |-> m[k - 1][s[k].ins[i]]],
                              [i \in DOMAIN s[k].outs |-> m[k - 1][s[k].outs[i]]]>>]
  IN  m[Len(s)]

\* Every matmul accumulates into a zero tensor, the only accumulator the
\* graph builders of the repository make.
ZeroAccumulators(s) ==
  \A i \in DOMAIN s : \A v \in Elements(s[i].outs) :
    \E j \in DOMAIN s : s[j].res = v /\ s[j].label = "zero_init"

\* No value is used before it is defined.
DefinedBeforeUse == UsesDefined(ops)

\* Stage 0 keeps what the function returns, and whatever it erases no value is
\* used without its definition.  pass_cse does not compare the accumulators of
\* two matmuls, so the results are kept only if these are all zero.
PrecleanKeepsResults ==
  /\ DefinedBeforeUse
  /\ stage = "alias" /\ ZeroAccumulators(source.ops) =>
       {Meaning(ops)[r] : r \in returns}
         = {Meaning(source.ops)[r] : r \in source.returns}

\* Two values in one slot are in one of Stage 1's groups of values that may
\* share a buffer: the analysis that is printed covers the plan that is made.
GroupsCoverSharing ==
  stage \notin {"cse", "dce", "alias"} =>
    \A v, w \in Values : slotOf[v] # 0 /\ slotOf[v] = slotOf[w]
                           => group[v] = group[w]

\* The emitted program never writes the buffer of a function argument.
ArgumentsKept ==
  stage \in {"run", "done"} => \A k \in DOMAIN ArgList : mem[k] = ArgList[k]

\* The emitted program uses a buffer only while it is allocated, and when it
\* returns it has allocated, and so freed, every local slot of the plan.
BuffersAllocated ==
  /\ stage = "run" /\ next \in DOMAIN ops =>
       LET live == DOMAIN MemBefore(next)
       IN  /\ slotOf[ops[next].res] \in live
           /\ \A v \in Elements(ops[next].ins) : effective_slot(next, v) \in live
           /\ \A k \in CopiesBefore(next) : copies[k].src \in DOMAIN mem
  /\ stage = "run" /\ next \notin DOMAIN ops => DOMAIN mem = DOMAIN slots

\* What the plan relies on: returned values have no other use and come from
\* an elementwise operator, accumulators are local and used nowhere else in
\* their matmul, a value that is overwritten has at most one later reader,
\* and what such a reader writes over the copy is not overwritten again.
SafeShape ==
  /\ \A r \in returns : r \notin Args /\ Users(r) = {}
  /\ \A i \in DOMAIN ops : ops[i].res \in returns => ~IsFill(i) /\ ~IsMatmul(i)
  /\ \A i \in DOMAIN ops : IsMatmul(i) =>
       /\ Head(ops[i].outs) \notin Args
       /\ Head(ops[i].outs) \notin Elements(ops[i].ins)
  /\ \A i \in DOMAIN ops : plan[i].decision = "INPLACE" =>
       /\ Cardinality(LaterReaders(i)) <= 1
       /\ \A j \in LaterReaders(i) : Moves(j, plan[i].alias) =>
            \A k \in DOMAIN ops : plan[k].alias # ops[j].res

\* Every operator of the emitted program reads the values its tensor form
\* reads.
ReadsIntended == misread = {}

\* The buffers of the emitted program are in order: those of the arguments are
\* never written, the others are used while they are allocated only.
BuffersInOrder == ArgumentsKept /\ BuffersAllocated

\* For graphs of that shape the emitted program is the tensor program: each
\* operator reads its operands and the output buffers hold the results.
SafeShapeIsCorrect ==
  stage \in {"run", "done"} /\ SafeShape =>
    /\ ReadsIntended
    /\ stage = "done" => \A r \in returns : mem[slotOf[r]] = r
=============================================================================
