------------------------------- MODULE LoopRun -------------------------------
(***************************************************************************)
(* The loop nests of LoopNest after every pass, executed: iterations of a  *)
(* parallel loop run interleaved, each with its registers and its tile.    *)
(* Only C is written and shared, so a step of an iteration is one access   *)
(* to C and all that it does by itself up to the next access.              *)
(* Arithmetic is on residues, with sums and products that are neither      *)
(* associative nor commutative: results agree when the same operations     *)
(* have been done in the same order, as floating point asks for.  An fma   *)
(* rounds once and is an operation of its own: not a product and a sum.    *)
(***************************************************************************)
EXTENDS LoopNest, TLC

VARIABLES
  f,       \* Func::body
  stage,   \* the pass that has run last, 1 to 7
  phase,   \* "built", "running", "ran"
  main,    \* the thread that runs f
  workers, \* the iterations of the parallel loop that main is in
  c        \* the matrix C

vars == <<f, stage, phase, main, workers, c>>

(***************************************************************************)
(* Numbers.                                                                *)
(***************************************************************************)
Modulus == 9973

Mul(a, b) == IF b = 1 THEN a ELSE (17 * a + 29 * b + 3) % Modulus

Add(a, b) == (31 * a + 7 * b + 1) % Modulus

\* vector.fma: acc + a * b, rounded once; a product by one is exact.
Fma(a, b, acc) ==
  IF b = 1 THEN Add(acc, a) ELSE (31 * acc + 11 * a + 23 * b + 2) % Modulus

Relu(a) == (41 * a + 5) % Modulus

Extents == [A |-> <<M, K>>, B |-> <<K, N>>, bias |-> <<N>>, C |-> <<M, N>>,
            B_tile |-> <<TK, TN>>]

Inside(memref, at) == \A i \in DOMAIN at : at[i] \in 0 .. Extents[memref][i] - 1

\* The contents of the arguments: any distinct numbers.
Initial(memref, at) ==
  FoldLeft(LAMBDA n, i : 13 * n + i + 1, CASE memref = "A" -> 2 [] memref = "B" -> 3
                                             [] memref = "bias" -> 5 [] memref = "C" -> 7, at)

Places(memref) ==
  {at \in [DOMAIN Extents[memref] -> 0 .. M + N + K] : Inside(memref, at)}

InitialC == [at \in Places("C") |-> Initial("C", at)]

-----------------------------------------------------------------------------
(***************************************************************************)
(* Threads.  A frame is a list of statements, the one to do next, and the  *)
(* loop that they are the body of.                                         *)
(***************************************************************************)
Frame(stmts, loop) == [stmts |-> stmts, pc |-> 1, loop |-> loop]

Thread(frames, env) ==
  [frames |-> frames, env |-> env, regs |-> "v_one" :> [l \in 1 .. TN |-> 1],
   tile |-> <<>>, fault |-> FALSE]

Top(t) == Last(t.frames)

AtEnd(t) == Top(t).pc > Len(Top(t).stmts)

Finished(t) == Len(t.frames) = 1 /\ AtEnd(t)

Now(t) == Top(t).stmts[Top(t).pc]

\* Ready to access C.
Shared(t) == ~AtEnd(t) /\ Now(t).kind \in {"LOAD", "STORE"} /\ Now(t).memref = "C"

AtParallel(t) == ~AtEnd(t) /\ Now(t).kind = "PAR_LOOP"

Onward(t) == [t EXCEPT !.frames[Len(t.frames)].pc = @ + 1]

IndexValue(t, ix) == FoldLeft(LAMBDA n, iv : n + t.env[iv], 0, ix)

\* The places that a load or store touches, one for each lane.
Touched(t) ==
  LET at == [i \in DOMAIN Now(t).indices |-> IndexValue(t, Now(t).indices[i])]
  IN [l \in 1 .. Now(t).width |-> [at EXCEPT ![Len(at)] = @ + l - 1]]

Reads(t, memref, at) ==
  CASE memref = "C" -> c[at] [] memref = "B_tile" -> t.tile[at] [] OTHER -> Initial(memref, at)

Faulty(t) == [t EXCEPT !.fault = TRUE, !.frames = <<Frame(<<>>, <<>>)>>]

SetReg(t, reg, lanes) == [t EXCEPT !.regs = (reg :> lanes) @@ @]

Loaded(t) ==
  LET s == Now(t)
      at == Touched(t)
  IN IF \/ \E l \in DOMAIN at : ~Inside(s.memref, at[l])
        \/ s.memref = "B_tile" /\ t.tile = <<>>
     THEN Faulty(t)
     ELSE Onward(SetReg(t, s.reg, [l \in DOMAIN at |-> Reads(t, s.memref, at[l])]))

Computed(t) ==
  LET s == Now(t)
      Arg(i, l) == t.regs[s.args[i]][l]
      Lane(l) == CASE s.op = "mulf" -> Mul(Arg(1, l), Arg(2, l))
                   [] s.op = "addf" -> Add(Arg(1, l), Arg(2, l))
                   [] s.op = "maxf" -> Relu(Arg(1, l))
                   [] s.op = "broadcast" -> Arg(1, 1)
                   [] s.op = "fma" -> Fma(Arg(1, l), Arg(2, l), Arg(3, l))
  IN Onward(SetReg(t, s.result, [l \in 1 .. s.width |-> Lane(l)]))

\* The end of a loop's body: the next iteration, or on behind the loop.
NextIteration(t) ==
  LET loop == Top(t).loop
      iv == t.env[loop.iv] + loop.step
  IN IF iv < loop.ub
     THEN [t EXCEPT !.frames[Len(t.frames)].pc = 1, !.env[loop.iv] = iv]
     ELSE Onward([t EXCEPT !.frames = Front(@)])

Entered(t) ==
  [t EXCEPT !.frames = Append(@, Frame(Now(t).body, Now(t))),
            !.env = (Now(t).iv :> Now(t).lb) @@ @]

\* memref.copy of a tile of B.
Copied(t) ==
  LET row == IndexValue(t, Now(t).indices[1])
      col == IndexValue(t, Now(t).indices[2])
  IN IF t.tile = <<>> \/ row + TK > K \/ col + TN > N THEN Faulty(t)
     ELSE Onward([t EXCEPT !.tile =
            [at \in Places("B_tile") |-> Initial("B", <<row + at[1], col + at[2]>>)]])

\* One statement that does not involve C.
Private(t) ==
  IF AtEnd(t) THEN NextIteration(t)
  ELSE CASE Now(t).kind = "COMMENT" -> Onward(t)
         [] Now(t).kind = "FOR_LOOP" -> Entered(t)
         [] Now(t).kind = "ARITH" -> Computed(t)
         [] Now(t).kind = "LOAD" -> Loaded(t)
         [] Now(t).kind = "ALLOC" -> Onward([t EXCEPT !.tile = [at \in Places("B_tile") |-> 0]])
         [] Now(t).kind = "DEALLOC" -> Onward([t EXCEPT !.tile = <<>>])
         [] Now(t).kind = "COPY" -> Copied(t)

RECURSIVE Settle(_)
Settle(t) == IF Finished(t) \/ Shared(t) \/ AtParallel(t) THEN t ELSE Settle(Private(t))

-----------------------------------------------------------------------------
NoThread == Thread(<<Frame(<<>>, <<>>)>>, <<>>)

Init ==
  /\ f = stage1_linalg_to_loop
  /\ stage = 1
  /\ phase = "built"
  /\ main = NoThread
  /\ workers = <<>>
  /\ c = InitialC

Pass(n, g) ==
  CASE n = 2 -> stage2_loop_canon(g)
    [] n = 3 -> stage3_tiling(g)
    [] n = 4 -> stage4_loop_transform(g)
    [] n = 5 -> stage5_parallelize(g)
    [] n = 6 -> stage6_mem_opt(g)
    [] n = 7 -> stage7_vec_prep(g)

\* run_pipeline: the next pass.
Transform ==
  /\ phase = "ran" /\ stage < 7
  /\ stage' = stage + 1
  /\ f' = Pass(stage', f)
  /\ phase' = "built"
  /\ UNCHANGED <<main, workers, c>>

\* The function as it is now is called.
Start ==
  /\ phase = "built"
  /\ phase' = "running"
  /\ c' = InitialC
  /\ main' = Settle(Thread(<<Frame(f, <<>>)>>, <<>>))
  /\ UNCHANGED <<f, stage, workers>>

\* The iterations of a parallel loop begin together.
Fork ==
  /\ phase = "running" /\ workers = <<>> /\ AtParallel(main)
  /\ LET loop == Now(main)
     IN workers' = [iv \in {i \in 0 .. loop.ub - 1 : i % loop.step = 0} |->
                      Settle(Thread(<<Frame(loop.body, <<>>)>>, loop.iv :> iv))]
  /\ UNCHANGED <<f, stage, phase, main, c>>

Join ==
  /\ workers # <<>>
  /\ \A i \in DOMAIN workers : Finished(workers[i])
  /\ workers' = <<>>
  /\ main' = Settle(Onward(main))
  /\ UNCHANGED <<f, stage, phase, c>>

\* Thread t loads from C or stores to C; a store outside C is a fault.
After(t) ==
  IF Now(t).kind = "LOAD" THEN Loaded(t)
  ELSE IF \A l \in DOMAIN Touched(t) : Inside("C", Touched(t)[l]) THEN Onward(t) ELSE Faulty(t)

Stored(t) ==
  IF Now(t).kind = "LOAD" THEN c
  ELSE [at \in DOMAIN c |->
          IF at \in ToSet(Touched(t))
          THEN t.regs[Now(t).reg][CHOOSE l \in DOMAIN Touched(t) : Touched(t)[l] = at]
          ELSE c[at]]

MainStep ==
  /\ phase = "running" /\ workers = <<>> /\ Shared(main)
  /\ c' = Stored(main)
  /\ main' = Settle(After(main))
  /\ UNCHANGED <<f, stage, phase, workers>>

WorkerStep(i) ==
  /\ Shared(workers[i])
  /\ c' = Stored(workers[i])
  /\ workers' = [workers EXCEPT ![i] = Settle(After(@))]
  /\ UNCHANGED <<f, stage, phase, main>>

Return ==
  /\ phase = "running" /\ workers = <<>> /\ Finished(main)
  /\ phase' = "ran"
  /\ UNCHANGED <<f, stage, main, workers, c>>

Terminating == phase = "ran" /\ stage = 7 /\ UNCHANGED vars

Next ==
  \/ Transform \/ Start \/ Fork \/ Join \/ MainStep \/ Return \/ Terminating
  \/ \E i \in DOMAIN workers : WorkerStep(i)

Spec == Init /\ [][Next]_vars

-----------------------------------------------------------------------------
Threads == {main} \cup {workers[i] : i \in DOMAIN workers}

\* The stages; no access leaves its memory, and the tile of B is only used
\* between its allocation and its release.
TypeOK ==
  /\ stage \in 1 .. 7
  /\ phase \in {"built", "running", "ran"}
  /\ DOMAIN c = Places("C")
  /\ \A t \in Threads : ~t.fault

\* C's element: the products of its row and column added to it in the order of
\* k, then the bias, then ReLU.  Up to stage 6 a product is rounded and its sum
\* again; stage 7 has one fma for the two.
Expected(at) ==
  LET A(k) == Initial("A", <<at[1], k>>)
      B(k) == Initial("B", <<k, at[2]>>)
      Accumulate(sum, k) ==
        IF stage < 7 THEN Add(sum, Mul(A(k), B(k))) ELSE Fma(A(k), B(k), sum)
      Sum == FoldLeft(LAMBDA sum, k : Accumulate(sum, k - 1), Initial("C", at),
                      [k \in 1 .. K |-> k])
  IN Relu(Add(Sum, Initial("bias", <<at[2]>>)))

\* However the parallel iterations interleave, the function leaves the same in C
\* after each of the stages 1 to 6: no pass changes what is computed or the order
\* of the additions.  Stage 7 keeps the order too, and replaces every product and
\* its sum by one fma: C is the same but for the rounding of the products.
ResultsKept == phase = "ran" => \A at \in DOMAIN c : c[at] = Expected(at)

\* Two iterations of a parallel loop never access one element of C at a time
\* when one of them writes it: the loops marked parallel carry no dependence.
RaceFree ==
  \A i, j \in DOMAIN workers :
    i # j /\ Shared(workers[i]) /\ Shared(workers[j])
      /\ "STORE" \in {Now(workers[i]).kind, Now(workers[j]).kind}
    => ToSet(Touched(workers[i])) \cap ToSet(Touched(workers[j])) = {}
=============================================================================
