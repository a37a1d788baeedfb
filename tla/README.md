# Verification of mlir_compiler

TLA+ models of the compilers in this repository, checked with TLC on small
instances and, where it says so, proved with TLAPS for every instance. The
models are written from the C++ sources under `src/`; `PROJECT.json` maps every
definition to the lines it stands for and lists the hazards the properties are
for.

The repository holds two lines of programs: a small language with several front
ends and an LLVM back end, and the stages of a tensor compiler. All of them keep
nothing on disk and talk to nobody, and all but the loops that one stage emits
are sequential. What is hard about them is the order of rewrites on shared
structures: a pass looks at a graph, a use list or an analysis, decides, changes
the graph, and goes on with what it looked at before. The properties are about
the states in between.

## 1. Inventory

### Parts that are modelled

| Part | State | Operations | What makes it correct |
|---|---|---|---|
| **P13 memory planning** `src/src/mlir/gpu/13_memory_planning` | live intervals, conflict matrix, arena allocations, arena size, in-place candidates; pages of the KV cache | `stage1_liveness`, `stage2_interference`, `stage3_offset_planning`, `analyze_inplace`, `stage7_kvcache_decode_planning`, run in this order by `main` | intervals cover every use; the arena is as large as its allocations need; a rewrite called safe overwrites nothing that is read later; the tokens of the window are in the cache |
| **P7 bufferization** `.../7_bufferize` | operator list, returned values, alias groups, in-place decisions, slots, copies, redirected inputs | `pass_cse`, `pass_dce`, `stage1_alias_analysis` to `stage5_copy_insert`, `print_bufferized` | the emitted buffer program computes what the tensor program computes |
| **P5 StableHLO optimiser** `.../5_stablehlo_opt` | operators in order, operands and use lists, types, attributes, returns | fifteen passes in five stages and the legalization, called by `run_pipeline` | use lists mirror operands, types are those of the tensors computed, the tensors returned stay the same, a marked normalization apart |
| **P6 Linalg fusion** `.../6_linalg_opt` | operators known by address, bodies, use lists, fusion candidates | cleaning, candidates and their filters, elementwise merging, tile-and-fuse, cleaning | use lists and definitions stay consistent; merged bodies compute what they stand for; no cycles |
| **P3 graph rewriting** `.../3_graph_optimize`, `common/mini_ir.h` | nodes by name, initializers, outputs | conv-bn fusion, transpose elimination, constant folding | names are defined before they are read; the outputs stay the same |
| **P4 conversion** `.../4_onnx_to_stablehlo` (three tiers) | types and values by name, emitted operations, statistics, errors | context set-up, one converter or one of 21 patterns per node, finalization, exit status | what is emitted type-checks; failures leave nothing behind; exit status 0 means every output is there |
| **P8 loops** `.../8_scf_affine` | a statement tree, written anew by each pass | loop generation, canonicalization, tiling, interchange and fusion, parallelization, promotion, vectorization | every form of the nest computes the same sums in the same order, the last one with an fma for each product and sum; parallel iterations do not race |
| **Interpreter V4** `src/include/ast/interpreter_v4.hpp` | tokens; scope chain `Env`; closures; break, continue and return as C++ exceptions | the parser; `eval` and `exec` of every class | the text means what was written |
| **Code generator of V4** same file, `run_interpreter_v4_llvm.cpp` | insertion point, named values, loop stack, functions | `codegen` of every class, `generateProgram` | the module is well formed and prints what the evaluator prints |
| **ANTLR front end** `src/antlr` | a parse tree; `currentEnv` | the rules of the generated parser, the visit methods | same as V4 |
| **Interpreters V1, V2** `interpreter_v1.hpp`, `interpreter_v2.hpp` | a map; a stack of scopes and a table of functions | parser and evaluator | same as V4, on their part of the language |
| **LLVM passes: empty blocks** `src/src/pass/remove_trivial_block_passes.cpp`, `simple_pass_passes.cpp` | control-flow graph, PHIs, the list of candidates | one removal after the other | every route through the function ends where it did, every PHI takes the value it took |
| **LLVM passes: loops** `remove_trivial_loop_passes.cpp`, `remove_zero_trip_loop_passes.cpp` | control-flow graph, uses and PHIs behind the loops, `LoopInfo` of the function as it was | one loop after the other | only loops that nothing leaves are deleted, only loops whose body never runs are bypassed, uses behind them keep their values |

### How the parts interact

The stages P1 to P14 are separate executables; each builds its own graph (P1 to
P4 and P12 may read an `.onnx` file) and prints the result. No stage consumes
another one's output. Inside a stage, passes share one graph and run in the order
of its `main` or `run_pipeline`; this order is the models' `stage` variable. P13
is composed of the planner and of the cache (`MemoryPlanning`). The language has
one syntax and five implementations; `FrontEnds` runs them on the same programs,
and `Compiler` runs V4's two back ends on the same tree. The LLVM passes are
loaded into `opt` and share the function with LLVM's analyses: `Cfg` states what
those analyses answer.

### Not modelled

* **P12 quantization**: scales of one built-in graph from constants in the
  source, inserted Q/DQ operators and printed estimates; no tensor is quantized.
  Seen while reading: Stage 3 marks a convolution `PER_TENSOR_AFFINE`/`UINT8`
  and keeps its per-channel scales for 127 steps; Stage 4 leaves the second
  convolution out and an input of the last operator unconnected; the import of a
  quantized model replaces the whole graph by three operators. These are single
  assignments, which a model would only repeat.
* **P14 partitioning** and the **NFA/DFA demonstration**: one loop each over a fixed list.
* **P9, P10, P11** print listings and tables that do not depend on an input;
  **P1, P2** parse and copy a protobuf graph.
* **V3** is V4 without break, continue and code generation, line for line.
* The pass plugin (a table of names), the simple LLVM demonstrations, the
  `mlir/cpu` walk-through, Python generators, tests, build files, and
  `onnx-ml.pb.*`. The protobuf code is half of the repository's lines.

Inside the modelled parts, printing is left out everywhere; each component's
note in `PROJECT.json` says what else.

## 2. Modules

| Module | Stands for | EXTENDS |
|---|---|---|
| `MemPlan` | P13, Stages 1, 2, 3 and 5 | |
| `KvCache` | P13, Stage 7 | |
| `MemoryPlanning` | P13, `main` | `MemPlan`, `KvCache` |
| `MemoryPlanning_proofs` | theorems about P13 | `TLAPS` |
| `Bufferize` | P7 and the program it emits | |
| `Bufferize_proofs` | theorems about P7 | `TLAPS` |
| `ShloGraph`, `ShloOpt` | P5: the graph and what it computes; the passes | |
| `ShloOpt_proofs` | theorems about P5: its graph and use lists | `TLAPS` |
| `ShloTensors_proofs` | theorems about P5: the tensors it computes | `ShloOpt_proofs` |
| `LinalgGraph`, `LinalgFuse` | P6: the graph; the passes | |
| `GraphRewrite` | P3 | |
| `GraphRewrite_proofs` | theorems about P3 | `TLAPS` |
| `StableHlo`, `Conversion`, `Lowering` | P4: dialect and builder; framework and patterns; the three tiers | |
| `Lowering_proofs` | theorems about P4 | `TLAPS` |
| `LoopNest`, `LoopRun` | P8: the passes; execution of the nests | |
| `LangTree`, `LangParser`, `Evaluator` | V4: trees and values, parser, evaluator | |
| `CodeGen` | V4: `codegen` | `Evaluator` |
| `Prints` | abstract: what a compiled program promises | |
| `Compiler` | V4: from tokens to the end of the run | `LangParser`, `CodeGen` |
| `LangGrammar`, `Visitor` | the ANTLR parser and visitor | `LangParser`; `Evaluator` |
| `InterpreterV1`, `InterpreterV2` | V1, V2 | `LangParser`, `Evaluator` |
| `FrontEnds` | all front ends on one text | `Compiler` and the four above |
| `Cfg` | external: the CFG and loop queries of the LLVM library | |
| `TrivialBlocks`, `LoopPasses` | the LLVM passes | `Cfg` |
| `TrivialBlocks_proofs`, `LoopPasses_proofs` | theorems about the passes | `TLAPS` |
| `MC*` | instances | the module they are named after |

Several modules have a variable `lapses`. It is a history variable: it collects
what the code is seen to overlook in the graph at hand, each item defined next
to the rewrite that does it. A property stated for graphs without some lapses
says exactly what goes wrong when they happen; every lapse occurs in the run,
and every one a property excludes is needed there.

### MemPlan, KvCache, MemoryPlanning

The graph is a variable chosen by `Init` and never changed, so one run covers
all small graphs. `VisitOp` is one iteration of the loop over operators in
`stage1_liveness`, `PinExternal` the loop over buffers that ends it,
`Interference` the double loop of Stage 2. Stage 3 sorts the activations with
`std::sort`, which promises nothing about equal sizes: the next buffer is *any*
largest pending one (`IsNext`), and `PlaceShared`/`PlaceFresh` are one iteration
with and without a donor. `AnalyzeInplace` is `analyze_inplace` as a whole.
`Decode` is one step of Stage 7: the token's page is its page number modulo the
pages of the window. The program prints the first six steps with a window of 64
tokens and pages of 16; the model runs the ring for any sizes and all steps.

### Bufferize

`Cse` and `Dce` are one erasure with its restart, `GroupAlias`, `AssignSlot` and
`InsertCopy`/`SkipCopy` one iteration of the loops of Stages 1, 4 and 5, `Decide`
Stages 2 and 3 (which only fill one record per operator). `EndCopy`, `RunOp` and
`Return` *run* what `print_bufferized` prints: a memory cell holds the name of
the value stored there last, so reading a wrong buffer is visible as reading
another value. `SafeShape` names the graphs for which the plan is right.

### ShloGraph and ShloOpt

A graph is a record (values, operator list, use lists, returns) and each method of
`Graph` an operator on it. One action of `ShloOpt` is one rewrite of one pass, at
the position the pass's own scan finds first (`Found`): passes that say
`changed = true; break` start again, shape inference and the three sweeps go on
behind the position, and the two dead-code passes scan from the end. `EndPass` is
a scan that finds nothing. Shapes are rotations of one shape with three different
extents: the permutations the layout passes know, and those of the built-in
transpose graph, are the rotations by 1 and 2, so composition, identity and
inverse are exact. `Meaning` computes the tensors of a graph, with one entry per
rotation, so that a transpose that is lost, doubled or misplaced changes them.
Numbers are residues modulo 97.

`conv_bn_fusion` leaves a flag on the convolution (`WithBn`), and nothing says by how
much it is to be scaled and shifted: the constants are dead and go, and a second
fusion sets the flag again. So this pass does change what the graph computes, and
`ResultsKept` does not call that kept. It says how much is lost
(`NormalizationDropped`): if the marked convolution is taken to compute what the
erased sum did, the tensors of the old graph solve all the equations of the new one
but that of the convolution, and its results are the old ones. Every other step of
every pass keeps the results as they are, but for a returned value that has a reader,
too, while one of the three folding passes runs (`ReturnBlind`).

The calls of one stage are operands of a `+`, whose order C++ leaves to the
compiler. The model takes them from left to right, as GCC and Clang do; some of
the properties need that (`transpose_elim` must come before the layout folds,
which would otherwise fold two transposes into one attribute).

### LinalgGraph and LinalgFuse

Operators are known by addresses: `erase_op` frees one, and a later operator may
be given it (`Allocatable`), any free one. Bodies are lists of scalar steps over
positions, renumbered as `stage5_fusion_rewrite` renumbers them. The candidates
are built once; `MergeElementwise` and `TileAndFuse` are one rewrite each. The
lapses: a candidate names another operator than it was built for, the
producer's result is returned as well, the fused operator comes before an operand
of the consumer, an extra input of a fused consumer keeps no user, a fused
consumer read the producer's result behind another input (`misplaced`), CSE merges
operators with different accumulators. `misplaced` is about
`run_linalg_opt.cpp:523-531`: the list of extra inputs leaves the producer's result
out and the body goes on with the numbers it had, so that `sub(mm, x)` and
`sub(x, mm)` become the same `FusedOp`. The model keeps no more than the code does,
reads such an operator as the first of the two, and `ResultsKept` is stated for
graphs in which the second does not occur. What a graph computes is compared as
terms. Shapes and tile sizes tell nothing apart here and are left out.

### GraphRewrite

One action is one rewrite with all its in-place changes of initializers and
names, at the first node that matches. A tensor is a residue and the order of
its axes; `Meaning` gives every name its tensor, node after node. The lapses: a
name that others read is redefined; an initializer that others read is rescaled
(or one that the convolution itself reads twice, or the name of the new bias is
given already); a computed bias is dropped.

### StableHlo, Conversion and Lowering

`Prepare` fills the context, `Convert`, `NoPattern` and `SkipLegal` are one
iteration of `applyFullConversion`, `Finalize` ends the function. Each pattern is an operator
that returns the body it leaves and whether it succeeded. The reference is external: the typing
rules of StableHLO (`WellTyped`), and what ONNX asks of a node (`Accepted`) and gives as its
shape (`OutputDims`). A node that ONNX would not accept is `mistyped`: operands
of wrong types or sizes, or a declared shape that is not the node's. The other
lapses name what patterns do not look at in nodes that ONNX accepts: dynamic or
unknown operand or initializer types, slice bounds that are negative or beyond the
tensor, slice steps below one, slice axes or steps that are computed, an exponent of
higher rank, the axes input of a mean, a full reduction without a declared type, batch
dimensions of products, groups of a convolution, a missing zero point or a per-axis
scale, a permutation that is none, a reshape to a shape known at run time, and
operators that are legal already. `encoding` is an initializer that is read as other
numbers than it holds: `extract_int64s` and `extract_floats` copy the raw bytes, or
look into one field of the protobuf, whatever `data_type` says, so that int32
slice bounds and shapes or an int64 exponent come out wrong, and `emit_initializers`
does the same to constants of other types than f32, i64 and i8. An initializer is
therefore a record of what ONNX means by it and what each of the three readers makes
of it (`TensorData`). How a literal is spelled is left out.
`ReadBeyondInputs` is the out-of-range access of `DequantizeLinear` without a zero
point, of `Transpose` with an axis too large and of `Slice` with fewer bounds than
axes; the program is gone then, or goes on with a number of `Stray`. `IsOnnxGraph` says what ONNX's checker sees to
before the stage runs: names given once and not empty, integers as the numbers of an
initializer, the arities of the operators, outputs that something provides.

`Lowering` adds the first two tiers, which share `Prepare` and `Finalize` with the third:
`tier` chooses the program. `Dispatch` is an iteration of the loop of `run_level1.cpp`,
`DispatchL2` of `run_level2.cpp`, `SkipUnsupported` of either at an operator
it does not know, `Stop` a vector of negative size or a read beyond a shape in the
first tier. The first tier checks nothing, so its further lapses are many: operands
without a value (`missing`) or of different types, padding by name, products of
other ranks, zeros in a shape. The second tier maps the output of two operands that do not broadcast to
the left one (`clash`), and both drop a bias whose producer was skipped (`bias`): the
exit status is 0 all the same, which `SuccessReturnsAll` therefore excludes.
Where the second tier repeats the third's code, the model repeats its operators.

### LoopNest and LoopRun

`LoopNest` gives the statement tree after each of the seven passes, for any sizes
and tiles that divide them. `LoopRun` executes each tree. Only C is shared and
written, so a step of a parallel iteration is one access to C and everything
private up to the next one; iterations interleave freely. Sums and products are
neither associative nor commutative, so results agree only when the same operations
were done in the same order. Stage 7 writes `vector.fma`
(`run_scf_affine.cpp:399`), which rounds once where a product and a sum round twice:
`Fma` is an operation of its own, and `Expected` asks for it after Stage 7, in the order
the sums had before. Bit for bit, C is therefore not what it was before that stage. A register belongs to its iteration; so does a tile.

### LangTree, LangParser, Evaluator, CodeGen, Compiler, Prints

A text is its tokens; `LangParser` has one operator per method of `Parser`, with
a position that becomes `Failed` where the code throws. `Evaluator` passes a
record of scopes, output and the exception in flight. `CodeGen` has one operator
per `codegen` method on a record of the context. `Compiler` is the state
machine: parse, generate the functions, generate `main`, then one action per
instruction of the module, with frames, registers and cells. How LLVM executes a
module is external. `Prints` is the abstract specification: the text of the
evaluator is printed item by item and the program ends, or it was refused and
printed nothing; `CompiledPrintsSame` is the refinement, under a mapping
(`Evaluated`) to the evaluator's text. Conditions named in `Compiler` say for
which programs: each names a difference between `exec` and `codegen`
(statements behind a jump, functions not at the top, a return in `main`, calls or
`%` in the arms of `?:`, a variable read in its own initial value, declarations
that are not in a block, `typeof` of anything but a literal, texts where numbers
are asked for). Those that the generator must take are `Compilable`.

The generator asks no operand for its type. It emits `fcmp` and float arithmetic also
for a text, which is a pointer: the module is then malformed (`InstrFits` gives every
instruction's operands the types the verifier asks for), and so it is with a text as
condition, argument or returned value, or arms of `?:` of two types. `OperandsFit`
names the programs without these, `VariablesHoldNumbers` those that keep no text in a
variable, whose cell is a double. A remainder by zero stops the evaluator; in LLVM it is
undefined, so such programs are not compared.

### LangGrammar, Visitor, InterpreterV1, InterpreterV2, FrontEnds

`LangGrammar` has one operator per rule of the generated parser. `Visitor` is
the tree walk on its trees; what it does differently from V4 is its control:
the current scope is a member, put back at the end of a block and of a call but not
when a break or continue passes; `&&` and `||` yield an operand and may
skip the right one; argument lists are counted apart from calls, so that in
`f()(4)` the first call takes the 4; arguments are evaluated before they are
counted; `--x` does not visit its operand; `typeof` yields a truth value because
`Value` has no constructor for a C string. `InterpreterV2` climbs precedences,
keeps functions in a table that parsing fills, and runs a call on a copy of the
caller's scopes. `InterpreterV1` has one map in which a missing name is 0.
`FrontEndsAgree` compares them with V4 on each program; its conditions name the
differences; among them is that V2 has no value for a text, which is the number 0
anywhere but in a print. The spelling of numbers and truth values in the output is left out
(V2 prints 1 where V4 prints `true`).

### Cfg, TrivialBlocks, LoopPasses

A function is the successor sequence of each block; a PHI is a set of
(predecessor, value) pairs. `Cfg` defines predecessors, reachability, dominance,
natural loops and exits as the LLVM documentation does and as the passes use
them; it is external code. In `TrivialBlocks`, `RemoveTrivial` is one candidate
with its PHI repair, `SkipBlock`/`ReplaceBlock` one block of
`RemoveEmptyBlockPass`. In `LoopPasses`, the loops are found once
(`Init`, as `LoopInfo` is) and visited in any order; the loop whose values are
followed looks zero-trip and leads to the PHI (`IsFunction`), since the pass would
not touch it otherwise; `CutLoop`, `BypassLoop`,
`BreakPhi` and `SkipLoop` are the outcomes of one iteration, `ReadDeleted` the
one in which the loop's blocks are gone already. The trip count that
ScalarEvolution finds is an input of the model. The uses behind a loop are one
operand and one PHI, of the three kinds the code tells apart.

## 3. Runs

| Run | Instance | Shows |
|---|---|---|
| `memplan` | all graphs of 3 computed and 1 external buffer over 3 operators, sizes 1 and 3, alignment 2; then 12 decode steps, window 3, pages of 2 | what the plan guarantees in every order of equal sizes; the window stays in the cache |
| `memplan_resnet` | the graph of `stage0_setup` | **refuted**: `NoLiveOverlap` |
| `bufferize` | all graphs of 3 operators, of 5 without dead code, and `make_test_graph` | alias groups cover what shares memory; buffers are used between allocation and release; the emitted program is correct on graphs of `SafeShape` |
| `shlo_opt` | 6500 graphs of up to five operators and five built-in graphs | use lists, shapes, fusion groups and returned tensors after every rewrite of the pipeline, and what a fused normalization drops; it ends |
| `linalg_fuse` | 9000 graphs of chains and products | use lists, order and returned tensors after every rewrite |
| `linalg_fuse_cycle` | `make_test_graph` of P6 | **refuted**: `NoCycle` |
| `graph_rewrite` | 6500 graphs and three built-in ones | names, order and outputs after every rewrite |
| `conversion` | three tiers on about 1700 graphs: every converter and pattern on small operands and attributes, declared and inferred results | emitted operations type-check and have ONNX's shapes; failures leave nothing behind; success returns all outputs |
| `loop_run` | 4 x 4 x 4 with tiles of 2 | all seven forms compute the same, the last one with fused operations, under every interleaving, without races |
| `compiler` | 3793 programs | all front ends read and print the same; the module is well formed and prints what the evaluator prints, and ends |
| `trivial_blocks` | all functions of 4 blocks | routes and PHIs after every single removal |
| `loop_passes` | functions of 5 blocks | control flow, PHIs and uses behind loops |

A refuted property quotes what a document or a comment says of the program; the
finding in `PROJECT.json` names both places.

* Stage 3 of P13 asks one donor, not all the buffers at its offset. Two buffers
  that are live together share bytes in the residual block the program itself
  builds. `SharingIsDeliberate` is the weaker fact that does hold.
* Fusion candidates of P6 are addresses. In the graph the program itself builds,
  an operator is allocated where a candidate's was freed and is fused
  into a product that it depends on.

### Met while modelling

These are differences between what a reader might expect and what the code does; no run
is spent on them. Where a property has a condition or a lapse, it is there for one
of these, and the property says nothing of the graphs and programs it leaves out.
What `conv_bn_fusion` drops is in the property itself.

* P7: copies are taken from the slot a value was given first, also when an
  earlier in-place operator has overwritten it; a returned matrix product gets the output
  buffer and never sees its accumulator.
* P5: the three folding passes count the users of a value and not the return, so
  a convolution or a transposed input that is returned as well changes its
  meaning or loses its operator; a fused scale and bias are kept nowhere, and a
  second pair is fused into the same flag; folded constants and merged transposes are printed
  behind their users; the layout folds skip the operator behind an erased one;
  a sum that `identity_elim` uncovers in Stage 5 is not simplified any more;
  `exponential` and `log` are not legalized.
* P6: alias edges and `canonicalize` have no effect; a consumer fused into a tile
  loop forgets which of its inputs was the producer's result (`misplaced`); a
  product's candidate is dead after its consumer was merged, unless the address is
  used again; freed candidates are read before they are looked for.
* P3: folding constants ignores shapes; a normalisation behind removed
  transposes stays; `erase_node` is given a reference into the vector it erases from.
* P4: slice bounds go into the operation as ONNX has them (negative ones, or
  beyond the end); initializers are read without a look at their type; other
  lapses as above; the exit status of the third tier does not look at `errors`; the
  first two exit with 0 after dropping a bias.
* P8: `run_scf_affine.cpp:371` to `:373` announces one load and one store of C per
  element, 254 fewer; the accumulator is loaded and stored once per tile of
  k, which is 248 fewer. The fma of Stage 7 rounds once.
* V4: texts as operands, conditions, arguments or returned values make the module
  invalid, and a variable that is given a text does not hold it; `%` by zero
  is undefined; a break in a function called from a loop leaves that loop; code behind a
  break gives a block a second terminator; `print (a + b) * c;` and `x + 1;` are
  refused by the parser; globals are unknown in compiled functions;
  functions nested in others move the insertion point and see the loop stack.
* ANTLR: `x + 1;` is a statement; print needs parentheses; an anonymous function
  needs `=>`, which V4 refuses; a break thrown by a function's body leaves the
  callee's scope current.
* V2: unknown characters end the text silently; `f(1);` is refused as a
  statement; strings are 0 wherever they are not printed; comparisons and equality
  bind alike.
* LLVM passes: a cycle of empty blocks is deleted while branches still lead to it
  (`NoEmptyLoop`); `RemoveTrivialBlockPass` adds a second PHI entry for a
  predecessor that leads to the successor already; `RemoveEmptyBlockPass` leaves
  PHI entries that name the successor itself; `RemoveTrivialLoopPass` takes a
  null exit block, which also means several exits, for no exit;
  `RemoveZeroTripLoopPass` takes a backedge count of 0 for no iteration and may
  delete the PHI the next line adds to (`BreakPhi`); nested loops are not visited.

### Bounds, and why they are enough

* `memplan`: the planner relates at most three buffers at once (a buffer, its
  donor and a third one at that offset). Three computed buffers, two sizes
  and three operators give every order of definitions and uses, dead results
  included; the external buffer is an input or a weight, outputs are
  among the computed ones. Alignment 2 with sizes 1 and 3 makes rounding matter. A
  window of one page and a half wraps around within a page; 12 tokens are three rounds.
* `bufferize`: a conflict needs a definition, an overwriting operator and a later
  reader; five operators leave room for two conflicts on one value and for a chain
  of in-place results. Duplicates and dead code occur in the graphs of three.
* `shlo_opt`: a rewrite looks at three operators at most. The three families have
  three or four free operators over fixed constants or a fixed convolution;
  one or two values are returned, so that an intermediate result may be, too.
* `linalg_fuse`: chains of four, one product with operators around it, two
  products, and chains behind a product long enough to free an address and use it
  again. Two arguments and one shape: the passes compare values, not shapes.
* `graph_rewrite`: four nodes; all permutations of three axes; shared weights,
  scales and biases.
* `conversion`: patterns look at one node and the types of its operands;
  graphs of two nodes follow a result into the next pattern.
* `loop_run`: two tiles in every direction show bounds, tails and the
  accumulator carried from one tile to the next; four rows run in parallel.
* `compiler`: loops with one jump and statements around it, two functions,
  declarations in every order, scopes, every pair of operators, calls of calls.
  `Fuel`, `MaxDepth` and `MaxOutput` bound iterations, frames and output; programs
  that run out of fuel are not compared.
* `trivial_blocks`: four blocks allow a chain of two candidates between a branch
  and a join, doubled edges, unreachable candidates and empty self-loops.
* `loop_passes`: five blocks allow two disjoint loops, nested loops, loops with a
  shared exit, with and without a preheader.

No run has a state constraint.

### Fairness

Liveness is termination under weak fairness of the whole next-state relation: a
sequential program keeps executing its next statement until there is none. For
P5 it is `WF_vars(Next)` and `Terminates`; for the compiled program it is
`Progress`, the same with the ENABLED predicate written out, and the liveness of
`Prints` as part of the refinement. No fairness between alternatives is assumed. The other
runs state no liveness. Those of P13, P6, P3, P4, P8 and the compiler check deadlock,
which shows that the machine stops in its last stage only; those of P7, P5 and the
LLVM passes (`Bufferize.cfg`, `ShloOpt.cfg`, `TrivialBlocks.cfg`, `LoopPasses.cfg`)
switch the check off, since their last state has no successor.

## 4. Theorems

For every value of the constants under the assumptions the modules state, which
TLC evaluates in each run. They are: sizes and windows are positive numbers and
`Graphs` is a subset of `ExecGraph` (`MemPlan`, `KvCache`); arguments and results
are different names, `ArgList` names no argument twice, and the graphs are such as
the builders of P7 make (`Bufferize`); a layout names every block once, branches
do not lead to the entry, and PHIs have the entries of their predecessors
(`TrivialBlocks`); the blocks are finite in number and the loop that is followed is one
of the function's (`LoopPasses`); the graphs are such as ONNX's checker accepts
(`Conversion`), or such as calls of `add_arg` and `add_op` make, with the operands an
operator's mnemonic asks for and no fusion groups, which only `pass_fusion_detect`
sets (`ShloOpt`, `IsBuilt`). What is said of the tensors in P5 rests on a second
assumption (`IsWellTyped`), which the other theorems about P5 do not use: arguments
have static shapes, every operator is one that `Apply` computes (divisions, maxima,
minima and the transcendental functions are not), a type declares the right shape or, if
shape inference can find it, none, and convolutions are as P4 emits them, in NCHW with a constant
or an argument as filter. Were the filter the very transpose that is the input, the
use list would have one user, and `nhwc_nchw_layout` would turn the filter, too. The nodes of a P3 graph are in order, define every
name once, have the inputs their operators take and none has the name of another's
fused bias, every operator is one the model computes and its tensors fit it
(`GraphRewrite`, `Inputs` and its `ASSUME`). None bounds the size of a graph or a
function.

| P13, in `MemoryPlanning_proofs` | Argument |
|---|---|
| `TypeCorrect` | inductive as it stands; lemmas on `RoundUp` and `HighWater` give the naturals |
| `LivenessCovers` | the intervals cover the uses at the operators visited so far; pinning only widens intervals |
| `SharingHasDonor` | `ArenaInv`, over the allocations in the order they were made. A shared place lies inside its donor because the donor is at least as large, a fresh one starts at `total`. Disjointness of a shared place needs the donor's, that of a fresh place needs that `total` bounds all ends: neither is inductive alone |
| `PlanExact` | `ArenaInv`, and `PlacementInv`: pending and placed activations are disjoint and together all of them, and no buffer is placed twice |
| `SafeRewritesAreSafe` | from `LivenessCovers`, and that the kind stored with a candidate is the one `Kind` still gives |
| `PipelinePlans`, `PipelineDecodes` | every step of `main` is a step of the planner or a stutter, and likewise for the cache: what is proved of either holds of `main` |
| `WindowStaysResident` | `KvInv`: the last tokens, as many as the pages hold, are in their places. Two tokens of one window have different places (`PlacesDiffer`), because the pages cover the window (`PagesCoverWindow`) |

| P7, in `Bufferize_proofs` | Argument |
|---|---|
| `TypesCorrect` | with the positions each stage has reached (`Inv`) |
| `UsesAreDefined` | erasing an operator nobody uses, or renaming its result to an earlier one, leaves every use behind a definition |
| `SharingIsCovered` | a slot is shared only along `aliases_with`, whose ends Stage 1 unites; a copy takes a result out of its slot and into one nobody else has |
| `BuffersAreInOrder` | which slots the emitted program has allocated at each operator |
| `SafeShapesAreCorrect` | under `SafeShape` the results that live in one slot form a chain, each overwriting the one before it, or branch off into a copy; `mem` then holds, at each operator, the last of the chain. The condition on the graph has to be carried through the copies Stage 5 inserts |
| `PrecleanIsSound` | the meaning of a graph is the only function on values that satisfies the equation of every operator; the meaning of the graph before an edit satisfies the equations of the graph after it |

| P3, in `GraphRewrite_proofs` | Argument |
|---|---|
| `TypesCorrect` | a rewrite erases one node, or two, and changes at most the one that defined what the erased node read, which takes over its name (`TakeOver`). That the new bias is no node's name needs `Fresh`, which has to be carried along |
| `NamesAreDefined` | where nobody else reads the name that goes, the node that takes a name over comes before the one that had it, hence before its readers; the readers of a removed pair read what the pair read, which is defined before the pair |
| `OutputsAreKept` | `RInv`: there is *one* assignment of tensors to names that satisfies the equation of every node and the initializers, and gives the outputs what the loaded graph gave them. A graph in order has only one (`EvaluationIsUnique`), and `Meaning` is it (`MeaningEvaluates`). Merging, removing and folding keep the assignment as it is; fusing changes it at the weight and the bias, which only the convolution reads, and the fused convolution computes what the normalization did because `((x+1)w + b mod M - mean) a + offset` and `(x+1)(wa mod M) + (ba + offset - mean a mod M)` are the same residue (`FusedArithmetic`) |

| P4, in `Lowering_proofs` | Argument |
|---|---|
| `TypesCorrect` | every pattern is a chain of `Emit` calls, and one such call takes a well-named program to a longer one: the new name is the length of the program (`EmitFollows`). Operands come from the value map, which holds arguments and results only (`MapKnown`), so whatever a pattern has checked to be valid is known; only the first tier, which checks nothing, can read a missing value, and then `missing` is among the lapses |
| `FailuresLeaveNothing` | what every pattern does (`PatternOutcome`): it fails with the program as it was, or goes on from it. No pattern fails after its first operation, and that is why the missing rollback does no harm |
| `SuccessIsComplete` | `Progress`: a node has no value before its turn, since names are given once. In the third tier every node up to `next` has one unless it was counted as failed or remembered as skipped. In the others a node with a value had its operands (`TierFed`), and from the last node back to the first that covers all the outputs need (`NeededWithin`) |
| `ProgramsTypeCheck` | the invariant `Typing`, on top of the one for names (`SInv`): while there is no lapse (an initializer misread among them, so that the numbers the patterns go by are ONNX's), every operation is `WellTyped`, the types of all names have shapes of integers, and each converted node has the shape of `OutputDims` and what it reads is in the map (`Settled`). The last part is what keeps the shape of an *earlier* node when the map grows. Each pattern has a lemma that, from such operands and no lapse, it emits operations that type-check and ends with one of that shape; the tiers share them where they share code. The arithmetic is in a few lemmas: products and sums of dimensions (`Product` and `Total` are recursive functions, bounded and positive by `UpTo`), the numpy rule for two shapes (`BroadcastDims`), windows of a convolution (a floor division and a padding that is split in halves), and the size that a reshape computes for -1, which is the quotient of the sizes because the code divides by the numbers that are given |

| P5, in `ShloOpt_proofs`; the last two in `ShloTensors_proofs` | Argument |
|---|---|
| `GraphSound` | the inductive invariant `IInv`: the graph is `Sound` (each operator listed once, with the operands its mnemonic asks for, mirrored by the use lists, reading only what is there) and `Acyclic`. The last takes a rank for every value, above those of the operands: numbers will not do, since folded constants and merged transposes are appended behind their readers. A rewrite that moves uses to an earlier value keeps the ranks (`ReplacedBelow`), a new operator gets the rank of the one it replaces (`AddThenReplace`), and of two equivalent operators the kept one can be lowered to the rank of the other, because they read the same (`CseSound`) |
| `TypesCorrect` | from `IInv`. A layout fold erases one operator and goes on behind its position: `next` may then lie two behind the end of the list, no further |
| `UseListsConsistent` | from `IInv`. `erase_op` does not look whether the result is in use. That nobody reads it follows for most rewrites from the renaming of its readers, and from `Acyclic`: the renaming must not give the operator back to itself. For the scale `conv_bn_fusion` erases it needs that its one user was the addition, which is gone (`OnlyReader`) |
| `GroupsArePrivate` | `GInv`: before detection no operator has a group (`Ungrouped`), while it runs the numbers up to the count of the groups are the ones in use (`Numbered`), and always the groups are paths (`Paths`): a member that feeds another feeds nothing else, groups hold elementwise operators only, and the one member whose result leaves the group (its `Outlet`) ranks above the others. The chain that detection follows is a path (`ChainIsPath`), and nobody in it reads its last operator, since ranks rise along it (`NewGroup`). That outlets rank last is what the later passes need: a simplified member hands its readers either to the member before it, which takes its place and its rank (`MovedWithin`), or to an operand that is in no group or already an outlet of another, never to an inner member; the layout passes only move readers to values that a transpose, which is in no group, reads already (`BehindTranspose`) |
| `ShapesAreRight` | `SInv`: there are tensors that solve the equations of all operators, with the shapes the types declare (`Settled`). An acyclic graph has only one such solution (`MeaningIs`): by ranks, each round of `Meaning` finds what is still missing. So no rewrite has to be compared with the rounds that evaluate it; it is enough to give the new graph's tensors, most often the old ones, with the one of the operator that takes over changed (`Handover`), and to show that the operators it touches compute them. Sums, products and differences commute with rotations, and a convolution that reads or writes in NHWC rotates back what the transpose rotated (`ConvolvedTurned`, `ConvolvedFromTurned`). Shape inference leaves no operator without a shape: one of lowest rank could be given one (`AllStatic`) |
| `ResultsAreKept` | from the same step: the new tensors of the returned values are the old ones (`Proceeds`). It needs the order of the passes (`Ordered`): no transpose of a transposed convolution is left for the layout folds, hence none turns a convolution twice (`NoStack`, `Unturned`), and the fold of the inputs meets each convolution once, because its sweep never goes back (`UnturnedInputs`). `conv_bn_fusion` is the exception that the property states: the marked convolution computes something new, so the tensors behind it are new ones, but of the shapes there were (`ShapesSettle`, with `MeaningFits`: a graph whose shapes fit has a meaning that fits them), and the tensors of the old graph solve the new one but for that convolution, if it is given the tensor of the erased sum (`Drops`, `ConvBnSettled`) |

| LLVM passes, in `TrivialBlocks_proofs` and `LoopPasses_proofs` | Argument |
|---|---|
| `TypesCorrect` (of each) | with what a removal leaves of predecessors and PHIs |
| `RoutesAreKept` | where trivial blocks form no cycle they have a rank that drops along their branch. Splicing a block out raises no rank, so no cycle appears, and a branch leads to the end of its route or to a trivial block with that end |
| `PhisAreKept` | the entries a removed block hands to its predecessors are those of the routes through it; a block is removed only when that makes no predecessor ambiguous |
| `FlowInvariantHolds`, `FlowIsKept` | `Reached` is the least set that has the entry and is closed under successors; a natural loop is entered at its header only, and two loops are disjoint or one has the other's header (`LoopsNest`). A loop that lies in no other and has none inside can go alone: the entry then reaches what it reached before, less that loop (`Takes`). `FlowInv` says this of all the loops gone so far |
| `ValuesAreKept` | `ValueInv`: the PHI's entries are its predecessors, those from the followed loop bring its value, and once that loop is bypassed its preheader leads to the PHI. It needs `FlowInv`, since a later deletion must not touch that edge |

What a graph computes, or reaches, is defined by a recursive function. The provers
cannot instantiate the library's induction theorems, which take an operator, so
each proof module derives for a *set* what it needs of them: a set of naturals that
has 0 and the successor of each element has them all (`UpTo`, from the
well-foundedness of `<`), and from it that a function on an interval with a given
recursion exists (`RecursionExists`). The proofs name the set
(`{n \in 0 .. N : ...}`) where a text would name the hypothesis.

Only model-checked:

* liveness: `Terminates` of `ShloOpt`, the progress of the compiled program.
* The language components and `LoopRun`: their trees are walked by RECURSIVE
  operators, which the prover does not accept.
* `LinalgFuse`: its passes filter and fold sequences with operators as arguments,
  which the prover cannot unfold. In P3 and P4 such loops are recursive functions
  instead (`Meaning`, `Kept`, `Product`), about which it can reason.

## 5. Plan

1. Modules and runs of the inventory: done.
2. Theorems: P13, P7, P3, P4, P5 and the LLVM passes are done, every safety property of
   their runs. Next is the graph consistency of `LinalgFuse`.
