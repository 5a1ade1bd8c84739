# A formal model of the Merak compiler

Merak is a compiler from a small smart-contract language to EVM bytecode. This
directory holds TLA+ modules that model its passes, TLC configurations that
check them on small instances, and TLAPS proofs of what should hold for every
instance. The compiler is a sequential program, so most of what is hard in it
is not concurrency: it is worklists fed in `HashMap` order, positions that must
agree between files that never see each other, resources of fixed size (sixteen
reachable stack cells, sixteen stack positions), static memory frames shared by
nested calls, and loops over graphs that must end.

## 1. Inventory

The pipeline (`merak/src/lib.rs`, `Compiler::compile`) is: load imports →
parse → collect symbols and resolve names → type check → build SSA → storage
analysis → (refinement checking, not called yet) → code generation. Each phase
consumes the value of the one before; the symbol table is the only structure
shared by all.

| Component | State it keeps | Operations | What makes it correct |
|---|---|---|---|
| Import loading (`merak/src/lib.rs`) | `visited`, the map of loaded files | `load_recursive`, `resolve_import_path` | every reachable file once, cycles end, a name means one file |
| Parser, syntax tree (`parser`, `ast`) | none (generated LR parser) | `parse_file` | – |
| Symbol table (`symbols`), name resolution (`analyzer/src/lib.rs`) | scope stack, symbol arena, qualified-name map | `push_scope`, `pop_scope`, `add_symbol`, `lookup`, `clean_scopes` | a name resolves to the innermost declaration in scope |
| Type checker (`analyzer/src/typechecker.rs`) | expression types in the symbol table | one function per construct | every expression gets one type |
| SSA construction (`ir/src/transformers/ssa.rs`) | current block, CFG under construction | one case per statement | edges are exactly the jumps of the terminators |
| Dominance, loops, phis, renaming (`ir/src/ssa_ir.rs`) | idom, frontiers, loop forest, version stacks | `compute_dominance`, `build_loop_forest`, `phi_nodes_placement`, `recursive_rename_blocks` | idom is dominance by paths; one definition per version, every use dominated by it |
| Storage analysis (`analyzer/src/storage.rs`) | fold/unfold state per block | dataflow, insertion, CEI and immutability checks | no storage write after an external call on any path |
| Refinement inference and solver (`analyzer/src/refinements`) | assumptions, bindings, constraints, liquid assignment | constraint generation, iterative strengthening | the assignment returned satisfies every constraint |
| Lowering (`codegen/src/lowering`, `codegen/src/lib.rs`) | lowered CFG, register map | phi elimination, one case per instruction | means the same as the SSA function |
| Dead instruction elimination (`codegen/src/opt`) | changed flag | `run`, `run_to_fixed_point` | removes only what nobody reads |
| Liveness (`codegen/src/analysis/liveness.rs`) | live sets, worklist, its membership set | worklist loop, block numbering, intervals | exactly the slots read on some path; intervals cover them |
| Stack allocator (`…/stack_allocator.rs`) | colours, layouts | `color_slots`, `derive_layouts` | slots live together never share a position |
| Stack depth (`…/stack_depth.rs`) | depth per block | debug-only bound | a bound on the depth reached |
| Shuffler and translation (`codegen/src/codegen`) | `block_stack` during emission | one emitter per instruction and terminator | the machine does what the lowered function means |
| Bytecode builder (`codegen/src/evm/bytecode.rs`) | code, labels, pending jumps | `emit`, `mark_label`, `finalize` | every jump lands on its label |
| Contract layout (`codegen/src/layout`) | dispatch table, storage slots | `add_function`, `generate_dispatcher`, `assign` | a selector runs its function |
| ABI, opcode table, errors, command line | none | formatting, hashing | – |

Interactions worth a specification of their own: liveness → allocator (only the
intervals are looked at, not the sets); allocator → translation (an entry layout
per block); caller ↔ callee (stack cells agreed on by `functions.rs`,
`terminators.rs` and `generate_function`); wrapper ↔ callee (the number of cells
left at return); frame bases ↔ nested activations (static memory).

Behaviour that is hard: order of `HashMap` iteration (liveness, phi copies,
dispatch table); termination of the fixed points; off-by-one at interval ends
and stack depths; exhaustion of positions and of DUP/SWAP reach; state that went
stale (a layout that dropped a slot, edges of blocks that no longer jump).
Nothing is persisted, and nothing runs concurrently.

## 2. The modules

| Module | Models | Kind |
|---|---|---|
| `ControlFlow` | graphs of blocks, shared by SSA and lowered functions; reachability as a reference | operators |
| `LoweredCfg` | lowered functions as values; GEN, KILL; liveness by paths as a reference | operators |
| `DeadCode` | dead instruction elimination and its fixed point | operators |
| `LiveIntervals` | block numbering and live intervals | operators |
| `Liveness` | `analyze_liveness`, one action per kind of turn of the loop | state machine |
| `StackAllocator` | `allocate`, one colouring per step, then the layouts | state machine |
| `Words`, `EvmMachine` | the part of the EVM the emitted code uses (external) | operators |
| `StackShuffler` | `plan_shuffle`, `emit_shuffle` | operators |
| `SlotMachine` | what a lowered program means: the abstract specification | state machine |
| `FunctionCodegen` | everything the emitters produce, executed | state machine |
| `SourceProgram` | statements and expressions, and what they mean: the reference for a compiled function | operators |
| `SsaForm` | SSA instructions, terminators, graphs under construction; what a graph means | operators |
| `PassState` | the function being compiled, shared by the three passes below | variables |
| `SsaBuilder` | `SsaBuilder::transform_*`: statements to blocks | state machine |
| `Dominance` | `compute_dominance`, `build_loop_forest` | state machine |
| `SsaRenaming` | `phi_nodes_placement`, `recursive_rename_blocks` | state machine |
| `SsaPipeline` | the composition, then phi elimination and lowering | state machine |
| `Predicates` | refinement predicates; what the SMT solver answers about them (external) | operators |
| `LiquidTypes` | templates, contexts, constraints, qualifiers | operators |
| `LiquidInference` | `LiquidInferenceEngine`: one walk that generates the constraints | state machine |
| `LiquidSolver` | `ConstraintSolver`: strengthening, rounds, verdict | state machine |
| `RefinementSoundness` | the runs of the function checked (external), and the properties | properties |
| `StorageAnalysis` | `analyze_storage_contract`: call graph, fold/unfold states, insertion, checks | state machine |
| `Iteration` | recursion over numbers, sets that grow to a closed one, reachability | proofs |
| `LiveIntervalsProofs`, `LivenessProofs`, `StackAllocatorProofs` | code generation up to the colouring and the layouts | proofs |
| `StorageAnalysisProofs` | the storage analysis: insertion, call graph and checks | proofs |
| `FunctionCodegenProofs` | the stack of a compiled program is what the emitters believe it to be | proofs |
| `SsaRenamingProofs`, `SsaPipelineProofs` | the analysis of a graph and its renaming; that the builder makes such graphs, SSA form at the end, that no name is read without a version and no register lowered without a slot | proofs |
| `MCPrograms`, `MC*` | inputs for TLC | model checking |

`Dominance` and `SsaRenaming` are passes of `SsaPipeline`, which composes them with
`SsaBuilder`; `LiquidSolver` extends `LiquidInference`, because the solver starts
where the walk ends.
`ControlFlow` is extended by `StorageAnalysis`, which works on SSA functions,
and by `LoweredCfg`, which all modules of code generation extend; `FunctionCodegen` extends `EvmMachine`
and `StackShuffler`; `MCFunctionCodegen` composes dead code elimination,
liveness, intervals and colouring into the units it compiles, and instantiates
`SlotMachine` as the specification to implement.

**Liveness.** `live_in`, `live_out`, `worklist`, `in_worklist` are the
function's variables. `Update` and `Unchanging` are a turn of the `while` loop
that does, or does not, find a change. The initial queue and the predecessors
pushed back come in any order, which covers every `HashMap` order.

**StackAllocator.** `ColorSlot` is an iteration of the loop of `color_slots` (the
slot is determined by the sort key), `DeriveLayouts` the two calls of
`derive_layouts`. A colour below `MaxStackRegs` is position colour + 1.

**StorageAnalysis.** The variables are those of the functions in
`analyzer/src/storage.rs`, `phase` says which of them runs, and `k` is the
function of the contract it runs for. `VisitCallee` is a call of
`contains_external_calls_recursive` on a function not visited yet; `VisitBlock` a
turn of the worklist of `compute_storage_states`; `EnterBlock` to `FinishBlock`
rewrite a block, one action per arm of the `match` and, around calls, one per
fold or unfold; `CheckCall`, `SkipVisited` and `FollowBlock` are
`check_no_stores_after_call`. Blocks and calls are taken in any order; storage
locations in one order per run, as an unchanged map yields them. The five
`Store`/`Load`/`Internal`/`External`/`Other` instructions are all the code tells
apart. `EntryState` looks odd and is exact: the merge intersects, and starts from
the empty state, so it is empty for every block.

**SSA.** `TransformStatement` and its like are one case of `transform_statement`
each; what the recursion of the builder has still to do (the statements after an
`if`, its `else` side, the jump at the end of a body) is the stack `frames`.
`VisitSuccessor` and `LeaveBlock` are `postorder_dfs`, whose order of successors is
free; a step of the dominance fixed point recomputes one block in reverse
post-order. Renaming walks the dominator tree with the code's version stacks,
children in any order. Then phis become copies appended to the predecessors, in
the order the block map yields them, registers get slots, and dead instructions
go. Statements, operators and storage are a small language of their own in
`SourceProgram`; what they mean there is written from the language, not from the
compiler, and is the reference for `KeptMeaning`.

**Refinements.** `frames` are the activations of `generate_constraints_from_block`:
`stage` says where one waits (the `else` side, the block after a loop). What the
walk assumes, the facts it never retracts, the register that holds each source
variable and the last load of each storage variable are in `env`. Actions
`Generate…` are one arm of the `match` each and append constraints, with the
context they are checked under. `CheckConstraint` is a turn of the loop of `solve`,
`TryCandidate` of the greedy loop over qualifiers, `Strengthen` its end, `Verify` a
turn of the last round. A liquid variable is named after the register it was
made for, a temporary in each of its versions: SSA construction places phis of
temporaries too, and the programs have them. Registers, qualifiers and blocks
come out of hash maps in either of two orders, the same whenever one map is
listed again (`backwards`). An implication is valid if no values in `Trial` refute it; a name stands
for unrelated values as an integer, as a Boolean and inside `old`, as in the
translation to Z3. `RefinementSoundness` executes the function on every argument,
storage and callee outcome, and records where a contract is broken.

**FunctionCodegen.** `Compile` is the code generator: for every point of every
block the opcodes it emits (`ops`), what stores the result (`store`), and the
stack layout it believes in (`layout`). `BlockStack` is the emitter's
`block_stack`, recomputed for each point. The state is an EVM (`evm`: stack,
memory, storage) and the point it executes (`pc`); a step executes all opcodes of
one instruction or terminator, and a jump also the prologue, or the result's
store, it lands on. Memory is counted in words and the machine records whether
it ever loaded a word nothing had stored (`stale`). A label on the stack is a
cell that is not a word; jumping to anything else is a fault, as are underflow
and INVALID opcodes. A compiler panic is the opcode `PANIC`, which faults.

**SlotMachine.** Activations with their own slots, one step per instruction, no
stack, no memory. An activation keeps only the slots still needed, because the
compiled program forgets the others.

## 3. Runs

All runs use real emitted shapes: the functions are dead-code eliminated, and
their liveness, intervals and positions are computed by the modelled passes.

| Run | Question | Bounds |
|---|---|---|
| `liveness` (pass) | Are the sets and intervals right in every order, and does it end? | four blocks as if/else, while, and a loop with a self loop and two exits; two slots; bodies that define, read, copy and redefine |
| `stack_allocator` (pass) | Can two live slots meet, is a spill justified, do layouts fit? | five slots, two registers, if/else and while |
| `function_codegen` (pass) | Does compiled code do what the lowered program means? | `main` with four blocks calling `helper` (with a loop or straight) and `tick` (void); five slots, three registers, so slots live on the stack and in memory; words of two bits, all arguments, two storages; a constructor; a block ending in INVALID |
| `storage_analysis` (pass) | Is storage folded and open where it must be, does every refusal have a cause and every accepted function keep effects first, and does the analysis end? | 96 contracts of three functions, with cycles of calls, if/else and while, all three modifiers, two state variables and a constant |
| `ssa` (pass) | Are dominators, frontiers, loops and versions right, and does the lowered function do what the statements say? | eight bodies: branches that assign, a loop in a branch, two phis that swap, calls, a call of another contract, nested loops, early returns, and the shipped `withdrawIncrements`; two state variables; inputs 0 and 1; runs of at most 20 blocks (`Fuel`); statements nest at most 3 deep (`Depth`); two-bit words |
| `refinements` (pass) | Are the assumptions of a constraint true, is a broken contract ever accepted under true assumptions, and does the solver end? | 50 functions with one or two parameters, branches, one loop, storage, calls, answers of other contracts and all comparisons; `Input` −1..2, `Trial` −4..4, `Fuel` 6 blocks; `MaxIterations` 7 where the code has 100: more than any of them has liquid variables (five), and two of them reach it |
| `loop_bodies` (violation) | Does a loop whose body branches do what it says? | the shipped `withdrawIncrements` |
| `effects_first` (violation) | Does any path of an accepted function store after a call? | one contract with a loop |
| `else_path` (violation) | Are the slots of a block placed by its predecessor? | one program, 15 registers |
| `negation` (violation) | Does negation compute 0 − x? | one program |
| `void_return` (violation) | Does the wrapper find a return value? | one program |
| `late_read` (violation) | Is every operand within reach of DUP16? | one program of 33 instructions, 15 registers |

The bounds are enough for the hazards: the self loop makes a block its own
predecessor; two or three registers with five slots force spills next to stack slots, and
values in memory around calls; arguments of a call are read at each extra depth;
calls inside loops reuse a frame; two-bit words make subtraction wrap and
distinguish the operands of every operation used.

The seven bodies of `ssa` include every shape of control flow the builder keeps, one
it does not, phis that read each other (`Swap`) and a phi without a source on one
edge; every loop turns twice within `Fuel`. In `refinements` a refutation needs numbers
next to the constants 0, 1 and 2 of the programs, their sums and differences, all within `Trial`;
a function is accepted wrongly if anything because `Trial` is small, which
`BrokenOnlyWhereBlind` would report.

**What the passing runs show.** *Liveness*: `Settled` (a block not waiting
satisfies its equations), `LeastSolution` and `LiveOnSomePath` (the result is the
least solution, and liveness by paths), `IntervalsCoverLiveness`, `Monotone`,
`Terminates`. *Allocator*: `NoSharedColor`, `OnlyUnderPressure` (a spilled slot
meets as many slots as there are registers at its start), `LiveSlotsApart`
(against liveness at each instruction, not against intervals), `LayoutsFit`.
*Storage analysis*: `Disciplined` (an access lies between its unfold and its fold,
the two alternate, and blocks end folded), `OpenAcrossCalls` (against a call graph
closed over paths: all state is unfolded before and folded after each call through
which control may leave), `EffectsFirstButForLoops` and `RefusedForCause` (against
reachability of stores: what is accepted and what is refused), `Terminates`.
*SSA*: `CandidatesClimb` (while the fixed point runs, a candidate for the immediate
dominator precedes its block and leaves out no true dominator), `IdomIsDominance`, `FrontiersAtDominanceEnds` and
`LoopsTurn` (against paths), `SsaHolds` (one definition for each version, every use
reached by it), `NeverUndefined` (the renaming walk never meets a use
without a version, the panic of `ssa_ir.rs:1291`), `KeptMeaning` (built, renamed and lowered, the function has the
effects and the answer of the statements, on every input, unless it has a
loop whose body branches or statements after a return, see below), `LoweredDefined` (no
copy left by dead code elimination reads a slot nothing wrote), `DominanceEnds`.
*Refinements*: `ContextsHold` (what a constraint is checked under is true of the
runs that get there, in a function that is `Clean`: none of five things the walk
gets wrong, listed under observations), `BrokenOnlyWhereBlind` (of an accepted
function, the first contract a run breaks was checked under an assumption that
is false in that run; so no contract goes without its constraint, and the
solver by itself lets nothing through), `RoundsBounded` and `SettledOnce` (each round but the last
settles a liquid variable for good, so the limit of 100 rounds is met only by a
function with 100 of them, or by one in which a value of another base type flows
into a liquid variable; `Foreign` singles those out, and the programs `AnswerBoolBeside` and
`AnswerInBranch` show them, see the observations), `Ends`.
*Code generation*: `StackDiscipline` (frame by frame the stack is what the
emitters believe), `NoStaleLoad`, `NeverFaults`, `CallerUntouched` (no step
changes a cell at or below the continuation of the running function, calls and
returns included, and none loses that continuation), and
`RunsAsLowered`: the compiled program implements
`SlotMachine` under the mapping `Frames`, which reads each slot still needed off
the stack or memory cell the code generator would copy it from.

**Findings.** The passing code generation run is restricted by `Supported`, and
each part of it that hides a defect has a violation run:

* `else_path`: `translate_terminator` shuffles for the then block first and from
  there to the else block (terminators.rs:83-87). A slot only the else block
  needs has been popped by then and is loaded from memory never written, though
  lib.rs:594-595 says the predecessor placed it and no MLOAD is needed.
* `negation`: `PUSH 0; x; SUB` leaves x − 0; instructions.rs:307 says 0 − x.
* `void_return`: the wrapper stores a return value that a void function never
  leaves (contract.rs:156 against terminators.rs:126-130).
* `late_read`: the allocator frees positions, `block_stack` never does, and the
  assertion at instructions.rs:194 fails on the seventeenth cell.

Two more deviations came up as hypotheses the proofs could not do without
(section 4). A call of an entry point passes the type checker
(typechecker.rs:330-341) and is translated like any other, but the prologue of an entry
point loads its parameters from memory, which this caller never wrote, and nothing
consumes the arguments on the stack (lib.rs:643-654), although functions.rs:73-74 says
that the callee has. And `emit_shuffle` leaves a DUP beyond DUP16 out without an error
(stack_shuffler.rs:119), so a function that returns the first of seventeen definitions of
its block underflows where `late_read` would panic. No program of the runs does either.

One more violation run belongs to the storage analysis:

* `effects_first`: the call's block counts as visited when only the part after the
  call has been scanned (storage.rs:420-432), so a loop that stores and then calls
  is accepted. On the contracts of `storage_analysis` nothing else gets
  through (`EffectsFirstButForLoops`).

And one to SSA construction:

* `loop_bodies`: the jump that closes a loop is put on `body_bb`, the block the body
  started in (ssa.rs:319). A body with an `if` or a loop in it ends in another
  block: its branch is overwritten, and the rest of the body is never reached. A
  shipped example is compiled into a loop that does not end.

Observations on SSA construction that no document contradicts: statements after
a return are still put into the block, and the last return wins; after a branch
that returns an edge to the join is added all the same (ssa.rs:260), so the join
has a predecessor that never jumps to it, and `SsaHolds`, `KeptMeaning` and
`LoweredDefined` say that it does no harm; the object of an external call is never
renamed (ssa_ir.rs:1269), which nothing notices because code generation refuses
external calls: `lower_registers` has no type for a contract (type_lowering.rs:78-89,
the guard `TypesLowered`), and the emitter refuses the call (functions.rs:94). The
declarations of an interface are registered as `Contract::Interface::f`
(analyzer/src/lib.rs:224) and looked up as `Interface::f` (typechecker.rs:382), so a
call of one never passes the type checker; only functions of an imported contract
can be called, and the panic of ssa.rs:588 is not reached. A function that returns
nothing is refused as an operand everywhere but in `var x = f()` without a type
(typechecker.rs:195-210), which then panics (ssa.rs:386-389); the programs of the
model are without it (`TypedExpression`).

Observations on the refinement checker, each one demonstrated by a function
that is accepted in the run `refinements` although a run of it breaks a contract:

* `Join`: a block that both sides of a branch reach is walked once, under the
  condition of the `then` side (inference.rs:837-897).
* `Flag`: the refinement of a flag is true, so its `else` side is checked under false
  (inference.rs:883-903).
* `TwoLoads`: a load, an unfold or a loop inside a branch leaves an assumption
  behind, and what is popped at the end of the branch is that one
  (inference.rs:898, 907, 983).
* `SelfClash`: the refinement inferred for a copied constant speaks of `__self`
  whatever the register, so two of them contradict each other.
* `Spend`, `CallTwice`: what is assumed of storage by its name outlives stores and calls.

The refinement of a comparison's result is the comparison itself, so mentioning
the result assumes it. Phi constraints are checked under what the end of the
walk left assumed, with the negated condition of every loop. A variant is
compared with zero only before the loop. A callee's `ensures` is demanded at the
call, before the call. Qualifiers made from the function's constants never reach
the solver (inference.rs:85, solver.rs:96). The answer of
an external call is taken for an int whatever its declaration says
(inference.rs:371). Copied to a bool, or joined by a phi of the declared type, it
makes a constraint that fails in every round whatever is inferred (solver.rs:476), and each
round conjoins an implied qualifier once more and counts as progress (solver.rs:1255-1271):
a correct function with three liquid variables is refused, with an internal error,
after 100 rounds (`AnswerBoolBeside`, `AnswerInBranch`), and at once if no
qualifier is implied (`AnswerBool`). A return with a value in an entrypoint
panics (inference.rs:1444-1449), and one engine used for several functions keeps the
branch conditions and constraints of the earlier ones (inference.rs:29, 76-97).
These are no violation runs. The repository's README does say of the language that
the compiler proves such contracts, but the compiler does not call the checker yet
(merak/src/lib.rs:42-44, "not yet fully implemented"), and no document or comment states
of the checker itself what one of these functions contradicts.

Observations on the storage analysis that no document contradicts: the
entry states are always empty, so blocks that follow one another fold and unfold
again and again; successors of a block that leaves nothing unfolded are never
visited; an internal call counts as leaving the contract for the checks only if
the callee is `Reentrant`, though unfolding also considers what it calls.

Two more disagreements are recorded without a run. stack_allocator.rs:5-6 says a
slot at `StackPos(3)` is at DUP3 distance whenever it is live, but a layout is
packed, so position and depth agree only when all lower positions are live too;
no code relies on it. A parameter of an internal function that is allocated to
memory is popped by the prologue and never stored (`ParamsOnStack` excludes it).

**Fairness.** `Liveness`, `StorageAnalysis`, `SsaPipeline` (for the steps of the dominance
analysis) and `LiquidSolver` assume weak fairness of the next step: all are
sequential functions, whose loops run while their conditions hold, and wait for
nothing. The other specifications have safety properties only. All modules may stop when the
modelled function returns, so deadlock is not checked.

## 4. Proofs

The theorems hold for every instance: any number of blocks, slots, functions and
locations, any control flow, every order of a worklist or a hash map. What they
assume is named in the module that declares the constants:

| Assumption | What it says | Why the code grants it |
|---|---|---|
| `CfgsAssumption` (`Liveness`) | functions are finite, both edge lists agree, instructions and successors are lists | `add_edge` keeps both lists; `Vec` |
| `InputsAssumption`, `MaxStackRegsAssumption`, `SlotAssumption` (`StackAllocator`) | intervals have ends in order; registers are counted; slots are numbers | `compute_intervals`, `usize`, `u32` |
| `AnalyzedAssumption` (`StackAllocator`), only for `LiveSlotsApart` and `LayoutsFit` | the sets are liveness by paths and the intervals those `compute_intervals` makes of them | `allocate` has one caller, `codegen/src/lib.rs:607-608`, which passes on what `analyze_liveness` returned; `LiveOnSomePathInvariant` says what that is |
| `ProgramsAssumption` (`SsaBuilder`), only for `SsaHolds`, `NeverUndefined` and `TypeOK`; `DepthAssumption` (`SourceProgram`) | parameters have names of their own; blocks and expressions are lists, and `Depth` is enough for their nesting | `add_symbol` refuses two symbols of one name in a scope; `Vec` |
| `ResolvedAssumption` (`SsaBuilder`), only for `NeverUndefined` and `TypeOK` | a local is read in the scope of its declaration and after it, and is no state variable; operands come before their operator, a member call has a receiver, a condition or an assigned value is an expression; what a void function returns is not used | `collect_and_resolve_block` (analyzer/src/lib.rs:512-710) pushes a scope for each body and stops the compiler at a name it does not find. The lookup that falls back on qualified names (symbol_table.rs:155) finds no local that way: their names hold `::`, which an identifier cannot, and a contract's name used as a value stops the type checker (typechecker.rs:275), as does the use of a void call, except in the one declaration named in section 3 (typechecker.rs:79-218) |
| `ProgramsAssumption`, `StoragesAssumption` (`FunctionCodegen`) | operands are slots or words; a call has an argument for each parameter and a destination exactly if its callee returns something; no block jumps to an entry; the entry layout of an internal function lists parameters; the outside calls an external function | typechecker.rs:120-152 and 350, `functions.rs:44`; ssa.rs:505-545 gives a call a destination unless the type is unit, and dead code elimination keeps calls; `SsaBuilder` opens a new block for a loop's header; what is live at the entry is a parameter (`NeverUndefined`); `is_external` of lib.rs:297, and of the constructor, 109 |
| `CallsInternal`, `ShufflesReach`: hypotheses of the theorems on `FunctionCodegen`; `Emittable`, `Returns`: of `CompiledNeverFaults` only | no call of an entry point; no shuffle has a DUP left out; no opcode beyond DUP16 or SWAP16; `main` returns something unless it is the constructor | the code does not: these are the deviations of section 3 (`Emittable`: where it does not hold the compiler panics, and emits nothing). `CoverageAssumption` has TLC check that the programs of `function_codegen` are such |
| `ContractsAssumption`, `LocationAssumption` (`StorageAnalysis`) | functions have distinct names, internal calls name functions of the contract, blocks hold what `SsaBuilder` emits | a map from names, name resolution, `ssa.rs` |


**Liveness.** `TypeCorrect`, by induction with `QueueStep` (removing the
head and appending the predecessors not waiting keeps the queue free of
duplicates and equal to its set). `SettledInvariant`: a change of `live_in[b]`
breaks only the equations of b's predecessors, all of which wait afterwards.
`LeastSolutionInvariant` needs the strengthening `BelowSolutions` (the sets are
below every solution at every moment) and `Settled` at the end.
`MonotoneTheorem` needs the converse bound: what is recorded for a block never
exceeds what its equations now give (`Covered`). `LiveOnSomePathInvariant` compares the
least solution with liveness by paths: each is a least set closed under one
condition (`LiveBlocksFacts`, `LeastIsByPaths`). `IntervalsCoverInvariant` needs
that the breadth-first numbering gives each reachable block an interval of its own
(`BfsStates`, `Numbered`: the ranges given so far lie below the next index and follow the
lengths of their blocks), and that a slot live before an instruction but not across the block
has its definition or last use inside (`NeededFacts`).

**Stack allocator.** `NoSharedColorInvariant` (the colour
chosen is outside the colours of overlapping slots), for which
`TypeCorrect` suffices. `OnlyUnderPressureInvariant` needs `EarliestFirst`: slots are
visited in order of interval start. `LiveSlotsApartInvariant` joins the passes: two
slots live before one instruction have intervals that both contain its index
(`IntervalsCover`), so they overlap, so their colours differ. `LayoutsFitInvariant`:
the slots of a layout are pairwise apart at one index, so their positions are
distinct and at most `MaxStackRegs` (`LayoutFits`); `Derived` says when the layouts are
those of the colouring.

**Storage analysis.** `DisciplinedInvariant`: `IInv` adds
`Placed`, whose core is `Tracks(new_instructions, current_state)`: the set the
loop keeps is what the instructions emitted so far leave unfolded. `EmitOne`
shows that an instruction emitted under its condition (`May`) keeps it,
`FinishBlockStep` that a block ends folded, and the next block may start
from nothing because all entry states are empty, which `ComputeStep` and
`CheckStep` establish. `TypeCorrect` is proved with `Typed`, which adds which blocks
are rewritten and where a search is. `OpenAcrossCallsInvariant` needs two more
invariants: `LeavingFound` (the search of the call graph finds every function
that may leave the contract: unless the function at hand is found to, the functions met
from it include the callees of those seen, and none of these calls out) and `CallsWrapped` (in the code
rewritten so far each such call has all mutable locations unfolded before, and after it only
folds, of every location). `EffectsFirstInvariant` and
`RefusedForCauseInvariant` rest on `SearchesDone`: while the search from a call runs, the blocks visited have no store
(of the call's own block, the part after the call has none), and each
successor of a visited block is visited or on the stack. So a search that ends has
seen every block a path reaches, except the part of its own block before the call, which is
what the finding `effects_first` lets through.

**SSA construction and dominance.** `CandidatesAlwaysClimb`,
`DominanceIsByPaths`, `FrontiersInvariant` and `LoopsInvariant`, for reducible and
irreducible graphs alike, come from the inductive `AnalysisInv`, which says what
each pass may rely on:

* `Building`, while `SsaBuilder` runs: the two edge lists agree, no edge leads to
  the entry, and every block is reached from it or is the exit some frame of the
  builder will still move to (`Waits`). So at the end every block is reached
  (`Ready`), which the code relies on where it indexes `idom[node]`. Without it the
  analysis would not be defined.
* `Searching`, during `postorder_dfs`: no block twice, the path is a path, and a
  block left has been met from one that is left later. So in reverse postorder
  each block but the entry has an earlier predecessor (`Ordered`).
* `Tree` and `Rounds`, during the fixed point: candidates climb and leave out no
  true dominator, at every moment; a round without a change leaves each block hanging from an
  ancestor of all its predecessors (`Fixed`). `IntersectFacts` shows that
  climbing ends within the bound in the meeting point of the two ways up.
* `FixedPoint`: from the two, ancestors in the tree are dominators by paths. An
  ancestor of a block is an ancestor of all its predecessors, so no path
  avoids it; that `Tree` leaves no true dominator out is the other half.
* `WayUpFacts`, `FrontierFacts` and `LoopFacts` read frontiers and loops off that.

`SsaHoldsInvariant` adds `RenamingInv`. Until renaming starts, `Prepared`: blocks hold
instructions with at most one destination and no phi has a source (`Plain`, kept by
each action of the builder as long as the statements left are those of the program,
`Written`), and no version exists. While it runs, and has not panicked, `Walk`: there is
a set D of blocks renamed so far, closed upwards in the dominator tree, such that

* `CodeDone`: in D every register is defined once and below the next version of its
  symbol (so the next one is new), every use is below its definition, and only
  blocks of D are sources of phis;
* `Framed`: the frames of the recursion are a path up the tree, each has left exactly the
  children outside D, and a block of D without a frame has none outside;
* `Levels`: what a frame will find on the version stacks, once those inside it have popped
  what they made, are registers defined at the end of its block. This is what one pop
  too few would break: a sibling would see versions of a block that does not dominate it.

`Progress` says the same of the instructions of one block. When the last frame
is left D is closed under children, so it is every block (`TreeReachesAll`, for which
`DominanceIsByPaths` is needed), and `CodeDone` of every block is SSA form. Phi
placement is not needed for this: it decides which definition a use gets, which is
`KeptMeaning`, and that it gets one, which is `NeverUndefined`.

`NeverUndefinedInvariant` follows the names from the source to the version stacks. Its
inductive invariant `NamesInv` says, pass by pass:

* while the builder runs, `Scoping`: there is a set of names for the start of each block
  (`sc`) such that the block reads those and what it has defined before, hands no
  more on along its edges (`Scoped`), and the statements still to read are resolved
  in what the block at hand has. An `if` or a `while` gives its new blocks the names in
  scope at its opening, so what a body declares ends with it. `NodeComputes` follows the
  operands of an expression, each a name in scope or a temporary just made.
* the graph handed on is `ScopedBy` such sets, the entry with the parameters only;
* while phis are placed, `Placing`: the graph stays scoped, and for each symbol done
  (`Placed`) the frontier of a block that defines it is headed by its phi;
* then every name a block may count on is a parameter or defined in a block that
  strictly dominates it (`Supplied`). This is `ScopedIsSupplied`: a definition that
  reaches a block on one path and does not dominate it ends to dominate at a block on the
  way, which is in its frontier and so headed by a phi, a definition in turn. It uses
  `FrontiersAtDominanceEnds` and `DominanceIsByPaths`;
* during the walk, `Covering`: each frame finds a version on the stacks for every
  parameter and for every name defined in its block or above, also after the frames
  inside it have popped theirs (`Stacked`). So the block entered next finds all it
  reads (`NamesRenamed`).

`CompilesAlways` adds what the passes after renaming count on. No use is without a version, but a phi
could be left without a source, as when no predecessor has a version, and its
register would then have no copy, no slot, and stop `lower_instruction`. `Grounded`: a phi
is placed where some predecessor has a version at its end, by the choice of the frontier.
`Fed`: during the walk each phi has a source, or such a predecessor that no frame has still
entered. A block entered feeds the phis of its successors; at the end nothing is left to
enter, so every phi has a source (`Sourced`). A copy for each source then gives each
register a definition (`EliminationGives`), the numbering gives each definition
a slot (`EachHasSlot`), and `LoweringInv` carries that to the end.

**Code generation.** The four theorems rest on one inductive invariant,
`CodegenInv`: unless it has faulted, the machine stands on frames of words, of which
only the running one may be changed.

* `ExecMoves` describes one opcode by three numbers (`Moves`): the words on top of the
  stack before and after it, and how many words under them it may read; what is under the
  first number it leaves as it is. `Lifts` says the same of a list of opcodes, and that it
  ends at the new height or, at a `Panic` opcode only, in a fault. Lists compose (`LiftsConcat`).
* From that, construct by construct: `ComputeLifts`, `OperationLifts`, `StoreResultLifts`,
  `ArgumentsLift`, and for the m + n words of any shuffle `ShuffleLifts`: n pushes, m swaps with pops.
  That a DUP left out would break it is where `ShufflesReach` enters.
* `JumpLands`, `CallLands`, `ReturnLands`, `PrologueInternal`: where control goes, at what
  height. Returning needs that the cell under the frame is the continuation.
* `Chained` says what lies under the running frame: a continuation, which is `Outside` or
  the label of a call of the function that runs, then that caller's frame, as high as the
  layout at the call, then the next continuation. `PushFrame` and `PopFrame`: a call
  chains one frame more, a return finds the height its point expects. Recursion
  needs nothing special.
* `StartPoint` and `NextPoint` say that the layout of a block's start and behind an
  instruction has the height just reached: `block_stack` as the emitter computes it is
  what was emitted.

`StackDisciplined` reads the frames off `Chained` (`FramesStand`); `CallersUntouched` needs only
what each action does to the frames under the running one. The theorems speak of
the number of cells in each frame. That each of them is the slot the emitters take it for
depends on `plan_shuffle` copying the right ones, which is part of `RunsAsLowered`.

**Iteration** has what these need of recursion over numbers. An induction theorem with
an operator for its parameter cannot be used here; the set of the numbers that
have the property can, since every set of numbers has a least one (`LeastNumber`).
From it: a function defined by steps exists and is the one defined
(`SteppedExists`, `SolutionStepped`), and sets that grow in a finite set are
closed after as many steps as it has elements (`Saturation`, `ReachFacts`).

Only model-checked: that passes end (liveness under fairness and ENABLED are out of the
prover's reach); everything about the refinement checker (its predicates are
trees, and the RECURSIVE operators on them are out of reach too);
`KeptMeaning` and `LoweredDefined` of the SSA passes; and, of `FunctionCodegen`,
`NoStaleLoad` and the refinement of `SlotMachine`. `KeptMeaning` and the
refinement compare executions of programs as data, an induction over their structure;
`LoweredDefined` is about the fixed point of `DeadCode` and its runs; `NoStaleLoad` needs
that the slot a block loads from memory was stored on every path to it, so liveness, the
colouring and the restriction `ElseCovered` together with the frames' disjointness.

## 5. Not modelled, and why

In refinements: multiplication, division and modulo, addresses, strings, `msg` and
`block` fields and uninterpreted functions (to the walk and the solver they are more
of the same, to Z3 they are a theory this project does not have); `assert`, which
the code has not implemented; an engine used for a second function. Symbol
table, name resolution and type checker, contract assembly and import loading are
not modelled (section 6).
In code generation: external calls and string constants (the code refuses them); the 1024-cell stack
limit and gas; code addresses and their encoding; the debug-only stack depth
check; parser, type checker, error texts, ABI hashing (no state, or text).
`LoadConstant` is documented
in the source as superseded by `Copy` of a constant.

## 6. What is left

Liveness, the allocator, code generation, the storage analysis, the SSA passes and the
refinement checker are modelled. What would come next, in this order:

1. Contract assembly: `BytecodeBuilder` with labels and relocation, and a
   `ContractAssembly` with dispatch, constructor and sizes modulo 2^16.
2. `SymbolTable`, whose scope invariant would replace `ResolvedAssumption`, and `ImportLoader`.
3. Proofs: `NoStaleLoad` with disjointness of frames; dead code elimination keeps
   every slot the remaining instructions read; the shuffler as a loop with the
   invariant "after k pushes and j sinks the stack is …", which gives
   correctness of `plan_shuffle` for all layouts, of which the heights are proved; in
   `LiquidSolver`, `SettledOnce` and `RoundsBounded` (its predicates recurse, so it needs a module
   that takes entailment as a parameter).
