--------------------------- MODULE FunctionCodegen ---------------------------
(***************************************************************************)
(* The code generator of codegen/src: the opcodes emitted for every        *)
(* lowered instruction and terminator, and the execution of a compiled     *)
(* program on the EVM.  One step executes all the opcodes of one           *)
(* instruction or terminator (and of the prologue or the call's epilogue   *)
(* it jumps to).                                                           *)
(*                                                                         *)
(* A program is as in SlotMachine, plus `order`, the order in which its    *)
(* functions are laid out in memory (the constructor last).  A unit        *)
(* carries what the code generator is given for one function: cfg, its     *)
(* slots (register_map, which dead code elimination does not shrink),      *)
(* live_out, location (stack position, or 0 for memory) and entry_layout,  *)
(* as StackAllocator computes them.  Memory is counted in words; frames    *)
(* start at word 4 (0x80).                                                 *)
(***************************************************************************)
EXTENDS LoweredCfg, EvmMachine, StackShuffler

CONSTANTS
    Programs,
    Keys,          \* the storage slots
    Storages       \* the storage an outside call may find

VARIABLES
    program,       \* the lowered program, never written
    asm,           \* the code emitted for it, never written either
    pc,            \* the instruction about to execute: [fn, block, idx]
    evm,           \* the machine
    outcome,       \* "running", "returned", "invalid" or "fault"
    result         \* <<>>, or the word returned to the outside

vars == <<program, asm, pc, evm, outcome, result>>

-----------------------------------------------------------------------------
(* Memory: the frames of the functions follow each other.                   *)
FirstFrame == 4
FrameSize(u) == IF u.slots = {} THEN 1 ELSE Max({s + 1 : s \in u.slots})
FrameBase(p, fn) ==
    LET before == {i \in DOMAIN p.order : \E j \in DOMAIN p.order : p.order[j] = fn /\ i < j}
    IN  FirstFrame + FoldSet(LAMBDA i, sum : sum + FrameSize(p.fns[p.order[i]]), 0, before)

(* What the emitters are handed: program p, function fn, its unit.          *)
Ctx(p, fn) == [fn |-> fn, base |-> FrameBase(p, fn), unit |-> p.fns[fn]]

Address(c, s) == c.base + s
Memory == 0

PushWord(n)  == [op |-> "PUSH", cell |-> WordCell(n)]
PushLabel(l) == [op |-> "PUSH", cell |-> LabelCell(l)]
MStore(a)    == [op |-> "MSTORE", addr |-> a]
GotoLabel(l) == [op |-> "GOTO", label |-> l]
JumpI(l)     == [op |-> "JUMPI", label |-> l]
Plain(name)  == [op |-> name]
DupOrPanic(n) == IF n <= MaxDup THEN Dup(n) ELSE Panic

(* Mutant of PushOperand: the address of a slot in memory, not its word.     *)
PushAddress(c, b, bs, x, extra) ==
    LET layout == c.unit.entry_layout[b]
        i == PositionOf(bs, x.val)
        e == PositionOf(layout, x.val)
    IN  CASE x.kind = "const"                    -> PushWord(x.val)
          [] x.kind = "slot" /\ i > 0            -> DupOrPanic(i + extra)
          [] x.kind = "slot" /\ i = 0 /\ e > 0   -> DupOrPanic(Len(bs) + e + extra)
          [] OTHER                               -> PushWord(Address(c, x.val))

(* push_operand: bs is block_stack, extra the cells pushed above it.        *)
PushOperand(c, b, bs, x, extra) ==
    LET layout == c.unit.entry_layout[b]
        i == PositionOf(bs, x.val)
        e == PositionOf(layout, x.val)
    IN  CASE x.kind = "const"                    -> PushWord(x.val)
          [] x.kind = "slot" /\ i > 0            -> DupOrPanic(i + extra)
          [] x.kind = "slot" /\ i = 0 /\ e > 0   -> DupOrPanic(Len(bs) + e + extra)
          [] OTHER                               -> MLoad(Address(c, x.val))

(* store_to_slot: overwrite the slot's cell, leave the value as a new cell  *)
(* on top, or store it in memory.                                           *)
Homes(c, b, bs, d) ==
    [inBlock |-> PositionOf(bs, d), inEntry |-> PositionOf(c.unit.entry_layout[b], d)]

(* Mutants of StoreToSlot: memory without the frame base; a cell too deep.   *)
StoreOutsideFrame(c, b, bs, d) ==
    LET h == Homes(c, b, bs, d)
    IN  CASE c.unit.location[d] = Memory -> <<MStore(d)>>
          [] c.unit.location[d] # Memory /\ h.inBlock > 0 -> <<SwapOrPanic(h.inBlock), Pop>>
          [] c.unit.location[d] # Memory /\ h.inBlock = 0 /\ h.inEntry > 0 ->
                <<SwapOrPanic(Len(bs) + h.inEntry), Pop>>
          [] OTHER -> <<>>
StoreTooDeep(c, b, bs, d) ==
    LET h == Homes(c, b, bs, d)
    IN  CASE c.unit.location[d] = Memory -> <<MStore(Address(c, d))>>
          [] c.unit.location[d] # Memory /\ h.inBlock > 0 -> <<SwapOrPanic(h.inBlock), Pop>>
          [] c.unit.location[d] # Memory /\ h.inBlock = 0 /\ h.inEntry > 0 ->
                <<SwapOrPanic(Len(bs) + h.inEntry + 1), Pop>>
          [] OTHER -> <<>>

StoreToSlot(c, b, bs, d) ==
    LET h == Homes(c, b, bs, d)
    IN  CASE c.unit.location[d] = Memory -> <<MStore(Address(c, d))>>
          [] c.unit.location[d] # Memory /\ h.inBlock > 0 -> <<SwapOrPanic(h.inBlock), Pop>>
          [] c.unit.location[d] # Memory /\ h.inBlock = 0 /\ h.inEntry > 0 ->
                <<SwapOrPanic(Len(bs) + h.inEntry), Pop>>
          [] OTHER -> <<>>
BlockStackAfter(c, b, bs, d) ==
    LET h == Homes(c, b, bs, d)
    IN  IF c.unit.location[d] # Memory /\ h.inBlock = 0 /\ h.inEntry = 0 THEN <<d>> \o bs ELSE bs

(* block_stack just before point i of block b: after i - 1 instructions.     *)
Destination(inst) == CHOOSE d \in inst.dest : TRUE
BlockStack(c, b, i) ==
    LET code == c.unit.cfg.code[b]
        after[n \in 0 .. i - 1] ==
            IF n = 0 THEN <<>>
            ELSE IF code[n].dest = {} THEN after[n-1]
            ELSE BlockStackAfter(c, b, after[n-1], Destination(code[n]))
    IN  after[i - 1]

StoreResult(c, b, i) ==
    LET inst == c.unit.cfg.code[b][i]
    IN  IF inst.dest = {} THEN <<>>
        ELSE StoreToSlot(c, b, BlockStack(c, b, i), Destination(inst))

(* build_current: the function's cells above the continuation.              *)
Layout(c, b, i) == BlockStack(c, b, i) \o c.unit.entry_layout[b]

-----------------------------------------------------------------------------
(* translate_instruction, up to the store of its result.                    *)
BinaryCode ==
    [Add |-> <<"ADD">>, Subtract |-> <<"SUB">>, Multiply |-> <<"MUL">>, Divide |-> <<"DIV">>,
     Modulo |-> <<"MOD">>, Less |-> <<"LT">>, Greater |-> <<"GT">>, Equal |-> <<"EQ">>,
     LessEqual |-> <<"GT", "ISZERO">>, GreaterEqual |-> <<"LT", "ISZERO">>,
     NotEqual |-> <<"EQ", "ISZERO">>, LogicalAnd |-> <<"AND">>, LogicalOr |-> <<"OR">>]
Codes(names) == [i \in DOMAIN names |-> Plain(names[i])]

(* Mutant of BinaryOps: the operands in source order.                        *)
LeftFirstOps(c, b, bs, inst) ==
    <<PushOperand(c, b, bs, inst.args[1], 0), PushOperand(c, b, bs, inst.args[2], 1)>>
        \o Codes(BinaryCode[inst.ref])

(* The right operand first: SUB subtracts the second cell from the top.     *)
BinaryOps(c, b, bs, inst) ==
    <<PushOperand(c, b, bs, inst.args[2], 0), PushOperand(c, b, bs, inst.args[1], 1)>>
        \o Codes(BinaryCode[inst.ref])
NegateOps(c, b, bs, inst) ==
    <<PushWord(0), PushOperand(c, b, bs, inst.args[1], 1), Plain("SUB")>>
Operation(c, b, i) ==
    LET inst == c.unit.cfg.code[b][i]
        bs == BlockStack(c, b, i)
    IN  CASE inst.op = "Binary" -> BinaryOps(c, b, bs, inst)
          [] inst.op = "Unary" /\ inst.ref = "Negate" -> NegateOps(c, b, bs, inst)
          [] inst.op = "Unary" /\ inst.ref = "Not" ->
                <<PushOperand(c, b, bs, inst.args[1], 0), Plain("ISZERO")>>
          [] inst.op = "Copy"   -> <<PushOperand(c, b, bs, inst.args[1], 0)>>
          [] inst.op = "SLoad"  -> <<[op |-> "SLOAD", key |-> inst.ref]>>
          [] inst.op = "SStore" -> <<PushOperand(c, b, bs, inst.args[1], 0),
                                     [op |-> "SSTORE", key |-> inst.ref]>>

(* translate_call, up to the jump.  The label names the call: the code      *)
(* behind it stores the result.                                             *)
EntryLabel(p, fn) == <<fn, p.fns[fn].cfg.entry, 1>>

(* Mutant of CallOps: the continuation under the arguments.                  *)
LabelFirstOps(p, c, b, i) ==
    LET args == c.unit.cfg.code[b][i].args
        bs == BlockStack(c, b, i)
    IN  <<PushLabel(<<c.fn, b, i>>)>>
        \o [k \in DOMAIN args |-> PushOperand(c, b, bs, args[k], k)]
        \o <<GotoLabel(EntryLabel(p, c.unit.cfg.code[b][i].ref))>>

CallOps(p, c, b, i) ==
    LET args == c.unit.cfg.code[b][i].args
        bs == BlockStack(c, b, i)
    IN  [k \in DOMAIN args |-> PushOperand(c, b, bs, args[k], k - 1)]
        \o <<PushLabel(<<c.fn, b, i>>), GotoLabel(EntryLabel(p, c.unit.cfg.code[b][i].ref))>>

(* translate_terminator.                                                    *)
BlockLabel(c, b) == <<c.fn, b, 1>>
BranchOps(c, b, x, onThen, onElse) ==
    LET current == Layout(c, b, Len(c.unit.cfg.code[b]) + 1)
        thenLayout == c.unit.entry_layout[onThen]
        test == IF x.kind = "slot"
                THEN Shuffle(current, <<x.val>> \o thenLayout, c.base)
                ELSE Shuffle(current, thenLayout, c.base) \o <<PushWord(x.val)>>
    IN  test \o <<JumpI(BlockLabel(c, onThen))>>
             \o Shuffle(thenLayout, c.unit.entry_layout[onElse], c.base)
             \o <<GotoLabel(BlockLabel(c, onElse))>>
ReturnOps(c, b, args) ==
    LET current == Layout(c, b, Len(c.unit.cfg.code[b]) + 1)
    IN  CASE args = <<>> -> Shuffle(current, <<>>, c.base) \o <<Plain("JUMP")>>
          [] args # <<>> /\ args[1].kind = "slot" ->
                Shuffle(current, <<args[1].val>>, c.base) \o <<Swap(1), Plain("JUMP")>>
          [] OTHER -> Shuffle(current, <<>>, c.base)
                      \o <<PushWord(args[1].val), Swap(1), Plain("JUMP")>>
TerminatorOps(c, b) ==
    LET t == c.unit.cfg.term[b]
        current == Layout(c, b, Len(c.unit.cfg.code[b]) + 1)
    IN  CASE t.kind = "Jump" ->
                Shuffle(current, c.unit.entry_layout[t.targets[1]], c.base)
                \o <<GotoLabel(BlockLabel(c, t.targets[1]))>>
          [] t.kind = "Branch" -> BranchOps(c, b, t.args[1], t.targets[1], t.targets[2])
          [] t.kind = "Return" -> ReturnOps(c, b, t.args)
          [] t.kind = "Unreachable" -> Shuffle(current, <<>>, c.base) \o <<Plain("INVALID")>>

(* Mutant of Prologue: the continuation stays on top of the arguments.       *)
PrologueUnsunk(c) ==
    LET g == c.unit.cfg
        layout == c.unit.entry_layout[g.entry]
        loads == Reverse(layout)
    IN  IF g.external THEN [i \in DOMAIN loads |-> MLoad(Address(c, loads[i]))]
        ELSE Shuffle(g.params, layout, c.base)

(* The entry prologue of generate_function: an external function loads its  *)
(* layout from memory, an internal one sinks the continuation under its     *)
(* arguments and shuffles them into its layout.                             *)
Prologue(c) ==
    LET g == c.unit.cfg
        layout == c.unit.entry_layout[g.entry]
        n == Len(g.params)
        loads == Reverse(layout)
    IN  CASE g.external -> [i \in DOMAIN loads |-> MLoad(Address(c, loads[i]))]
          [] ~ g.external /\ n = 0 -> <<>>
          [] OTHER -> <<SwapOrPanic(n)>>
                      \o Shuffle(<<g.params[1]>> \o Reverse(Tail(g.params)), layout, c.base)

-----------------------------------------------------------------------------
(* generate_function, for every function: at each point of each block the   *)
(* code generator's layout, the opcodes emitted, and those emitted after    *)
(* them to store the result (behind the continuation label, for a call).    *)
Emitted(p, c, b, i) ==
    LET code == c.unit.cfg.code[b]
        call == i \in DOMAIN code /\ code[i].op = "Call"
    IN  [layout |-> Layout(c, b, i),
         ops    |-> CASE i \notin DOMAIN code -> TerminatorOps(c, b)
                      [] call -> CallOps(p, c, b, i)
                      [] OTHER -> Operation(c, b, i),
         store  |-> IF i \in DOMAIN code THEN StoreResult(c, b, i) ELSE <<>>]
Compile(p) ==
    [fn \in DOMAIN p.fns |->
        LET c == Ctx(p, fn)
            g == c.unit.cfg
        IN  [base |-> c.base, prologue |-> Prologue(c),
             blocks |-> [b \in g.blocks |-> [i \in Points(g, b) |-> Emitted(p, c, b, i)]]]]

-----------------------------------------------------------------------------
(* Execution. *)
Run(m, ops) ==
    LET after[n \in 0 .. Len(ops)] == IF n = 0 THEN m ELSE Exec(after[n-1], ops[n])
    IN  after[Len(ops)]
PointOf(l) == [fn |-> l[1], block |-> l[2], idx |-> l[3]]
Target(m) == PointOf(m.jump)
Assembly(at) == asm[at.fn].blocks[at.block][at.idx]

(* The label of the dispatcher's external continuation (or, for the         *)
(* constructor, of the CODECOPY section).                                   *)
Outside == <<"outside">>

(* The outside call: the dispatcher (or CODECOPY) stored the arguments in   *)
(* the frame of main, pushed its continuation and jumped to main.           *)
Init ==
    /\ program \in Programs
    /\ asm = Compile(program)
    /\ \E args \in [1 .. Len(program.fns[program.main].cfg.params) -> Word],
          st \in Storages :
          LET main == asm[program.main]
              params == program.fns[program.main].cfg.params
              memory == [a \in {main.base + params[i] : i \in DOMAIN params} |->
                            WordCell(args[CHOOSE i \in DOMAIN params : main.base + params[i] = a])]
          IN  evm = Run(Machine(<<LabelCell(Outside)>>, memory, st), main.prologue)
    /\ pc = [fn |-> program.main, block |-> program.fns[program.main].cfg.entry, idx |-> 1]
    /\ outcome = "running"
    /\ result = <<>>

Here == program.fns[pc.fn].cfg
AtInstruction(ops) ==
    /\ outcome = "running"
    /\ pc.idx \in DOMAIN Here.code[pc.block]
    /\ Here.code[pc.block][pc.idx].op \in ops
AtTerminator(kinds) ==
    /\ outcome = "running"
    /\ pc.idx \notin DOMAIN Here.code[pc.block]
    /\ Here.term[pc.block].kind \in kinds

(* The prologue is emitted behind the JUMPDEST of the entry block, and so    *)
(* runs whenever that block is jumped to.                                    *)
Arrival(at) ==
    IF at.block = program.fns[at.fn].cfg.entry THEN asm[at.fn].prologue ELSE <<>>

(* The machine becomes m, and execution goes on at next unless it faulted.  *)
Continue(m, next) ==
    /\ evm' = Landed(m)
    /\ pc' = IF m.fault THEN pc ELSE next
    /\ outcome' = IF m.fault THEN "fault" ELSE "running"
    /\ UNCHANGED <<program, asm, result>>

Compute ==
    /\ AtInstruction({"Binary", "Unary", "Copy", "SLoad", "SStore"})
    /\ Continue(Run(evm, Assembly(pc).ops \o Assembly(pc).store), [pc EXCEPT !.idx = @ + 1])

Call ==
    /\ AtInstruction({"Call"})
    /\ LET m == Run(evm, Assembly(pc).ops)
       IN  IF m.fault THEN Continue(m, pc)
           ELSE Continue(Run(Landed(m), Arrival(Target(m))), Target(m))

Goto ==
    /\ AtTerminator({"Jump", "Branch"})
    /\ LET m == Run(evm, Assembly(pc).ops)
       IN  IF m.fault THEN Continue(m, pc)
           ELSE Continue(Run(Landed(m), Arrival(Target(m))), Target(m))

Return ==
    /\ AtTerminator({"Return"})
    /\ LET m == Run(evm, Assembly(pc).ops)
       IN  /\ m.fault \/ m.jump # Outside
           /\ IF m.fault THEN Continue(m, pc)
              ELSE Continue(Run(Landed(m), Assembly(Target(m)).store),
                            [Target(m) EXCEPT !.idx = @ + 1])

(* The external continuation: PUSH 0, MSTORE, and return the word at 0.     *)
(* The constructor's continuation expects nothing on the stack.             *)
ExternalContinuation(p) == IF p.creation THEN <<>> ELSE <<MStore(0)>>
ReturnOutside ==
    /\ AtTerminator({"Return"})
    /\ LET m == Run(evm, Assembly(pc).ops)
           end == Run(Landed(m), ExternalContinuation(program))
       IN  /\ ~ m.fault /\ m.jump = Outside
           /\ evm' = end
           /\ outcome' = IF end.fault THEN "fault" ELSE "returned"
           /\ result' = IF end.fault \/ program.creation THEN <<>>
                        ELSE <<Recall(end.memory, 0).word>>
    /\ UNCHANGED <<program, asm, pc>>

(* Executing INVALID ends the transaction.                                  *)
Abort ==
    /\ AtTerminator({"Unreachable"})
    /\ evm' = Run(evm, Assembly(pc).ops)
    /\ outcome' = "invalid"
    /\ UNCHANGED <<program, asm, pc, result>>

Next == Compute \/ Call \/ Goto \/ Return \/ ReturnOutside \/ Abort

Spec == Init /\ [][Next]_vars

-----------------------------------------------------------------------------
(* What the code generator is given and relies on.                          *)

(* The type checker, SSA construction and the lowering: a call has one       *)
(* argument for each parameter, and a destination exactly if its callee      *)
(* returns a value, which it then does wherever it returns; nothing jumps to *)
(* an entry block, whose layout lists parameters only; the outside calls an  *)
(* external function.                                                        *)
IsList(q) == Len(q) \in Nat /\ DOMAIN q = 1 .. Len(q)
IsOperand(x) == x.kind = "slot" \/ (x.kind = "const" /\ x.val \in Word)
Operands(q, n) == IsList(q) /\ Len(q) = n /\ \A i \in 1 .. n : IsOperand(q[i])
Returns(u, void) ==
    \A b \in u.cfg.blocks : u.cfg.term[b].kind = "Return" => (u.cfg.term[b].args = <<>>) = void
InstTyped(p, inst) ==
    LET takes(n) == Operands(inst.args, n)
        yields == \E d \in Slot : inst.dest = {d}
    IN  \/ inst.op = "Binary" /\ inst.ref \in DOMAIN BinaryCode /\ takes(2) /\ yields
        \/ inst.op = "Unary" /\ inst.ref \in {"Not", "Negate"} /\ takes(1) /\ yields
        \/ inst.op = "Copy" /\ takes(1) /\ yields
        \/ inst.op = "SLoad" /\ inst.ref \in Keys /\ yields
        \/ inst.op = "SStore" /\ inst.ref \in Keys /\ takes(1) /\ inst.dest = {}
        \/ /\ inst.op = "Call" /\ inst.ref \in DOMAIN p.fns
           /\ takes(Len(p.fns[inst.ref].cfg.params))
           /\ inst.dest = {} \/ yields
           /\ Returns(p.fns[inst.ref], inst.dest = {})
TermTyped(g, t) ==
    LET leads(n) == IsList(t.targets) /\ Len(t.targets) = n
                    /\ \A i \in 1 .. n : t.targets[i] \in g.blocks \ {g.entry}
    IN  \/ t.kind = "Jump" /\ leads(1)
        \/ t.kind = "Branch" /\ Operands(t.args, 1) /\ leads(2)
        \/ t.kind = "Return" /\ (t.args = <<>> \/ Operands(t.args, 1))
        \/ t.kind = "Unreachable"
UnitTyped(p, u) ==
    LET g == u.cfg
    IN  /\ g.entry \in g.blocks /\ g.external \in BOOLEAN /\ g.params \in Seq(Slot)
        /\ \A b \in g.blocks : /\ IsList(g.code[b]) /\ u.entry_layout[b] \in Seq(Slot)
                               /\ \A i \in DOMAIN g.code[b] : InstTyped(p, g.code[b][i])
                               /\ TermTyped(g, g.term[b])
        /\ ~ g.external => ToSet(u.entry_layout[g.entry]) \subseteq ToSet(g.params)
WellTyped(p) ==
    /\ p.main \in DOMAIN p.fns /\ p.fns[p.main].cfg.external
    /\ \A fn \in DOMAIN p.fns : UnitTyped(p, p.fns[fn])

ASSUME ProgramsAssumption == \A p \in Programs : WellTyped(p)
ASSUME StoragesAssumption == Storages \subseteq [Keys -> Word]

(* Where the code keeps to its conventions: every call is of an internal    *)
(* function (the type checker takes an entry point too, whose prologue      *)
(* leaves the arguments on the stack), and no shuffle leaves a DUP out.      *)
CallsInternal(p) ==
    \A fn \in DOMAIN p.fns : \A b \in p.fns[fn].cfg.blocks : \A i \in DOMAIN p.fns[fn].cfg.code[b] :
        p.fns[fn].cfg.code[b][i].op = "Call" => ~ p.fns[p.fns[fn].cfg.code[b][i].ref].cfg.external

(* The shuffles at the end of block b, and in the prologue.                 *)
Ending(c, b) == Layout(c, b, Len(c.unit.cfg.code[b]) + 1)
Joined(c, b) ==
    LET t == c.unit.cfg.term[b]
        layout(k) == c.unit.entry_layout[t.targets[k]]
        tested(q) == IF t.args[1].kind = "slot" THEN <<t.args[1].val>> \o q ELSE q
    IN  /\ t.kind = "Jump" => Reaches(Ending(c, b), layout(1))
        /\ t.kind = "Branch" => /\ Reaches(Ending(c, b), tested(layout(1)))
                                /\ Reaches(layout(1), layout(2))
        /\ t.kind = "Return" /\ t.args # <<>> => Reaches(Ending(c, b), tested(<<>>))
Pushed(c) == <<c.unit.cfg.params[1]>> \o Reverse(Tail(c.unit.cfg.params))
EntryJoined(c) ==
    ~ c.unit.cfg.external /\ c.unit.cfg.params # <<>>
        => Reaches(Pushed(c), c.unit.entry_layout[c.unit.cfg.entry])
ShufflesReach(p) ==
    \A fn \in DOMAIN p.fns :
        EntryJoined(Ctx(p, fn)) /\ \A b \in p.fns[fn].cfg.blocks : Joined(Ctx(p, fn), b)

(* Where the compiler emits it without a panic: no DUP or SWAP beyond 16.   *)
Panics(ops) == \E i \in DOMAIN ops : ops[i] = Panic
Emittable(p) ==
    \A fn \in DOMAIN p.fns :
        /\ ~ Panics(Prologue(Ctx(p, fn)))
        /\ \A b \in p.fns[fn].cfg.blocks : \A i \in Points(p.fns[fn].cfg, b) :
              ~ Panics(Emitted(p, Ctx(p, fn), b, i).ops) /\ ~ Panics(Emitted(p, Ctx(p, fn), b, i).store)

(* The allocator's guarantee: an entry layout lists the stack slots live at *)
(* the block's entry by strictly increasing position, and no two slots live *)
(* at one instruction have the same position (see StackAllocator).          *)
AllocationSound(u) ==
    \A b \in u.cfg.blocks :
        LET q == u.entry_layout[b]
        IN  /\ \A i, j \in DOMAIN q : i < j => u.location[q[i]] < u.location[q[j]]
            /\ ToSet(q) = {s \in NeededBefore(u.cfg, u.live_out[b], b, 1) : u.location[s] # Memory}
            /\ \A i \in Points(u.cfg, b) :
                  \A s, t \in NeededBefore(u.cfg, u.live_out[b], b, i) :
                     s # t /\ u.location[s] # Memory => u.location[s] # u.location[t]

(* Where the generated code is right (the findings show it is wrong beyond):*)
(* an else block expects no stack slot that the then block does not, unless *)
(* it is a parameter stored in memory; internal parameters are on the stack;*)
(* nothing is negated; only the constructor returns nothing to the outside. *)
ElseCovered(u) ==
    \A b \in u.cfg.blocks :
        u.cfg.term[b].kind = "Branch" =>
            ToSet(u.entry_layout[u.cfg.term[b].targets[2]])
                \subseteq ToSet(u.entry_layout[u.cfg.term[b].targets[1]])
                          \cup (IF u.cfg.external THEN ToSet(u.cfg.params) ELSE {})
ParamsOnStack(u) ==
    ~ u.cfg.external => \A s \in NeededBefore(u.cfg, u.live_out[u.cfg.entry], u.cfg.entry, 1) :
                            u.location[s] # Memory
NothingNegated(u) ==
    \A b \in u.cfg.blocks : \A i \in DOMAIN u.cfg.code[b] : u.cfg.code[b][i].ref # "Negate"
Supported(p) ==
    /\ \A fn \in DOMAIN p.fns : /\ ElseCovered(p.fns[fn])
                                /\ ParamsOnStack(p.fns[fn])
                                /\ NothingNegated(p.fns[fn])
    /\ Returns(p.fns[p.main], p.creation)

-----------------------------------------------------------------------------
(* The continuations on the stack cut it into frames: the running           *)
(* function's, its caller's, ...  A frame starts at the top of the stack or  *)
(* under a continuation, and its function is at the next instruction, or at  *)
(* the call it waits at.                                                     *)
IsStart(s, i) == i = 1 \/ IsLabel(s[i-1])
At(i) == IF i = 1 THEN pc ELSE PointOf(evm.stack[i-1].label)

TypeOK ==
    /\ pc.fn \in DOMAIN program.fns
    /\ pc.block \in program.fns[pc.fn].cfg.blocks
    /\ pc.idx \in Points(program.fns[pc.fn].cfg, pc.block)
    /\ \A i \in DOMAIN evm.stack : evm.stack[i].word \in Word
    /\ evm.storage \in [Keys -> Word]
    /\ outcome \in {"running", "returned", "invalid", "fault"}
    /\ result \in Seq(Word)

(* Between two instructions the stack is exactly what the code generator    *)
(* believes it to be: each frame holds its block_stack and entry layout,    *)
(* then its continuation (terminators.rs:6-9, functions.rs:9-11), and the   *)
(* outermost continuation leads outside.                                    *)
StackDiscipline ==
    outcome = "running" =>
        /\ evm.stack # <<>>
        /\ evm.stack[Len(evm.stack)].label = Outside
        /\ \A i \in DOMAIN evm.stack : IsStart(evm.stack, i) =>
              LET next == i + Len(Assembly(At(i)).layout)
              IN  /\ next \in DOMAIN evm.stack /\ IsLabel(evm.stack[next])
                  /\ \A j \in i .. next - 1 : ~ IsLabel(evm.stack[j])

(* The slots a block expects are placed by its predecessor (lib.rs:594-595):*)
(* no instruction or shuffle loads a memory word nothing was stored to.     *)
NoStaleLoad == ~ evm.stale

(* No compiled program underflows the stack or jumps to a word that is no   *)
(* label; the external continuation finds the return value its comment      *)
(* promises (contract.rs:156).                                              *)
NeverFaults == outcome # "fault"

(* A running function has a continuation to return to.  A call leaves the    *)
(* caller's whole frame as it is, and until it returns nothing at or below   *)
(* the running function's continuation changes.                             *)
Below(stack, k) == SubSeq(stack, k, Len(stack))
Continuation(stack) ==
    CHOOSE i \in DOMAIN stack : IsLabel(stack[i]) /\ \A j \in 1 .. i - 1 : ~ IsLabel(stack[j])
UnderFrame(stack) ==
    IF \E i \in DOMAIN stack : IsLabel(stack[i]) THEN Below(stack, Continuation(stack)) ELSE <<>>
FramesKept ==
    outcome' = "running" =>
        /\ UnderFrame(evm'.stack) # <<>>
        /\ \/ UnderFrame(evm'.stack) = UnderFrame(evm.stack)
           \/ Tail(UnderFrame(evm'.stack)) = evm.stack
           \/ UnderFrame(evm'.stack) = UnderFrame(Tail(UnderFrame(evm.stack)))
CallerUntouched == [][FramesKept]_vars

-----------------------------------------------------------------------------
(* The activations of SlotMachine, read off the machine: slot s of a frame  *)
(* is the cell the code generator would copy it from.                       *)
SlotWord(at, start, s) ==
    LET i == start + PositionOf(Assembly(at).layout, s) - 1
    IN  IF i >= start /\ i <= Len(evm.stack) THEN evm.stack[i].word
        ELSE Recall(evm.memory, asm[at.fn].base + s).word

FrameView(i) ==
    LET at == At(i)
        g == program.fns[at.fn].cfg
        out == program.fns[at.fn].live_out[at.block]
        kept == IF i = 1 THEN NeededBefore(g, out, at.block, at.idx)
                ELSE NeededBefore(g, out, at.block, at.idx + 1) \ g.code[at.block][at.idx].dest
    IN  [fn |-> at.fn, block |-> at.block, idx |-> at.idx,
         env |-> [s \in kept |-> SlotWord(at, i, s)]]
Frames ==
    LET starts == SelectSeq([i \in DOMAIN evm.stack |-> IF IsStart(evm.stack, i) THEN i ELSE 0],
                            LAMBDA i : i > 0)
    IN  IF outcome = "running" THEN [k \in DOMAIN starts |-> FrameView(starts[k])] ELSE <<>>

-----------------------------------------------------------------------------
(* Claims of the code that a run refutes.                                   *)

(* expect("<= 16 slots"), instructions.rs:194 and 199: every operand of an  *)
(* instruction is within reach of DUP16.                                    *)
OperandsInReach ==
    \A fn \in DOMAIN asm : \A b \in DOMAIN asm[fn].blocks :
        \A i \in DOMAIN asm[fn].blocks[b] :
            \A k \in DOMAIN asm[fn].blocks[b][i].ops : asm[fn].blocks[b][i].ops[k] # Panic

(* "Negation requires special handling (0 - x)", instructions.rs:307: the   *)
(* opcodes of a negation leave 0 - x on the stack.                          *)
NegationNegates ==
    AtInstruction({"Unary"}) /\ Here.code[pc.block][pc.idx].ref = "Negate" =>
        LET x == Here.code[pc.block][pc.idx].args[1].val
        IN  Run(evm, Assembly(pc).ops).stack[1].word = (0 - SlotWord(pc, 1, x)) % WordCount
=============================================================================
