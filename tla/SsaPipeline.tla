------------------------------ MODULE SsaPipeline ------------------------------
(***************************************************************************)
(* A function from its statements to its lowered form: SsaBuilder, then    *)
(* dominance, loops, phis and renaming (insert_phi_nodes_and_rename), then *)
(* lower_functions (codegen/src/lib.rs), which turns phis into copies and  *)
(* registers into stack slots and removes dead instructions.               *)
(***************************************************************************)
EXTENDS SsaBuilder, SsaRenaming

CONSTANTS Input,     \* the arguments and storage contents tried
          Fuel       \* bound: statements, or blocks, a run may execute

VARIABLES register_map, lowered
lowering == <<register_map, lowered>>
vars == <<phase, program, cfg, builder, dominance, renamer, lowering>>

Opt == INSTANCE DeadCode WITH Slot <- {register_map[r] : r \in DOMAIN register_map}

Init ==
    /\ InitBuilder /\ InitDominance /\ InitRenaming
    /\ register_map = <<>> /\ lowered = <<>>

-----------------------------------------------------------------------------
(* Bound: a HashMap of blocks is walked upwards or downwards.               *)
Upwards == [n \in 1 .. Cardinality(cfg.blocks) |-> n - 1]
BlockOrders == {Upwards, Reverse(Upwards)}

(* eliminate_phi_nodes: the copies for a predecessor, one after another at  *)
(* its end, in the order the phis were met.                                *)
CopiesFor(p, inst) ==
    FlattenSeq([k \in DOMAIN inst.sources |->
        IF inst.sources[k][1] = p
        THEN <<Instr("Copy", <<"", 0>>, inst.dest, <<At(inst.sources[k][2])>>)>> ELSE <<>>])
CopiesAtEnd(p, order) ==
    FlattenSeq([i \in DOMAIN order |->
        FlattenSeq([j \in DOMAIN cfg.code[order[i]] |-> CopiesFor(p, cfg.code[order[i]][j])])])
WithoutPhis(code) ==
    FlattenSeq([j \in DOMAIN code |-> IF code[j].op = "Phi" THEN <<>> ELSE <<code[j]>>])
EliminatePhiNodes ==
    /\ phase = "renamed"
    /\ \E order \in BlockOrders :
         cfg' = [cfg EXCEPT !.code =
                    [b \in cfg.blocks |-> WithoutPhis(@[b]) \o CopiesAtEnd(b, order)]]
    /\ phase' = "eliminated"
    /\ UNCHANGED <<program, builder, dominance, renamer, lowering>>

(* lower_registers: slots are numbered as registers are first seen, the     *)
(* parameters first.                                                       *)
AllocateRegister(map, r) == IF r \in DOMAIN map THEN map ELSE Put(map, r, Cardinality(DOMAIN map))
Numbered(regs) ==
    LET map[n \in 0 .. Len(regs)] ==
            IF n = 0 THEN <<>> ELSE AllocateRegister(map[n-1], regs[n])
    IN  map[Len(regs)]
(* Mutant: the results of calls get no slot.                                *)
NoneOfCall(inst) == IF inst.op = "Call" \/ inst.dest = {} THEN <<>> ELSE <<CHOOSE r \in inst.dest : TRUE>>
DestRegister(inst) == IF inst.dest = {} THEN <<>> ELSE <<CHOOSE r \in inst.dest : TRUE>>
DestsOf(code) == FlattenSeq([j \in DOMAIN code |-> DestRegister(code[j])])
(* A register of another type than int, address or bool is an error, with   *)
(* which the compilation ends: values are words of these here, but for the  *)
(* object of a call of another contract, whose type is that contract.       *)
TypesLowered == \A b \in cfg.blocks : \A inst \in ToSet(cfg.code[b]) : inst.op # "External"
LowerRegisters ==
    /\ phase = "eliminated" /\ TypesLowered
    /\ \E order \in BlockOrders :
         register_map' = Numbered(cfg.params \o
                                  FlattenSeq([i \in DOMAIN order |-> DestsOf(cfg.code[order[i]])]))
    /\ phase' = "allocated"
    /\ UNCHANGED <<program, cfg, builder, dominance, renamer, lowered>>

(* lower_instruction and lower_terminator look every register up; one that  *)
(* has no slot is an error.                                                *)
LowerOperands(args) ==
    [i \in DOMAIN args |->
        IF args[i].kind = "reg" THEN Opt!Loc(register_map[args[i].val]) ELSE args[i]]
LowerInstruction(inst) ==
    Opt!Inst(IF inst.op = "External" THEN "Call" ELSE inst.op, inst.ref,
             {register_map[r] : r \in inst.dest}, LowerOperands(inst.args))
Mentioned ==
    ToSet(cfg.params) \cup
    UNION {RegsOf(cfg.term[b].args) \cup
           UNION {inst.dest \cup RegsOf(inst.args) : inst \in ToSet(cfg.code[b])} : b \in cfg.blocks}
LowerFunction ==
    /\ phase = "allocated"
    /\ IF Mentioned \subseteq DOMAIN register_map
       THEN /\ lowered' = <<[cfg EXCEPT
                  !.code = [b \in cfg.blocks |->
                               [i \in DOMAIN @[b] |-> LowerInstruction(@[b][i])]],
                  !.term = [b \in cfg.blocks |-> [@[b] EXCEPT !.args = LowerOperands(@)]],
                  !.params = [i \in DOMAIN @ |-> register_map[@[i]]]]>>
            /\ phase' = "lowered"
       ELSE lowered' = lowered /\ phase' = "refused"
    /\ UNCHANGED <<program, cfg, builder, dominance, renamer, register_map>>

(* The only pass of the optimizer, to its fixed point.                      *)
Optimize ==
    /\ phase = "lowered"
    /\ lowered' = <<Opt!Optimized(lowered[1])>>
    /\ phase' = "optimized"
    /\ UNCHANGED <<program, cfg, builder, dominance, renamer, register_map>>

Analyse == NextDominance /\ UNCHANGED <<program, builder, renamer, lowering>>
Next ==
    \/ NextBuilder /\ UNCHANGED <<dominance, renamer, lowering>>
    \/ Analyse
    \/ NextRenaming /\ UNCHANGED <<program, builder, lowering>>
    \/ EliminatePhiNodes \/ LowerRegisters \/ LowerFunction \/ Optimize

(* The analysis waits for nothing once it has started.                      *)
Spec == Init /\ [][Next]_vars /\ WF_vars(Analyse)

-----------------------------------------------------------------------------
Phases == {"build", "order", "dominance", "loops", "phis", "place", "rename", "renamed",
           "eliminated", "allocated", "lowered", "optimized"}
(* The state of the passes; "refused" is not among the phases, so every     *)
(* register a graph mentions has a slot (lower_instruction never fails).    *)
TypeOK ==
    /\ phase \in Phases
    /\ program \in {EnsureReturn(p) : p \in Programs}
    /\ WellFormed(cfg)
    /\ current_block \in cfg.blocks /\ next_temp \in Nat
    /\ ToSet(rpo) \subseteq cfg.blocks /\ DOMAIN idom \subseteq cfg.blocks
    /\ (phase = "place" => symbols \subseteq AllSymbols) /\ undefined \in BOOLEAN

(* The bodies SsaBuilder keeps whole: those whose loops contain no control  *)
(* flow and whose returns come last in their block.                        *)
Flat(block) == \A i \in DOMAIN block : block[i].kind \in {"Expression", "Assign", "Declare"}
KeptWhole(p) ==
    \A block \in Blocks(p.body) : \A i \in DOMAIN block :
        /\ block[i].kind = "Return" => i = Len(block)
        /\ block[i].kind = "While" => Flat(block[i].block)

Inputs == [DOMAIN program.params -> Input] \X [StateVariable -> Input]
Compiled == IF phase = "optimized" THEN lowered[1] ELSE cfg
SameTraces ==
    phase \in {"renamed", "optimized"} =>
        \A input \in Inputs :
            RunGraph(Compiled, input[1], input[2], Fuel)
                = Meaning(program, input[1], input[2], Fuel)

(* A compiled function does what its statements say, for every argument and *)
(* storage: after renaming, with phis, and after lowering, where copies are *)
(* made one by one in the order the maps were walked                       *)
(* (eliminate_phi_nodes, codegen/src/lib.rs:553).                          *)
KeptMeaning == KeptWhole(program) => SameTraces

(* What liveness and code generation count on: once dead copies are gone,   *)
(* no slot is read on a path that has not written it.  Phis of temporaries  *)
(* read some before (fill_successor_phis, ssa_ir.rs:1311).                  *)
LoweredDefined ==
    phase = "optimized" /\ KeptWhole(program) => Opt!DefinedBeforeUse(lowered[1])

(* The depth-first search and the rounds over the blocks end, whatever the  *)
(* graph (compute_dominance, ssa_ir.rs:752).                               *)
DominanceEnds == phase = "order" ~> phase = "phis"
=============================================================================
