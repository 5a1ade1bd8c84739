------------------------------ MODULE SsaRenaming ------------------------------
(***************************************************************************)
(* insert_phi_nodes_and_rename (ir/src/ssa_ir.rs): phis at the iterated    *)
(* dominance frontiers of each symbol's definitions, then versions for     *)
(* every definition and use along the dominator tree.  The symbols come in *)
(* the order of the def_sites map and the children of a block in the order *)
(* the idom map was walked: any order.                                     *)
(***************************************************************************)
EXTENDS SsaForm, Dominance

VARIABLES
    symbols,        \* of def_sites, still without their phis
    counters,       \* RenamingContext: next version of a symbol
    stacks,         \* and its active versions, the latest first
    renaming,       \* the recursion: blocks, with the children left and what they defined
    undefined       \* a use found no version: the compiler panics

renamer == <<symbols, counters, stacks, renaming, undefined>>

InitRenaming ==
    /\ symbols = {} /\ counters = <<>> /\ stacks = <<>>
    /\ renaming = <<>> /\ undefined = FALSE

-----------------------------------------------------------------------------
(* def_sites: the entry for a parameter, and every block that defines.      *)
Defined(q) == {r.sym : r \in UNION {inst.dest : inst \in ToSet(q)}}
ParamSymbols == {r.sym : r \in ToSet(cfg.params)}
DefSites(x) ==
    {b \in cfg.blocks :
        \E inst \in ToSet(cfg.code[b]) : inst.op # "Phi" /\ \E r \in inst.dest : r.sym = x}
    \cup {b \in {cfg.entry} : x \in ParamSymbols}
AllSymbols == ParamSymbols \cup UNION {Defined(cfg.code[b]) : b \in cfg.blocks}

CollectDefSites ==
    /\ phase = "phis"
    /\ phase' = "place"
    /\ symbols' = AllSymbols
    /\ UNCHANGED <<cfg, dominance, counters, stacks, renaming, undefined>>

(* Mutant: a block that gets a phi does not define the symbol.              *)
NotIterated(x) == UNION {frontier[b] : b \in DefSites(x)}

(* place_phis_for_variable: a block that gets a phi defines the symbol too. *)
PhiBlocks(x) ==
    LET placed[n \in 0 .. Cardinality(cfg.blocks)] ==
            IF n = 0 THEN {}
            ELSE LET before == placed[n-1]
                 IN  before \cup UNION {frontier[b] : b \in DefSites(x) \cup before}
    IN  placed[Cardinality(cfg.blocks)]

PlacePhis ==
    /\ phase = "place"
    /\ \E x \in symbols :
         /\ cfg' = [cfg EXCEPT !.code =
                       [b \in cfg.blocks |->
                           (IF b \in PhiBlocks(x) THEN <<Phi(Reg(x, 0))>> ELSE <<>>) \o cfg.code[b]]]
         /\ symbols' = symbols \ {x}
    /\ UNCHANGED <<phase, dominance, counters, stacks, renaming, undefined>>

-----------------------------------------------------------------------------
(* RenamingContext, threaded through the instructions of a block as the     *)
(* record c; made lists the symbols defined, in order.                     *)
NextVersion(c, x) == IF x \in DOMAIN c.counters THEN c.counters[x] ELSE 0
Active(c, x) == IF x \in DOMAIN c.stacks THEN c.stacks[x] ELSE <<>>
Define(c, x) ==
    [c EXCEPT !.counters = Put(@, x, NextVersion(c, x) + 1),
              !.stacks = Put(@, x, <<NextVersion(c, x)>> \o Active(c, x)),
              !.made = Append(@, x)]
HasTop(c, x) == Active(c, x) # <<>>
Top(c, x)    == Reg(x, c.stacks[x][1])

RenameOperand(c, o) ==
    IF o.kind = "reg" /\ HasTop(c, o.val.sym) THEN At(Top(c, o.val.sym)) ELSE o
RenameArgs(c, args) == [i \in DOMAIN args |-> RenameOperand(c, args[i])]
Dangling(c, args) == \E i \in DOMAIN args : args[i].kind = "reg" /\ ~ HasTop(c, args[i].val.sym)

(* process_phi_nodes and process_instructions_and_terminators on one        *)
(* instruction: operands first, then the definition.                       *)
RenameDest(c, inst) ==
    LET x == (CHOOSE r \in inst.dest : TRUE).sym
        d == Define(c, x)
    IN  IF inst.dest = {} THEN [c EXCEPT !.code = Append(@, inst)]
        ELSE [d EXCEPT !.code = Append(@, [inst EXCEPT !.dest = {Top(d, x)}])]

RenameInstruction(c, inst) ==
    RenameDest([c EXCEPT !.undefined = @ \/ Dangling(c, inst.args)],
               [inst EXCEPT !.args = RenameArgs(c, @)])

RenameCode(c0, code) ==
    LET after[n \in 0 .. Len(code)] ==
            IF n = 0 THEN c0 ELSE RenameInstruction(after[n-1], code[n])
    IN  after[Len(code)]

(* fill_successor_phis: a phi gets a source if the symbol has a version.    *)
FillPhi(c, from, inst) ==
    LET x == (CHOOSE r \in inst.dest : TRUE).sym
    IN  IF inst.op = "Phi" /\ HasTop(c, x)
        THEN [inst EXCEPT !.sources = Append(@, <<from, Top(c, x)>>)] ELSE inst

(* recursive_rename_blocks up to its children.                              *)
RenameBlock(b, c0) ==
    LET c    == RenameCode(c0, cfg.code[b])
        term == [cfg.term[b] EXCEPT !.args = RenameArgs(c, @)]
        renamed == [cfg EXCEPT !.code[b] = c.code, !.term[b] = term]
    IN  /\ cfg' = [renamed EXCEPT !.code =
                      [d \in cfg.blocks |->
                          IF d \in Successors(cfg, b)
                          THEN [i \in DOMAIN @[d] |-> FillPhi(c, b, @[d][i])] ELSE @[d]]]
        /\ counters' = c.counters
        /\ stacks' = c.stacks
        /\ undefined' = (c.undefined \/ Dangling(c, cfg.term[b].args))
        /\ renaming' = <<[block |-> b, left |-> DomTreeChildren(b), made |-> c.made]>> \o
                       (IF renaming = <<>> THEN <<>> ELSE [renaming EXCEPT ![1].left = @ \ {b}])

Context == [code |-> <<>>, counters |-> counters, stacks |-> stacks, made |-> <<>>,
            undefined |-> undefined]

(* Mutant: the parameters get no version.                                   *)
NoneDefined(params) == Context
DefineAll(params) ==
    LET after[n \in 0 .. Len(params)] ==
            IF n = 0 THEN Context ELSE Define(after[n-1], params[n].sym)
    IN  after[Len(params)]

RenameEntry ==
    /\ phase = "place" /\ symbols = {}
    /\ phase' = "rename"
    /\ RenameBlock(cfg.entry, [DefineAll(cfg.params) EXCEPT !.made = <<>>])
    /\ UNCHANGED <<dominance, symbols>>

(* A use without a version panics: nothing follows.                         *)
RenameChild ==
    /\ phase = "rename" /\ renaming # <<>> /\ ~ undefined
    /\ \E b \in renaming[1].left : RenameBlock(b, Context)
    /\ UNCHANGED <<phase, dominance, symbols>>

(* Mutant of Pop: only one version of each symbol is popped.                *)
PopOnce(made) == [x \in DOMAIN stacks |-> IF x \in ToSet(made) THEN Tail(stacks[x]) ELSE stacks[x]]
Pop(made) ==
    [x \in DOMAIN stacks |->
        SubSeq(stacks[x], Cardinality({i \in DOMAIN made : made[i] = x}) + 1, Len(stacks[x]))]
LeaveRenamed ==
    /\ phase = "rename" /\ renaming # <<>> /\ renaming[1].left = {} /\ ~ undefined
    /\ stacks' = Pop(renaming[1].made)
    /\ renaming' = Tail(renaming)
    /\ phase' = IF Tail(renaming) = <<>> THEN "renamed" ELSE phase
    /\ UNCHANGED <<cfg, dominance, symbols, counters, undefined>>

NextRenaming ==
    \/ CollectDefSites \/ PlacePhis
    \/ RenameEntry \/ RenameChild \/ LeaveRenamed

-----------------------------------------------------------------------------
(* No use is without a definition in a block that dominates it: the panic   *)
(* of rename_operand (ssa_ir.rs:1291) never happens to resolved names.      *)
NeverUndefined == ~ undefined

(* Every register is defined once, and                                      *)
(* what is read is defined on every path to it: above it in its block, or   *)
(* in a block that dominates it; the sources of a phi at the end of their   *)
(* predecessor (recursive_rename_blocks, ssa_ir.rs:1148).                  *)
Definitions(b) == UNION {inst.dest : inst \in ToSet(cfg.code[b])}
DefinedAtEntry(b) ==
    ToSet(cfg.params) \cup UNION {Definitions(d) : d \in Dominators(b) \ {b}}
DefinedAtEnd(b) == DefinedAtEntry(b) \cup Definitions(b)
RegsOf(args) == {args[i].val : i \in {j \in DOMAIN args : args[j].kind = "reg"}}
InSsaForm ==
    /\ \A b, d \in cfg.blocks : \A i \in DOMAIN cfg.code[b], j \in DOMAIN cfg.code[d] :
          cfg.code[b][i].dest \cap (cfg.code[d][j].dest \cup ToSet(cfg.params)) # {}
              => b = d /\ i = j
    /\ \A b \in cfg.blocks :
          /\ RegsOf(cfg.term[b].args) \subseteq DefinedAtEnd(b)
          /\ \A i \in DOMAIN cfg.code[b] :
                /\ RegsOf(cfg.code[b][i].args) \subseteq
                      DefinedAtEntry(b) \cup UNION {cfg.code[b][j].dest : j \in 1 .. i - 1}
                /\ \A s \in ToSet(cfg.code[b][i].sources) :
                      s[1] \in Predecessors(cfg, b) /\ s[2] \in DefinedAtEnd(s[1])
SsaHolds == phase = "renamed" => InSsaForm
=============================================================================
