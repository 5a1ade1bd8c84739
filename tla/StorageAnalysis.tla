---------------------------- MODULE StorageAnalysis ----------------------------
(***************************************************************************)
(* analyze_storage_contract (analyzer/src/storage.rs): the search of the   *)
(* call graph for external calls, and then for each function in turn the   *)
(* fold/unfold states of its blocks, the insertion of fold and unfold, and *)
(* the checks that no storage is written after an external call and none   *)
(* that is constant.                                                       *)
(*                                                                         *)
(* A contract is a record: order, the names of its functions as they are   *)
(* listed, and fns, for each name a graph of ControlFlow with              *)
(*   code       [blocks -> Seq(instruction)]                               *)
(*   modifier   "Checked", "Guarded" or "Reentrant".                       *)
(* Of an instruction only op and ref matter here: the storage location     *)
(* loaded or stored, or the internal function called.                      *)
(***************************************************************************)
EXTENDS ControlFlow, SequencesExt

CONSTANTS Contracts,   \* the contracts that may be analysed
          Location,    \* the state variables and constants
          Mutable      \* the state variables

(* What SsaBuilder puts in a block: folds and unfolds come later.           *)
Access == [op : {"Load", "Store"}, ref : Location]
Source == Access \cup [op : {"Internal"}, ref : STRING] \cup [op : {"External", "Other"}, ref : {""}]

(* A function is named by its symbol, so no two have one name, and the      *)
(* functions called are functions of the contract (the analysis expects it).*)
ASSUME ContractsAssumption ==
    \A c \in Contracts :
        /\ c.order # <<>> /\ c.order \in Seq(DOMAIN c.fns) /\ ToSet(c.order) = DOMAIN c.fns
        /\ IsInjective(c.order)
        /\ \A f \in DOMAIN c.fns :
              /\ WellFormed(c.fns[f])
              /\ c.fns[f].code \in [c.fns[f].blocks -> Seq(Source)]
              /\ \A b \in c.fns[f].blocks : \A i \in DOMAIN c.fns[f].code[b] :
                    c.fns[f].code[b][i].op = "Internal" => c.fns[f].code[b][i].ref \in DOMAIN c.fns
              /\ c.fns[f].succ \in [c.fns[f].blocks -> Seq(c.fns[f].blocks)]
ASSUME LocationAssumption == IsFiniteSet(Location) /\ Mutable \subseteq Location

VARIABLES
    contract, phase,
    locations,                \* StorageLocationSet, in the order it is iterated
    k,                        \* the function at hand, in contract.order
    leaving,                  \* functions_with_external_calls
    frontier, seen,           \* callees to visit, and visited, from function k
    entry_state, exit_state,  \* StorageStateMap: the unfolded locations
    worklist,
    code,                     \* [<<function, block>> -> instructions], once rewritten
    todo,                     \* blocks of function k not rewritten
    block, idx,               \* the instruction read; idx = 0 between blocks
    called,                   \* the call at idx is emitted, its folds are not
    current_state, new_instructions,
    pending, stack, visited   \* calls to check; check_no_stores_after_call

calls  == <<leaving, frontier, seen>>
states == <<entry_state, exit_state, worklist>>
insert == <<todo, block, idx, called, current_state, new_instructions>>
check  == <<pending, stack, visited>>
vars   == <<contract, locations, phase, k, calls, states, code, insert, check>>

Fold(v)   == [op |-> "Fold", ref |-> v]
Unfold(v) == [op |-> "Unfold", ref |-> v]
Cfg(f)    == contract.fns[f]
fn        == contract.order[k]
cfg       == Cfg(fn)
Instructions(f) == UNION {ToSet(Cfg(f).code[b]) : b \in Cfg(f).blocks}

-----------------------------------------------------------------------------
(* CallGraphAnalysis.                                                       *)
Callees(f) == {inst.ref : inst \in {i \in Instructions(f) : i.op = "Internal"}}
CallsOut(f) == \E inst \in Instructions(f) : inst.op = "External"

(* contains_external_calls_recursive on one function not visited yet.       *)
VisitCallee ==
    /\ phase = "calls"
    /\ \E f \in frontier :
         /\ seen' = seen \cup {f}
         /\ IF CallsOut(f)
            THEN leaving' = leaving \cup {fn} /\ frontier' = {}
            ELSE leaving' = leaving /\ frontier' = (frontier \cup Callees(f)) \ seen'
    /\ UNCHANGED <<contract, locations, phase, k, states, code, insert, check>>

(* Mutant of SeenBefore: functions visited from another root count.         *)
SeenOnce   == seen
SeenBefore == {}
SearchNextFunction ==
    /\ phase = "calls" /\ frontier = {} /\ k < Len(contract.order)
    /\ k' = k + 1
    /\ seen' = SeenBefore
    /\ frontier' = {contract.order[k+1]} \ seen'
    /\ UNCHANGED <<contract, locations, phase, leaving, states, code, insert, check>>

-----------------------------------------------------------------------------
(* compute_storage_states.                                                  *)
StartStates(f) ==
    /\ entry_state' = [b \in Cfg(f).blocks |-> {}]
    /\ exit_state'  = [b \in Cfg(f).blocks |-> {}]
    /\ worklist'    = <<Cfg(f).entry>>

StartFirstFunction ==
    /\ phase = "calls" /\ frontier = {} /\ k = Len(contract.order)
    /\ phase' = "states" /\ k' = 1
    /\ StartStates(contract.order[1])
    /\ UNCHANGED <<contract, locations, calls, code, insert, check>>

(* The entry state is merged into StorageState::empty(), and merge          *)
(* intersects.  Mutant: the merge of the predecessors alone.                *)
MergedPredecessors(b) ==
    {v \in Location : b # cfg.entry /\ \A p \in Predecessors(cfg, b) : v \in exit_state[p]}
EntryState(b) == {v \in {} : \A p \in Predecessors(cfg, b) : v \in exit_state[p]}

(* apply_transfer_function: what is unfolded after instructions q.          *)
FoldsIn(inst, v) ==
    \/ inst = [op |-> "Store", ref |-> v]
    \/ inst.op = "External"
    \/ inst.op = "Internal" /\ inst.ref \in leaving
Transfer(unfolded, q) ==
    {v \in Location :
        /\ \/ v \in unfolded
           \/ \E i \in DOMAIN q : q[i] = [op |-> "Load", ref |-> v]
        /\ \A i \in DOMAIN q :
              FoldsIn(q[i], v) => \E j \in i + 1 .. Len(q) : q[j] = [op |-> "Load", ref |-> v]}

(* Mutant of ToRevisit: successors whether or not the exit state changed.   *)
AlwaysRevisit(b, new) == cfg.succ[b]
ToRevisit(b, new) == IF new = exit_state[b] THEN <<>> ELSE cfg.succ[b]
VisitBlock ==
    /\ phase = "states" /\ worklist # <<>>
    /\ LET b   == Last(worklist)
           new == Transfer(EntryState(b), cfg.code[b])
       IN  /\ entry_state' = [entry_state EXCEPT ![b] = EntryState(b)]
           /\ exit_state'  = [exit_state EXCEPT ![b] = new]
           /\ worklist'    = Front(worklist) \o ToRevisit(b, new)
    /\ UNCHANGED <<contract, locations, phase, k, calls, code, insert, check>>

-----------------------------------------------------------------------------
(* insert_fold_unfold_instructions: the blocks in any order, the locations  *)
(* around a call in the order of their map.                                 *)
Reentrant(f) == Cfg(f).modifier = "Reentrant"
NeedsFoldUnfold(inst) ==
    \/ inst.op = "External"
    \/ inst.op = "Internal" /\ (Reentrant(inst.ref) \/ inst.ref \in leaving)

StartInsertion ==
    /\ phase = "states" /\ worklist = <<>>
    /\ phase' = "insert"
    /\ todo' = cfg.blocks /\ block' = cfg.entry /\ idx' = 0 /\ called' = FALSE
    /\ current_state' = {} /\ new_instructions' = <<>>
    /\ UNCHANGED <<contract, locations, k, calls, states, code, check>>

EnterBlock ==
    /\ phase = "insert" /\ idx = 0
    /\ \E b \in todo : block' = b /\ current_state' = entry_state[b]
    /\ idx' = 1 /\ new_instructions' = <<>>
    /\ UNCHANGED <<contract, locations, phase, k, calls, states, code, todo, called, check>>

AtInstruction == phase = "insert" /\ idx \in DOMAIN cfg.code[block]
AtBlockEnd    == phase = "insert" /\ idx = Len(cfg.code[block]) + 1
inst == cfg.code[block][idx]

Emit(q, unfolded) ==
    /\ new_instructions' = new_instructions \o q
    /\ current_state' = unfolded
    /\ UNCHANGED <<contract, locations, phase, k, calls, states, code, todo, block, check>>

(* v is the first of S that locations.iter() yields.                        *)
FirstOf(S, v) ==
    \E i \in DOMAIN locations :
        locations[i] = v /\ v \in S /\ \A j \in 1 .. i - 1 : locations[j] \notin S

Unfolding(v) == IF v \in current_state THEN <<>> ELSE <<Unfold(v)>>
InsertAtLoad ==
    /\ AtInstruction /\ inst.op = "Load"
    /\ Emit(Unfolding(inst.ref) \o <<inst>>, current_state \cup {inst.ref})
    /\ idx' = idx + 1 /\ UNCHANGED called
InsertAtStore ==
    /\ AtInstruction /\ inst.op = "Store"
    /\ Emit(Unfolding(inst.ref) \o <<inst, Fold(inst.ref)>>, current_state \ {inst.ref})
    /\ idx' = idx + 1 /\ UNCHANGED called

UnfoldBeforeCall ==
    /\ AtInstruction /\ NeedsFoldUnfold(inst) /\ ~called
    /\ \E v \in Mutable : FirstOf(Mutable \ current_state, v) /\ Emit(<<Unfold(v)>>, current_state \cup {v})
    /\ UNCHANGED <<idx, called>>
CallUnfolded ==
    /\ AtInstruction /\ NeedsFoldUnfold(inst) /\ ~called /\ Mutable \subseteq current_state
    /\ Emit(<<inst>>, current_state)
    /\ called' = TRUE /\ UNCHANGED idx
FoldAfterCall ==
    /\ AtInstruction /\ called
    /\ \E v \in Mutable : FirstOf(Mutable \cap current_state, v) /\ Emit(<<Fold(v)>>, current_state \ {v})
    /\ UNCHANGED <<idx, called>>
CallFolded ==
    /\ AtInstruction /\ called /\ Mutable \cap current_state = {}
    /\ idx' = idx + 1 /\ called' = FALSE
    /\ UNCHANGED <<contract, locations, phase, k, calls, states, code, todo, block, current_state,
                   new_instructions, check>>

KeepInstruction ==
    /\ AtInstruction /\ inst.op \notin {"Load", "Store"} /\ ~NeedsFoldUnfold(inst)
    /\ Emit(<<inst>>, current_state)
    /\ idx' = idx + 1 /\ UNCHANGED called

Cleanup ==
    /\ AtBlockEnd
    /\ \E v \in Location : FirstOf(current_state, v) /\ Emit(<<Fold(v)>>, current_state \ {v})
    /\ UNCHANGED <<idx, called>>
FinishBlock ==
    /\ AtBlockEnd /\ Location \cap current_state = {}
    /\ code' = [p \in DOMAIN code \cup {<<fn, block>>} |->
                  IF p = <<fn, block>> THEN new_instructions ELSE code[p]]
    /\ todo' = todo \ {block} /\ block' = cfg.entry /\ idx' = 0 /\ new_instructions' = <<>>
    /\ UNCHANGED <<contract, locations, phase, k, calls, states, called, current_state, check>>

-----------------------------------------------------------------------------
(* validate_cei_pattern and validate_immutability, on the new instructions. *)
Points(f)     == UNION {{b} \X DOMAIN code[<<f, b>>] : b \in Cfg(f).blocks}
At(f, p)      == code[<<f, p[1]>>][p[2]]
CallPoints(f) == {p \in Points(f) :
                     \/ At(f, p).op = "External"
                     \/ At(f, p).op = "Internal" /\ Reentrant(At(f, p).ref)}

StartChecks ==
    /\ phase = "insert" /\ idx = 0 /\ todo = {}
    /\ phase' = "cei"
    /\ pending' = IF cfg.modifier = "Checked" THEN CallPoints(fn) ELSE {}
    /\ stack' = <<>> /\ visited' = {}
    /\ UNCHANGED <<contract, locations, k, calls, states, code, insert>>

(* Mutants: blocks visited for an earlier call count; the call's block is   *)
(* scanned whole; successors are scanned from the index of the call on.     *)
VisitedOnce    == visited
VisitedBefore  == {}
FirstOfBlock(p) == <<p[1], 1>>
AfterCall(p)    == <<p[1], p[2] + 1>>
SameIndex(from) == from
SuccessorStart(from) == 1

CheckCall ==
    /\ phase = "cei" /\ stack = <<>>
    /\ \E p \in pending : pending' = pending \ {p} /\ stack' = <<AfterCall(p)>>
    /\ visited' = VisitedBefore
    /\ UNCHANGED <<contract, locations, phase, k, calls, states, code, insert>>

(* One turn of the loop of check_no_stores_after_call.                      *)
SkipVisited ==
    /\ phase = "cei" /\ stack # <<>> /\ Last(stack)[1] \in visited
    /\ stack' = Front(stack)
    /\ UNCHANGED <<contract, locations, phase, k, calls, states, code, insert, pending, visited>>
StoresFrom(b, start) == \E i \in start .. Len(code[<<fn, b>>]) : code[<<fn, b>>][i].op = "Store"
FollowBlock ==
    /\ phase = "cei" /\ stack # <<>> /\ Last(stack)[1] \notin visited
    /\ LET b     == Last(stack)[1]
           start == Last(stack)[2]
       IN  /\ visited' = visited \cup {b}
           /\ IF StoresFrom(b, start)
              THEN phase' = "error" /\ stack' = stack
              ELSE /\ phase' = phase
                   /\ stack' = Front(stack) \o
                        [i \in DOMAIN cfg.succ[b] |-> <<cfg.succ[b][i], SuccessorStart(start)>>]
    /\ UNCHANGED <<contract, locations, k, calls, states, code, insert, pending>>

WritesConstant(f) ==
    \E b \in Cfg(f).blocks : \E i \in DOMAIN code[<<f, b>>] :
        code[<<f, b>>][i].op = "Store" /\ code[<<f, b>>][i].ref \notin Mutable
RejectConstantWrite ==
    /\ phase = "cei" /\ stack = <<>> /\ pending = {} /\ WritesConstant(fn)
    /\ phase' = "error"
    /\ UNCHANGED <<contract, locations, k, calls, states, code, insert, check>>
AcceptFunction ==
    /\ phase = "cei" /\ stack = <<>> /\ pending = {} /\ ~WritesConstant(fn)
    /\ k' = k + 1
    /\ IF k = Len(contract.order)
       THEN phase' = "done" /\ UNCHANGED states
       ELSE phase' = "states" /\ StartStates(contract.order[k+1])
    /\ UNCHANGED <<contract, locations, calls, code, insert, check>>

-----------------------------------------------------------------------------
Init ==
    /\ contract \in Contracts /\ locations \in Enumerations(Location)
    /\ phase = "calls" /\ k = 1
    /\ leaving = {} /\ frontier = {contract.order[1]} /\ seen = {}
    /\ entry_state = <<>> /\ exit_state = <<>> /\ worklist = <<>>
    /\ code = <<>>
    /\ todo = {} /\ block = 0 /\ idx = 0 /\ called = FALSE
    /\ current_state = {} /\ new_instructions = <<>>
    /\ pending = {} /\ stack = <<>> /\ visited = {}

Search  == VisitCallee \/ SearchNextFunction
Compute == StartFirstFunction \/ VisitBlock
Insert  == \/ StartInsertion \/ EnterBlock \/ InsertAtLoad \/ InsertAtStore \/ UnfoldBeforeCall
           \/ CallUnfolded \/ FoldAfterCall \/ CallFolded \/ KeepInstruction
           \/ Cleanup \/ FinishBlock
Check   == \/ StartChecks \/ CheckCall \/ SkipVisited \/ FollowBlock
           \/ RejectConstantWrite \/ AcceptFunction
Next == Search \/ Compute \/ Insert \/ Check

(* The analysis is sequential code: it runs while it has something to do.   *)
Spec == Init /\ [][Next]_vars /\ WF_vars(Next)

-----------------------------------------------------------------------------
TypeOK ==
    /\ contract \in Contracts /\ locations \in Enumerations(Location)
    /\ phase \in {"calls", "states", "insert", "cei", "done", "error"}
    /\ k \in 1 .. Len(contract.order) + 1
    /\ k = Len(contract.order) + 1 <=> phase = "done"
    /\ leaving \subseteq DOMAIN contract.fns
    /\ \A p \in DOMAIN code : p[1] \in DOMAIN contract.fns /\ p[2] \in Cfg(p[1]).blocks
    /\ phase \in {"states", "insert", "cei"} =>
          /\ entry_state \in [cfg.blocks -> SUBSET Location]
          /\ exit_state \in [cfg.blocks -> SUBSET Location]
          /\ worklist \in Seq(cfg.blocks)
    /\ phase = "insert" =>
          /\ todo \subseteq cfg.blocks /\ block \in cfg.blocks
          /\ idx \in 0 .. Len(cfg.code[block]) + 1
          /\ current_state \subseteq Location
    /\ phase = "cei" =>
          /\ \A p \in pending : p[1] \in cfg.blocks /\ p[2] \in DOMAIN code[<<fn, p[1]>>]
          /\ \A i \in DOMAIN stack : /\ stack[i][1] \in cfg.blocks
                                     /\ stack[i][2] \in 1 .. Len(code[<<fn, stack[i][1]>>]) + 1

(* The location v is unfolded just before point i of instructions q, when   *)
(* every location is folded at their start.                                 *)
OpenAt(q, i, v) ==
    \E j \in 1 .. i - 1 : q[j] = Unfold(v) /\ \A m \in j + 1 .. i - 1 : q[m] # Fold(v)

(* The instructions insert_fold_unfold_instructions leaves in a block: a    *)
(* location is loaded and stored only between its unfold and its fold, the  *)
(* two alternate, and every block ends with everything folded again, so     *)
(* this holds along every path.                                             *)
WellFolded(q) ==
    \A i \in DOMAIN q :
        /\ q[i].op \in {"Load", "Store", "Fold"} => OpenAt(q, i, q[i].ref)
        /\ q[i].op = "Unfold" => ~OpenAt(q, i, q[i].ref)
Disciplined ==
    \A p \in DOMAIN code :
        WellFolded(code[p]) /\ \A v \in Location : ~OpenAt(code[p], Len(code[p]) + 1, v)

(* Reference: functions from which a chain of internal calls leads to an    *)
(* external call, and the instructions through which control may leave.     *)
MayLeave(f) ==
    LET fs == DOMAIN contract.fns
    IN  \E g \in {f} \cup Reach(fs, [h \in fs |-> Callees(h)], f) : CallsOut(g)
LeavesContract(i) ==
    \/ i.op = "External"
    \/ i.op = "Internal" /\ (Reentrant(i.ref) \/ MayLeave(i.ref))

(* Around every call through which control may leave the contract, however  *)
(* long the chain of internal calls, all state variables are unfolded       *)
(* before and folded before anything else happens after.                    *)
OpenAcrossCalls ==
    \A p \in DOMAIN code : \A i \in DOMAIN code[p] : LeavesContract(code[p][i]) =>
        \A v \in Mutable :
            /\ OpenAt(code[p], i, v)
            /\ \E j \in i + 1 .. Len(code[p]) :
                  code[p][j] = Fold(v) /\ \A m \in i + 1 .. j : code[p][m].op = "Fold"

(* Points of function f at which a path from just after point p stores.     *)
StoresAfter(f, p) ==
    {q \in Points(f) :
        /\ At(f, q).op = "Store"
        /\ \/ q[1] = p[1] /\ q[2] > p[2]
           \/ q[1] \in ReachableFrom(Cfg(f), p[1])}
Accepted == IF phase = "calls" THEN {} ELSE {contract.order[j] : j \in 1 .. k - 1}

(* In an accepted function no path stores after a call that leaves, unless  *)
(* it comes around a loop to a store that precedes the call in its block:   *)
(* check_no_stores_after_call counts the call's block as visited although   *)
(* it has scanned only the part after the call.                             *)
EffectsFirstButForLoops ==
    \A f \in Accepted : Cfg(f).modifier = "Checked" =>
        \A p \in CallPoints(f) : \A q \in StoresAfter(f, p) : q[1] = p[1] /\ q[2] < p[2]

(* The rule as the code states it: no store after an external call, along   *)
(* the successors of the control-flow graph.                                *)
EffectsFirst ==
    \A f \in Accepted : Cfg(f).modifier = "Checked" => \A p \in CallPoints(f) : StoresAfter(f, p) = {}

(* A contract is refused only if the function at hand does have a path with *)
(* a store after a call that leaves, or stores to a constant.               *)
RefusedForCause ==
    phase = "error" =>
        \/ cfg.modifier = "Checked" /\ \E p \in CallPoints(fn) : StoresAfter(fn, p) # {}
        \/ WritesConstant(fn)

(* Every loop of the analysis ends: call graphs with recursion, control     *)
(* flow with loops.                                                         *)
Terminates == <>(phase \in {"done", "error"})
=============================================================================
