------------------------------- MODULE DeadCode -------------------------------
(***************************************************************************)
(* codegen/src/opt: DeadInstructionElimination, run to a fixed point on    *)
(* every lowered function before liveness analysis.  An instruction stays  *)
(* if it has a side effect or its destination is read anywhere in the      *)
(* function.                                                               *)
(***************************************************************************)
EXTENDS LoweredCfg

UsedSlots(g) == UNION {UNION {ReadsAt(g, b, i) : i \in Points(g, b)} : b \in g.blocks}

(* Mutant: copies are taken for side effects.                               *)
KeepCopies(inst, used) == inst.op \in {"Copy", "SStore", "Call"} \/ inst.dest \subseteq used
Kept(inst, used) == inst.op \in {"SStore", "Call"} \/ inst.dest \subseteq used

(* One pass over the function.                                              *)
Swept(g) ==
    LET used == UsedSlots(g)
    IN  [g EXCEPT !.code = [b \in g.blocks |-> SelectSeq(@[b], LAMBDA inst : Kept(inst, used))]]

(* run_to_fixed_point: every pass but the last removes an instruction, and  *)
(* so frees slots that only it read.                                        *)
Optimized(g) ==
    LET sizes == {Len(g.code[b]) : b \in g.blocks}
        bound == Cardinality(g.blocks) * (CHOOSE n \in sizes : \A m \in sizes : m <= n)
        pass[n \in 0 .. bound] ==
            IF n = 0 THEN g ELSE LET prev == pass[n-1] IN Swept(prev)
    IN  pass[bound]
=============================================================================
