-------------------------- MODULE MCStackAllocator --------------------------
(***************************************************************************)
(* The allocator on the liveness of small functions over five slots, two   *)
(* of them parameters, with two stack registers, so that some functions    *)
(* spill and others do not.                                                *)
(***************************************************************************)
EXTENDS StackAllocator, DeadCode, MCPrograms

MCSlot == 0 .. 4

EntryBodies == {<<Def(2)>>, <<Def(3), Def(2)>>, <<Sub(2, 0, 1), Sub(3, 2, 2)>>}
InnerBodies == {<<>>, <<Store(0), Def(4), Store(4)>>, <<Sub(3, 2, 0)>>, <<Sub(4, 0, 0), Sub(2, 4, 1)>>}
ExitBodies  == {<<Store(2)>>, <<Store(0), Store(1)>>, <<Def(4), Sub(4, 4, 2), Store(4)>>, <<Store(3)>>, <<Def(3), Store(3)>>}

(* f returning x: with a constant, no slot need be live after the loop.     *)
Returning(f, x) == [f EXCEPT !.term = [@ EXCEPT ![3] = Term("Return", <<x>>, <<>>)]]

Functions ==
    {f \in {Optimized(Returning(Function(succ, c0, c1, c2, c3, 2), x)) :
               succ \in {IfElse, While}, c0 \in EntryBodies, c1 \in InnerBodies,
               c2 \in InnerBodies, c3 \in ExitBodies, x \in {Loc(2), Lit(0)}} : DefinedBeforeUse(f)}

(* LivenessInfo, as analyze_liveness returns it. *)
InputOf(f) ==
    LET in  == Tabulate(LAMBDA b : PathLiveIn(f, b), f.blocks)
        out == Tabulate(LAMBDA b : PathLiveOut(f, b), f.blocks)
        iv  == ComputeIntervals(f, in, out)
    IN  [cfg |-> f, live_in |-> in, live_out |-> out,
         intervals |-> Tabulate(LAMBDA s : iv[s], DOMAIN iv)]

MCInputs == {InputOf(f) : f \in Functions}
=============================================================================
