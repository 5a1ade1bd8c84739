----------------------------- MODULE MCLiveness -----------------------------
(***************************************************************************)
(* Liveness on every shape of MCPrograms, the blocks with bodies that      *)
(* define, read and copy two slots, and every order of the worklist.       *)
(***************************************************************************)
EXTENDS Liveness, DeadCode, MCPrograms

MCSlot == {0, 1}

Bodies == {<<>>, <<Def(0)>>, <<Store(0)>>, <<Copy(1, 0)>>, <<Copy(1, 0), Def(0), Store(1)>>}

(* A slot read before it is written is a parameter, and those are never     *)
(* written.                                                                 *)
FromSsa(f) == \A s \in PathLiveIn(f, f.entry) : \A b \in f.blocks : s \notin Kill(f, b)

MCCfgs ==
    {f \in {Optimized(Function(succ, c0, c1, c2, c3, 0)) :
               succ \in {IfElse, While, LoopExits}, c0 \in {<<>>, <<Def(0)>>, <<Def(0), Copy(1, 0)>>},
               c1 \in Bodies, c2 \in Bodies, c3 \in {<<>>, <<Store(1)>>}} : FromSsa(f)}
=============================================================================
