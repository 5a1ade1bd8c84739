------------------------------ MODULE MCPrograms ------------------------------
(***************************************************************************)
(* Small lowered functions of four blocks for the model checker: three     *)
(* shapes of control flow, and helpers to fill them with instructions.     *)
(***************************************************************************)
EXTENDS LoweredCfg, FiniteSetsExt, TLC

MCBlock == 0 .. 3

(* [x \in S |-> Op(x)], evaluated at once rather than at every application. *)
Tabulate(Op(_), S) == FoldSet(LAMBDA x, acc : acc @@ (x :> Op(x)), <<>>, S)

(* An if/else, a while loop, and a loop one block of which has a self loop  *)
(* and whose body may leave it.                                             *)
IfElse    == 0 :> <<1, 2>> @@ 1 :> <<3>> @@ 2 :> <<3>> @@ 3 :> <<>>
While     == 0 :> <<1>> @@ 1 :> <<2, 3>> @@ 2 :> <<1>> @@ 3 :> <<>>
LoopExits == 0 :> <<1, 3>> @@ 1 :> <<1, 2>> @@ 2 :> <<1, 3>> @@ 3 :> <<>>

Def(d)       == Inst("Copy", "", {d}, <<Lit(0)>>)
Copy(d, x)   == Inst("Copy", "", {d}, <<Loc(x)>>)
Sub(d, x, y) == Inst("Binary", "Subtract", {d}, <<Loc(x), Loc(y)>>)
Store(x)     == Inst("SStore", "total", {}, <<Loc(x)>>)

PredOf(succ, b) ==
    LET from == {c \in MCBlock : \E i \in DOMAIN succ[c] : succ[c][i] = b}
    IN  CHOOSE q \in Enumerations(from) : \A i, j \in DOMAIN q : i < j => q[i] < q[j]

(* Branches test slot x, the function returns slot x.                       *)
TermOf(q, x) ==
    CASE Len(q) = 0 -> Term("Return", <<Loc(x)>>, q)
      [] Len(q) = 1 -> Term("Jump", <<>>, q)
      [] Len(q) = 2 -> Term("Branch", <<Loc(x)>>, q)

Function(succ, c0, c1, c2, c3, x) ==
    [entry |-> 0, blocks |-> MCBlock, succ |-> succ,
     pred |-> Tabulate(LAMBDA b : PredOf(succ, b), MCBlock),
     code |-> 0 :> c0 @@ 1 :> c1 @@ 2 :> c2 @@ 3 :> c3,
     term |-> Tabulate(LAMBDA b : TermOf(succ[b], x), MCBlock),
     params |-> <<0, 1>>, external |-> TRUE]
=============================================================================
