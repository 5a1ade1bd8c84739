--------------------------------- MODULE MCSsa ---------------------------------
(***************************************************************************)
(* Functions for the model checker, as name resolution hands them on: two  *)
(* parameters x and y, a local i, two state variables, calls of a function *)
(* that returns a value, of one that returns none, and of another contract.*)
(***************************************************************************)
EXTENDS SsaPipeline

x == <<"x", 0>>
y == <<"y", 0>>
i == <<"i", 0>>
total == <<"total", 0>>
count == <<"count", 0>>
get   == <<"get", 0>>
touch == <<"touch", 0>>
peer  == <<"peer", 0>>
MCState == {total, count}
MCVoid  == {"touch"}

Literal(n) == Node("Literal", <<"", 0>>, n, <<>>)
Local(v)   == Node("Local", v, 0, <<>>)
State(v)   == Node("State", v, 0, <<>>)
Bin(op, a, b) == Node("Binary", <<op, 0>>, 0, <<a, b>>)
Less(v, w)   == <<Local(v), Local(w), Bin("Less", 1, 2)>>
Plus(v, n)   == <<Local(v), Literal(n), Bin("Add", 1, 2)>>

Do(e)        == Statement("Expression", <<"", 0>>, e, <<>>, <<>>)
Assign(v, e) == Statement("Assign", v, e, <<>>, <<>>)
Var(v, e)    == Statement("Declare", v, e, <<>>, <<>>)
If(e, b)     == Statement("If", <<"", 0>>, e, b, <<>>)
IfElse(e, b, c) == Statement("IfElse", <<"", 0>>, e, b, c)
While(e, b)  == Statement("While", <<"", 0>>, e, b, <<>>)
Ret(e)       == Statement("Return", <<"", 0>>, e, <<>>, <<>>)

Function(body)    == [constructor |-> FALSE, params |-> <<x, y>>, body |-> body]
Constructor(body) == [constructor |-> TRUE, params |-> <<x, y>>, body |-> body]

(* Both branches assign, one of them twice; a branch in one returns, past the exit block's phi.     *)
Branches ==
    Function(<<IfElse(Less(x, y),
                      <<Assign(x, Plus(x, 1)), If(<<State(total)>>, <<Ret(<<Local(x)>>)>>)>>,
                      <<Assign(y, <<Literal(0)>>), Assign(y, <<Local(x)>>)>>),
               Assign(total, <<Local(x), Local(y), Bin("Subtract", 1, 2)>>)>>)

(* A loop in a branch, and a branch after it that sees its versions.        *)
LoopInBranch ==
    Function(<<Var(i, <<Literal(0)>>),
               If(<<Local(x)>>,
                  <<While(Less(i, y), <<Assign(i, Plus(i, 1))>>)>>),
               If(Less(i, x), <<Assign(total, <<Local(i)>>)>>),
               Ret(<<Local(i)>>)>>)

(* A swap of the parameters in a loop: versions cross the back edge.        *)
Swap ==
    Function(<<While(Less(x, y),
                     <<Var(i, <<Local(x)>>), Assign(x, <<Local(y)>>), Assign(y, <<Local(i)>>)>>),
               Ret(<<Local(x), Local(y), Bin("Subtract", 1, 2)>>)>>)

(* Calls: order of arguments, of loads and of effects, a void call, a       *)
(* negated condition; no return, but a constructor.  And a call of another  *)
(* contract, the parameter y.                                              *)
Calls ==
    Constructor(<<Assign(total, <<State(total), Local(x), State(count),
                                  Node("Call", get, 0, <<2, 3>>), Bin("Add", 1, 4)>>),
                  Do(<<Local(y), Node("Call", touch, 0, <<1>>)>>),
                  If(<<Local(x), Node("Unary", <<"Not", 0>>, 0, <<1>>)>>,
                     <<Assign(count, <<Local(y), State(total), Node("Call", peer, 0, <<1, 2>>)>>)>>)>>)
CallOut ==
    Function(<<Assign(count, <<Local(y), State(total), Node("MemberCall", peer, 0, <<1, 2>>)>>),
               Ret(<<State(count)>>)>>)

(* Bodies that are not kept: an if in a loop, as in withdrawIncrements of   *)
(* examples/03_loops_invariants.merak; a loop in a loop; a return in a loop *)
(* and one with statements after it.                                       *)
WithdrawIncrements ==
    Function(<<Var(i, <<Literal(0)>>),
               While(Less(i, x),
                     <<If(<<State(total)>>, <<Assign(total, <<Literal(0)>>)>>),
                       Assign(i, Plus(i, 1))>>)>>)
NestedLoops ==
    Function(<<While(Less(x, y),
                     <<While(<<Local(x)>>, <<Assign(x, <<Literal(0)>>)>>),
                       Assign(y, <<Local(x)>>)>>),
               Ret(<<Local(y)>>)>>)
EarlyReturns ==
    Function(<<While(<<Local(x)>>, <<Ret(<<Local(y)>>)>>),
               Ret(<<Local(x)>>),
               IfElse(<<Local(y)>>, <<Ret(<<Literal(1)>>)>>, <<Assign(total, <<Local(y)>>)>>)>>)

MCPrograms == {Branches, LoopInBranch, Swap, Calls, CallOut, WithdrawIncrements, NestedLoops, EarlyReturns}
MCShipped  == {WithdrawIncrements}
MCInput == {0, 1}
=============================================================================
