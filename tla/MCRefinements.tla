----------------------------- MODULE MCRefinements -----------------------------
(***************************************************************************)
(* Functions for the refinement checker, as SSA construction and storage   *)
(* analysis leave them: blocks numbered in reverse post-order, parameters  *)
(* x and y, locals i and z, the state variable bal, callees in env.        *)
(***************************************************************************)
EXTENDS RefinementSoundness

x == <<"x">>
y == <<"y">>
i == <<"i">>
z == <<"z">>
bal == <<"bal">>
R(v, n) == IntVar(Append(v, n))
T(n)    == IntVar(<<"t", n>>)
TV(n, version) == IntVar(<<"t", n, version>>)
V(v)    == IntVar(v)

Integer(v)     == Type("int", v, True, TRUE)
AtLeast(v, n) == Type("int", v, Rel("Geq", IntVar(v), Lit(n)), TRUE)
AtMost(v, n) == Type("int", v, Rel("Leq", IntVar(v), Lit(n)), TRUE)
IntWith(v, p) == Type("int", v, p, TRUE)
Bool(v)      == Type("bool", v, True, TRUE)
Untyped(v)   == Type("int", v, True, FALSE)
NoType       == Type("tuple", Self, True, TRUE)

Instruction(op, ref, dest, args) == [op |-> op, ref |-> ref, dest |-> dest, args |-> args, sources |-> <<>>]
Copy(d, a)      == Instruction("Copy", <<>>, d.sym, <<a>>)
Bin(op, d, a, b) == Instruction(op, <<>>, d.sym, <<a, b>>)
Un(op, d, a)    == Instruction(op, <<>>, d.sym, <<a>>)
Load(d, v)      == Instruction("StorageLoad", v, d.sym, <<>>)
Store(v, a)     == Instruction("StorageStore", v, <<>>, <<a>>)
Fold(v)         == Instruction("Fold", v, <<>>, <<>>)
Unfold(v)       == Instruction("Unfold", v, <<>>, <<>>)
Call(f, d, args) == Instruction("Call", f, d, args)
Out(d, args)    == Instruction("CallExternal", <<>>, d, args)
Phi(d, srcs)    == [Instruction("Phi", <<>>, d.sym, <<>>) EXCEPT !.sources =
                        [k \in DOMAIN srcs |-> [from |-> srcs[k][1], reg |-> srcs[k][2].sym]]]

(* The phi of a temporary, which comes back from the end of one edge only.  *)
PhiTemp(base, n, from) ==
    [Phi(TV(n, 0), <<<<from, TV(n, 1)>>>>) EXCEPT !.ref = <<base>>]

Terminator(kind, to, operand, invs, ranks) ==
    [kind |-> kind, to |-> to, operand |-> operand, invariants |-> invs, variants |-> ranks]
Jump(b)          == Terminator("Jump", <<b>>, <<>>, <<>>, <<>>)
Branch(c, t, e)  == Terminator("Branch", <<t, e>>, <<c>>, <<>>, <<>>)
Loop(c, t, e, invs, vs) == Terminator("Branch", <<t, e>>, <<c>>, invs, vs)
Return(a)        == Terminator("Return", <<>>, <<a>>, <<>>, <<>>)
Leave            == Terminator("Return", <<>>, <<>>, <<>>, <<>>)

B(code, term) == [code |-> code, term |-> term]
Blocks(s) == [b \in 0 .. Len(s) - 1 |-> s[b + 1]]

Function(params, locals, storage, returns, blocks) ==
    [blocks |-> Blocks(blocks), params |-> [k \in DOMAIN params |-> params[k].binder],
     types |-> [v \in {t.binder : t \in ToSet(params) \cup locals \cup storage} |->
                   CHOOSE t \in ToSet(params) \cup locals \cup storage : t.binder = v],
     kinds |-> [v \in {t.binder : t \in ToSet(params) \cup locals \cup storage} |->
                   IF v \in {t.binder : t \in ToSet(params)} THEN "param"
                   ELSE IF v \in {t.binder : t \in locals} THEN "local" ELSE "storage"],
     requires |-> <<>>, ensures |-> <<>>, returns |-> returns, callees |-> <<>>]

-----------------------------------------------------------------------------
(* return { y =< x : x - y } else 0 *)
GuardedSubtract ==
    Function(<<AtLeast(x, 0), AtLeast(y, 0)>>, {}, {}, AtLeast(Self, 0),
        <<B(<<Bin("Leq", T(1), R(y, 0), R(x, 0))>>, Branch(T(1), 1, 2)),
          B(<<Bin("Subtract", T(2), R(x, 0), R(y, 0))>>, Return(T(2))),
          B(<<>>, Return(Lit(0)))>>)
UnguardedSubtract ==
    Function(<<AtLeast(x, 0), AtLeast(y, 0)>>, {}, {}, AtLeast(Self, 0),
        <<B(<<Bin("Subtract", T(2), R(x, 0), R(y, 0))>>, Return(T(2)))>>)
(* Else side: needs the negated condition.                                  *)
ElseSubtract ==
    Function(<<AtLeast(x, 0), AtLeast(y, 0)>>, {}, {}, AtLeast(Self, 0),
        <<B(<<Bin("Lt", T(1), R(x, 0), R(y, 0))>>, Branch(T(1), 1, 2)),
          B(<<>>, Return(Lit(0))),
          B(<<Bin("Subtract", T(2), R(x, 0), R(y, 0))>>, Return(T(2)))>>)
Copies ==
    Function(<<AtLeast(x, 1)>>, {AtLeast(i, 1), Untyped(z)}, {}, AtLeast(Self, 1),
        <<B(<<Copy(R(z, 0), R(x, 0)), Copy(R(i, 0), R(z, 0))>>, Return(R(i, 0)))>>)

(* An annotation that disagrees with its own initialiser.                   *)
Incompatible ==
    Function(<<Integer(x)>>, {AtLeast(i, 1)}, {}, NoType,
        <<B(<<Copy(R(i, 0), Lit(0))>>, Leave)>>)

(* Boolean operators in a condition.                                        *)
BothPositive ==
    Function(<<Integer(x), Integer(y)>>, {}, {}, AtLeast(Self, 0),
        <<B(<<Bin("Gt", T(1), R(x, 0), Lit(0)), Bin("Gt", T(2), R(y, 0), Lit(0)),
              Bin("And", T(3), T(1), T(2))>>, Branch(T(3), 1, 2)),
          B(<<Bin("Add", T(4), R(x, 0), R(y, 0))>>, Return(T(4))),
          B(<<>>, Return(Lit(0)))>>)
EitherNot ==
    Function(<<Integer(x), Bool(y)>>, {}, {}, AtLeast(Self, 0),
        <<B(<<Bin("Lt", T(1), R(x, 0), Lit(0)), Bin("Or", T(2), T(1), R(y, 0)),
              Un("Not", T(3), T(2))>>, Branch(T(3), 1, 2)),
          B(<<>>, Return(R(x, 0))),
          B(<<Un("Negate", T(4), Lit(1))>>, Return(T(4)))>>)

(* Calls.                                                                  *)
callee == <<"f">>
Positive == callee :> [params |-> <<[name |-> <<"n">>, type |-> AtLeast(<<"n">>, 1)]>>,
                       requires |-> <<>>, ensures |-> <<>>, returns |-> AtLeast(Self, 1),
                       outcomes |-> {[answer |-> 1, store |-> <<>>], [answer |-> 2, store |-> <<>>]}]
CallGood ==
    [Function(<<AtLeast(x, 0)>>, {}, {}, AtLeast(Self, 1),
        <<B(<<Bin("Add", T(1), R(x, 0), Lit(1)), Call(callee, <<"t", 2>>, <<T(1)>>)>>, Return(T(2)))>>)
     EXCEPT !.callees = Positive]
CallBad ==
    [Function(<<AtLeast(x, 0)>>, {}, {}, AtLeast(Self, 1),
        <<B(<<Call(callee, <<"t", 2>>, <<R(x, 0)>>)>>, Return(T(2)))>>)
     EXCEPT !.callees = Positive]
CallOut ==
    Function(<<AtLeast(x, 0)>>, {}, {}, NoType,
        <<B(<<Out(<<"t", 1>>, <<R(x, 0)>>)>>, Leave)>>)
(* What another contract answers, copied to an int and to a bool.           *)
Answered(before, v) ==
    Function(<<AtLeast(x, 0)>>, {Untyped(i), v}, {}, NoType,
        <<B(before \o <<Out(<<"t", 1>>, <<R(x, 0)>>), Copy(R(v.binder, 0), T(1))>>, Leave)>>)
AnswerInt         == Answered(<<>>, Untyped(z))
AnswerIntBeside   == Answered(<<Copy(R(i, 0), Lit(0))>>, Untyped(z))
AnswerAtLeast     == Answered(<<>>, AtLeast(z, 0))
AnswerBool        == Answered(<<>>, Bool(y))
AnswerBoolBeside  == Answered(<<Copy(R(i, 0), Lit(0))>>, Bool(y))
(* The phi of the answer has the type of the interface.                     *)
AnswerInBranch ==
    Function(<<Integer(x)>>, {Untyped(i)}, {}, NoType,
        <<B(<<Copy(R(i, 0), Lit(0)), Bin("Gt", T(1), R(x, 0), Lit(0))>>, Branch(T(1), 1, 2)),
          B(<<Out(TV(2, 1).sym, <<R(x, 0)>>)>>, Jump(2)),
          B(<<PhiTemp("bool", 2, 1)>>, Leave)>>)

(* Storage.                                                                 *)
Deposit ==
    Function(<<AtLeast(x, 0)>>, {}, {AtLeast(bal, 0)}, NoType,
        <<B(<<Unfold(bal), Load(T(1), bal), Bin("Add", T(2), T(1), R(x, 0)),
              Store(bal, T(2)), Fold(bal)>>, Leave)>>)
Withdraw ==
    Function(<<AtLeast(x, 0)>>, {}, {AtLeast(bal, 0)}, NoType,
        <<B(<<Unfold(bal), Load(T(1), bal), Bin("Subtract", T(2), T(1), R(x, 0)),
              Store(bal, T(2)), Fold(bal)>>, Leave)>>)
(* if (x <= bal) { bal = bal - x }                                          *)
GuardedWithdraw ==
    Function(<<AtLeast(x, 0)>>, {}, {AtLeast(bal, 0)}, NoType,
        <<B(<<Unfold(bal), Load(T(1), bal), Bin("Leq", T(2), R(x, 0), T(1)), Fold(bal)>>,
            Branch(T(2), 1, 2)),
          B(<<Unfold(bal), Load(TV(3, 1), bal), Bin("Subtract", TV(4, 1), TV(3, 1), R(x, 0)),
              Store(bal, TV(4, 1)), Fold(bal)>>, Jump(2)),
          B(<<PhiTemp("int", 3, 1), PhiTemp("int", 4, 1)>>, Leave)>>)
(* What is required of storage, and promised of it.                         *)
Reset ==
    [Function(<<Integer(x)>>, {}, {Integer(bal)}, NoType,
        <<B(<<Store(bal, R(x, 0)), Fold(bal)>>, Leave)>>)
     EXCEPT !.requires = <<Rel("Geq", V(bal), V(x))>>, !.ensures = <<Rel("Geq", V(bal), V(x))>>]
AboutParameter ==
    [Function(<<Integer(x)>>, {}, {}, NoType, <<B(<<>>, Leave)>>)
     EXCEPT !.requires = <<Rel("Geq", V(x), Lit(0))>>]

(* Loops: i counts down from x.                                             *)
Countdown(invariant, typed) ==
    Function(<<AtLeast(x, 0)>>, {typed}, {}, NoType,
        <<B(<<Copy(R(i, 0), R(x, 0))>>, Jump(1)),
          B(<<Phi(R(i, 1), <<<<0, R(i, 0)>>, <<2, R(i, 2)>>>>),
              PhiTemp("bool", 1, 2), PhiTemp("int", 2, 2),
              Bin("Gt", TV(1, 1), R(i, 1), Lit(0))>>,
            Loop(TV(1, 1), 2, 3, <<invariant>>, <<V(i)>>)),
          B(<<Bin("Subtract", TV(2, 1), R(i, 1), Lit(1)), Copy(R(i, 2), TV(2, 1))>>, Jump(1)),
          B(<<>>, Leave)>>)
CountdownTyped == Countdown(Rel("Geq", V(i), Lit(0)), AtLeast(i, 0))
CountdownBad   == Countdown(Rel("Gt", V(i), Lit(0)), AtLeast(i, 0))
CountdownFree  == Countdown(Rel("Geq", V(i), Lit(0)), Untyped(i))

(* Both branches assign, and the join block is walked after the then side.  *)
Join ==
    Function(<<Integer(x)>>, {AtLeast(i, 0)}, {}, AtLeast(Self, 1),
        <<B(<<Copy(R(i, 0), Lit(0)), Bin("Gt", T(1), R(x, 0), Lit(0))>>, Branch(T(1), 1, 2)),
          B(<<Copy(R(i, 1), R(x, 0))>>, Jump(2)),
          B(<<Phi(R(i, 2), <<<<0, R(i, 0)>>, <<1, R(i, 1)>>>>)>>, Return(R(x, 0)))>>)
Flag ==
    Function(<<Bool(y), Integer(x)>>, {}, {}, AtLeast(Self, 1),
        <<B(<<>>, Branch(R(y, 0), 1, 2)), B(<<>>, Return(Lit(1))), B(<<>>, Return(R(x, 0)))>>)
TwoLoads ==
    Function(<<Integer(x)>>, {}, {Integer(bal)}, AtLeast(Self, 0),
        <<B(<<Bin("Gt", T(1), R(x, 0), Lit(0))>>, Branch(T(1), 1, 2)),
          B(<<Unfold(bal), Load(T(2), bal), Load(T(3), bal), Bin("Add", T(4), T(2), T(3)), Fold(bal)>>,
            Return(R(x, 0))),
          B(<<>>, Return(R(x, 0)))>>)
(* var i = 0; var z: {z > 1} = i                                            *)
SelfClash ==
    Function(<<Integer(x)>>, {Untyped(i), AtLeast(z, 2), Untyped(y)}, {}, NoType,
        <<B(<<Copy(R(i, 0), Lit(0)), Copy(R(y, 0), Lit(2)), Bin("Add", T(1), R(i, 0), R(y, 0)),
              Copy(R(z, 0), T(1))>>, Leave)>>)
MoreThan ==
    Function(<<Integer(x)>>, {}, {}, IntWith(Self, Rel("Gt", V(Self), V(x))),
        <<B(<<Bin("Add", T(1), R(x, 0), Lit(1))>>, Return(T(1)))>>)

(* Two guards, one in the else side of the other.                           *)
BothGuarded ==
    Function(<<Integer(x), Integer(y)>>, {}, {}, AtLeast(Self, 0),
        <<B(<<Bin("Lt", T(1), R(x, 0), Lit(0))>>, Branch(T(1), 1, 2)),
          B(<<>>, Return(Lit(0))),
          B(<<Bin("Lt", T(2), R(y, 0), Lit(0))>>, Branch(T(2), 3, 4)),
          B(<<>>, Return(R(x, 0))),
          B(<<Bin("Add", T(3), R(x, 0), R(y, 0))>>, Return(T(3)))>>)
(* After a loop its condition is false.                                     *)
LoopReturn ==
    [Countdown(Rel("Geq", V(i), Lit(0)), AtLeast(i, 0))
     EXCEPT !.returns = AtMost(Self, 0), !.blocks[3].term = Return(R(i, 1))]
(* requires bal >= x, ensures bal >= x, and bal = 0 in between.             *)
Spend ==
    [Function(<<Integer(x)>>, {}, {Integer(bal)}, NoType,
        <<B(<<Store(bal, Lit(0)), Fold(bal)>>, Leave)>>)
     EXCEPT !.requires = <<Rel("Geq", V(bal), V(x))>>, !.ensures = <<Rel("Geq", V(bal), V(x))>>]
(* ensures bal >= old(bal).                                                 *)
Grow ==
    [Deposit EXCEPT !.ensures = <<Rel("Geq", V(bal), Old(V(bal)))>>]
(* A callee that requires something of storage, and returns nothing.        *)
n == <<"n">>
Takes == callee :> [params |-> <<[name |-> n, type |-> Integer(n)]>>,
                    requires |-> <<Rel("Geq", V(bal), V(n))>>, ensures |-> <<Rel("Geq", V(bal), Lit(0))>>,
                    returns |-> NoType,
                    outcomes |-> {[answer |-> 0, store |-> bal :> k] : k \in 0 .. 1}]
CallRequires ==
    [Function(<<AtLeast(x, 0)>>, {}, {Integer(bal)}, NoType,
        <<B(<<Call(callee, <<>>, <<R(x, 0)>>)>>, Leave)>>)
     EXCEPT !.requires = <<Rel("Geq", V(bal), V(x))>>, !.callees = Takes]
(* The second call finds what the first has left.                           *)
CallTwice ==
    [CallRequires EXCEPT !.blocks[0].code =
        <<Call(callee, <<>>, <<R(x, 0)>>), Call(callee, <<>>, <<R(x, 0)>>)>>]

(* if (x op c) { return x } return c - x                                   *)
Guard(op, c) ==
    Function(<<Integer(x)>>, {}, {}, AtLeast(Self, 0),
        <<B(<<Bin(op, T(1), R(x, 0), Lit(c))>>, Branch(T(1), 1, 2)),
          B(<<>>, Return(R(x, 0))),
          B(<<Bin("Subtract", T(2), Lit(c), R(x, 0))>>, Return(T(2)))>>)

(* Both sides give i a value: a phi of constants.                           *)
ChooseConstants ==
    Function(<<AtLeast(x, 0)>>, {Untyped(i)}, {}, AtLeast(Self, 0),
        <<B(<<Bin("Gt", T(1), R(x, 0), Lit(0))>>, Branch(T(1), 1, 2)),
          B(<<Copy(R(i, 0), Lit(0))>>, Jump(3)),
          B(<<Copy(R(i, 1), Lit(1))>>, Jump(3)),
          B(<<Phi(R(i, 2), <<<<1, R(i, 0)>>, <<2, R(i, 1)>>>>)>>, Return(R(i, 2)))>>)
(* Nothing is known of the copy of a parameter about which nothing is known. *)
CopyUnknown ==
    Function(<<Integer(x)>>, {Untyped(i)}, {}, NoType, <<B(<<Copy(R(i, 0), R(x, 0))>>, Leave)>>)

(* i counts up to x and is returned.                                       *)
CountUp ==
    Function(<<AtLeast(x, 0)>>, {AtLeast(i, 0)}, {}, IntWith(Self, Rel("Geq", V(Self), V(x))),
        <<B(<<Copy(R(i, 0), Lit(0))>>, Jump(1)),
          B(<<Phi(R(i, 1), <<<<0, R(i, 0)>>, <<2, R(i, 2)>>>>),
              PhiTemp("bool", 1, 2), PhiTemp("int", 2, 2),
              Bin("Lt", TV(1, 1), R(i, 1), R(x, 0))>>,
            Loop(TV(1, 1), 2, 3, <<Rel("Leq", V(i), V(x))>>, <<Arith("Subtract", V(x), V(i))>>)),
          B(<<Bin("Add", TV(2, 1), R(i, 1), Lit(1)), Copy(R(i, 2), TV(2, 1))>>, Jump(1)),
          B(<<>>, Return(R(i, 1)))>>)

MCPrograms == {GuardedSubtract, UnguardedSubtract, ElseSubtract, Copies, Incompatible,
               BothPositive, EitherNot, CallGood, CallBad, CallOut, Deposit, Withdraw,
               GuardedWithdraw, Reset, AboutParameter, CountdownTyped, CountdownBad,
               CountdownFree, Join, Flag, TwoLoads, SelfClash, MoreThan, BothGuarded,
               LoopReturn, Spend, Grow, CallRequires, CallTwice, ChooseConstants,
               CopyUnknown, CountUp, AnswerInt, AnswerIntBeside, AnswerAtLeast,
               AnswerBool, AnswerBoolBeside, AnswerInBranch}
              \cup {Guard(op, c) : op \in RelOps, c \in 0 .. 1}
MCInput == -1 .. 2
MCTrial == -4 .. 4
================================================================================
