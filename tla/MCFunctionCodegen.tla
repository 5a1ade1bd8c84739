-------------------------- MODULE MCFunctionCodegen --------------------------
(***************************************************************************)
(* Code generation for small programs: a main function of four blocks that *)
(* may call an internal function, with three stack registers and four word *)
(* values.                                                                 *)
(***************************************************************************)
EXTENDS FunctionCodegen, LiveIntervals, DeadCode, MCPrograms

CONSTANT MaxStackRegs

(* Frames of the current state, kept in a variable so that the refinement   *)
(* mapping is evaluated once per state.                                     *)
VARIABLE view
MCInit == Init /\ view = Frames
MCNext == Next /\ view' = Frames'
MCSpec == MCInit /\ [][MCNext]_<<vars, view>>

(* A compiled program does what its lowered functions mean:                *)
(* generate_function and all it calls implement SlotMachine, with the same *)
(* calls, branches, slot values, storage writes, result and ending.        *)
Slots == INSTANCE SlotMachine WITH frames <- view, storage <- evm.storage
RunsAsLowered == Slots!Spec

MCSlot == 0 .. 4
MCKeys == {"total"}

(* The elements of S, each once, by the strict total order lt.              *)
Sorted(S, lt(_, _)) ==
    Tabulate(LAMBDA k : CHOOSE s \in S : Cardinality({t \in S : lt(t, s)}) = k - 1,
             1 .. Cardinality(S))

(* allocate: the run of StackAllocator on f.                                *)
Coloring(iv) ==
    LET before(s, t) == iv[s].start < iv[t].start \/ (iv[s].start = iv[t].start /\ s < t)
        Lowest(used) == CHOOSE c \in 0 .. Cardinality(used) :
                            c \notin used /\ \A d \in 0 .. c - 1 : d \in used
        Color(col, s) == (s :> Lowest({col[t] : t \in {u \in DOMAIN col : Overlaps(iv[u], iv[s])}})) @@ col
    IN  FoldLeft(Color, <<>>, Sorted(DOMAIN iv, before))

Registers(f) == ToSet(f.params) \cup UNION {Kill(f, b) : b \in f.blocks}

Unit(function) ==
    LET f   == Optimized(function)
        in  == Tabulate(LAMBDA b : PathLiveIn(f, b), f.blocks)
        out == Tabulate(LAMBDA b : PathLiveOut(f, b), f.blocks)
        iv  == ComputeIntervals(f, in, out)
        color == Coloring(Tabulate(LAMBDA s : iv[s], DOMAIN iv))
        location == Tabulate(LAMBDA s : IF s \in DOMAIN color /\ color[s] < MaxStackRegs
                                        THEN color[s] + 1 ELSE 0, Slot)
        layout(b) == Sorted({s \in in[b] : location[s] # 0},
                            LAMBDA s, t : location[s] < location[t])
    IN  [cfg |-> f, slots |-> Registers(function), live_out |-> out, location |-> location,
         entry_layout |-> Tabulate(layout, f.blocks)]

Load(d)         == Inst("SLoad", "total", {d}, <<>>)
Not(d, x)       == Inst("Unary", "Not", {d}, <<Loc(x)>>)
Negate(d, x)    == Inst("Unary", "Negate", {d}, <<Loc(x)>>)
AtMost(d, x, y) == Inst("Binary", "LessEqual", {d}, <<Loc(x), Loc(y)>>)
Helper(d, args) == Inst("Call", "helper", {d}, args)
Tick            == Inst("Call", "tick", {}, <<>>)

Internal(f, n) == [f EXCEPT !.external = FALSE, !.params = SubSeq(<<0, 1>>, 1, n)]
Straight(code, args) ==
    [Function(IfElse, code, <<>>, <<>>, <<>>, 0) EXCEPT
        !.blocks = {0}, !.succ = 0 :> <<>>, !.pred = 0 :> <<>>, !.code = 0 :> code,
        !.term = 0 :> Term("Return", args, <<>>)]

(* helper(x, y), internal, two parameters; tick() only writes storage.      *)
Helpers ==
    <<Straight(<<AtMost(2, 1, 0), Sub(2, 0, 2)>>, <<Loc(2)>>),
      Function(IfElse, <<Sub(2, 0, 1), Def(3)>>, <<Sub(2, 0, 2)>>, <<Copy(2, 0)>>, <<Load(3)>>, 2)>>
TickCode == Straight(<<Load(0), Not(1, 0), Store(1)>>, <<>>)

(* The constructor, if main is one, is laid out last.                       *)
Program(main, helper, creation) ==
    LET source == [main |-> main, helper |-> Internal(Helpers[helper], 2),
                   tick |-> Internal(TickCode, 0)]
    IN  [fns |-> Tabulate(LAMBDA fn : Unit(source[fn]), DOMAIN source),
         order |-> IF creation THEN <<"helper", "tick", "main">> ELSE <<"helper", "main", "tick">>,
         main |-> "main", creation |-> creation]

EntryBodies == {<<Sub(2, 0, 1)>>, <<Load(3), Sub(2, 1, 3)>>,
                <<Helper(2, <<Loc(0), Loc(1)>>), Sub(3, 2, 0)>>}
InnerBodies == {<<>>, <<Tick, Sub(2, 2, 0), Store(2)>>, <<Not(3, 2), Helper(2, <<Lit(1), Loc(3)>>)>>,
                <<Sub(4, 0, 2), Sub(3, 4, 1), Store(3), Copy(2, 4)>>}
ExitBodies  == {<<Store(0), AtMost(2, 0, 1)>>, <<Helper(3, <<Loc(2), Loc(2)>>), Store(3)>>}

Mains(succ) ==
    {f \in {Function(succ, c0, c1, c2, c3, 2) : c0 \in EntryBodies, c1 \in InnerBodies,
            c2 \in {<<>>, <<Sub(2, 2, 1)>>}, c3 \in ExitBodies} : DefinedBeforeUse(f)}

(* The functions whose body ends in a block no execution should reach, and  *)
(* the constructor, which returns nothing.                                  *)
Dead(f) == [f EXCEPT !.term = [@ EXCEPT ![3] = Term("Unreachable", <<>>, <<>>)]]

(* What main is, the helper it gets, and whether it is the constructor.     *)
MainChoices ==
    {<<f, IF f.succ = While THEN 2 ELSE 1, FALSE>> : f \in UNION {Mains(succ) : succ \in {IfElse, While}}}
    \cup {<<Dead(CHOOSE f \in Mains(IfElse) : TRUE), 1, FALSE>>}
    \cup {<<Straight(<<Sub(2, 0, 1), Store(2)>>, <<>>), 1, TRUE>>}

SupportedPrograms == {p \in {Program(x[1], x[2], x[3]) : x \in MainChoices} : Supported(p)}

MCStorages == [MCKeys -> {0, 3}]

(* One program for each claim the code does not keep: slot 3 is needed in   *)
(* the else block only; a negation; a main that returns nothing; a block    *)
(* that reads its first definition after sixteen others.                    *)
ElseOnly == {Program(Function(IfElse, <<Sub(2, 0, 1), Sub(3, 1, 0)>>, <<>>, <<Copy(2, 3)>>, <<>>, 2), 1, FALSE)}
Negating == {Program(Straight(<<Negate(2, 0)>>, <<Loc(2)>>), 1, FALSE)}
LateReads ==
    LET temps == [i \in 1 .. 32 |-> IF i % 2 = 1 THEN Def(3 + (i \div 2)) ELSE Store(2 + (i \div 2))]
    IN  {Program(Straight(<<Sub(2, 0, 1)>> \o temps \o <<Store(2)>>, <<Loc(0)>>), 1, FALSE)}
WideSlot == 0 .. 18
VoidMain == {Program(Straight(<<Store(0)>>, <<>>), 1, FALSE)}

ASSUME AllocationAssumption ==
    \A p \in SupportedPrograms : \A fn \in DOMAIN p.fns : AllocationSound(p.fns[fn])

(* These programs are such as the theorems of FunctionCodegenProofs are of. *)
ASSUME CoverageAssumption ==
    \A p \in SupportedPrograms :
        CallsInternal(p) /\ ShufflesReach(p) /\ Emittable(p) /\ Returns(p.fns[p.main], p.creation)
=============================================================================
