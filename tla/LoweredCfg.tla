------------------------------ MODULE LoweredCfg ------------------------------
(***************************************************************************)
(* The lowered functions every pass of codegen/src works on: values, never *)
(* a state.  A function is a graph of ControlFlow with                     *)
(*                                                                         *)
(*   code            [blocks -> Seq(instruction)]                          *)
(*   term            [blocks -> terminator]                                *)
(*   params          Seq(Slot), external \in BOOLEAN                       *)
(*                                                                         *)
(* An instruction has an opcode op, at most one destination (dest is the   *)
(* set of its destinations), a sequence of operands args and, for the      *)
(* opcodes that need one, a ref: the operator, the storage slot or the     *)
(* callee.  A terminator has a kind, operands args and jump targets.  An   *)
(* operand is a slot or a constant.                                        *)
(***************************************************************************)
EXTENDS ControlFlow

CONSTANT Slot      \* the stack slots (StackSlot), numbered from 0

Loc(s) == [kind |-> "slot", val |-> s]
Lit(v) == [kind |-> "const", val |-> v]

(* slot_of_operand over a list of operands. *)
SlotsOf(ops) == {ops[i].val : i \in {j \in DOMAIN ops : ops[j].kind = "slot"}}

Inst(op, ref, dest, args) == [op |-> op, ref |-> ref, dest |-> dest, args |-> args]
Term(kind, args, targets) == [kind |-> kind, args |-> args, targets |-> targets]

(* Where block b reads and writes a slot; the terminator reads last, at    *)
(* index Len(code) + 1, and writes nothing.                                *)
TerminatorUses(g, b) == SlotsOf(g.term[b].args)
ReadsAt(g, b, i) ==
    IF i \in DOMAIN g.code[b] THEN SlotsOf(g.code[b][i].args) ELSE TerminatorUses(g, b)
WritesAt(g, b, i) ==
    IF i \in DOMAIN g.code[b] THEN g.code[b][i].dest ELSE {}
Points(g, b) == 1 .. Len(g.code[b]) + 1

Kill(g, b) == {s \in Slot : \E i \in Points(g, b) : s \in WritesAt(g, b, i)}
Gen(g, b) ==
    {s \in Slot : \E i \in Points(g, b) :
        /\ s \in ReadsAt(g, b, i)
        /\ \A j \in 1 .. i - 1 : s \notin WritesAt(g, b, j)}

-----------------------------------------------------------------------------
(* Reference definitions, by paths: what the passes are checked against.    *)

(* The blocks from whose head some path reads s before writing it, found    *)
(* slot by slot: paths of n blocks extend paths of n - 1 blocks backwards.  *)
LiveBlocks(g, s) ==
    LET readers == {b \in g.blocks : s \in Gen(g, b)}
        through == {b \in g.blocks : s \notin Kill(g, b)}
        live[n \in 0 .. Cardinality(g.blocks)] ==
            IF n = 0 THEN readers
            ELSE LET shorter == live[n-1]
                 IN  shorter \cup {b \in through : Successors(g, b) \cap shorter # {}}
    IN  live[Cardinality(g.blocks)]

PathLiveIn(g, b)  == {s \in Slot : b \in LiveBlocks(g, s)}
PathLiveOut(g, b) == UNION {PathLiveIn(g, c) : c \in Successors(g, b)}

(* The slots whose value is still needed just before point i of block b,    *)
(* when those of out are needed after it.                                   *)
NeededBefore(g, out, b, i) ==
    {s \in Slot :
        \/ \E j \in Points(g, b) :
              /\ j >= i /\ s \in ReadsAt(g, b, j)
              /\ \A k \in i .. j - 1 : s \notin WritesAt(g, b, k)
        \/ /\ s \in out
           /\ \A k \in Points(g, b) : k >= i => s \notin WritesAt(g, b, k)}
LiveBefore(g, b, i) == NeededBefore(g, PathLiveOut(g, b), b, i)

(* No slot is read before it is written, parameters apart: what SSA         *)
(* construction guarantees of every function that reaches the lowering.     *)
DefinedBeforeUse(g) == PathLiveIn(g, g.entry) \subseteq {g.params[i] : i \in DOMAIN g.params}
=============================================================================
