---------------------------- MODULE StackShuffler ----------------------------
(***************************************************************************)
(* codegen/src/codegen/stack_shuffler.rs: plan_shuffle and emit_shuffle,   *)
(* which turn one stack layout (a sequence of slots, top first) into       *)
(* another at a block boundary.                                            *)
(***************************************************************************)
EXTENDS Integers, SequencesExt

CONSTANT MaxDup        \* DUP1 .. DUP16 and SWAP1 .. SWAP16: 16 in the EVM

ASSUME MaxDupAssumption == MaxDup \in Nat \ {0}

Dup(n)   == [op |-> "DUP", n |-> n]
Swap(n)  == [op |-> "SWAP", n |-> n]
Pop      == [op |-> "POP"]
MLoad(a) == [op |-> "MLOAD", addr |-> a]

(* An opcode the compiler cannot emit: it panics instead.                   *)
Panic == [op |-> "PANIC"]
SwapOrPanic(n) == IF n <= MaxDup THEN Swap(n) ELSE Panic

(* The first position of x in q, 0 if there is none.                        *)
PositionOf(q, x) ==
    LET at == {i \in 1 .. Len(q) : q[i] = x}
    IN  IF at = {} THEN 0 ELSE CHOOSE i \in at : \A j \in at : i <= j

(* Push the n slots of the target, the last first and rotated by m % n, each *)
(* a copy of where it is on the stack or a load from memory; then sink and   *)
(* pop the m old cells, which rotates the new ones back into place.          *)
PlanShuffle(current, target) ==
    LET m == Len(current)
        n == Len(target)
        Source(j) == target[((j + n - (m % n)) % n) + 1]
        PushOf(i) ==
            LET sim == [k \in 1 .. i - 1 |-> Source(n - i + k)] \o current
                pos == PositionOf(sim, Source(n - i))
            IN  IF pos > 0 THEN Dup(pos) ELSE MLoad(Source(n - i))
    IN  CASE current = target -> <<>>
          [] current # target /\ n = 0 -> [i \in 1 .. m |-> Pop]
          [] OTHER -> [i \in 1 .. n |-> PushOf(i)]
                      \o [i \in 1 .. 2 * m |-> IF i % 2 = 1 THEN Swap(n) ELSE Pop]

(* A DUP beyond DUP16 is left out, a SWAP beyond SWAP16 panics; a slot is    *)
(* loaded from its word of the frame at base.                                *)
LeftOut(o) == o.op = "DUP" /\ o.n > MaxDup
EmitOne(o, base) ==
    CASE o.op = "MLOAD" -> MLoad(base + o.addr)
      [] o.op = "SWAP"  -> SwapOrPanic(o.n)
      [] OTHER -> o
EmitShuffle(ops, base) ==
    LET emitted[n \in 0 .. Len(ops)] ==
            IF n = 0 THEN <<>>
            ELSE IF LeftOut(ops[n]) THEN emitted[n-1]
            ELSE Append(emitted[n-1], EmitOne(ops[n], base))
    IN  emitted[Len(ops)]

Shuffle(current, target, base) == EmitShuffle(PlanShuffle(current, target), base)

(* No DUP of the shuffle is left out.                                       *)
Complete(ops) == \A i \in DOMAIN ops : ~ LeftOut(ops[i])
Reaches(current, target) == Complete(PlanShuffle(current, target))
=============================================================================
