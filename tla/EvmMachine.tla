----------------------------- MODULE EvmMachine -----------------------------
(***************************************************************************)
(* The part of the EVM that the code emitted by codegen/src relies on: a   *)
(* word stack, a memory of words, storage, and jumps to labels.  External  *)
(* to the repository; modelled from how the emitted opcodes are used.      *)
(*                                                                         *)
(* A stack cell is a word, or the address of a label the code pushed (a    *)
(* label is a non-empty sequence).  Memory is addressed by word.  A PUSH   *)
(* of an address, key or label that the next opcode consumes is part of    *)
(* that opcode.                                                            *)
(***************************************************************************)
EXTENDS Words, Sequences

WordCell(n)  == [word |-> n, label |-> <<>>]
LabelCell(l) == [word |-> 0, label |-> l]
IsLabel(c)   == c.label # <<>>

(* Two-operand opcodes: a is the top of the stack, b the cell under it.     *)
(* AND and OR are applied to booleans only.                                 *)
Arith(op, a, b) ==
    CASE op = "ADD" -> (a + b) % WordCount
      [] op = "SUB" -> (a - b) % WordCount
      [] op = "MUL" -> (a * b) % WordCount
      [] op = "DIV" -> IF b = 0 THEN 0 ELSE a \div b
      [] op = "MOD" -> IF b = 0 THEN 0 ELSE a % b
      [] op = "LT"  -> FromBool(a < b)
      [] op = "GT"  -> FromBool(a > b)
      [] op = "EQ"  -> FromBool(a = b)
      [] op = "AND" -> FromBool(a # 0 /\ b # 0)
      [] op = "OR"  -> FromBool(a # 0 \/ b # 0)
ArithOps == {"ADD", "SUB", "MUL", "DIV", "MOD", "LT", "GT", "EQ", "AND", "OR"}

(* How many cells an opcode needs on the stack.                             *)
Needs(o) ==
    CASE o.op = "DUP" -> o.n
      [] o.op = "SWAP" -> o.n + 1
      [] o.op \in ArithOps -> 2
      [] o.op \in {"POP", "ISZERO", "MSTORE", "SSTORE", "JUMP", "JUMPI"} -> 1
      [] OTHER -> 0

(* The machine m: stack (top first), memory, storage, the label jumped to   *)
(* (<<>> until then), whether it faulted (stack underflow, jump to a word   *)
(* that is no label, INVALID), and whether it ever loaded a memory word     *)
(* that nothing had stored.                                                 *)
Machine(stack, memory, storage) ==
    [stack |-> stack, memory |-> memory, storage |-> storage,
     jump |-> <<>>, fault |-> FALSE, stale |-> FALSE]

Recall(memory, a) == IF a \in DOMAIN memory THEN memory[a] ELSE WordCell(0)

Exec(m, o) ==
    LET top == m.stack[1]
        Push(n, c) == <<c>> \o SubSeq(m.stack, n + 1, Len(m.stack))
    IN  IF m.jump # <<>> \/ m.fault THEN m
        ELSE IF Len(m.stack) < Needs(o) THEN [m EXCEPT !.fault = TRUE]
        ELSE CASE o.op = "PUSH"   -> [m EXCEPT !.stack = Push(0, o.cell)]
               [] o.op = "DUP"    -> [m EXCEPT !.stack = Push(0, m.stack[o.n])]
               [] o.op = "SWAP"   -> [m EXCEPT !.stack[1] = m.stack[o.n + 1], !.stack[o.n + 1] = top]
               [] o.op = "POP"    -> [m EXCEPT !.stack = Tail(@)]
               [] o.op = "ISZERO" -> [m EXCEPT !.stack = Push(1, WordCell(FromBool(top.word = 0)))]
               [] o.op \in ArithOps ->
                    [m EXCEPT !.stack = Push(2, WordCell(Arith(o.op, top.word, m.stack[2].word)))]
               [] o.op = "MLOAD"  -> [m EXCEPT !.stack = Push(0, Recall(m.memory, o.addr)),
                                              !.stale = @ \/ o.addr \notin DOMAIN m.memory]
               [] o.op = "MSTORE" -> [m EXCEPT !.stack = Tail(@),
                                              !.memory = [a \in DOMAIN @ \cup {o.addr} |->
                                                            IF a = o.addr THEN top ELSE @[a]]]
               [] o.op = "SLOAD"  -> [m EXCEPT !.stack = Push(0, WordCell(m.storage[o.key]))]
               [] o.op = "SSTORE" -> [m EXCEPT !.stack = Tail(@), !.storage[o.key] = top.word]
               [] o.op = "GOTO"   -> [m EXCEPT !.jump = o.label]
               [] o.op = "JUMPI"  -> [m EXCEPT !.stack = Tail(@),
                                              !.jump = IF top.word = 0 THEN <<>> ELSE o.label]
               [] o.op = "JUMP"   -> [m EXCEPT !.stack = Tail(@), !.jump = top.label,
                                              !.fault = ~ IsLabel(top)]
               [] OTHER           -> [m EXCEPT !.fault = TRUE]

(* The machine lands on the label it jumped to.                             *)
Landed(m) == [m EXCEPT !.jump = <<>>]
=============================================================================
