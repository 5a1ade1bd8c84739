------------------------ MODULE FunctionCodegenProofs ------------------------
(***************************************************************************)
(* Proofs about compiled programs: the stack is what the code generator    *)
(* believes it to be, nobody changes a caller's frame, and nothing faults. *)
(*                                                                         *)
(* The argument is about heights.  Every opcode moves the number of words  *)
(* of the running frame, on top of cells it does not touch (ExecMoves); so *)
(* does every list of opcodes (Lifts), and so the code of an instruction,  *)
(* a shuffle, a prologue or a terminator, which turns the height of its    *)
(* point into that of the next (ComputeLifts, ShuffleLifts, JumpLands,     *)
(* CallLands, ReturnLands).  Under the running frame are the callers':     *)
(* each continuation is a call, on a frame as high as the layout there     *)
(* (Chained), which a call pushes onto and a return pops from.             *)
(***************************************************************************)
EXTENDS FunctionCodegen, SequenceTheorems, Iteration

-----------------------------------------------------------------------------
(* Words. *)

(* There are at least two words.                                            *)
LEMMA WordCountIs == WordCount \in Nat /\ WordCount >= 2
<1> DEFINE V == Nat \ {0}
           step == [v \in V |-> 2 * v]
           rec(f) == [n \in 0 .. WordBits |-> IF n = 0 THEN 1 ELSE 2 * f[n-1]]
<1>1. WordBits \in Nat /\ WordBits >= 1
  BY WordBitsAssumption
<1>2. step \in [V -> V] /\ 1 \in V
  OBVIOUS
<1>3. PICK f : Stepped(f, 0, WordBits, V, 1, step)
  <2> HIDE DEF V, step
  <2> QED BY <1>1, <1>2, SteppedExists
<1>4. f = rec(f)
  <2>1. \A n \in 0 .. WordBits : n # 0 => n - 1 \in 0 .. WordBits
    BY <1>1
  <2>2. \A n \in 0 .. WordBits : n # 0 => step[f[n-1]] = 2 * f[n-1]
    BY <1>3, <2>1 DEF Stepped
  <2> QED BY <1>3, <2>2 DEF Stepped
<1>5. PICK h : h = rec(h) /\ WordCount = h[WordBits]
  <2>1. (CHOOSE h : h = rec(h)) = rec(CHOOSE h : h = rec(h))
    BY <1>4
  <2> QED BY <2>1 DEF WordCount
<1>6. Stepped(h, 0, WordBits, V, 1, step)
  <2> DEFINE body == rec(h)
  <2>1. h = body
    BY <1>5
  <2>2. h = [n \in 0 .. WordBits |-> h[n]] /\ h[0] = 1
    BY <2>1, <1>1
  <2>3. ASSUME NEW n \in 0 + 1 .. WordBits, h[n-1] \in V PROVE h[n] = step[h[n-1]]
    BY <2>1, <2>3, <1>1
  <2> HIDE DEF V, step, body
  <2> QED BY <2>2, <2>3, <1>1, <1>2, SolutionStepped
<1>7. h[WordBits] = 2 * h[WordBits - 1] /\ h[WordBits - 1] \in V
  <2>1. WordBits \in 0 .. WordBits /\ WordBits - 1 \in 0 .. WordBits /\ WordBits # 0
    BY <1>1
  <2>2. h \in [0 .. WordBits -> V]
    BY <1>6 DEF Stepped
  <2>3. h[WordBits] = rec(h)[WordBits]
    BY <1>5
  <2> QED BY <2>1, <2>2, <2>3
<1> QED BY <1>5, <1>7

(* The arithmetic opcodes yield words.                                      *)
LEMMA ArithWord ==
    ASSUME NEW op \in ArithOps, NEW a \in Word, NEW b \in Word
    PROVE  Arith(op, a, b) \in Word
<1>1. WordCount \in Nat /\ WordCount >= 2
  BY WordCountIs
<1>2. a \in Nat /\ b \in Nat /\ a <= WordCount - 1 /\ b <= WordCount - 1
  BY <1>1 DEF Word
<1>3. \A x \in Int : x % WordCount \in Word
  BY <1>1 DEF Word
<1>4. \A p \in BOOLEAN : FromBool(p) \in Word
  BY <1>1 DEF Word, FromBool
<1>5. CASE op \in {"ADD", "SUB", "MUL"}
  <2>1. a + b \in Int /\ a - b \in Int /\ a * b \in Int
    BY <1>2
  <2> HIDE DEF Word
  <2> QED BY <1>3, <1>5, <2>1 DEF Arith
<1>6. CASE op = "DIV"
  <2>1. b # 0 => a \div b \in 0 .. a
    BY <1>2, SMTT(30)
  <2>2. 0 \in Word
    BY <1>1 DEF Word
  <2>3. 0 .. a \subseteq Word
    BY <1>1, <1>2 DEF Word
  <2> QED BY <1>6, <2>1, <2>2, <2>3 DEF Arith
<1>7. CASE op = "MOD"
  <2>1. b # 0 => a % b \in 0 .. b - 1
    BY <1>2
  <2>2. 0 \in Word
    BY <1>1 DEF Word
  <2>3. 0 .. b - 1 \subseteq Word
    BY <1>1, <1>2 DEF Word
  <2> QED BY <1>7, <2>1, <2>2, <2>3 DEF Arith
<1>8. CASE op \in {"LT", "GT", "EQ", "AND", "OR"}
  <2>1. 0 \in Word /\ 1 \in Word
    BY <1>1 DEF Word
  <2> HIDE DEF Word
  <2> QED BY <1>8, <2>1 DEF Arith, FromBool
<1> QED BY <1>5, <1>6, <1>7, <1>8 DEF ArithOps

-----------------------------------------------------------------------------
(* Running code. *)

(* f is the machine after each opcode of ops, from m on.                    *)
Trace(f, m, ops) == f[0] = m /\ \A n \in 1 .. Len(ops) : f[n] = Exec(f[n-1], ops[n])

Unfolds(f, m, ops) == f = [n \in 0 .. Len(ops) |-> IF n = 0 THEN m ELSE Exec(f[n-1], ops[n])]

(* Such a function exists, for every list of opcodes.                       *)
LEMMA TraceExists ==
    ASSUME NEW m, NEW ops, Len(ops) \in Nat
    PROVE  \E f : Unfolds(f, m, ops)
<1> DEFINE P(f, k) == f = [n \in 0 .. k |-> IF n = 0 THEN m ELSE Exec(f[n-1], ops[n])]
           S == {k \in Nat : \E f : P(f, k)}
<1>1. 0 \in S
  <2> DEFINE f == [n \in 0 .. 0 |-> m]
  <2>1. P(f, 0)
    OBVIOUS
  <2> HIDE DEF f, P
  <2> QED BY <2>1
<1>2. ASSUME NEW k \in Nat, k \in S PROVE k + 1 \in S
  <2>1. PICK f : P(f, k)
    BY <1>2
  <2> DEFINE g == [n \in 0 .. k + 1 |-> IF n = k + 1 THEN Exec(f[k], ops[k + 1]) ELSE f[n]]
  <2>2. ASSUME NEW n \in 0 .. k + 1
        PROVE  g[n] = IF n = 0 THEN m ELSE Exec(g[n-1], ops[n])
    <3>1. CASE n = k + 1
      <4>1. n - 1 = k /\ n - 1 \in 0 .. k + 1 /\ n - 1 # k + 1 /\ n # 0
        BY <3>1
      <4>2. g[n-1] = f[k] /\ g[n] = Exec(f[k], ops[n])
        BY <3>1, <4>1
      <4> QED BY <4>1, <4>2
    <3>2. CASE n # k + 1
      <4>1. n \in 0 .. k /\ g[n] = f[n]
        BY <3>2
      <4>2. n # 0 => n - 1 \in 0 .. k + 1 /\ n - 1 # k + 1
        BY <4>1
      <4>3. n # 0 => g[n-1] = f[n-1]
        BY <4>2
      <4>4. f[n] = IF n = 0 THEN m ELSE Exec(f[n-1], ops[n])
        BY <2>1, <4>1
      <4> QED BY <4>1, <4>3, <4>4
    <3> QED BY <3>1, <3>2
  <2>3. P(g, k + 1)
    <3>1. g = [n \in 0 .. k + 1 |-> g[n]]
      OBVIOUS
    <3> HIDE DEF g
    <3> QED BY <2>2, <3>1
  <2> HIDE DEF g, P
  <2>4. k + 1 \in Nat /\ \E h : P(h, k + 1)
    BY <2>3
  <2> QED BY <2>4
<1>3. Nat \subseteq S
  <2> HIDE DEF S
  <2> QED BY <1>1, <1>2, Induction
<1>4. Len(ops) \in S
  <2> HIDE DEF S
  <2> QED BY <1>3
<1> QED BY <1>4 DEF Unfolds

(* Run executes one opcode after the other.                                 *)
LEMMA RunTrace ==
    ASSUME NEW m, NEW ops, Len(ops) \in Nat
    PROVE  \E f : Trace(f, m, ops) /\ Run(m, ops) = f[Len(ops)]
<1> DEFINE rec(f) == [n \in 0 .. Len(ops) |-> IF n = 0 THEN m ELSE Exec(f[n-1], ops[n])]
<1>1. \E f : f = rec(f)
  <2>1. PICK f : Unfolds(f, m, ops)
    BY TraceExists
  <2>2. f = rec(f)
    BY <2>1 DEF Unfolds
  <2> QED BY <2>2
<1>2. PICK h : h = rec(h) /\ Run(m, ops) = h[Len(ops)]
  <2>1. (CHOOSE h : h = rec(h)) = rec(CHOOSE h : h = rec(h))
    BY <1>1
  <2> QED BY <2>1 DEF Run
<1>3. h[0] = m
  BY <1>2
<1>4. \A n \in 1 .. Len(ops) : h[n] = Exec(h[n-1], ops[n])
  BY <1>2
<1> QED BY <1>2, <1>3, <1>4 DEF Trace

(* Any trace of the opcodes ends where Run does.                            *)
LEMMA RunIs ==
    ASSUME NEW m, NEW ops, Len(ops) \in Nat, NEW g, Trace(g, m, ops)
    PROVE  Run(m, ops) = g[Len(ops)]
<1>1. PICK f : Trace(f, m, ops) /\ Run(m, ops) = f[Len(ops)]
  BY RunTrace
<1> DEFINE S == {n \in Nat : n <= Len(ops) => f[n] = g[n]}
<1>2. 0 \in S
  BY <1>1 DEF Trace
<1>3. ASSUME NEW n \in Nat, n \in S PROVE n + 1 \in S
  <2> SUFFICES ASSUME n + 1 <= Len(ops) PROVE f[n + 1] = g[n + 1]
    OBVIOUS
  <2>1. n + 1 \in 1 .. Len(ops) /\ (n + 1) - 1 = n /\ n <= Len(ops)
    OBVIOUS
  <2>2. f[n] = g[n]
    BY <1>3, <2>1
  <2> QED BY <1>1, <2>1, <2>2 DEF Trace
<1>4. Len(ops) \in S
  <2> HIDE DEF S
  <2> QED BY <1>2, <1>3, Induction
<1> QED BY <1>1, <1>4

(* Two lists of opcodes run one after the other.                            *)
LEMMA RunConcat ==
    ASSUME NEW m, NEW S, NEW p \in Seq(S), NEW r \in Seq(S)
    PROVE  Run(m, p \o r) = Run(Run(m, p), r)
<1>1. PICK f : Trace(f, m, p) /\ Run(m, p) = f[Len(p)]
  BY RunTrace
<1>2. PICK g : Trace(g, Run(m, p), r) /\ Run(Run(m, p), r) = g[Len(r)]
  BY RunTrace
<1> DEFINE a == Len(p)
           b == Len(r)
           h == [n \in 0 .. a + b |-> IF n <= a THEN f[n] ELSE g[n - a]]
<1>3. a \in Nat /\ b \in Nat /\ Len(p \o r) = a + b
  OBVIOUS
<1>4. ASSUME NEW n \in 1 .. a + b PROVE h[n] = Exec(h[n-1], (p \o r)[n])
  <2>1. n - 1 \in 0 .. a + b /\ n \in 0 .. a + b
    BY <1>3
  <2>2. CASE n <= a
    <3>1. (p \o r)[n] = p[n] /\ n \in 1 .. a
      BY <2>2
    <3>2. h[n] = f[n] /\ h[n-1] = f[n-1]
      BY <2>1, <2>2
    <3> QED BY <3>1, <3>2, <1>1 DEF Trace
  <2>3. CASE n > a
    <3>1. (p \o r)[n] = r[n - a] /\ n - a \in 1 .. b
      BY <2>3
    <3>2. h[n] = g[n - a]
      BY <2>1, <2>3
    <3>3. g[n - a] = Exec(g[(n - a) - 1], r[n - a])
      BY <3>1, <1>2 DEF Trace
    <3>4. h[n-1] = g[(n - a) - 1]
      <4>1. CASE n = a + 1
        <5>1. h[n-1] = f[a] /\ (n - a) - 1 = 0
          BY <2>1, <4>1
        <5> QED BY <5>1, <1>1, <1>2 DEF Trace
      <4>2. CASE n # a + 1
        <5>1. ~ (n - 1 <= a) /\ (n - 1) - a = (n - a) - 1
          BY <2>3, <4>2
        <5> QED BY <5>1, <2>1
      <4> QED BY <4>1, <4>2
    <3> QED BY <3>1, <3>2, <3>3, <3>4
  <2> QED BY <2>2, <2>3, <1>3
<1>5. h[0] = m
  BY <1>1, <1>3 DEF Trace
<1>6. h[a + b] = g[b]
  <2>1. CASE b = 0
    BY <2>1, <1>1, <1>2, <1>3 DEF Trace
  <2>2. CASE b # 0
    BY <2>2, <1>3
  <2> QED BY <2>1, <2>2
<1>7. Trace(h, m, p \o r)
  <2> HIDE DEF h, a, b
  <2> QED BY <1>3, <1>4, <1>5 DEF Trace
<1>8. Run(m, p \o r) = h[a + b]
  <2>1. Len(p \o r) \in Nat /\ Len(p \o r) = a + b
    BY <1>3
  <2> HIDE DEF h, a, b
  <2>2. Run(m, p \o r) = h[Len(p \o r)]
    BY <2>1, <1>7, RunIs
  <2> QED BY <2>1, <2>2
<1> QED BY <1>2, <1>6, <1>8

(* No opcodes leave the machine as it is.                                   *)
LEMMA RunNothing ==
    ASSUME NEW m PROVE Run(m, <<>>) = m
<1>1. PICK f : Trace(f, m, <<>>) /\ Run(m, <<>>) = f[Len(<<>>)]
  BY RunTrace
<1> QED BY <1>1 DEF Trace

(* One opcode is executed once.                                             *)
LEMMA RunOne ==
    ASSUME NEW m, NEW o PROVE Run(m, <<o>>) = Exec(m, o)
<1>1. Len(<<o>>) = 1 /\ <<o>>[1] = o
  OBVIOUS
<1>2. PICK f : Trace(f, m, <<o>>) /\ Run(m, <<o>>) = f[1]
  BY <1>1, RunTrace
<1> QED BY <1>1, <1>2 DEF Trace

-----------------------------------------------------------------------------
(* The stack. *)

(* A cell whose label is in Y, and a cell that holds a word.                *)
CellOf(Y) == [word : Word, label : Y \cup {<<>>}]
WordCells == [word : Word, label : {<<>>}]

(* A machine; nothing but words is ever stored in memory.                   *)
Memories(f) == \A a \in DOMAIN f : f[a] \in WordCells
IsMachine(m, Y) ==
    /\ m \in [stack : Seq(CellOf(Y)), memory : {m.memory}, storage : [Keys -> Word],
              jump : Y \cup {<<>>}, fault : BOOLEAN, stale : BOOLEAN]
    /\ Memories(m.memory)

(* k words on top of q.                                                     *)
Holds(s, q, k, Y) ==
    /\ s \in Seq(CellOf(Y)) /\ q \in Seq(CellOf(Y)) /\ k \in Nat /\ Len(s) = k + Len(q)
    /\ \A i \in 1 .. k : s[i] \in WordCells
    /\ \A i \in 1 .. Len(q) : s[k + i] = q[i]

(* A machine that goes on, with k words on top of q.                        *)
Atop(m, q, k, Y) ==
    IsMachine(m, Y) /\ ~ m.fault /\ m.jump = <<>> /\ Holds(m.stack, q, k, Y)

(* The first d cells of q are words.                                        *)
Floor(q, d) == d \in Nat /\ d <= Len(q) /\ \A i \in 1 .. d : q[i] \in WordCells

(* Opcode o, which may read d words under the a words that are there and    *)
(* touches no other cell, leaves b words.  What the compiler cannot emit is *)
(* let through.                                                             *)
Moves(o, d, a, b) ==
    \/ o = Panic
    \/ o.op = "PUSH" /\ o.cell \in WordCells /\ b = a + 1
    \/ o.op = "DUP" /\ o.n \in 1 .. a + d /\ b = a + 1
    \/ o.op = "SWAP" /\ o.n \in 1 .. a - 1 /\ b = a
    \/ o.op = "POP" /\ a >= 1 /\ b = a - 1
    \/ o.op = "ISZERO" /\ a >= 1 /\ b = a
    \/ o.op \in ArithOps /\ a >= 2 /\ b = a - 1
    \/ o.op = "MLOAD" /\ b = a + 1
    \/ o.op = "MSTORE" /\ a >= 1 /\ b = a - 1
    \/ o.op = "SLOAD" /\ o.key \in Keys /\ b = a + 1
    \/ o.op = "SSTORE" /\ o.key \in Keys /\ a >= 1 /\ b = a - 1

Faulted(m, Y) == IsMachine(m, Y) /\ m.fault

(* Replacing the first n cells by one.                                      *)
LEMMA Replaced ==
    ASSUME NEW C, NEW s \in Seq(C), NEW n \in Nat, n <= Len(s), NEW c \in C,
           NEW r, r = <<c>> \o SubSeq(s, n + 1, Len(s))
    PROVE  /\ r \in Seq(C) /\ Len(r) = Len(s) - n + 1 /\ r[1] = c
           /\ \A i \in 2 .. Len(s) - n + 1 : r[i] = s[n + i - 1]
<1> DEFINE t == SubSeq(s, n + 1, Len(s))
<1>1. t \in Seq(C) /\ Len(t) = Len(s) - n /\ \A i \in 1 .. Len(s) - n : t[i] = s[n + i]
  BY SubSeqProperties
<1>2. <<c>> \in Seq(C) /\ Len(<<c>>) = 1 /\ <<c>>[1] = c
  OBVIOUS
<1>3. r = <<c>> \o t
  OBVIOUS
<1> HIDE DEF t
<1>4. r \in Seq(C) /\ Len(r) = Len(t) + 1 /\ r[1] = c
  BY <1>1, <1>2, <1>3
<1>5. ASSUME NEW i \in 2 .. Len(s) - n + 1 PROVE r[i] = s[n + i - 1]
  <2>1. i - 1 \in 1 .. Len(s) - n /\ i \in 2 .. Len(t) + 1
    BY <1>1
  <2>2. r[i] = t[i - 1]
    <3>1. i \in 1 .. Len(<<c>>) + Len(t) /\ ~ (i <= Len(<<c>>)) /\ i - Len(<<c>>) = i - 1
      BY <1>1, <1>2, <2>1
    <3>2. (<<c>> \o t)[i] = t[i - Len(<<c>>)]
      BY <3>1, <1>1, <1>2, ConcatProperties
    <3> QED BY <3>1, <3>2, <1>3
  <2>3. n + (i - 1) = n + i - 1
    BY <2>1
  <2> QED BY <1>1, <2>1, <2>2, <2>3
<1> QED BY <1>1, <1>4, <1>5

(* Words replaced by one word, words taken away, and words swapped are      *)
(* still words on the same cells.                                           *)
LEMMA WordsPush ==
    ASSUME NEW s, NEW q, NEW a, NEW Y, Holds(s, q, a, Y), NEW n \in Nat, n <= a, NEW c \in WordCells
    PROVE  Holds(<<c>> \o SubSeq(s, n + 1, Len(s)), q, a - n + 1, Y)
<1> DEFINE r == <<c>> \o SubSeq(s, n + 1, Len(s))
           C == CellOf(Y)
<1>1. s \in Seq(C) /\ Len(s) = a + Len(q) /\ q \in Seq(C) /\ a \in Nat /\ Len(q) \in Nat
  BY DEF Holds
<1>2. c \in C
  BY DEF WordCells, CellOf
<1>3. n <= Len(s)
  BY <1>1
<1>4. /\ r \in Seq(C) /\ Len(r) = Len(s) - n + 1 /\ r[1] = c
      /\ \A i \in 2 .. Len(s) - n + 1 : r[i] = s[n + i - 1]
  <2> HIDE DEF C
  <2> QED BY <1>1, <1>2, <1>3, Replaced
<1> HIDE DEF r, C
<1>5. ASSUME NEW i \in 1 .. a - n + 1 PROVE r[i] \in WordCells
  <2>1. CASE i = 1
    BY <2>1, <1>4
  <2>2. CASE i # 1
    <3>1. n + i - 1 \in 1 .. a /\ i \in 2 .. Len(s) - n + 1
      BY <1>1, <2>2
    <3> QED BY <3>1, <1>4 DEF Holds
  <2> QED BY <2>1, <2>2
<1>6. ASSUME NEW i \in 1 .. Len(q) PROVE r[(a - n + 1) + i] = q[i]
  <2>1. (a - n + 1) + i \in 2 .. Len(s) - n + 1 /\ n + ((a - n + 1) + i) - 1 = a + i
    BY <1>1
  <2> QED BY <2>1, <1>4 DEF Holds
<1>7. Len(r) = (a - n + 1) + Len(q) /\ a - n + 1 \in Nat
  BY <1>1, <1>4
<1>8. Holds(r, q, a - n + 1, Y)
  BY <1>1, <1>4, <1>5, <1>6, <1>7 DEF Holds, C
<1> QED BY <1>8 DEF r

(* One word less.                                                           *)
LEMMA WordsPop ==
    ASSUME NEW s, NEW q, NEW a, NEW Y, Holds(s, q, a, Y), a >= 1
    PROVE  Holds(Tail(s), q, a - 1, Y)
<1> DEFINE r == Tail(s)
           C == CellOf(Y)
<1>1. s \in Seq(C) /\ Len(s) = a + Len(q) /\ q \in Seq(C) /\ a \in Nat /\ Len(q) \in Nat
  BY DEF Holds
<1>2. s # <<>>
  BY <1>1
<1>3. r \in Seq(C) /\ Len(r) = Len(s) - 1 /\ \A i \in 1 .. Len(s) - 1 : r[i] = s[i + 1]
  BY <1>1, <1>2
<1> HIDE DEF r, C
<1>5. ASSUME NEW i \in 1 .. a - 1 PROVE r[i] \in WordCells
  <2>1. i + 1 \in 1 .. a /\ i \in 1 .. Len(s) - 1
    BY <1>1
  <2> QED BY <2>1, <1>3 DEF Holds
<1>6. ASSUME NEW i \in 1 .. Len(q) PROVE r[(a - 1) + i] = q[i]
  <2>1. (a - 1) + i \in 1 .. Len(s) - 1 /\ (a - 1) + i + 1 = a + i
    BY <1>1
  <2> QED BY <2>1, <1>3 DEF Holds
<1>7. Len(r) = (a - 1) + Len(q) /\ a - 1 \in Nat
  BY <1>1, <1>3
<1>8. Holds(r, q, a - 1, Y)
  BY <1>1, <1>3, <1>5, <1>6, <1>7 DEF Holds, C
<1> QED BY <1>8 DEF r

(* Two words swapped.                                                       *)
LEMMA WordsSwap ==
    ASSUME NEW s, NEW q, NEW a, NEW Y, Holds(s, q, a, Y), NEW n \in 1 .. a - 1,
           NEW r, r = [[s EXCEPT ![1] = s[n + 1]] EXCEPT ![n + 1] = s[1]]
    PROVE  Holds(r, q, a, Y)
<1> DEFINE C == CellOf(Y)
<1>1. s \in Seq(C) /\ Len(s) = a + Len(q) /\ q \in Seq(C) /\ a \in Nat /\ Len(q) \in Nat
  BY DEF Holds
<1>2. 1 \in 1 .. a /\ n + 1 \in 1 .. a /\ \A i \in 1 .. a : i \in DOMAIN s
  BY <1>1
<1>3. s[1] \in WordCells /\ s[n + 1] \in WordCells
  BY <1>2 DEF Holds
<1>4. /\ r \in Seq(C) /\ Len(r) = Len(s)
      /\ \A i \in 1 .. Len(s) : r[i] = IF i = n + 1 THEN s[1] ELSE IF i = 1 THEN s[n + 1] ELSE s[i]
  BY <1>1, <1>2
<1> HIDE DEF C
<1>5. ASSUME NEW i \in 1 .. a PROVE r[i] \in WordCells
  BY <1>1, <1>3, <1>4 DEF Holds
<1>6. ASSUME NEW i \in 1 .. Len(q) PROVE r[a + i] = q[i]
  <2>1. a + i \in 1 .. Len(s) /\ a + i # 1 /\ a + i # n + 1
    BY <1>1
  <2> QED BY <2>1, <1>4 DEF Holds
<1> QED BY <1>1, <1>4, <1>5, <1>6 DEF Holds, C

(* The words within reach.                                                  *)
LEMMA WordsRead ==
    ASSUME NEW s, NEW q, NEW a, NEW d, NEW Y, Holds(s, q, a, Y), Floor(q, d), NEW n \in 1 .. a + d
    PROVE  n \in 1 .. Len(s) /\ s[n] \in WordCells
<1>1. a \in Nat /\ d \in Nat /\ Len(q) \in Nat /\ d <= Len(q) /\ Len(s) = a + Len(q)
  BY DEF Holds, Floor
<1>2. CASE n <= a
  BY <1>1, <1>2 DEF Holds
<1>3. CASE n > a
  <2>1. n - a \in 1 .. d /\ n - a \in 1 .. Len(q) /\ a + (n - a) = n
    BY <1>1, <1>3
  <2> QED BY <1>1, <2>1 DEF Holds, Floor
<1> QED BY <1>1, <1>2, <1>3

(* One opcode. *)
LEMMA ExecMoves ==
    ASSUME NEW Y, NEW m, NEW q, NEW d, NEW a, NEW b, NEW o,
           Atop(m, q, a, Y), Floor(q, d), Moves(o, d, a, b)
    PROVE  Atop(Exec(m, o), q, b, Y) \/ (o = Panic /\ Faulted(Exec(m, o), Y))
<1> DEFINE s == m.stack
           r == Exec(m, o)
<1> SUFFICES Atop(r, q, b, Y) \/ (o = Panic /\ Faulted(r, Y))
  OBVIOUS
<1> HIDE DEF r
<1>1. /\ IsMachine(m, Y) /\ m.fault = FALSE /\ m.jump = <<>> /\ Holds(s, q, a, Y)
      /\ a \in Nat /\ d \in Nat /\ Len(q) \in Nat /\ d <= Len(q) /\ Len(s) = a + Len(q)
  BY DEF Atop, Holds, IsMachine, Floor
<1>2. /\ DOMAIN m = {"stack", "memory", "storage", "jump", "fault", "stale"}
      /\ m.storage \in [Keys -> Word] /\ m.stale \in BOOLEAN /\ Memories(m.memory)
  BY <1>1 DEF IsMachine
<1>3. ASSUME NEW t, Holds(t, q, b, Y), r = [m EXCEPT !.stack = t] PROVE Atop(r, q, b, Y)
  <2>1. t \in Seq(CellOf(Y))
    BY <1>3 DEF Holds
  <2> HIDE DEF s
  <2> QED BY <1>1, <1>2, <1>3, <2>1 DEF Atop, IsMachine
<1>4. ASSUME NEW c \in WordCells, NEW n \in {0, 1, 2}, n <= a, b = a - n + 1,
             r = [m EXCEPT !.stack = <<c>> \o SubSeq(s, n + 1, Len(s))]
      PROVE  Atop(r, q, b, Y)
  <2>1. Holds(<<c>> \o SubSeq(s, n + 1, Len(s)), q, b, Y)
    BY <1>1, <1>4, WordsPush
  <2> HIDE DEF s
  <2> QED BY <2>1, <1>3, <1>4
<1>41. ASSUME NEW c \in WordCells, b = a + 1, r = [m EXCEPT !.stack = <<c>> \o SubSeq(s, 1, Len(s))]
       PROVE  Atop(r, q, b, Y)
  <2>1. 0 \in {0, 1, 2} /\ 0 <= a /\ b = a - 0 + 1
    BY <1>1, <1>41
  <2>2. r = [m EXCEPT !.stack = <<c>> \o SubSeq(s, 0 + 1, Len(s))]
    BY <1>41
  <2> QED BY <2>1, <2>2, <1>4
<1>5. a >= 1 => Holds(Tail(s), q, a - 1, Y) /\ s[1] \in WordCells /\ s[1].word \in Word
  <2> SUFFICES ASSUME a >= 1 PROVE Holds(Tail(s), q, a - 1, Y) /\ s[1] \in WordCells /\ s[1].word \in Word
    OBVIOUS
  <2>1. Holds(Tail(s), q, a - 1, Y)
    BY <1>1, WordsPop
  <2>2. s[1] \in WordCells
    BY <1>1 DEF Holds
  <2> QED BY <2>1, <2>2 DEF WordCells
<1>6. o # Panic => ~ (Len(s) < Needs(o))
  <2> SUFFICES ASSUME o # Panic PROVE ~ (Len(s) < Needs(o))
    OBVIOUS
  <2>1. CASE o.op = "DUP"
    <3>1. Needs(o) = o.n /\ o.n \in 1 .. a + d
      BY <2>1 DEF Moves, Needs, ArithOps
    <3> QED BY <3>1, <1>1
  <2>2. CASE o.op = "SWAP"
    <3>1. Needs(o) = o.n + 1 /\ o.n \in 1 .. a - 1
      BY <2>2 DEF Moves, Needs, ArithOps
    <3> QED BY <3>1, <1>1
  <2>3. CASE o.op \in ArithOps
    <3>1. Needs(o) = 2 /\ a >= 2
      BY <2>3 DEF Moves, Needs, ArithOps
    <3> QED BY <3>1, <1>1
  <2>4. CASE o.op \in {"POP", "ISZERO", "MSTORE", "SSTORE"}
    <3>1. Needs(o) = 1 /\ a >= 1
      BY <2>4 DEF Moves, Needs, ArithOps
    <3> QED BY <3>1, <1>1
  <2>5. CASE o.op \in {"PUSH", "MLOAD", "SLOAD"}
    <3>1. Needs(o) = 0
      BY <2>5 DEF Needs, ArithOps
    <3> QED BY <3>1, <1>1
  <2> QED BY <2>1, <2>2, <2>3, <2>4, <2>5 DEF Moves
<1> USE <1>1, <1>2, <1>6
<1>7. CASE o = Panic
  <2>1. r = [m EXCEPT !.fault = TRUE]
    BY <1>7 DEF r, Exec, Panic, Needs, ArithOps
  <2>2. Faulted(r, Y)
    BY <2>1 DEF IsMachine, Faulted
  <2> QED BY <2>2, <1>7
<1>8. CASE o # Panic /\ o.op = "PUSH"
  <2>1. o.cell \in WordCells /\ b = a + 1
    BY <1>8 DEF Moves, ArithOps
  <2>2. r = [m EXCEPT !.stack = <<o.cell>> \o SubSeq(s, 1, Len(s))]
    BY <1>8 DEF r, Exec, ArithOps
  <2> QED BY <2>1, <2>2, <1>41
<1>9. CASE o # Panic /\ o.op = "DUP"
  <2>1. o.n \in 1 .. a + d /\ b = a + 1
    BY <1>9 DEF Moves, ArithOps
  <2>2. s[o.n] \in WordCells
    BY <2>1, WordsRead
  <2>3. r = [m EXCEPT !.stack = <<s[o.n]>> \o SubSeq(s, 1, Len(s))]
    BY <1>9 DEF r, Exec, ArithOps
  <2> QED BY <2>1, <2>2, <2>3, <1>41
<1>10. CASE o # Panic /\ o.op = "SWAP"
  <2>1. o.n \in 1 .. a - 1 /\ b = a
    BY <1>10 DEF Moves, ArithOps
  <2> DEFINE t == [[s EXCEPT ![1] = s[o.n + 1]] EXCEPT ![o.n + 1] = s[1]]
  <2>2. Holds(t, q, b, Y)
    BY <2>1, WordsSwap
  <2>3. r = [m EXCEPT !.stack[1] = s[o.n + 1], !.stack[o.n + 1] = s[1]]
    BY <1>10 DEF r, Exec, ArithOps
  <2>4. r = [m EXCEPT !.stack = t]
    BY <2>3
  <2> QED BY <2>2, <2>4, <1>3
<1>11. CASE o # Panic /\ o.op = "POP"
  <2>1. a >= 1 /\ b = a - 1
    BY <1>11 DEF Moves, ArithOps
  <2>2. r = [m EXCEPT !.stack = Tail(s)]
    BY <1>11 DEF r, Exec, ArithOps
  <2> QED BY <2>1, <2>2, <1>3, <1>5
<1>12. CASE o # Panic /\ o.op = "ISZERO"
  <2>1. a >= 1 /\ b = a - 1 + 1
    BY <1>12 DEF Moves, ArithOps
  <2>2. WordCell(FromBool(s[1].word = 0)) \in WordCells
    BY WordCountIs DEF WordCell, WordCells, Word, FromBool
  <2>3. r = [m EXCEPT !.stack = <<WordCell(FromBool(s[1].word = 0))>> \o SubSeq(s, 1 + 1, Len(s))]
    BY <1>12 DEF r, Exec, ArithOps
  <2> QED BY <2>1, <2>2, <2>3, <1>4
<1>13. CASE o # Panic /\ o.op \in ArithOps
  <2>1. a >= 2 /\ b = a - 2 + 1
    BY <1>13 DEF Moves, ArithOps
  <2>2. s[1].word \in Word /\ s[2].word \in Word
    BY <2>1 DEF Holds, WordCells
  <2> DEFINE v == Arith(o.op, s[1].word, s[2].word)
  <2>3. v \in Word
    BY <1>13, <2>2, ArithWord
  <2>4. WordCell(v) \in WordCells
    BY <2>3 DEF WordCell, WordCells
  <2>5. r = [m EXCEPT !.stack = <<WordCell(v)>> \o SubSeq(s, 2 + 1, Len(s))]
    BY <1>13 DEF r, Exec, ArithOps
  <2> HIDE DEF v
  <2> QED BY <2>1, <2>4, <2>5, <1>4
<1>14. CASE o # Panic /\ o.op = "MLOAD"
  <2>1. b = a - 0 + 1
    BY <1>14 DEF Moves, ArithOps
  <2> DEFINE c == Recall(m.memory, o.addr)
             t == <<c>> \o SubSeq(s, 0 + 1, Len(s))
  <2>2. c \in WordCells
    BY WordCountIs DEF Recall, Memories, WordCell, WordCells, Word
  <2>3. r = [m EXCEPT !.stack = t, !.stale = @ \/ o.addr \notin DOMAIN m.memory]
    BY <1>14 DEF r, Exec, ArithOps
  <2>4. Holds(t, q, b, Y)
    BY <2>1, <2>2, WordsPush
  <2>5. t \in Seq(CellOf(Y))
    BY <2>4 DEF Holds
  <2> HIDE DEF s, t, c
  <2>6. Atop(r, q, b, Y)
    BY <2>3, <2>4, <2>5 DEF Atop, IsMachine
  <2> QED BY <2>6
<1>15. CASE o # Panic /\ o.op = "MSTORE"
  <2>1. a >= 1 /\ b = a - 1
    BY <1>15 DEF Moves, ArithOps
  <2> DEFINE f == [x \in DOMAIN m.memory \cup {o.addr} |-> IF x = o.addr THEN s[1] ELSE m.memory[x]]
             t == Tail(s)
  <2>2. Memories(f)
    BY <2>1, <1>5 DEF Memories
  <2>3. r = [m EXCEPT !.stack = t, !.memory = f]
    BY <1>15 DEF r, Exec, ArithOps
  <2>4. Holds(t, q, b, Y)
    BY <2>1, <1>5
  <2>5. t \in Seq(CellOf(Y))
    BY <2>4 DEF Holds
  <2> HIDE DEF s, t, f
  <2>6. Atop(r, q, b, Y)
    BY <2>2, <2>3, <2>4, <2>5 DEF Atop, IsMachine
  <2> QED BY <2>6
<1>16. CASE o # Panic /\ o.op = "SLOAD"
  <2>1. b = a + 1 /\ o.key \in Keys
    BY <1>16 DEF Moves, ArithOps
  <2>2. WordCell(m.storage[o.key]) \in WordCells
    BY <2>1 DEF WordCell, WordCells
  <2>3. r = [m EXCEPT !.stack = <<WordCell(m.storage[o.key])>> \o SubSeq(s, 1, Len(s))]
    BY <1>16 DEF r, Exec, ArithOps
  <2> QED BY <2>1, <2>2, <2>3, <1>41
<1>17. CASE o # Panic /\ o.op = "SSTORE"
  <2>1. a >= 1 /\ b = a - 1 /\ o.key \in Keys
    BY <1>17 DEF Moves, ArithOps
  <2> DEFINE t == Tail(s)
             f == [m.storage EXCEPT ![o.key] = s[1].word]
  <2>2. f \in [Keys -> Word]
    BY <2>1, <1>5
  <2>3. r = [m EXCEPT !.stack = Tail(s), !.storage[o.key] = s[1].word]
    BY <1>17 DEF r, Exec, ArithOps
  <2>4. r = [m EXCEPT !.stack = t, !.storage = f]
    BY <2>3
  <2>5. Holds(t, q, b, Y)
    BY <2>1, <1>5
  <2>6. t \in Seq(CellOf(Y))
    BY <2>5 DEF Holds
  <2> HIDE DEF s, t, f
  <2>7. Atop(r, q, b, Y)
    BY <2>2, <2>4, <2>5, <2>6 DEF Atop, IsMachine
  <2> QED BY <2>7
<1> QED
  BY <1>7, <1>8, <1>9, <1>10, <1>11, <1>12, <1>13, <1>14, <1>15, <1>16, <1>17 DEF Moves

-----------------------------------------------------------------------------
(* Code that turns a words on top of the stack into b words, and may read d *)
(* words under them.  It stops only at an opcode that cannot be emitted.    *)
Ends(m, q, b, Y, ops) == Atop(m, q, b, Y) \/ (Faulted(m, Y) /\ Panics(ops))
Lifts(ops, d, a, b) ==
    \A Y, m, q : Atop(m, q, a, Y) /\ Floor(q, d) => Ends(Run(m, ops), q, b, Y, ops)

(* A machine that faulted or jumped executes nothing more.                  *)
LEMMA ExecStops ==
    ASSUME NEW m, NEW o, m.fault \/ m.jump # <<>> PROVE Exec(m, o) = m
BY DEF Exec

(* The same of a list of opcodes.                                           *)
LEMMA RunStops ==
    ASSUME NEW m, NEW ops, Len(ops) \in Nat, m.fault \/ m.jump # <<>>
    PROVE  Run(m, ops) = m
<1> DEFINE f == [n \in 0 .. Len(ops) |-> m]
<1>1. \A n \in 1 .. Len(ops) : n \in 0 .. Len(ops) /\ n - 1 \in 0 .. Len(ops)
  OBVIOUS
<1>2. Trace(f, m, ops)
  BY <1>1, ExecStops DEF Trace
<1>3. f[Len(ops)] = m
  OBVIOUS
<1> HIDE DEF f
<1> QED BY <1>2, <1>3, RunIs

(* Opcode by opcode: h[n] is the height after n opcodes.                    *)
LEMMA Heights ==
    ASSUME NEW ops, IsList(ops), NEW d, NEW h,
           \A n \in 1 .. Len(ops) : Moves(ops[n], d, h[n-1], h[n])
    PROVE  Lifts(ops, d, h[0], h[Len(ops)])
<1> SUFFICES ASSUME NEW Y, NEW m, NEW q, Atop(m, q, h[0], Y), Floor(q, d)
             PROVE  Ends(Run(m, ops), q, h[Len(ops)], Y, ops)
  BY DEF Lifts
<1>1. Len(ops) \in Nat /\ DOMAIN ops = 1 .. Len(ops)
  BY DEF IsList
<1>2. PICK f : Trace(f, m, ops) /\ Run(m, ops) = f[Len(ops)]
  BY <1>1, RunTrace
<1> DEFINE S == {n \in Nat : n <= Len(ops) => Ends(f[n], q, h[n], Y, ops)}
<1>3. 0 \in S
  BY <1>2 DEF Trace, Ends
<1>4. ASSUME NEW n \in Nat, n \in S PROVE n + 1 \in S
  <2> SUFFICES ASSUME n + 1 <= Len(ops) PROVE Ends(f[n + 1], q, h[n + 1], Y, ops)
    OBVIOUS
  <2>1. n + 1 \in 1 .. Len(ops) /\ (n + 1) - 1 = n /\ n <= Len(ops)
    BY <1>1
  <2>2. f[n + 1] = Exec(f[n], ops[n + 1]) /\ Moves(ops[n + 1], d, h[n], h[n + 1])
    BY <1>2, <2>1 DEF Trace
  <2>3. CASE Atop(f[n], q, h[n], Y)
    <3>1. Atop(f[n + 1], q, h[n + 1], Y) \/ (ops[n + 1] = Panic /\ Faulted(f[n + 1], Y))
      BY <2>2, <2>3, ExecMoves
    <3> QED BY <3>1, <2>1, <1>1 DEF Ends, Panics
  <2>4. CASE Faulted(f[n], Y) /\ Panics(ops)
    <3>1. f[n + 1] = f[n]
      BY <2>2, <2>4, ExecStops DEF Faulted
    <3> QED BY <3>1, <2>4 DEF Ends
  <2>5. Ends(f[n], q, h[n], Y, ops)
    BY <1>4, <2>1
  <2> QED BY <2>3, <2>4, <2>5 DEF Ends
<1>5. Len(ops) \in S
  <2> HIDE DEF S
  <2> QED BY <1>1, <1>3, <1>4, Induction
<1> QED BY <1>1, <1>2, <1>5

(* No code changes no height.                                               *)
LEMMA LiftsNothing == ASSUME NEW d, NEW a PROVE Lifts(<<>>, d, a, a)
BY RunNothing DEF Lifts, Ends

(* One opcode that moves the stack is such code.                            *)
LEMMA LiftsOne ==
    ASSUME NEW o, NEW d, NEW a, NEW b, Moves(o, d, a, b) PROVE Lifts(<<o>>, d, a, b)
<1>1. DOMAIN <<o>> = {1} /\ <<o>>[1] = o
  OBVIOUS
<1>2. ASSUME NEW Y, NEW m, NEW q, Atop(m, q, a, Y), Floor(q, d) PROVE Ends(Run(m, <<o>>), q, b, Y, <<o>>)
  <2>1. Run(m, <<o>>) = Exec(m, o)
    BY RunOne
  <2>2. Atop(Exec(m, o), q, b, Y) \/ (o = Panic /\ Faulted(Exec(m, o), Y))
    BY <1>2, ExecMoves
  <2> QED BY <1>1, <2>1, <2>2 DEF Ends, Panics
<1> QED BY <1>2 DEF Lifts

(* Sequences of opcodes.                                                    *)
IsCode(ops) == \E S : ops \in Seq(S)

(* Two lists of opcodes are lists over one set.                             *)
LEMMA CodeConcat ==
    ASSUME NEW p, NEW r, IsCode(p), IsCode(r)
    PROVE  \E S : p \in Seq(S) /\ r \in Seq(S) /\ p \o r \in Seq(S)
<1>1. PICK S : p \in Seq(S)
  BY DEF IsCode
<1>2. PICK T : r \in Seq(T)
  BY DEF IsCode
<1>3. p \in Seq(S \cup T) /\ r \in Seq(S \cup T)
  BY <1>1, <1>2
<1> QED BY <1>3

(* Code after code adds the heights up.                                     *)
LEMMA LiftsConcat ==
    ASSUME NEW p, NEW r, IsCode(p), IsCode(r), NEW d, NEW a, NEW b, NEW c,
           Lifts(p, d, a, b), Lifts(r, d, b, c)
    PROVE  IsCode(p \o r) /\ Lifts(p \o r, d, a, c)
<1>0. PICK S : p \in Seq(S) /\ r \in Seq(S) /\ p \o r \in Seq(S)
  BY CodeConcat
<1>9. IsCode(p \o r)
  BY <1>0 DEF IsCode
<1> USE <1>0, <1>9
<1> SUFFICES ASSUME NEW Y, NEW m, NEW q, Atop(m, q, a, Y), Floor(q, d)
             PROVE  Ends(Run(m, p \o r), q, c, Y, p \o r)
  BY DEF Lifts
<1>1. Run(m, p \o r) = Run(Run(m, p), r)
  BY RunConcat
<1>2. Panics(p) \/ Panics(r) => Panics(p \o r)
  <2>1. ASSUME NEW i \in DOMAIN p PROVE i \in DOMAIN (p \o r) /\ (p \o r)[i] = p[i]
    OBVIOUS
  <2>2. ASSUME NEW i \in DOMAIN r PROVE Len(p) + i \in DOMAIN (p \o r) /\ (p \o r)[Len(p) + i] = r[i]
    OBVIOUS
  <2> QED BY <2>1, <2>2 DEF Panics
<1>3. Ends(Run(m, p), q, b, Y, p)
  BY DEF Lifts
<1>4. CASE Atop(Run(m, p), q, b, Y)
  <2>1. Ends(Run(Run(m, p), r), q, c, Y, r)
    BY <1>4 DEF Lifts
  <2> QED BY <1>1, <1>2, <2>1 DEF Ends
<1>5. CASE Faulted(Run(m, p), Y) /\ Panics(p)
  <2>1. Run(Run(m, p), r) = Run(m, p)
    <3>1. Len(r) \in Nat
      OBVIOUS
    <3> QED BY <3>1, <1>5, RunStops DEF Faulted
  <2> QED BY <1>1, <1>2, <1>5, <2>1 DEF Ends
<1> QED BY <1>3, <1>4, <1>5 DEF Ends

-----------------------------------------------------------------------------
(* The shuffler. *)

(* PositionOf is a position, or 0.                                          *)
LEMMA PositionBounds ==
    ASSUME NEW q, Len(q) \in Nat, NEW x PROVE PositionOf(q, x) \in 0 .. Len(q)
<1> DEFINE at == {i \in 1 .. Len(q) : q[i] = x}
<1>1. CASE at = {}
  BY <1>1 DEF PositionOf
<1>2. CASE at # {}
  <2>1. \E i \in at : \A j \in at : i <= j
    <3>1. at \in SUBSET Nat
      OBVIOUS
    <3> HIDE DEF at
    <3> QED BY <3>1, <1>2, LeastNumber
  <2>2. (CHOOSE i \in at : \A j \in at : i <= j) \in at
    BY <2>1
  <2> HIDE DEF at
  <2>3. PositionOf(q, x) \in at
    BY <1>2, <2>2 DEF PositionOf, at
  <2> QED BY <2>3 DEF at
<1> QED BY <1>1, <1>2

(* Then every opcode of the plan is emitted, in its place.                  *)
LEMMA EmitAll ==
    ASSUME NEW ops, IsList(ops), Complete(ops), NEW base
    PROVE  EmitShuffle(ops, base) = [i \in 1 .. Len(ops) |-> EmitOne(ops[i], base)]
<1> DEFINE N == Len(ops)
           P(n) == [i \in 1 .. n |-> EmitOne(ops[i], base)]
           g == [n \in 0 .. N |-> P(n)]
           rec(f) == [n \in 0 .. N |->
                         IF n = 0 THEN <<>>
                         ELSE IF LeftOut(ops[n]) THEN f[n-1]
                         ELSE Append(f[n-1], EmitOne(ops[n], base))]
<1>1. N \in Nat /\ \A n \in 1 .. N : ~ LeftOut(ops[n])
  BY DEF IsList, Complete
<1>2. ASSUME NEW n \in 1 .. N PROVE P(n) = Append(P(n - 1), EmitOne(ops[n], base))
  <2> DEFINE V == {EmitOne(ops[i], base) : i \in 1 .. N}
  <2>1. P(n - 1) \in Seq(V) /\ Len(P(n - 1)) = n - 1
    BY <1>1
  <2>2. P(n) \in Seq(V) /\ Len(P(n)) = n
    BY <1>1
  <2>3. EmitOne(ops[n], base) \in V
    OBVIOUS
  <2> HIDE DEF V
  <2>4. \A i \in 1 .. n - 1 : P(n - 1)[i] = EmitOne(ops[i], base)
    BY <1>1
  <2> DEFINE x == EmitOne(ops[n], base)
             l == P(n - 1)
             r == P(n)
  <2>5. \A i \in 1 .. n : r[i] = EmitOne(ops[i], base)
    BY <1>1
  <2> HIDE DEF l, r, P
  <2>6. \A i \in 1 .. n : r[i] = Append(l, x)[i]
    BY <1>1, <2>1, <2>3, <2>4, <2>5 DEF l
  <2>7. Append(l, x) \in Seq(V) /\ Len(Append(l, x)) = n
    BY <1>1, <2>1, <2>3 DEF l
  <2>8. r = Append(l, x)
    BY <2>2, <2>6, <2>7 DEF r
  <2> QED BY <2>8 DEF l, r
<1>3. ASSUME NEW f, f = rec(f) PROVE f[N] = P(N)
  <2> DEFINE S == {n \in Nat : n <= N => f[n] = P(n)}
  <2>1. 0 \in S
    <3>1. f[0] = <<>>
      BY <1>1, <1>3
    <3>2. P(0) = <<>>
      OBVIOUS
    <3> QED BY <3>1, <3>2
  <2>2. ASSUME NEW n \in Nat, n \in S PROVE n + 1 \in S
    <3> SUFFICES ASSUME n + 1 <= N PROVE f[n + 1] = P(n + 1)
      OBVIOUS
    <3>1. n + 1 \in 1 .. N /\ (n + 1) - 1 = n /\ n <= N
      BY <1>1
    <3>2. P(n + 1) = Append(P(n), EmitOne(ops[n + 1], base))
      BY <3>1, <1>2
    <3>3. f[n + 1] = Append(f[n], EmitOne(ops[n + 1], base))
      BY <1>1, <1>3, <3>1
    <3> HIDE DEF P
    <3> QED BY <2>2, <3>1, <3>2, <3>3
  <2>3. N \in S
    <3> HIDE DEF S
    <3> QED BY <1>1, <2>1, <2>2, Induction
  <2> QED BY <2>3, <1>1
<1>4. g = rec(g)
  <2>1. ASSUME NEW n \in 0 .. N PROVE g[n] = rec(g)[n]
    <3>1. CASE n = 0
      BY <1>1, <3>1
    <3>2. CASE n # 0
      <4>1. n \in 1 .. N /\ n - 1 \in 0 .. N
        BY <3>2, <1>1
      <4>2. g[n] = P(n) /\ g[n-1] = P(n - 1)
        BY <4>1
      <4>3. rec(g)[n] = Append(g[n-1], EmitOne(ops[n], base))
        BY <4>1, <1>1
      <4> HIDE DEF P, g, rec
      <4> QED BY <4>1, <4>2, <4>3, <1>2
    <3> QED BY <3>1, <3>2
  <2>2. g = [n \in 0 .. N |-> g[n]] /\ rec(g) = [n \in 0 .. N |-> rec(g)[n]]
    OBVIOUS
  <2> HIDE DEF g, rec
  <2> QED BY <2>1, <2>2
<1>5. (CHOOSE f : f = rec(f)) = rec(CHOOSE f : f = rec(f))
  BY <1>4, Zenon
<1>6. EmitShuffle(ops, base) = (CHOOSE f : f = rec(f))[N]
  BY DEF EmitShuffle
<1> HIDE DEF rec, P
<1>7. EmitShuffle(ops, base) = P(N)
  BY <1>3, <1>5, <1>6
<1> QED BY <1>7 DEF P

(* What plan_shuffle plans for a target that is not empty: n pushes, each a *)
(* copy of a cell that is there or a load, and m sinks.                     *)
Planned(plan, m, n) ==
    /\ IsList(plan) /\ Len(plan) = n + 2 * m
    /\ \A i \in 1 .. n : \/ \E p \in 1 .. m + i - 1 : plan[i] = Dup(p)
                         \/ \E s : plan[i] = MLoad(s)
    /\ \A i \in 1 .. 2 * m : plan[n + i] = IF i % 2 = 1 THEN Swap(n) ELSE Pop

(* plan_shuffle plans exactly that.                                         *)
LEMMA PlanIs ==
    ASSUME NEW S, NEW current \in Seq(S), NEW target \in Seq(S),
           current # target, Len(target) # 0,
           NEW plan, plan = PlanShuffle(current, target)
    PROVE  Planned(plan, Len(current), Len(target))
<1> DEFINE m == Len(current)
           n == Len(target)
           Source(j) == target[((j + n - (m % n)) % n) + 1]
           sim(i) == [k \in 1 .. i - 1 |-> Source(n - i + k)] \o current
           pos(i) == PositionOf(sim(i), Source(n - i))
           PushOf(i) == IF pos(i) > 0 THEN Dup(pos(i)) ELSE MLoad(Source(n - i))
           p == [i \in 1 .. n |-> PushOf(i)]
           r == [i \in 1 .. 2 * m |-> IF i % 2 = 1 THEN Swap(n) ELSE Pop]
<1>1. m \in Nat /\ n \in Nat /\ n # 0
  OBVIOUS
<1>2. plan = p \o r
  BY DEF PlanShuffle
<1>3. ASSUME NEW i \in 1 .. n
      PROVE  (\E x \in 1 .. m + i - 1 : PushOf(i) = Dup(x)) \/ (\E s : PushOf(i) = MLoad(s))
  <2> DEFINE V == {Source(n - i + k) : k \in 1 .. i - 1} \cup {current[k] : k \in 1 .. m}
             l == [k \in 1 .. i - 1 |-> Source(n - i + k)]
  <2>1. l \in Seq(V) /\ Len(l) = i - 1
    <3> HIDE DEF Source
    <3>1. i - 1 \in Nat /\ \A k \in 1 .. i - 1 : Source(n - i + k) \in V
      BY <1>1
    <3> HIDE DEF V
    <3> QED BY <3>1
  <2>2. current \in Seq(V)
    <3>1. \A k \in 1 .. m : current[k] \in V
      OBVIOUS
    <3> HIDE DEF V
    <3> QED BY <3>1
  <2> HIDE DEF l, V, Source
  <2>3. Len(l \o current) = m + i - 1 /\ m + i - 1 \in Nat
    BY <1>1, <2>1, <2>2
  <2>4. sim(i) = l \o current
    BY DEF l
  <2> HIDE DEF sim
  <2>5. pos(i) \in 0 .. m + i - 1
    BY <2>3, <2>4, PositionBounds
  <2> HIDE DEF pos
  <2>6. CASE pos(i) > 0
    BY <2>5, <2>6, <1>1
  <2>7. CASE ~ pos(i) > 0
    BY <2>7
  <2> QED BY <2>6, <2>7
<1> HIDE DEF PushOf
<1> DEFINE V == {PushOf(i) : i \in 1 .. n} \cup {Swap(n), Pop}
<1>4. p \in Seq(V) /\ Len(p) = n /\ r \in Seq(V) /\ Len(r) = 2 * m
  BY <1>1
<1>5. IsList(plan) /\ Len(plan) = n + 2 * m
  <2> HIDE DEF p, r, V
  <2>1. plan \in Seq(V) /\ Len(plan) = n + 2 * m
    <3> HIDE DEF n, m
    <3> QED BY <1>1, <1>2, <1>4, ConcatProperties
  <2> QED BY <2>1 DEF IsList
<1>6. ASSUME NEW i \in 1 .. n PROVE plan[i] = PushOf(i)
  <2>1. p[i] = PushOf(i)
    OBVIOUS
  <2> HIDE DEF p, r, V
  <2> QED BY <1>1, <1>2, <1>4, <2>1
<1>7. ASSUME NEW i \in 1 .. 2 * m PROVE plan[n + i] = IF i % 2 = 1 THEN Swap(n) ELSE Pop
  <2>1. r[i] = IF i % 2 = 1 THEN Swap(n) ELSE Pop
    OBVIOUS
  <2> HIDE DEF p, r, V
  <2>2. plan[n + i] = r[i]
    BY <1>1, <1>2, <1>4
  <2> QED BY <2>1, <2>2
<1> HIDE DEF p, r, V
<1> QED BY <1>3, <1>5, <1>6, <1>7 DEF Planned

(* A shuffle none of whose copies is out of reach turns the cells of one    *)
(* layout into those of the other.                                          *)
LEMMA ShuffleLifts ==
    ASSUME NEW S, NEW current \in Seq(S), NEW target \in Seq(S), Reaches(current, target),
           NEW base, NEW d \in Nat
    PROVE  /\ IsCode(Shuffle(current, target, base))
           /\ Lifts(Shuffle(current, target, base), d, Len(current), Len(target))
<1> DEFINE m == Len(current)
           n == Len(target)
           plan == PlanShuffle(current, target)
           ops == Shuffle(current, target, base)
<1>1. m \in Nat /\ n \in Nat
  OBVIOUS
<1>2. ASSUME IsList(plan)
      PROVE  /\ IsList(ops) /\ Len(ops) = Len(plan)
             /\ \A i \in 1 .. Len(plan) : ops[i] = EmitOne(plan[i], base)
  <2>1. ops = [i \in 1 .. Len(plan) |-> EmitOne(plan[i], base)]
    <3> HIDE DEF plan
    <3>1. EmitShuffle(plan, base) = [i \in 1 .. Len(plan) |-> EmitOne(plan[i], base)]
      BY <1>2, EmitAll DEF Reaches, plan
    <3> QED BY <3>1 DEF Shuffle, plan
  <2> HIDE DEF plan, ops
  <2> QED BY <1>2, <2>1 DEF IsList
<1>3. ASSUME current = target PROVE IsList(ops) /\ Lifts(ops, d, m, n)
  <2>1. plan = <<>>
    BY <1>3 DEF PlanShuffle
  <2>2. IsList(plan) /\ Len(plan) = 0
    BY <2>1 DEF IsList
  <2> DEFINE h == [i \in 0 .. 0 |-> m]
  <2>3. IsList(ops) /\ Len(ops) = 0
    BY <1>2, <2>2
  <2>4. Lifts(ops, d, h[0], h[Len(ops)])
    <3> HIDE DEF ops
    <3>1. \A i \in 1 .. Len(ops) : Moves(ops[i], d, h[i-1], h[i])
      BY <2>3
    <3> HIDE DEF h
    <3> QED BY <2>3, <3>1, Heights
  <2>5. h[0] = m /\ h[Len(ops)] = n
    BY <2>3, <1>3
  <2> QED BY <2>3, <2>4, <2>5
<1>4. ASSUME current # target, n = 0 PROVE IsList(ops) /\ Lifts(ops, d, m, n)
  <2>1. plan = [i \in 1 .. m |-> Pop]
    BY <1>4 DEF PlanShuffle
  <2>2. IsList(plan) /\ Len(plan) = m
    BY <2>1, <1>1 DEF IsList
  <2> DEFINE h == [i \in 0 .. m |-> m - i]
  <2>3. IsList(ops) /\ Len(ops) = m
    BY <1>2, <2>2
  <2>4. ASSUME NEW i \in 1 .. m PROVE Moves(ops[i], d, h[i-1], h[i])
    <3>1. ops[i] = EmitOne(Pop, base)
      BY <1>2, <2>1, <2>2
    <3>2. ops[i] = Pop
      BY <3>1 DEF EmitOne, Pop
    <3>3. h[i-1] = m - (i - 1) /\ h[i] = m - i
      BY <1>1
    <3> HIDE DEF h, ops
    <3> QED BY <1>1, <3>2, <3>3 DEF Moves, Pop
  <2>5. Lifts(ops, d, h[0], h[Len(ops)])
    <3> HIDE DEF ops, h
    <3> QED BY <2>3, <2>4, Heights
  <2>6. h[0] = m /\ h[Len(ops)] = n
    BY <2>3, <1>1, <1>4
  <2> QED BY <2>3, <2>5, <2>6
<1>5. ASSUME current # target, n # 0 PROVE IsList(ops) /\ Lifts(ops, d, m, n)
  <2>1. /\ IsList(plan) /\ Len(plan) = n + 2 * m
        /\ \A i \in 1 .. n : \/ \E p \in 1 .. m + i - 1 : plan[i] = Dup(p)
                             \/ \E s : plan[i] = MLoad(s)
        /\ \A i \in 1 .. 2 * m : plan[n + i] = IF i % 2 = 1 THEN Swap(n) ELSE Pop
    <3>1. plan = PlanShuffle(current, target)
      OBVIOUS
    <3>2. Planned(plan, m, n)
      <4> HIDE DEF plan
      <4> QED BY <1>5, <3>1, PlanIs
    <3> QED BY <3>2 DEF Planned
  <2> DEFINE h == [i \in 0 .. n + 2 * m |-> IF i <= n THEN m + i ELSE m + n - ((i - n) \div 2)]
  <2>2. IsList(ops) /\ Len(ops) = n + 2 * m /\ \A i \in 1 .. n + 2 * m : ops[i] = EmitOne(plan[i], base)
    BY <1>2, <2>1
  <2> HIDE DEF ops, plan
  <2>3. ASSUME NEW i \in 1 .. n + 2 * m PROVE Moves(ops[i], d, h[i-1], h[i])
    <3>1. i - 1 \in 0 .. n + 2 * m /\ i \in 0 .. n + 2 * m
      BY <1>1
    <3>2. CASE i <= n
      <4>1. h[i-1] = m + i - 1 /\ h[i] = m + i
        BY <1>1, <3>1, <3>2
      <4> HIDE DEF h
      <4>2. CASE \E p \in 1 .. m + i - 1 : plan[i] = Dup(p)
        <5>1. PICK p \in 1 .. m + i - 1 : plan[i] = Dup(p)
          BY <4>2
        <5>2. ops[i] = Dup(p)
          BY <2>2, <5>1 DEF EmitOne, Dup
        <5>3. p \in 1 .. h[i-1] + d /\ h[i] = h[i-1] + 1
          BY <1>1, <4>1, <5>1
        <5> QED BY <5>2, <5>3 DEF Moves, Dup
      <4>3. CASE \E s : plan[i] = MLoad(s)
        <5>1. PICK s : plan[i] = MLoad(s)
          BY <4>3
        <5>2. ops[i] = MLoad(base + s)
          BY <2>2, <5>1 DEF EmitOne, MLoad
        <5>3. h[i] = h[i-1] + 1
          BY <1>1, <4>1
        <5> QED BY <5>2, <5>3 DEF Moves, MLoad
      <4>4. i \in 1 .. n
        BY <3>2, <1>1
      <4> QED BY <2>1, <4>2, <4>3, <4>4
    <3>3. CASE i > n
      <4> DEFINE j == i - n
      <4>1. j \in 1 .. 2 * m /\ n + j = i
        BY <1>1, <3>3
      <4>2. plan[i] = IF j % 2 = 1 THEN Swap(n) ELSE Pop
        BY <2>1, <4>1
      <4>3. h[i] = m + n - (j \div 2)
        <5>1. ~ (i <= n)
          BY <3>3, <1>1
        <5> QED BY <3>1, <5>1
      <4>4. h[i-1] = m + n - ((j - 1) \div 2)
        <5>1. CASE i - 1 = n
          BY <5>1, <3>1, <1>1
        <5>2. CASE i - 1 # n
          <6>1. ~ (i - 1 <= n) /\ (i - 1) - n = j - 1
            BY <5>2, <3>3, <1>1
          <6> QED BY <6>1, <3>1
        <5> QED BY <5>1, <5>2
      <4> HIDE DEF h, j
      <4>5. CASE j % 2 = 1
        <5>1. j \div 2 = (j - 1) \div 2 /\ (j - 1) \div 2 <= m - 1 /\ j \div 2 \in Nat
          BY <1>1, <4>1, <4>5
        <5>2. h[i] = h[i-1] /\ n \in 1 .. h[i-1] - 1
          BY <1>1, <1>5, <4>3, <4>4, <5>1
        <5>3. ops[i] = SwapOrPanic(n)
          BY <2>2, <4>2, <4>5 DEF EmitOne, Swap
        <5> QED BY <5>2, <5>3 DEF Moves, SwapOrPanic, Swap
      <4>6. CASE j % 2 # 1
        <5>1. j \div 2 = ((j - 1) \div 2) + 1 /\ j \div 2 <= m /\ j \div 2 \in Nat /\ (j - 1) \div 2 \in Nat
          BY <1>1, <4>1, <4>6
        <5>2. h[i] = h[i-1] - 1 /\ h[i-1] >= 1
          BY <1>1, <1>5, <4>3, <4>4, <5>1
        <5>3. ops[i] = Pop
          BY <2>2, <4>2, <4>6 DEF EmitOne, Pop
        <5> QED BY <5>2, <5>3 DEF Moves, Pop
      <4> QED BY <4>5, <4>6
    <3> QED BY <3>2, <3>3, <1>1
  <2>4. Lifts(ops, d, h[0], h[Len(ops)])
    <3> HIDE DEF h
    <3> QED BY <2>2, <2>3, Heights
  <2>5. h[0] = m /\ h[Len(ops)] = n
    <3>1. h[0] = m
      BY <1>1
    <3>2. h[n + 2 * m] = n
      BY <1>1
    <3> QED BY <2>2, <3>1, <3>2
  <2> QED BY <2>2, <2>4, <2>5 DEF ops
<1>6. IsList(ops) /\ Lifts(ops, d, m, n)
  BY <1>3, <1>4, <1>5
<1>7. IsList(plan)
  <2>1. CASE current = target
    BY <2>1 DEF PlanShuffle, IsList
  <2>2. CASE current # target /\ n = 0
    BY <1>1, <2>2 DEF PlanShuffle, IsList
  <2>3. CASE current # target /\ n # 0
    <3>1. plan = PlanShuffle(current, target)
      OBVIOUS
    <3>2. Planned(plan, m, n)
      <4> HIDE DEF plan
      <4> QED BY <2>3, <3>1, PlanIs
    <3> QED BY <3>2 DEF Planned
  <2> QED BY <2>1, <2>2, <2>3
<1>8. IsCode(ops)
  <2>1. ops = [i \in 1 .. Len(plan) |-> EmitOne(plan[i], base)]
    <3> HIDE DEF plan
    <3>1. EmitShuffle(plan, base) = [i \in 1 .. Len(plan) |-> EmitOne(plan[i], base)]
      BY <1>7, EmitAll DEF Reaches, plan
    <3> QED BY <3>1 DEF Shuffle, plan
  <2>2. Len(plan) \in Nat
    BY <1>7 DEF IsList
  <2> HIDE DEF ops, plan
  <2>3. ops \in Seq({EmitOne(plan[i], base) : i \in 1 .. Len(plan)})
    BY <2>1, <2>2
  <2> QED BY <2>3 DEF IsCode
<1> QED BY <1>6, <1>8

-----------------------------------------------------------------------------
(* The code of one point of a function.  Here c is what the emitters are    *)
(* handed, b a block, and every cell of the layout is a word.               *)
InUnit(p, c, b) == UnitTyped(p, c.unit) /\ b \in c.unit.cfg.blocks
Cells(c, b, bs) == Len(bs) + Len(c.unit.entry_layout[b])

(* What UnitTyped says of block b.                                          *)
LEMMA UnitFacts ==
    ASSUME NEW p, NEW c, NEW b, InUnit(p, c, b)
    PROVE  /\ c.unit.entry_layout[b] \in Seq(Slot)
           /\ IsList(c.unit.cfg.code[b])
           /\ \A i \in DOMAIN c.unit.cfg.code[b] : InstTyped(p, c.unit.cfg.code[b][i])
           /\ TermTyped(c.unit.cfg, c.unit.cfg.term[b])
BY DEF InUnit, UnitTyped

(* push_operand pushes one word.                                            *)
LEMMA PushMoves ==
    ASSUME NEW p, NEW c, NEW b, InUnit(p, c, b), NEW bs \in Seq(Slot),
           NEW x, x.kind = "const" => x.val \in Word, NEW extra \in Nat,
           NEW d \in Nat, NEW a \in Nat, extra + Cells(c, b, bs) <= a + d
    PROVE  Moves(PushOperand(c, b, bs, x, extra), d, a, a + 1)
<1> DEFINE layout == c.unit.entry_layout[b]
           i == PositionOf(bs, x.val)
           e == PositionOf(layout, x.val)
           o == PushOperand(c, b, bs, x, extra)
<1>1. Len(bs) \in Nat /\ Len(layout) \in Nat /\ extra + (Len(bs) + Len(layout)) <= a + d
  BY UnitFacts DEF Cells
<1>2. i \in 0 .. Len(bs) /\ e \in 0 .. Len(layout)
  BY <1>1, PositionBounds
<1>3. ASSUME NEW n \in 1 .. a + d PROVE Moves(DupOrPanic(n), d, a, a + 1)
  BY DEF DupOrPanic, Moves, Dup
<1> HIDE DEF layout, i, e
<1>4. CASE x.kind = "const"
  <2>1. o = PushWord(x.val)
    BY <1>4 DEF PushOperand
  <2> HIDE DEF o
  <2>2. WordCell(x.val) \in WordCells
    BY <1>4 DEF WordCell, WordCells
  <2>3. Moves(o, d, a, a + 1)
    BY <2>1, <2>2 DEF PushWord, Moves
  <2> QED BY <2>3 DEF o
<1>5. CASE x.kind = "slot" /\ i > 0
  <2>1. o = DupOrPanic(i + extra)
    BY <1>5 DEF PushOperand, i
  <2>2. i + extra \in 1 .. a + d
    BY <1>1, <1>2, <1>5
  <2> QED BY <1>3, <2>1, <2>2
<1>6. CASE x.kind = "slot" /\ i = 0 /\ e > 0
  <2>1. o = DupOrPanic(Len(bs) + e + extra)
    BY <1>6 DEF PushOperand, i, e, layout
  <2>2. Len(bs) + e + extra \in 1 .. a + d
    BY <1>1, <1>2, <1>6
  <2> QED BY <1>3, <2>1, <2>2
<1>7. CASE x.kind # "const" /\ ~ (x.kind = "slot" /\ i > 0) /\ ~ (x.kind = "slot" /\ i = 0 /\ e > 0)
  <2>1. o = MLoad(Address(c, x.val))
    BY <1>7 DEF PushOperand, i, e, layout
  <2> HIDE DEF o
  <2>2. Moves(o, d, a, a + 1)
    BY <2>1 DEF MLoad, Moves
  <2> QED BY <2>2 DEF o
<1> QED BY <1>4, <1>5, <1>6, <1>7

(* Lists of one, two and three opcodes.                                     *)
LEMMA CodeOne == ASSUME NEW o PROVE IsCode(<<o>>)
<1>1. <<o>> \in Seq({o})
  OBVIOUS
<1> QED BY <1>1 DEF IsCode

(* Two of them.                                                             *)
LEMMA CodePair == ASSUME NEW x, NEW y PROVE <<x>> \o <<y>> = <<x, y>>
<1> DEFINE p == <<x>>
           r == <<y>>
           t == <<x, y>>
           V == {x, y}
<1>1. p \in Seq(V) /\ r \in Seq(V) /\ t \in Seq(V) /\ Len(p) = 1 /\ Len(r) = 1 /\ Len(t) = 2
  OBVIOUS
<1>2. p[1] = x /\ r[1] = y /\ t[1] = x /\ t[2] = y
  OBVIOUS
<1> HIDE DEF p, r, t, V
<1>3. p \o r \in Seq(V) /\ Len(p \o r) = 2 /\ (p \o r)[1] = x /\ (p \o r)[2] = y
  <2>1. /\ p \o r \in Seq(V) /\ Len(p \o r) = Len(p) + Len(r)
        /\ \A i \in 1 .. Len(p) + Len(r) : (p \o r)[i] = IF i <= Len(p) THEN p[i] ELSE r[i - Len(p)]
    BY <1>1, ConcatProperties
  <2>2. Len(p) + Len(r) = 2 /\ 1 \in 1 .. 2 /\ 2 \in 1 .. 2 /\ 1 <= Len(p) /\ ~ (2 <= Len(p)) /\ 2 - Len(p) = 1
    BY <1>1
  <2> QED BY <2>1, <2>2, <1>2
<1>4. \A i \in 1 .. 2 : (p \o r)[i] = t[i]
  BY <1>2, <1>3
<1>5. p \o r = t
  BY <1>1, <1>3, <1>4
<1> QED BY <1>5 DEF p, r, t

(* Three of them.                                                           *)
LEMMA CodeTriple == ASSUME NEW x, NEW y, NEW z PROVE <<x>> \o <<y, z>> = <<x, y, z>>
<1> DEFINE p == <<x>>
           r == <<y, z>>
           t == <<x, y, z>>
           V == {x, y, z}
<1>1. p \in Seq(V) /\ r \in Seq(V) /\ t \in Seq(V) /\ Len(p) = 1 /\ Len(r) = 2 /\ Len(t) = 3
  OBVIOUS
<1>2. p[1] = x /\ r[1] = y /\ r[2] = z /\ t[1] = x /\ t[2] = y /\ t[3] = z
  OBVIOUS
<1> HIDE DEF p, r, t, V
<1>3. /\ p \o r \in Seq(V) /\ Len(p \o r) = 3
      /\ (p \o r)[1] = x /\ (p \o r)[2] = y /\ (p \o r)[3] = z
  <2>1. /\ p \o r \in Seq(V) /\ Len(p \o r) = Len(p) + Len(r)
        /\ \A i \in 1 .. Len(p) + Len(r) : (p \o r)[i] = IF i <= Len(p) THEN p[i] ELSE r[i - Len(p)]
    BY <1>1, ConcatProperties
  <2>2. /\ Len(p) + Len(r) = 3 /\ 1 \in 1 .. 3 /\ 2 \in 1 .. 3 /\ 3 \in 1 .. 3
        /\ 1 <= Len(p) /\ ~ (2 <= Len(p)) /\ ~ (3 <= Len(p)) /\ 2 - Len(p) = 1 /\ 3 - Len(p) = 2
    BY <1>1
  <2> QED BY <2>1, <2>2, <1>2
<1>4. \A i \in 1 .. 3 : (p \o r)[i] = t[i]
  BY <1>2, <1>3
<1>5. p \o r = t
  BY <1>1, <1>3, <1>4
<1> QED BY <1>5 DEF p, r, t

(* What store_to_slot does to the stack and to block_stack.                 *)
LEMMA StoreLifts ==
    ASSUME NEW p, NEW c, NEW b, InUnit(p, c, b), NEW bs \in Seq(Slot), NEW s \in Slot
    PROVE  /\ IsCode(StoreToSlot(c, b, bs, s))
           /\ BlockStackAfter(c, b, bs, s) \in Seq(Slot)
           /\ Lifts(StoreToSlot(c, b, bs, s), 0, Cells(c, b, bs) + 1,
                    Cells(c, b, BlockStackAfter(c, b, bs, s)))
<1> DEFINE layout == c.unit.entry_layout[b]
           i == PositionOf(bs, s)
           e == PositionOf(layout, s)
           n == Cells(c, b, bs)
           ops == StoreToSlot(c, b, bs, s)
           after == BlockStackAfter(c, b, bs, s)
<1>1. /\ Len(bs) \in Nat /\ Len(layout) \in Nat /\ n = Len(bs) + Len(layout) /\ n \in Nat
  BY UnitFacts DEF Cells
<1>2. i \in 0 .. Len(bs) /\ e \in 0 .. Len(layout)
  BY <1>1, PositionBounds
<1>3. ASSUME NEW k \in 1 .. n PROVE IsCode(<<SwapOrPanic(k), Pop>>) /\ Lifts(<<SwapOrPanic(k), Pop>>, 0, n + 1, n)
  <2>1. Moves(SwapOrPanic(k), 0, n + 1, n + 1)
    BY <1>1 DEF SwapOrPanic, Swap, Moves
  <2>2. Moves(Pop, 0, n + 1, n)
    BY <1>1 DEF Pop, Moves
  <2>3. Lifts(<<SwapOrPanic(k)>>, 0, n + 1, n + 1) /\ Lifts(<<Pop>>, 0, n + 1, n)
    BY <2>1, <2>2, LiftsOne
  <2>4. IsCode(<<SwapOrPanic(k)>>) /\ IsCode(<<Pop>>)
    BY CodeOne
  <2>5. <<SwapOrPanic(k)>> \o <<Pop>> = <<SwapOrPanic(k), Pop>>
    BY CodePair
  <2> QED BY <2>3, <2>4, <2>5, LiftsConcat
<1>4. CASE c.unit.location[s] = Memory
  <2>1. ops = <<MStore(Address(c, s))>> /\ after = bs
    BY <1>4 DEF StoreToSlot, BlockStackAfter
  <2>2. Moves(MStore(Address(c, s)), 0, n + 1, n)
    BY <1>1 DEF MStore, Moves
  <2>3. Lifts(ops, 0, n + 1, n)
    BY <2>1, <2>2, LiftsOne
  <2>4. IsCode(ops)
    BY <2>1, CodeOne
  <2>5. Cells(c, b, after) = n
    BY <2>1
  <2> HIDE DEF ops, after, n
  <2> QED BY <2>1, <2>3, <2>4, <2>5 DEF ops, after, n
<1>5. CASE c.unit.location[s] # Memory /\ i > 0
  <2>1. ops = <<SwapOrPanic(i), Pop>> /\ after = bs
    BY <1>5, <1>2 DEF StoreToSlot, BlockStackAfter, Homes
  <2>2. i \in 1 .. n
    BY <1>1, <1>2, <1>5
  <2> QED BY <1>3, <2>1, <2>2
<1>6. CASE c.unit.location[s] # Memory /\ i = 0 /\ e > 0
  <2>1. ops = <<SwapOrPanic(Len(bs) + e), Pop>> /\ after = bs
    BY <1>6, <1>2 DEF StoreToSlot, BlockStackAfter, Homes
  <2>2. Len(bs) + e \in 1 .. n
    BY <1>1, <1>2, <1>6
  <2> QED BY <1>3, <2>1, <2>2
<1>7. CASE c.unit.location[s] # Memory /\ i = 0 /\ e = 0
  <2>1. ops = <<>> /\ after = <<s>> \o bs
    BY <1>7, <1>2 DEF StoreToSlot, BlockStackAfter, Homes
  <2>2. after \in Seq(Slot) /\ Len(after) = Len(bs) + 1
    BY <2>1
  <2>3. Cells(c, b, after) = n + 1
    <3>1. Cells(c, b, after) = Len(after) + Len(layout)
      BY DEF Cells
    <3> HIDE DEF after, layout, n
    <3> QED BY <1>1, <2>2, <3>1
  <2>4. IsCode(ops)
    BY <2>1 DEF IsCode
  <2> QED BY <2>1, <2>2, <2>3, <2>4, LiftsNothing
<1> QED BY <1>2, <1>4, <1>5, <1>6, <1>7

(* block_stack from one instruction to the next.                            *)
NextStack(c, b, bs, inst) ==
    IF inst.dest = {} THEN bs ELSE BlockStackAfter(c, b, bs, Destination(inst))

(* block_stack starts empty and changes with each destination.              *)
LEMMA BlockStacks ==
    ASSUME NEW p, NEW c, NEW b, InUnit(p, c, b)
    PROVE  LET code == c.unit.cfg.code[b]
           IN  /\ BlockStack(c, b, 1) = <<>>
               /\ \A i \in Points(c.unit.cfg, b) : BlockStack(c, b, i) \in Seq(Slot)
               /\ \A i \in DOMAIN code :
                     BlockStack(c, b, i + 1) = NextStack(c, b, BlockStack(c, b, i), code[i])
<1> DEFINE code == c.unit.cfg.code[b]
           N == Len(code)
           V == Seq(Slot)
           next(n, bs) == IF n \in 1 .. N THEN NextStack(c, b, bs, code[n]) ELSE bs
           step == [x \in Nat \X V |-> next(x[1], x[2])]
<1>1. N \in Nat /\ DOMAIN code = 1 .. N
  BY UnitFacts DEF IsList
<1>2. ASSUME NEW n \in 1 .. N PROVE code[n].dest = {} \/ Destination(code[n]) \in Slot
  <2>1. InstTyped(p, code[n])
    BY <1>1, UnitFacts
  <2>2. code[n].dest = {} \/ \E s \in Slot : code[n].dest = {s}
    BY <2>1, Zenon DEF InstTyped
  <2> QED BY <2>2 DEF Destination
<1>3. ASSUME NEW n \in Nat, NEW bs \in V PROVE next(n, bs) \in V
  BY <1>2, StoreLifts DEF NextStack
<1>4. step \in [Nat \X V -> V]
  BY <1>3
<1>5. <<>> \in V
  OBVIOUS
<1>6. PICK f : Counted(f, N, V, <<>>, step)
  <2> HIDE DEF step, V, N
  <2> QED BY <1>1, <1>4, <1>5, CountedExists
<1>7. /\ f \in [0 .. N -> V] /\ f[0] = <<>>
      /\ \A n \in 1 .. N : f[n] = NextStack(c, b, f[n-1], code[n])
  <2>1. f \in [0 .. N -> V] /\ f = [n \in 0 .. N |-> IF n = 0 THEN <<>> ELSE step[<<n, f[n-1]>>]]
    BY <1>6, Zenon DEF Counted
  <2>2. f[0] = <<>>
    <3>1. 0 \in 0 .. N
      BY <1>1
    <3> HIDE DEF step, V, N
    <3> QED BY <2>1, <3>1
  <2>3. ASSUME NEW n \in 1 .. N PROVE f[n] = NextStack(c, b, f[n-1], code[n])
    <3>1. n \in 0 .. N /\ n # 0 /\ n \in Nat /\ f[n-1] \in V
      <4>1. n \in 0 .. N /\ n # 0 /\ n \in Nat /\ n - 1 \in 0 .. N
        BY <1>1
      <4> HIDE DEF step, V, N
      <4> QED BY <2>1, <4>1
    <3>2. f[n] = step[<<n, f[n-1]>>]
      <4> HIDE DEF step
      <4> QED BY <2>1, <3>1
    <3>3. step[<<n, f[n-1]>>] = next(n, f[n-1])
      BY <3>1
    <3> QED BY <3>2, <3>3
  <2> QED BY <2>1, <2>2, <2>3, Zenon
<1>8. ASSUME NEW i \in 1 .. N + 1 PROVE BlockStack(c, b, i) = f[i-1]
  <2> DEFINE rec(h) == [n \in 0 .. i - 1 |->
                          IF n = 0 THEN <<>>
                          ELSE IF code[n].dest = {} THEN h[n-1]
                          ELSE BlockStackAfter(c, b, h[n-1], Destination(code[n]))]
             g == [n \in 0 .. i - 1 |-> f[n]]
  <2>1. g = rec(g)
    <3>1. ASSUME NEW n \in 0 .. i - 1 PROVE g[n] = rec(g)[n]
      <4>1. CASE n = 0
        BY <1>1, <1>7, <4>1
      <4>2. CASE n # 0
        <5>1. n \in 1 .. N /\ n - 1 \in 0 .. i - 1 /\ n \in 0 .. i - 1
          BY <1>1, <4>2
        <5>2. g[n-1] = f[n-1] /\ g[n] = f[n]
          BY <5>1
        <5>3. f[n] = NextStack(c, b, f[n-1], code[n])
          BY <1>7, <5>1
        <5>4. rec(g)[n] = NextStack(c, b, g[n-1], code[n])
          BY <5>1, <4>2 DEF NextStack
        <5> QED BY <5>2, <5>3, <5>4
      <4> QED BY <4>1, <4>2
    <3>2. g = [n \in 0 .. i - 1 |-> g[n]] /\ rec(g) = [n \in 0 .. i - 1 |-> rec(g)[n]]
      OBVIOUS
    <3> HIDE DEF g, rec
    <3> QED BY <3>1, <3>2
  <2>2. (CHOOSE h : h = rec(h)) = rec(CHOOSE h : h = rec(h))
    BY <2>1, Zenon
  <2>3. PICK h : h = rec(h) /\ BlockStack(c, b, i) = h[i-1]
    <3>1. BlockStack(c, b, i) = (CHOOSE h : h = rec(h))[i-1]
      BY DEF BlockStack
    <3> QED BY <2>2, <3>1, Zenon
  <2> DEFINE S == {n \in Nat : n <= i - 1 => h[n] = f[n]}
  <2>4. 0 \in S
    BY <2>3, <1>7
  <2>5. ASSUME NEW n \in Nat, n \in S PROVE n + 1 \in S
    <3> SUFFICES ASSUME n + 1 <= i - 1 PROVE h[n + 1] = f[n + 1]
      OBVIOUS
    <3>1. n + 1 \in 1 .. N /\ (n + 1) - 1 = n /\ n <= i - 1 /\ n + 1 \in 0 .. i - 1 /\ n + 1 # 0
      BY <1>1
    <3>2. h[n] = f[n]
      BY <2>5, <3>1
    <3>3. h[n + 1] = rec(h)[n + 1]
      BY <2>3, Zenon
    <3>4. rec(h)[n + 1] = NextStack(c, b, h[n], code[n + 1])
      BY <3>1 DEF NextStack
    <3>5. f[n + 1] = NextStack(c, b, f[n], code[n + 1])
      BY <1>7, <3>1
    <3> QED BY <3>2, <3>3, <3>4, <3>5, Zenon
  <2>6. i - 1 \in S
    <3> HIDE DEF S
    <3> QED BY <1>1, <2>4, <2>5, Induction
  <2> QED BY <2>3, <2>6, <1>1
<1>9. BlockStack(c, b, 1) = <<>>
  BY <1>1, <1>7, <1>8
<1>10. ASSUME NEW i \in Points(c.unit.cfg, b) PROVE BlockStack(c, b, i) \in Seq(Slot)
  <2>1. i \in 1 .. N + 1 /\ i - 1 \in 0 .. N
    BY <1>1 DEF Points
  <2> QED BY <2>1, <1>7, <1>8
<1>11. ASSUME NEW i \in DOMAIN code
       PROVE  BlockStack(c, b, i + 1) = NextStack(c, b, BlockStack(c, b, i), code[i])
  <2>1. i \in 1 .. N /\ i \in 1 .. N + 1 /\ i + 1 \in 1 .. N + 1 /\ (i + 1) - 1 = i
    BY <1>1
  <2>2. BlockStack(c, b, i + 1) = f[i] /\ BlockStack(c, b, i) = f[i-1]
    BY <2>1, <1>8
  <2> QED BY <2>1, <2>2, <1>7
<1> HIDE DEF step, next, V, N
<1> QED BY <1>9, <1>10, <1>11

-----------------------------------------------------------------------------
(* Two opcodes, and three. *)
LEMMA LiftsTwo ==
    ASSUME NEW x, NEW y, NEW d, NEW h, NEW j, NEW k, Moves(x, d, h, j), Moves(y, d, j, k)
    PROVE  IsCode(<<x, y>>) /\ Lifts(<<x, y>>, d, h, k)
<1>1. Lifts(<<x>>, d, h, j) /\ Lifts(<<y>>, d, j, k)
  BY LiftsOne
<1>2. IsCode(<<x>>) /\ IsCode(<<y>>)
  BY CodeOne
<1>3. IsCode(<<x>> \o <<y>>) /\ Lifts(<<x>> \o <<y>>, d, h, k)
  BY <1>1, <1>2, LiftsConcat
<1> QED BY <1>3, CodePair

(* And of three.                                                            *)
LEMMA LiftsThree ==
    ASSUME NEW x, NEW y, NEW z, NEW d, NEW h, NEW j, NEW k, NEW l,
           Moves(x, d, h, j), Moves(y, d, j, k), Moves(z, d, k, l)
    PROVE  IsCode(<<x, y, z>>) /\ Lifts(<<x, y, z>>, d, h, l)
<1> DEFINE ops == <<x, y, z>>
           f == [n \in 0 .. 3 |-> IF n = 0 THEN h ELSE IF n = 1 THEN j ELSE IF n = 2 THEN k ELSE l]
<1>1. IsList(ops) /\ Len(ops) = 3 /\ ops[1] = x /\ ops[2] = y /\ ops[3] = z
  BY DEF IsList
<1>2. f[0] = h /\ f[1] = j /\ f[2] = k /\ f[3] = l
  OBVIOUS
<1>3. ops \in Seq({x, y, z})
  OBVIOUS
<1> HIDE DEF ops, f
<1>4. ASSUME NEW n \in 1 .. Len(ops) PROVE Moves(ops[n], d, f[n-1], f[n])
  <2>1. n = 1 \/ n = 2 \/ n = 3
    BY <1>1
  <2> QED BY <2>1, <1>1, <1>2
<1>5. Lifts(ops, d, f[0], f[Len(ops)])
  BY <1>1, <1>4, Heights
<1>6. IsCode(ops)
  BY <1>3 DEF IsCode
<1> QED BY <1>1, <1>2, <1>5, <1>6 DEF ops

(* A binary operator.                                                       *)
LEMMA CodesLift ==
    ASSUME NEW ref \in DOMAIN BinaryCode, NEW d, NEW n \in Nat
    PROVE  IsCode(Codes(BinaryCode[ref])) /\ Lifts(Codes(BinaryCode[ref]), d, n + 2, n + 1)
<1> DEFINE names == BinaryCode[ref]
           ops == Codes(names)
<1>1. \/ Len(names) = 1 /\ DOMAIN names = 1 .. 1 /\ names[1] \in ArithOps
      \/ Len(names) = 2 /\ DOMAIN names = 1 .. 2 /\ names[1] \in ArithOps /\ names[2] = "ISZERO"
  BY DEF BinaryCode, ArithOps
<1> HIDE DEF names
<1>2. ASSUME NEW x \in ArithOps PROVE Moves(Plain(x), d, n + 2, n + 1)
  BY DEF Moves, Plain
<1>3. Moves(Plain("ISZERO"), d, n + 1, n + 1)
  BY DEF Moves, Plain
<1>4. CASE Len(names) = 1 /\ DOMAIN names = 1 .. 1 /\ names[1] \in ArithOps
  <2>1. ops = <<Plain(names[1])>>
    BY <1>4 DEF Codes
  <2> HIDE DEF ops
  <2>2. IsCode(ops) /\ Lifts(ops, d, n + 2, n + 1)
    BY <1>2, <1>4, <2>1, CodeOne, LiftsOne
  <2> QED BY <2>2 DEF ops, names
<1>5. CASE Len(names) = 2 /\ DOMAIN names = 1 .. 2 /\ names[1] \in ArithOps /\ names[2] = "ISZERO"
  <2>1. ops = <<Plain(names[1]), Plain(names[2])>>
    BY <1>5 DEF Codes
  <2> HIDE DEF ops
  <2>2. IsCode(ops) /\ Lifts(ops, d, n + 2, n + 1)
    BY <1>2, <1>3, <1>5, <2>1, LiftsTwo
  <2> QED BY <2>2 DEF ops, names
<1> QED BY <1>1, <1>4, <1>5

-----------------------------------------------------------------------------
(* The cells before point i, and the word an instruction leaves.            *)
Height(c, b, i) == Cells(c, b, BlockStack(c, b, i))
Yield(inst) == IF inst.dest = {} THEN 0 ELSE 1

(* The layout of a point, and its height.                                   *)
LEMMA Stacked ==
    ASSUME NEW p, NEW c, NEW b, InUnit(p, c, b), NEW i \in Points(c.unit.cfg, b)
    PROVE  /\ BlockStack(c, b, i) \in Seq(Slot) /\ Layout(c, b, i) \in Seq(Slot)
           /\ Height(c, b, i) \in Nat /\ Height(c, b, i) = Len(Layout(c, b, i))
<1>1. BlockStack(c, b, i) \in Seq(Slot) /\ c.unit.entry_layout[b] \in Seq(Slot)
  BY BlockStacks, UnitFacts
<1> QED BY <1>1 DEF Layout, Height, Cells

(* translate_instruction pushes its result and nothing else.                *)
LEMMA OperationLifts ==
    ASSUME NEW p, NEW c, NEW b, InUnit(p, c, b),
           NEW i \in DOMAIN c.unit.cfg.code[b], c.unit.cfg.code[b][i].op # "Call"
    PROVE  /\ IsCode(Operation(c, b, i))
           /\ Lifts(Operation(c, b, i), 0, Height(c, b, i), Height(c, b, i) + Yield(c.unit.cfg.code[b][i]))
<1> DEFINE inst == c.unit.cfg.code[b][i]
           bs == BlockStack(c, b, i)
           n == Height(c, b, i)
           ops == Operation(c, b, i)
           Goal == IsCode(ops) /\ Lifts(ops, 0, n, n + Yield(inst))
<1>1. i \in Points(c.unit.cfg, b)
  <2>1. IsList(c.unit.cfg.code[b])
    BY UnitFacts
  <2> QED BY <2>1 DEF IsList, Points
<1>2. bs \in Seq(Slot) /\ n \in Nat /\ n = Cells(c, b, bs)
  BY <1>1, Stacked DEF Height
<1>3. InstTyped(p, inst)
  BY UnitFacts
<1>4. ASSUME NEW x, x.kind = "const" => x.val \in Word, NEW e \in Nat
      PROVE  Moves(PushOperand(c, b, bs, x, e), 0, n + e, n + e + 1)
  <2>1. e + Cells(c, b, bs) <= n + e + 0 /\ n + e \in Nat /\ 0 \in Nat
    BY <1>2
  <2> HIDE DEF bs, n
  <2> QED BY <2>1, <1>2, <1>4, PushMoves
<1>5. ASSUME NEW m \in Nat, Operands(inst.args, m), NEW k \in 1 .. m
      PROVE  inst.args[k].kind = "const" => inst.args[k].val \in Word
  BY <1>5, Zenon DEF Operands, IsOperand
<1>6. ASSUME \E s \in Slot : inst.dest = {s} PROVE Yield(inst) = 1
  BY <1>6 DEF Yield
<1>7. ops = CASE inst.op = "Binary" -> BinaryOps(c, b, bs, inst)
              [] inst.op = "Unary" /\ inst.ref = "Negate" -> NegateOps(c, b, bs, inst)
              [] inst.op = "Unary" /\ inst.ref = "Not" ->
                    <<PushOperand(c, b, bs, inst.args[1], 0), Plain("ISZERO")>>
              [] inst.op = "Copy"   -> <<PushOperand(c, b, bs, inst.args[1], 0)>>
              [] inst.op = "SLoad"  -> <<[op |-> "SLOAD", key |-> inst.ref]>>
              [] inst.op = "SStore" -> <<PushOperand(c, b, bs, inst.args[1], 0),
                                         [op |-> "SSTORE", key |-> inst.ref]>>
  BY DEF Operation
<1> HIDE DEF inst, bs, n, ops
<1> DEFINE P(k, e) == PushOperand(c, b, bs, inst.args[k], e)
<1>8. ASSUME inst.op = "Binary" PROVE Goal
  <2>1. inst.ref \in DOMAIN BinaryCode /\ Operands(inst.args, 2) /\ Yield(inst) = 1
    BY <1>3, <1>6, <1>8 DEF InstTyped
  <2>2. Moves(P(2, 0), 0, n, n + 1) /\ Moves(P(1, 1), 0, n + 1, n + 2)
    <3>1. inst.args[1].kind = "const" => inst.args[1].val \in Word
      BY <2>1, <1>5
    <3>2. inst.args[2].kind = "const" => inst.args[2].val \in Word
      BY <2>1, <1>5
    <3>3. Moves(P(2, 0), 0, n + 0, n + 0 + 1) /\ Moves(P(1, 1), 0, n + 1, n + 1 + 1)
      BY <3>1, <3>2, <1>4
    <3> QED BY <3>3, <1>2
  <2>3. ops = <<P(2, 0), P(1, 1)>> \o Codes(BinaryCode[inst.ref])
    BY <1>7, <1>8 DEF BinaryOps
  <2> HIDE DEF P
  <2>4. IsCode(<<P(2, 0), P(1, 1)>>) /\ Lifts(<<P(2, 0), P(1, 1)>>, 0, n, n + 2)
    BY <2>2, LiftsTwo
  <2>5. IsCode(Codes(BinaryCode[inst.ref])) /\ Lifts(Codes(BinaryCode[inst.ref]), 0, n + 2, n + 1)
    BY <2>1, <1>2, CodesLift
  <2>6. IsCode(ops) /\ Lifts(ops, 0, n, n + 1)
    BY <2>3, <2>4, <2>5, LiftsConcat
  <2> QED BY <2>1, <2>6
<1>9. ASSUME inst.op = "Unary" /\ inst.ref = "Negate" PROVE Goal
  <2>1. Operands(inst.args, 1) /\ Yield(inst) = 1
    BY <1>3, <1>6, <1>9 DEF InstTyped
  <2>2. Moves(P(1, 1), 0, n + 1, n + 2)
    <3>1. inst.args[1].kind = "const" => inst.args[1].val \in Word
      BY <2>1, <1>5
    <3>2. Moves(P(1, 1), 0, n + 1, n + 1 + 1)
      BY <3>1, <1>4
    <3> QED BY <3>2, <1>2
  <2>3. ops = <<PushWord(0), P(1, 1), Plain("SUB")>>
    BY <1>7, <1>9 DEF NegateOps
  <2>4. Moves(PushWord(0), 0, n, n + 1)
    <3>1. WordCell(0) \in WordCells
      BY WordCountIs DEF WordCell, WordCells, Word
    <3> QED BY <3>1 DEF PushWord, Moves
  <2>5. Moves(Plain("SUB"), 0, n + 2, n + 1)
    BY <1>2 DEF Plain, Moves, ArithOps
  <2> HIDE DEF P
  <2>6. IsCode(ops) /\ Lifts(ops, 0, n, n + 1)
    BY <2>2, <2>3, <2>4, <2>5, LiftsThree
  <2> QED BY <2>1, <2>6
<1>10. ASSUME Operands(inst.args, 1) PROVE Moves(P(1, 0), 0, n, n + 1)
  <2>1. inst.args[1].kind = "const" => inst.args[1].val \in Word
    BY <1>10, <1>5
  <2>2. Moves(P(1, 0), 0, n + 0, n + 0 + 1)
    BY <2>1, <1>4
  <2> QED BY <2>2, <1>2
<1>11. ASSUME inst.op = "Unary" /\ inst.ref = "Not" PROVE Goal
  <2>1. Operands(inst.args, 1) /\ Yield(inst) = 1
    BY <1>3, <1>6, <1>11 DEF InstTyped
  <2>2. ops = <<P(1, 0), Plain("ISZERO")>>
    BY <1>7, <1>11
  <2>3. Moves(Plain("ISZERO"), 0, n + 1, n + 1)
    BY <1>2 DEF Plain, Moves
  <2> HIDE DEF P
  <2>4. IsCode(ops) /\ Lifts(ops, 0, n, n + 1)
    BY <2>1, <2>2, <2>3, <1>10, LiftsTwo
  <2> QED BY <2>1, <2>4
<1>12. ASSUME inst.op = "Copy" PROVE Goal
  <2>1. Operands(inst.args, 1) /\ Yield(inst) = 1
    BY <1>3, <1>6, <1>12 DEF InstTyped
  <2>2. ops = <<P(1, 0)>>
    BY <1>7, <1>12
  <2> HIDE DEF P
  <2>3. IsCode(ops) /\ Lifts(ops, 0, n, n + 1)
    BY <2>1, <2>2, <1>10, LiftsOne, CodeOne
  <2> QED BY <2>1, <2>3
<1>13. ASSUME inst.op = "SLoad" PROVE Goal
  <2>1. inst.ref \in Keys /\ Yield(inst) = 1
    BY <1>3, <1>6, <1>13 DEF InstTyped
  <2> DEFINE o == [op |-> "SLOAD", key |-> inst.ref]
  <2>2. ops = <<o>>
    BY <1>7, <1>13
  <2>3. Moves(o, 0, n, n + 1)
    BY <2>1 DEF Moves
  <2> HIDE DEF o
  <2>4. IsCode(ops) /\ Lifts(ops, 0, n, n + 1)
    BY <2>2, <2>3, LiftsOne, CodeOne
  <2> QED BY <2>1, <2>4
<1>14. ASSUME inst.op = "SStore" PROVE Goal
  <2>1. inst.ref \in Keys /\ Operands(inst.args, 1) /\ Yield(inst) = 0
    BY <1>3, <1>14 DEF InstTyped, Yield
  <2> DEFINE o == [op |-> "SSTORE", key |-> inst.ref]
  <2>2. ops = <<P(1, 0), o>>
    BY <1>7, <1>14
  <2>3. Moves(o, 0, n + 1, n)
    BY <2>1, <1>2 DEF Moves
  <2> HIDE DEF o, P
  <2>4. IsCode(ops) /\ Lifts(ops, 0, n, n)
    BY <2>1, <2>2, <2>3, <1>10, LiftsTwo
  <2> QED BY <2>1, <2>4, <1>2
<1>15. \/ inst.op = "Binary"
       \/ inst.op = "Unary" /\ inst.ref = "Negate"
       \/ inst.op = "Unary" /\ inst.ref = "Not"
       \/ inst.op \in {"Copy", "SLoad", "SStore"}
  <2>1. inst.op # "Call"
    BY DEF inst
  <2> QED BY <2>1, <1>3 DEF InstTyped
<1>16. Goal
  BY <1>8, <1>9, <1>11, <1>12, <1>13, <1>14, <1>15
<1> QED BY <1>16 DEF inst, ops, n

(* store_to_slot turns the result into the block_stack of the next point.   *)
LEMMA StoreResultLifts ==
    ASSUME NEW p, NEW c, NEW b, InUnit(p, c, b), NEW i \in DOMAIN c.unit.cfg.code[b]
    PROVE  /\ IsCode(StoreResult(c, b, i))
           /\ Lifts(StoreResult(c, b, i), 0, Height(c, b, i) + Yield(c.unit.cfg.code[b][i]),
                    Height(c, b, i + 1))
<1> DEFINE inst == c.unit.cfg.code[b][i]
           bs == BlockStack(c, b, i)
           ops == StoreResult(c, b, i)
<1>1. i \in Points(c.unit.cfg, b)
  <2>1. IsList(c.unit.cfg.code[b])
    BY UnitFacts
  <2> QED BY <2>1 DEF IsList, Points
<1>2. bs \in Seq(Slot) /\ Height(c, b, i) \in Nat /\ Height(c, b, i) = Cells(c, b, bs)
  BY <1>1, Stacked DEF Height
<1>3. Height(c, b, i + 1) = Cells(c, b, NextStack(c, b, bs, inst))
  BY BlockStacks DEF Height
<1>4. CASE inst.dest = {}
  <2>1. ops = <<>> /\ Yield(inst) = 0 /\ NextStack(c, b, bs, inst) = bs
    BY <1>4 DEF StoreResult, Yield, NextStack
  <2>2. IsCode(ops)
    BY <2>1 DEF IsCode
  <2>3. Height(c, b, i) + Yield(inst) = Height(c, b, i) /\ Height(c, b, i + 1) = Height(c, b, i)
    BY <1>2, <1>3, <2>1
  <2> HIDE DEF ops, inst
  <2>4. Lifts(ops, 0, Height(c, b, i) + Yield(inst), Height(c, b, i + 1))
    BY <2>1, <2>3, LiftsNothing
  <2> QED BY <2>2, <2>4 DEF ops, inst
<1>5. CASE inst.dest # {}
  <2>1. Destination(inst) \in Slot
    <3>1. InstTyped(p, inst)
      BY UnitFacts
    <3>2. \E s \in Slot : inst.dest = {s}
      BY <1>5, <3>1, Zenon DEF InstTyped
    <3> QED BY <3>2 DEF Destination
  <2>2. /\ ops = StoreToSlot(c, b, bs, Destination(inst)) /\ Yield(inst) = 1
        /\ NextStack(c, b, bs, inst) = BlockStackAfter(c, b, bs, Destination(inst))
    BY <1>5 DEF StoreResult, Yield, NextStack
  <2> DEFINE s == Destination(inst)
  <2> HIDE DEF ops, inst, bs, s
  <2>3. /\ IsCode(StoreToSlot(c, b, bs, s))
        /\ Lifts(StoreToSlot(c, b, bs, s), 0, Cells(c, b, bs) + 1, Cells(c, b, BlockStackAfter(c, b, bs, s)))
    BY <2>1, <1>2, StoreLifts DEF s
  <2>4. IsCode(ops) /\ Lifts(ops, 0, Height(c, b, i) + Yield(inst), Height(c, b, i + 1))
    BY <2>2, <2>3, <1>2, <1>3 DEF s
  <2> QED BY <2>4 DEF ops, inst
<1> QED BY <1>4, <1>5

(* One instruction, from one point to the next.                             *)
LEMMA ComputeLifts ==
    ASSUME NEW p, NEW c, NEW b, InUnit(p, c, b),
           NEW i \in DOMAIN c.unit.cfg.code[b], c.unit.cfg.code[b][i].op # "Call"
    PROVE  Lifts(Operation(c, b, i) \o StoreResult(c, b, i), 0, Height(c, b, i), Height(c, b, i + 1))
BY OperationLifts, StoreResultLifts, LiftsConcat

(* The arguments of a call: one word each, on top of the caller's frame.    *)
Arguments(c, b, i) ==
    LET args == c.unit.cfg.code[b][i].args
        bs == BlockStack(c, b, i)
    IN  [k \in DOMAIN args |-> PushOperand(c, b, bs, args[k], k - 1)]

(* The arguments of a call are n words on top of the caller's frame, which  *)
(* they only copy.                                                          *)
LEMMA ArgumentsLift ==
    ASSUME NEW p, NEW c, NEW b, InUnit(p, c, b),
           NEW i \in DOMAIN c.unit.cfg.code[b], NEW n \in Nat, Operands(c.unit.cfg.code[b][i].args, n)
    PROVE  IsCode(Arguments(c, b, i)) /\ Lifts(Arguments(c, b, i), Height(c, b, i), 0, n)
<1> DEFINE args == c.unit.cfg.code[b][i].args
           bs == BlockStack(c, b, i)
           ops == Arguments(c, b, i)
           d == Height(c, b, i)
           h == [k \in 0 .. n |-> k]
<1>1. i \in Points(c.unit.cfg, b)
  <2>1. IsList(c.unit.cfg.code[b])
    BY UnitFacts
  <2> QED BY <2>1 DEF IsList, Points
<1>2. bs \in Seq(Slot) /\ d \in Nat /\ d = Cells(c, b, bs)
  BY <1>1, Stacked DEF Height
<1>3. DOMAIN args = 1 .. n /\ \A k \in 1 .. n : args[k].kind = "const" => args[k].val \in Word
  BY Zenon DEF Operands, IsOperand, IsList
<1> HIDE DEF args, bs, d
<1>4. ops = [k \in 1 .. n |-> PushOperand(c, b, bs, args[k], k - 1)]
  BY <1>3, Zenon DEF Arguments, args, bs
<1>5. IsList(ops) /\ Len(ops) = n /\ \A k \in 1 .. n : ops[k] = PushOperand(c, b, bs, args[k], k - 1)
  BY <1>4 DEF IsList
<1>6. ops \in Seq({ops[k] : k \in 1 .. n})
  <2>1. ops = [k \in 1 .. n |-> ops[k]]
    BY <1>4
  <2> DEFINE V == {ops[k] : k \in 1 .. n}
  <2> HIDE DEF ops
  <2>2. \A k \in 1 .. n : ops[k] \in V
    OBVIOUS
  <2> HIDE DEF V
  <2>3. ops \in Seq(V)
    BY <2>1, <2>2
  <2> QED BY <2>3 DEF V
<1>7. IsCode(ops)
  BY <1>6 DEF IsCode
<1>8. \A k \in 0 .. n : h[k] = k
  OBVIOUS
<1> HIDE DEF h, ops
<1>9. ASSUME NEW k \in 1 .. Len(ops) PROVE Moves(ops[k], d, h[k-1], h[k])
  <2>1. k \in 1 .. n /\ k - 1 \in Nat /\ h[k-1] = k - 1 /\ h[k] = (k - 1) + 1
    BY <1>5, <1>8
  <2>2. (k - 1) + Cells(c, b, bs) <= (k - 1) + d
    BY <1>2, <2>1
  <2>3. Moves(PushOperand(c, b, bs, args[k], k - 1), d, k - 1, (k - 1) + 1)
    BY <1>2, <1>3, <2>1, <2>2, PushMoves
  <2> QED BY <2>1, <2>3, <1>5
<1>10. Lifts(ops, d, h[0], h[Len(ops)])
  BY <1>5, <1>9, Heights
<1>11. h[0] = 0 /\ h[Len(ops)] = n
  BY <1>5, <1>8
<1> QED BY <1>7, <1>10, <1>11 DEF ops, d

-----------------------------------------------------------------------------
(* Jumps. *)

(* A machine that jumps to l, with k words on top of q; or one the code     *)
(* stopped because it cannot be emitted.                                    *)
Jumped(m, l, q, k, Y) == IsMachine(m, Y) /\ ~ m.fault /\ m.jump = l /\ Holds(m.stack, q, k, Y)
Lands(m, l, q, k, Y, ops) == Jumped(m, l, q, k, Y) \/ (Faulted(m, Y) /\ Panics(ops))

(* Once it landed, it goes on.                                              *)
LEMMA LandedAtop ==
    ASSUME NEW m, NEW l, NEW q, NEW k, NEW Y, Jumped(m, l, q, k, Y) PROVE Atop(Landed(m), q, k, Y)
BY DEF Jumped, Atop, Landed, IsMachine

(* No cell under a machine need be a word.                                  *)
LEMMA FloorNothing ==
    ASSUME NEW m, NEW q, NEW k, NEW Y, Atop(m, q, k, Y) PROVE Floor(q, 0)
BY DEF Atop, Holds, Floor

(* A step of code, then more.                                               *)
LEMMA AfterCode ==
    ASSUME NEW p, NEW r, IsCode(p), IsCode(r), NEW a, NEW k, Lifts(p, 0, a, k),
           NEW m, NEW q, NEW Y, Atop(m, q, a, Y)
    PROVE  \/ Atop(Run(m, p), q, k, Y) /\ Run(m, p \o r) = Run(Run(m, p), r)
           \/ Faulted(Run(m, p \o r), Y) /\ Panics(p \o r)
<1>1. PICK S : p \in Seq(S) /\ r \in Seq(S) /\ p \o r \in Seq(S)
  BY CodeConcat
<1>2. Run(m, p \o r) = Run(Run(m, p), r)
  BY <1>1, RunConcat
<1>3. Ends(Run(m, p), q, k, Y, p)
  BY FloorNothing DEF Lifts
<1>4. CASE Atop(Run(m, p), q, k, Y)
  BY <1>2, <1>4
<1>5. CASE Faulted(Run(m, p), Y) /\ Panics(p)
  <2>1. Len(r) \in Nat
    BY <1>1
  <2>2. Run(m, p \o r) = Run(m, p)
    BY <1>2, <1>5, <2>1, RunStops DEF Faulted
  <2>3. ASSUME NEW i \in DOMAIN p PROVE i \in DOMAIN (p \o r) /\ (p \o r)[i] = p[i]
    BY <1>1
  <2>4. Panics(p \o r)
    BY <1>5, <2>3 DEF Panics
  <2> QED BY <1>5, <2>2, <2>4
<1> QED BY <1>3, <1>4, <1>5 DEF Ends

(* What cannot be emitted is in the one part or in the other.               *)
LEMMA PanicsConcat ==
    ASSUME NEW p, NEW r, IsCode(p), IsCode(r) PROVE Panics(p \o r) = (Panics(p) \/ Panics(r))
<1>1. PICK S : p \in Seq(S) /\ r \in Seq(S)
  BY CodeConcat
<1>2. ASSUME NEW i \in DOMAIN r PROVE Len(p) + i \in DOMAIN (p \o r) /\ (p \o r)[Len(p) + i] = r[i]
  BY <1>1
<1>3. ASSUME NEW i \in DOMAIN p PROVE i \in DOMAIN (p \o r) /\ (p \o r)[i] = p[i]
  BY <1>1
<1>4. ASSUME NEW i \in DOMAIN (p \o r)
      PROVE  \/ i \in DOMAIN p /\ (p \o r)[i] = p[i]
             \/ i - Len(p) \in DOMAIN r /\ (p \o r)[i] = r[i - Len(p)]
  BY <1>1
<1> QED BY <1>2, <1>3, <1>4 DEF Panics

(* Two opcodes are executed one after the other.                            *)
LEMMA RunPair ==
    ASSUME NEW m, NEW x, NEW y PROVE Run(m, <<x, y>>) = Exec(Exec(m, x), y)
<1> DEFINE p == <<x>>
           r == <<y>>
           V == {x, y}
<1>1. p \in Seq(V) /\ r \in Seq(V)
  OBVIOUS
<1>2. p \o r = <<x, y>>
  BY CodePair
<1>3. \A n : Run(n, p) = Exec(n, x) /\ Run(n, r) = Exec(n, y)
  BY RunOne
<1> HIDE DEF p, r, V
<1>4. Run(m, p \o r) = Run(Run(m, p), r)
  BY <1>1, RunConcat
<1> QED BY <1>2, <1>3, <1>4

(* A jump to a label that was pushed.                                       *)
LEMMA ExecGoto ==
    ASSUME NEW m, NEW q, NEW k, NEW Y, Atop(m, q, k, Y), NEW l \in Y
    PROVE  Jumped(Exec(m, GotoLabel(l)), l, q, k, Y)
<1>1. IsMachine(m, Y) /\ m.fault = FALSE /\ m.jump = <<>> /\ Holds(m.stack, q, k, Y) /\ Len(m.stack) \in Nat
  BY DEF Atop, Holds, IsMachine
<1>2. Exec(m, GotoLabel(l)) = [m EXCEPT !.jump = l]
  BY <1>1 DEF Exec, GotoLabel, Needs, ArithOps
<1> QED BY <1>1, <1>2 DEF Jumped, IsMachine

(* A conditional one, which may not be taken.                               *)
LEMMA ExecJumpI ==
    ASSUME NEW m, NEW q, NEW k, NEW Y, Atop(m, q, k, Y), NEW l \in Y, k >= 1
    PROVE  \/ Jumped(Exec(m, JumpI(l)), l, q, k - 1, Y)
           \/ Atop(Exec(m, JumpI(l)), q, k - 1, Y)
<1> DEFINE s == m.stack
           t == Tail(s)
<1>1. IsMachine(m, Y) /\ m.fault = FALSE /\ m.jump = <<>> /\ Holds(s, q, k, Y)
      /\ Len(s) \in Nat /\ Len(s) >= 1
  BY DEF Atop, Holds, IsMachine
<1>2. Holds(t, q, k - 1, Y) /\ t \in Seq(CellOf(Y))
  <2>1. Holds(t, q, k - 1, Y)
    BY <1>1, WordsPop
  <2> QED BY <2>1 DEF Holds
<1> DEFINE j == IF s[1].word = 0 THEN <<>> ELSE l
<1>3. Exec(m, JumpI(l)) = [m EXCEPT !.stack = t, !.jump = j]
  BY <1>1 DEF Exec, JumpI, Needs, ArithOps
<1>4. j = l \/ j = <<>>
  OBVIOUS
<1> HIDE DEF j, t, s
<1>5. CASE j = l
  BY <1>1, <1>2, <1>3, <1>5 DEF Jumped, IsMachine
<1>6. CASE j = <<>>
  BY <1>1, <1>2, <1>3, <1>6 DEF Atop, IsMachine
<1> QED BY <1>4, <1>5, <1>6

(* A jump to a label that is known.                                         *)
LEMMA GotoLands ==
    ASSUME NEW p, IsCode(p), NEW a, NEW k, Lifts(p, 0, a, k),
           NEW m, NEW q, NEW Y, Atop(m, q, a, Y), NEW l \in Y
    PROVE  /\ IsCode(p \o <<GotoLabel(l)>>)
           /\ Lands(Run(m, p \o <<GotoLabel(l)>>), l, q, k, Y, p \o <<GotoLabel(l)>>)
<1> DEFINE r == <<GotoLabel(l)>>
<1>1. IsCode(r)
  BY CodeOne
<1>2. IsCode(p \o r)
  BY <1>1, CodeConcat DEF IsCode
<1>3. \A x : Run(x, r) = Exec(x, GotoLabel(l))
  BY RunOne
<1> HIDE DEF r
<1>4. \/ Atop(Run(m, p), q, k, Y) /\ Run(m, p \o r) = Run(Run(m, p), r)
      \/ Faulted(Run(m, p \o r), Y) /\ Panics(p \o r)
  BY <1>1, AfterCode
<1>5. Lands(Run(m, p \o r), l, q, k, Y, p \o r)
  BY <1>3, <1>4, ExecGoto DEF Lands
<1> QED BY <1>2, <1>5 DEF r

(* JUMP, to the continuation at the top of q.                               *)
LEMMA ExecJump ==
    ASSUME NEW m, NEW q, NEW Y, Atop(m, q, 0, Y), q # <<>>, IsLabel(q[1])
    PROVE  Jumped(Exec(m, Plain("JUMP")), q[1].label, Tail(q), 0, Y)
<1> DEFINE s == m.stack
           C == CellOf(Y)
           t == Tail(s)
           l == s[1].label
           r == [m EXCEPT !.stack = t, !.jump = l]
<1>1. /\ IsMachine(m, Y) /\ m.fault = FALSE /\ m.jump = <<>>
      /\ s \in Seq(C) /\ q \in Seq(C) /\ Len(s) = Len(q) /\ \A i \in 1 .. Len(q) : s[i] = q[i]
  BY DEF Atop, Holds, IsMachine
<1>2. s = q
  <2> HIDE DEF C, s
  <2> QED BY <1>1
<1>3. s # <<>> /\ Len(s) >= 1 /\ Len(s) \in Nat /\ IsLabel(s[1]) /\ s[1] \in C
  BY <1>1, <1>2
<1>4. l \in Y \cup {<<>>} /\ l # <<>>
  BY <1>3 DEF CellOf, IsLabel
<1>5. t \in Seq(C)
  BY <1>1, <1>3
<1>6. Exec(m, Plain("JUMP")) = r
  <2>1. Exec(m, Plain("JUMP")) = [m EXCEPT !.stack = t, !.jump = l, !.fault = ~ IsLabel(s[1])]
    BY <1>1, <1>3 DEF Exec, Plain, Needs, ArithOps
  <2> HIDE DEF t, l, s
  <2>2. [m EXCEPT !.stack = t, !.jump = l, !.fault = ~ IsLabel(s[1])] = r
    BY <1>1, <1>3 DEF IsMachine
  <2> QED BY <2>1, <2>2
<1>7. Holds(t, Tail(q), 0, Y)
  <2>1. t = Tail(q)
    BY <1>2
  <2>2. t \in Seq(C) /\ Len(t) \in Nat
    BY <1>5
  <2> HIDE DEF t
  <2> QED BY <2>1, <2>2 DEF Holds
<1> HIDE DEF C, t, s
<1>8. IsMachine(r, Y) /\ r.fault = FALSE /\ r.jump = l /\ r.stack = t
  BY <1>1, <1>4, <1>5 DEF IsMachine, C, s
<1>9. l = q[1].label
  BY <1>2
<1> QED BY <1>6, <1>7, <1>8, <1>9 DEF Jumped

(* ... from under the value that is returned.                               *)
LEMMA SwapJump ==
    ASSUME NEW m, NEW q, NEW Y, Atop(m, q, 1, Y), q # <<>>, IsLabel(q[1])
    PROVE  Jumped(Run(m, <<Swap(1), Plain("JUMP")>>), q[1].label, Tail(q), 1, Y)
<1> DEFINE s == m.stack
           C == CellOf(Y)
           t == [[s EXCEPT ![1] = s[2]] EXCEPT ![2] = s[1]]
           l == q[1].label
           u == Tail(t)
           n == [m EXCEPT !.stack = t]
           r == [n EXCEPT !.stack = u, !.jump = l]
<1>1. /\ IsMachine(m, Y) /\ m.fault = FALSE /\ m.jump = <<>>
      /\ s \in Seq(C) /\ q \in Seq(C) /\ Len(s) = 1 + Len(q) /\ \A i \in 1 .. Len(q) : s[1 + i] = q[i]
      /\ s[1] \in WordCells /\ Len(q) \in Nat /\ Len(q) >= 1
  BY DEF Atop, Holds, IsMachine
<1>2. /\ t \in Seq(C) /\ Len(t) = 1 + Len(q)
      /\ t[1] = q[1] /\ t[2] = s[1] /\ \A i \in 3 .. 1 + Len(q) : t[i] = s[i]
  <2>1. s[2] = q[1] /\ 1 \in 1 .. Len(s) /\ 2 \in 1 .. Len(s)
    <3>1. 1 \in 1 .. Len(q) /\ 1 + 1 = 2
      BY <1>1
    <3>2. s[1 + 1] = q[1]
      BY <1>1, <3>1
    <3> QED BY <1>1, <3>1, <3>2
  <2> HIDE DEF C
  <2> QED BY <1>1, <2>1
<1>3. Exec(m, Swap(1)) = n
  <2>1. ~ (Len(s) < 2)
    BY <1>1
  <2>2. Exec(m, Swap(1)) = [m EXCEPT !.stack[1] = s[2], !.stack[2] = s[1]]
    BY <1>1, <2>1 DEF Exec, Swap, Needs, ArithOps
  <2> QED BY <2>2
<1>4. IsMachine(n, Y) /\ n.fault = FALSE /\ n.jump = <<>> /\ n.stack = t
  <2> HIDE DEF t, s
  <2> QED BY <1>1, <1>2 DEF IsMachine, C
<1>5. l \in Y /\ l # <<>>
  <2>1. q[1] \in C
    BY <1>1
  <2> QED BY <2>1 DEF CellOf, IsLabel
<1> HIDE DEF n
<1>6. u \in Seq(C) /\ Len(u) = Len(q) /\ \A i \in 1 .. Len(q) : u[i] = t[i + 1]
  <2>1. t # <<>> /\ Len(t) - 1 = Len(q)
    BY <1>1, <1>2
  <2> HIDE DEF t, C
  <2>2. u \in Seq(C) /\ Len(u) = Len(t) - 1 /\ \A i \in 1 .. Len(t) - 1 : u[i] = t[i + 1]
    BY <1>2, <2>1
  <2> QED BY <2>1, <2>2
<1>7. Exec(n, Plain("JUMP")) = r
  <2>1. Len(n.stack) \in Nat /\ Len(n.stack) >= 1 /\ n.stack[1] = q[1]
    BY <1>1, <1>2, <1>4
  <2>2. Exec(n, Plain("JUMP")) = [n EXCEPT !.stack = Tail(n.stack), !.jump = n.stack[1].label,
                                           !.fault = ~ IsLabel(n.stack[1])]
    BY <1>4, <2>1 DEF Exec, Plain, Needs, ArithOps
  <2>3. Tail(n.stack) = u /\ n.stack[1].label = l /\ (~ IsLabel(n.stack[1])) = n.fault
    BY <1>4, <2>1
  <2> HIDE DEF u, t, l
  <2>4. Exec(n, Plain("JUMP")) = [n EXCEPT !.stack = u, !.jump = l, !.fault = n.fault]
    BY <2>2, <2>3
  <2>5. [n EXCEPT !.stack = u, !.jump = l, !.fault = n.fault] = r
    BY <1>4 DEF IsMachine
  <2> QED BY <2>4, <2>5
<1>8. Holds(u, Tail(q), 1, Y)
  <2>1. q # <<>>
    BY <1>1
  <2>2. Tail(q) \in Seq(C) /\ Len(Tail(q)) = Len(q) - 1 /\ \A i \in 1 .. Len(q) - 1 : Tail(q)[i] = q[i + 1]
    <3> HIDE DEF C
    <3> QED BY <1>1, <2>1
  <2>3. 1 \in 1 .. Len(q) /\ 1 + 1 = 2 /\ u[1] = t[1 + 1]
    BY <1>1, <1>6
  <2>4. u[1] \in WordCells
    BY <1>1, <1>2, <2>3
  <2>5. ASSUME NEW i \in 1 .. Len(Tail(q)) PROVE u[1 + i] = Tail(q)[i]
    <3>1. i \in 1 .. Len(q) - 1 /\ 1 + i \in 1 .. Len(q) /\ (1 + i) + 1 \in 3 .. 1 + Len(q) /\ i + 1 \in 1 .. Len(q)
      BY <1>1, <2>2
    <3>2. u[1 + i] = t[(1 + i) + 1] /\ t[(1 + i) + 1] = s[(1 + i) + 1]
      BY <1>2, <1>6, <3>1
    <3>3. (1 + i) + 1 = 1 + (i + 1) /\ s[1 + (i + 1)] = q[i + 1]
      BY <1>1, <3>1
    <3> QED BY <2>2, <3>1, <3>2, <3>3
  <2> HIDE DEF u, t
  <2>6. Len(u) = 1 + Len(Tail(q)) /\ u \in Seq(CellOf(Y)) /\ Tail(q) \in Seq(CellOf(Y))
    BY <1>1, <1>6, <2>2 DEF C
  <2> QED BY <2>4, <2>5, <2>6 DEF Holds
<1>9. IsMachine(r, Y) /\ r.fault = FALSE /\ r.jump = l /\ r.stack = u
  <2> HIDE DEF u, l, t
  <2> QED BY <1>4, <1>5, <1>6 DEF IsMachine, C
<1>10. Run(m, <<Swap(1), Plain("JUMP")>>) = r
  BY <1>3, <1>7, RunPair
<1> HIDE DEF r, l, u
<1> QED BY <1>8, <1>9, <1>10 DEF Jumped, l

-----------------------------------------------------------------------------
(* Terminators. *)

(* A shuffle to the empty layout pops only.                                 *)
LEMMA ReachesNothing ==
    ASSUME NEW S, NEW q \in Seq(S) PROVE Reaches(q, <<>>)
<1>1. PlanShuffle(q, <<>>) = IF q = <<>> THEN <<>> ELSE [i \in 1 .. Len(q) |-> Pop]
  BY DEF PlanShuffle
<1>2. ~ LeftOut(Pop)
  BY DEF LeftOut, Pop
<1> QED BY <1>1, <1>2 DEF Reaches, Complete

(* The layout at the end of a block.                                        *)
LEMMA EndingIs ==
    ASSUME NEW p, NEW c, NEW b, InUnit(p, c, b)
    PROVE  /\ Ending(c, b) \in Seq(Slot)
           /\ Len(Ending(c, b)) = Height(c, b, Len(c.unit.cfg.code[b]) + 1)
           /\ Len(c.unit.cfg.code[b]) + 1 \in Points(c.unit.cfg, b)
<1>1. Len(c.unit.cfg.code[b]) + 1 \in Points(c.unit.cfg, b)
  <2>1. IsList(c.unit.cfg.code[b])
    BY UnitFacts
  <2> QED BY <2>1 DEF IsList, Points
<1> QED BY <1>1, Stacked DEF Ending

(* One more cell on top.                                                    *)
LEMMA ConsLen ==
    ASSUME NEW S, NEW q \in Seq(S), NEW x
    PROVE  /\ <<x>> \o q \in Seq(S \cup {x}) /\ Len(<<x>> \o q) = Len(q) + 1
           /\ (<<x>> \o q)[1] = x
           /\ \A i \in 1 .. Len(q) : (<<x>> \o q)[i + 1] = q[i]
<1> DEFINE z == <<x>>
           V == S \cup {x}
<1>1. z \in Seq(V) /\ Len(z) = 1 /\ q \in Seq(V) /\ Len(q) \in Nat /\ z[1] = x
  OBVIOUS
<1> HIDE DEF z, V
<1>2. /\ z \o q \in Seq(V) /\ Len(z \o q) = Len(z) + Len(q)
      /\ \A i \in 1 .. Len(z) + Len(q) : (z \o q)[i] = IF i <= Len(z) THEN z[i] ELSE q[i - Len(z)]
  BY <1>1, ConcatProperties
<1>3. (z \o q)[1] = x
  BY <1>1, <1>2
<1>4. ASSUME NEW i \in 1 .. Len(q) PROVE (z \o q)[i + 1] = q[i]
  <2>1. i + 1 \in 1 .. Len(z) + Len(q) /\ ~ (i + 1 <= Len(z)) /\ (i + 1) - Len(z) = i
    BY <1>1
  <2> QED BY <1>2, <2>1
<1> QED BY <1>1, <1>2, <1>3, <1>4 DEF z, V

(* A shuffle at the end of a block, whatever it is tested or returned.      *)
LEMMA EndShuffle ==
    ASSUME NEW p, NEW c, NEW b, InUnit(p, c, b), NEW x, NEW q \in Seq(Slot),
           NEW target, target = q \/ target = <<x>> \o q, Reaches(Ending(c, b), target)
    PROVE  /\ IsCode(Shuffle(Ending(c, b), target, c.base))
           /\ Lifts(Shuffle(Ending(c, b), target, c.base), 0,
                    Height(c, b, Len(c.unit.cfg.code[b]) + 1), Len(target))
<1> DEFINE V == Slot \cup {x}
           current == Ending(c, b)
<1>1. q \in Seq(V)
  OBVIOUS
<1>2. current \in Seq(Slot) /\ Len(current) = Height(c, b, Len(c.unit.cfg.code[b]) + 1)
  BY EndingIs
<1> HIDE DEF current
<1>3. current \in Seq(V)
  BY <1>2
<1> HIDE DEF V
<1>4. target \in Seq(V)
  BY <1>1, ConsLen DEF V
<1> QED BY <1>2, <1>3, <1>4, ShuffleLifts DEF current

(* Jump and branch: to a block that is no entry, with its entry layout.     *)
LEMMA JumpLands ==
    ASSUME NEW p, NEW c, NEW b, InUnit(p, c, b), Joined(c, b),
           c.unit.cfg.term[b].kind \in {"Jump", "Branch"},
           NEW Y, \A t \in c.unit.cfg.blocks : BlockLabel(c, t) \in Y,
           NEW m, NEW q, Atop(m, q, Height(c, b, Len(c.unit.cfg.code[b]) + 1), Y)
    PROVE  \E t \in c.unit.cfg.blocks \ {c.unit.cfg.entry} :
              Lands(Run(m, TerminatorOps(c, b)), BlockLabel(c, t), q, Len(c.unit.entry_layout[t]), Y,
                    TerminatorOps(c, b))
<1> DEFINE term == c.unit.cfg.term[b]
           ops == TerminatorOps(c, b)
           n == Height(c, b, Len(c.unit.cfg.code[b]) + 1)
           t1 == term.targets[1]
           t2 == term.targets[2]
           q1 == c.unit.entry_layout[t1]
           q2 == c.unit.entry_layout[t2]
           l1 == BlockLabel(c, t1)
           l2 == BlockLabel(c, t2)
           x == term.args[1]
           targets == c.unit.cfg.blocks \ {c.unit.cfg.entry}
           Goal == \E t \in targets : Lands(Run(m, ops), BlockLabel(c, t), q, Len(c.unit.entry_layout[t]), Y, ops)
<1>1. TermTyped(c.unit.cfg, term)
  BY UnitFacts
<1>2. \A t \in targets : c.unit.entry_layout[t] \in Seq(Slot) /\ BlockLabel(c, t) \in Y
  BY DEF InUnit, UnitTyped
<1>3. CASE term.kind = "Jump"
  <2>1. t1 \in targets
    BY <1>1, <1>3 DEF TermTyped, IsList
  <2>2. q1 \in Seq(Slot) /\ l1 \in Y
    BY <1>2, <2>1
  <2>3. ops = Shuffle(Ending(c, b), q1, c.base) \o <<GotoLabel(l1)>>
    BY <1>3, Zenon DEF TerminatorOps, Ending
  <2>4. Reaches(Ending(c, b), q1)
    BY <1>3, Zenon DEF Joined
  <2> HIDE DEF q1, l1, n, ops
  <2>5. /\ IsCode(Shuffle(Ending(c, b), q1, c.base))
        /\ Lifts(Shuffle(Ending(c, b), q1, c.base), 0, n, Len(q1))
    BY <2>2, <2>4, EndShuffle DEF n
  <2>6. Lands(Run(m, ops), l1, q, Len(q1), Y, ops)
    BY <2>2, <2>3, <2>5, GotoLands DEF n
  <2>7. Goal
    BY <2>1, <2>6, Zenon DEF l1, q1
  <2> QED BY <2>7 DEF ops
<1>4. CASE term.kind = "Branch"
  <2> DEFINE target == IF x.kind = "slot" THEN <<x.val>> \o q1 ELSE q1
             code == Shuffle(Ending(c, b), target, c.base)
             push == <<PushWord(x.val)>>
             test == IF x.kind = "slot" THEN code ELSE code \o push
             j == <<JumpI(l1)>>
             sh == Shuffle(q1, q2, c.base)
             g == <<GotoLabel(l2)>>
             k == Len(q1)
             m1 == Run(m, test \o j)
  <2>1. t1 \in targets /\ t2 \in targets /\ IsOperand(x)
    <3>1. /\ Operands(term.args, 1) /\ IsList(term.targets) /\ Len(term.targets) = 2
          /\ \A i \in 1 .. 2 : term.targets[i] \in targets
      BY <1>1, <1>4, Zenon DEF TermTyped
    <3>2. 1 \in 1 .. 2 /\ 2 \in 1 .. 2 /\ 1 \in 1 .. 1
      OBVIOUS
    <3> QED BY <3>1, <3>2, Zenon DEF Operands
  <2>2. q1 \in Seq(Slot) /\ l1 \in Y /\ q2 \in Seq(Slot) /\ l2 \in Y
    BY <1>2, <2>1, Zenon
  <2>3. ops = test \o j \o sh \o g
    BY <1>4, Zenon DEF TerminatorOps, BranchOps, Ending
  <2>4. Reaches(Ending(c, b), target) /\ Reaches(q1, q2)
    BY <1>4, Zenon DEF Joined
  <2> HIDE DEF q1, q2, l1, l2, n, ops, x
  <2>5. k \in Nat
    BY <2>2
  <2>6. IsCode(test) /\ Lifts(test, 0, n, k + 1)
    <3>1. /\ IsCode(code) /\ Lifts(code, 0, n, Len(target))
      <4>1. target = q1 \/ target = <<x.val>> \o q1
        OBVIOUS
      <4> HIDE DEF target
      <4> QED BY <2>2, <2>4, <4>1, EndShuffle DEF n
    <3> HIDE DEF code
    <3>2. CASE x.kind = "slot"
      <4>1. Len(target) = k + 1
        <5>1. target = <<x.val>> \o q1
          BY <3>2
        <5> HIDE DEF target
        <5> QED BY <2>2, <5>1, ConsLen
      <4>2. test = code
        BY <3>2
      <4> HIDE DEF test, target
      <4> QED BY <3>1, <4>1, <4>2
    <3>3. CASE x.kind # "slot"
      <4>1. x.val \in Word
        BY <2>1, <3>3 DEF IsOperand
      <4>2. WordCell(x.val) \in WordCells
        BY <4>1 DEF WordCell, WordCells
      <4>3. Moves(PushWord(x.val), 0, k, k + 1)
        BY <4>2 DEF PushWord, Moves
      <4>4. IsCode(push) /\ Lifts(push, 0, k, k + 1)
        BY <4>3, LiftsOne, CodeOne
      <4>5. test = code \o push /\ Len(target) = k
        BY <3>3
      <4> HIDE DEF test, target, push
      <4> QED BY <3>1, <4>4, <4>5, LiftsConcat
    <3> QED BY <3>2, <3>3
  <2>7. IsCode(sh) /\ Lifts(sh, 0, k, Len(q2))
    BY <2>2, <2>4, ShuffleLifts
  <2>8. IsCode(j) /\ IsCode(g) /\ (\A y : Run(y, j) = Exec(y, JumpI(l1))) /\ (\A y : Run(y, g) = Exec(y, GotoLabel(l2)))
    BY CodeOne, RunOne
  <2>9. /\ IsCode(sh \o g)
        /\ \A y : Atop(y, q, k, Y) => Lands(Run(y, sh \o g), l2, q, Len(q2), Y, sh \o g)
    <3> HIDE DEF sh, k
    <3>1. IsCode(sh \o <<GotoLabel(l2)>>)
      BY <2>7, <2>8, CodeConcat DEF IsCode
    <3>2. ASSUME NEW y, Atop(y, q, k, Y) PROVE Lands(Run(y, sh \o g), l2, q, Len(q2), Y, sh \o g)
      BY <2>2, <2>7, <3>2, GotoLands
    <3> QED BY <3>1, <3>2
  <2> HIDE DEF code, target, push, test, j, sh, g, k, m1
  <2>10. IsCode(test \o j) /\ IsCode((test \o j) \o sh)
    <3>1. IsCode(test \o j)
      BY <2>6, <2>8, CodeConcat DEF IsCode
    <3> QED BY <3>1, <2>7, CodeConcat DEF IsCode
  <2>11. /\ Run(m, ops) = Run(Run(m1, sh), g)
         /\ \A y : Run(y, sh \o g) = Run(Run(y, sh), g)
    <3>1. PICK S : test \o j \in Seq(S) /\ sh \in Seq(S)
      BY <2>7, <2>10, CodeConcat
    <3> DEFINE u == test \o j
               v == u \o sh
    <3>2. Run(m, v) = Run(m1, sh)
      <4>1. m1 = Run(m, u) /\ u \in Seq(S)
        BY <3>1 DEF m1
      <4> HIDE DEF u
      <4> QED BY <3>1, <4>1, RunConcat
    <3>3. PICK T : (test \o j) \o sh \in Seq(T) /\ g \in Seq(T)
      BY <2>8, <2>10, CodeConcat
    <3>4. Run(m, ops) = Run(Run(m, v), g)
      <4>1. v \in Seq(T) /\ ops = v \o g
        BY <2>3, <3>3
      <4> HIDE DEF v
      <4> QED BY <3>3, <4>1, RunConcat
    <3>5. PICK U : sh \in Seq(U) /\ g \in Seq(U)
      BY <2>7, <2>8, CodeConcat
    <3>6. \A y : Run(y, sh \o g) = Run(Run(y, sh), g)
      BY <3>5, RunConcat
    <3> QED BY <3>2, <3>4, <3>6
  <2>12. /\ Panics(test \o j) => Panics(ops)
         /\ Panics(sh \o g) => Panics(ops)
    BY <2>3, <2>7, <2>8, <2>10, PanicsConcat
  <2>13. Len(sh) \in Nat /\ Len(g) \in Nat
    BY <2>7, <2>8 DEF IsCode
  <2>14. ASSUME m1.fault \/ m1.jump # <<>> PROVE Run(m, ops) = m1
    BY <2>11, <2>13, <2>14, RunStops
  <2>15. \/ Jumped(m1, l1, q, k, Y)
         \/ Atop(m1, q, k, Y)
         \/ Faulted(m1, Y) /\ Panics(test \o j)
    <3>1. \/ Atop(Run(m, test), q, k + 1, Y) /\ m1 = Run(Run(m, test), j)
          \/ Faulted(m1, Y) /\ Panics(test \o j)
      BY <2>6, <2>8, AfterCode DEF m1, n
    <3>2. ASSUME Atop(Run(m, test), q, k + 1, Y), m1 = Run(Run(m, test), j)
          PROVE  Jumped(m1, l1, q, k, Y) \/ Atop(m1, q, k, Y)
      <4>1. m1 = Exec(Run(m, test), JumpI(l1))
        BY <2>8, <3>2
      <4>2. k + 1 >= 1 /\ (k + 1) - 1 = k
        BY <2>5
      <4> QED BY <2>2, <3>2, <4>1, <4>2, ExecJumpI
    <3> QED BY <3>1, <3>2
  <2>16. ASSUME Jumped(m1, l1, q, k, Y) PROVE Goal
    <3>1. m1.jump # <<>>
      BY <2>16 DEF Jumped, l1, BlockLabel
    <3>2. Lands(Run(m, ops), l1, q, k, Y, ops)
      BY <2>14, <2>16, <3>1 DEF Lands
    <3> QED BY <2>1, <3>2, Zenon DEF l1, k, q1
  <2>17. ASSUME Atop(m1, q, k, Y) PROVE Goal
    <3>1. Lands(Run(m, ops), l2, q, Len(q2), Y, sh \o g)
      BY <2>9, <2>11, <2>17
    <3>2. Lands(Run(m, ops), l2, q, Len(q2), Y, ops)
      BY <3>1, <2>12 DEF Lands
    <3> QED BY <2>1, <3>2, Zenon DEF l2, q2
  <2>18. ASSUME Faulted(m1, Y) /\ Panics(test \o j) PROVE Goal
    <3>1. Lands(Run(m, ops), l1, q, k, Y, ops)
      BY <2>12, <2>14, <2>18 DEF Lands, Faulted
    <3> QED BY <2>1, <3>1 DEF l1, k, q1
  <2>19. Goal
    BY <2>15, <2>16, <2>17, <2>18
  <2> QED BY <2>19 DEF ops
<1> QED BY <1>3, <1>4

(* Return: to the continuation, with the value that is returned.            *)
LEMMA ReturnLands ==
    ASSUME NEW p, NEW c, NEW b, InUnit(p, c, b), Joined(c, b), c.unit.cfg.term[b].kind = "Return",
           NEW Y, NEW m, NEW q, Atop(m, q, Height(c, b, Len(c.unit.cfg.code[b]) + 1), Y),
           q # <<>>, IsLabel(q[1])
    PROVE  Lands(Run(m, TerminatorOps(c, b)), q[1].label, Tail(q),
                 IF c.unit.cfg.term[b].args = <<>> THEN 0 ELSE 1, Y, TerminatorOps(c, b))
<1> DEFINE term == c.unit.cfg.term[b]
           ops == TerminatorOps(c, b)
           n == Height(c, b, Len(c.unit.cfg.code[b]) + 1)
           x == term.args[1]
           l == q[1].label
           t == Tail(q)
           k == IF term.args = <<>> THEN 0 ELSE 1
           jump == <<Plain("JUMP")>>
           swapped == <<Swap(1), Plain("JUMP")>>
           pop == Shuffle(Ending(c, b), <<>>, c.base)
           pick == Shuffle(Ending(c, b), <<x.val>>, c.base)
           push == <<PushWord(x.val)>>
<1>1. term.args = <<>> \/ IsOperand(x)
  <2>1. TermTyped(c.unit.cfg, term)
    BY UnitFacts
  <2> QED BY <2>1 DEF TermTyped, Operands
<1>2. ops = CASE term.args = <<>> -> pop \o jump
              [] term.args # <<>> /\ x.kind = "slot" -> pick \o swapped
              [] OTHER -> pop \o <<PushWord(x.val), Swap(1), Plain("JUMP")>>
  BY DEF TerminatorOps, ReturnOps, Ending
<1>3. IsCode(pop) /\ Lifts(pop, 0, n, 0)
  <2>1. <<>> \in Seq(Slot) /\ Len(<<>>) = 0
    OBVIOUS
  <2>2. Reaches(Ending(c, b), <<>>)
    BY EndingIs, ReachesNothing
  <2> QED BY <2>1, <2>2, EndShuffle
<1>4. ASSUME term.args # <<>>, x.kind = "slot" PROVE IsCode(pick) /\ Lifts(pick, 0, n, 1)
  <2> DEFINE e == <<>>
             z == <<x.val>>
  <2>1. z \o e = z /\ Len(z) = 1 /\ e \in Seq(Slot)
    OBVIOUS
  <2>2. Reaches(Ending(c, b), z)
    BY <1>4, <2>1 DEF Joined
  <2> HIDE DEF z, e
  <2>3. IsCode(Shuffle(Ending(c, b), z, c.base)) /\ Lifts(Shuffle(Ending(c, b), z, c.base), 0, n, Len(z))
    BY <2>1, <2>2, EndShuffle, Zenon DEF z
  <2> QED BY <2>1, <2>3, Zenon DEF z
<1>5. IsCode(jump) /\ IsCode(swapped)
  <2>1. swapped \in Seq({Swap(1), Plain("JUMP")})
    OBVIOUS
  <2> QED BY <2>1, CodeOne DEF IsCode
<1>6. ASSUME NEW y, Atop(y, q, 0, Y) PROVE Jumped(Run(y, jump), l, t, 0, Y)
  BY <1>6, RunOne, ExecJump
<1>7. ASSUME NEW y, Atop(y, q, 1, Y) PROVE Jumped(Run(y, swapped), l, t, 1, Y)
  BY <1>7, SwapJump
<1> HIDE DEF jump, swapped, pop, pick, l, t
<1>8. CASE term.args = <<>>
  <2>1. ops = pop \o jump /\ k = 0
    BY <1>2, <1>8
  <2> HIDE DEF ops, k
  <2>2. Lands(Run(m, ops), l, t, 0, Y, ops)
    BY <2>1, <1>3, <1>5, <1>6, AfterCode DEF Lands
  <2> QED BY <2>1, <2>2 DEF ops, k, l, t
<1>9. CASE term.args # <<>> /\ x.kind = "slot"
  <2>1. ops = pick \o swapped /\ k = 1
    BY <1>2, <1>9
  <2> HIDE DEF ops, k
  <2>2. Lands(Run(m, ops), l, t, 1, Y, ops)
    BY <2>1, <1>4, <1>5, <1>7, <1>9, AfterCode DEF Lands
  <2> QED BY <2>1, <2>2 DEF ops, k, l, t
<1>10. CASE term.args # <<>> /\ x.kind # "slot"
  <2>1. ops = pop \o <<PushWord(x.val), Swap(1), Plain("JUMP")>> /\ k = 1
    BY <1>2, <1>10, Zenon
  <2>2. x.val \in Word
    BY <1>1, <1>10 DEF IsOperand
  <2>3. Moves(PushWord(x.val), 0, 0, 1)
    <3>1. WordCell(x.val) \in WordCells
      BY <2>2 DEF WordCell, WordCells
    <3> QED BY <3>1 DEF PushWord, Moves
  <2>4. IsCode(push) /\ Lifts(push, 0, 0, 1)
    BY <2>3, LiftsOne, CodeOne
  <2>5. push \o swapped = <<PushWord(x.val), Swap(1), Plain("JUMP")>>
    BY CodeTriple DEF swapped
  <2> HIDE DEF ops, k, push
  <2>6. ops = (pop \o push) \o swapped
    <3>1. PICK S : pop \in Seq(S) /\ push \in Seq(S)
      BY <1>3, <2>4, CodeConcat
    <3>2. PICK T : swapped \in Seq(T)
      BY <1>5 DEF IsCode
    <3>3. pop \in Seq(S \cup T) /\ push \in Seq(S \cup T) /\ swapped \in Seq(S \cup T)
      BY <3>1, <3>2
    <3>4. pop \o (push \o swapped) = (pop \o push) \o swapped
      BY <3>3, ConcatAssociative
    <3> QED BY <2>1, <2>5, <3>4, Zenon
  <2>7. IsCode(pop \o push) /\ Lifts(pop \o push, 0, n, 1)
    BY <1>3, <2>4, LiftsConcat
  <2>8. Lands(Run(m, ops), l, t, 1, Y, ops)
    BY <2>6, <2>7, <1>5, <1>7, AfterCode DEF Lands
  <2> QED BY <2>1, <2>8, Zenon DEF ops, k, l, t
<1> QED BY <1>8, <1>9, <1>10

(* INVALID: the machine faults, and is a machine.                           *)
LEMMA AbortEnds ==
    ASSUME NEW p, NEW c, NEW b, InUnit(p, c, b), c.unit.cfg.term[b].kind = "Unreachable",
           NEW Y, NEW m, NEW q, Atop(m, q, Height(c, b, Len(c.unit.cfg.code[b]) + 1), Y)
    PROVE  IsMachine(Run(m, TerminatorOps(c, b)), Y)
<1> DEFINE ops == TerminatorOps(c, b)
           n == Height(c, b, Len(c.unit.cfg.code[b]) + 1)
           pop == Shuffle(Ending(c, b), <<>>, c.base)
           o == Plain("INVALID")
           r == <<o>>
<1>1. ops = pop \o r
  BY DEF TerminatorOps, Ending
<1>2. IsCode(pop) /\ Lifts(pop, 0, n, 0)
  <2>1. <<>> \in Seq(Slot) /\ Len(<<>>) = 0
    OBVIOUS
  <2>2. Reaches(Ending(c, b), <<>>)
    BY EndingIs, ReachesNothing
  <2> QED BY <2>1, <2>2, EndShuffle
<1>3. IsCode(r) /\ \A y : Run(y, r) = Exec(y, o)
  BY CodeOne, RunOne
<1>4. ASSUME NEW y, Atop(y, q, 0, Y) PROVE IsMachine(Exec(y, o), Y)
  <2>1. Len(y.stack) \in Nat /\ IsMachine(y, Y) /\ y.fault = FALSE /\ y.jump = <<>>
    BY <1>4 DEF Atop, Holds, IsMachine
  <2>2. Exec(y, o) = [y EXCEPT !.fault = TRUE]
    BY <2>1 DEF Exec, Plain, Needs, ArithOps
  <2> QED BY <2>1, <2>2 DEF IsMachine
<1> HIDE DEF ops, pop, r, o
<1>5. IsMachine(Run(m, ops), Y)
  BY <1>1, <1>2, <1>3, <1>4, AfterCode DEF Faulted
<1> QED BY <1>5 DEF ops

-----------------------------------------------------------------------------
(* Prologues and calls. *)

(* An external function loads its entry layout.                             *)
LEMMA PrologueExternal ==
    ASSUME NEW p, NEW c, UnitTyped(p, c.unit), c.unit.cfg.external
    PROVE  /\ Lifts(Prologue(c), 0, 0, Len(c.unit.entry_layout[c.unit.cfg.entry]))
           /\ ~ Panics(Prologue(c))
<1> DEFINE layout == c.unit.entry_layout[c.unit.cfg.entry]
           n == Len(layout)
           ops == Prologue(c)
           h == [k \in 0 .. n |-> k]
<1>1. layout \in Seq(Slot) /\ n \in Nat
  BY DEF UnitTyped
<1>2. DOMAIN Reverse(layout) = 1 .. n
  BY <1>1 DEF Reverse
<1>3. ops = [i \in 1 .. n |-> MLoad(Address(c, Reverse(layout)[i]))]
  BY <1>2 DEF Prologue
<1> HIDE DEF ops
<1>4. IsList(ops) /\ Len(ops) = n /\ \A i \in 1 .. n : \E a : ops[i] = MLoad(a)
  BY <1>1, <1>3 DEF IsList
<1>5. \A k \in 0 .. n : h[k] = k
  OBVIOUS
<1> HIDE DEF h, n
<1>6. ASSUME NEW k \in 1 .. Len(ops) PROVE Moves(ops[k], 0, h[k-1], h[k])
  <2>1. h[k-1] = k - 1 /\ h[k] = (k - 1) + 1
    BY <1>1, <1>4, <1>5
  <2>2. PICK a : ops[k] = MLoad(a)
    BY <1>4
  <2> QED BY <2>1, <2>2 DEF Moves, MLoad
<1>7. Lifts(ops, 0, h[0], h[Len(ops)])
  BY <1>4, <1>6, Heights
<1>8. h[0] = 0 /\ h[Len(ops)] = n
  BY <1>1, <1>4, <1>5
<1>9. ~ Panics(ops)
  BY <1>3 DEF Panics, Panic, MLoad
<1> QED BY <1>7, <1>8, <1>9 DEF ops, n

(* A machine whose caller pushed n arguments on s, then cell x.             *)
Arriving(m, x, s, n, Y) ==
    /\ IsMachine(m, Y) /\ ~ m.fault /\ m.jump = <<>> /\ x \in CellOf(Y)
    /\ \E r : Holds(r, s, n, Y) /\ m.stack = <<x>> \o r

(* SWAPn sinks that cell under them.                                        *)
LEMMA ExecSink ==
    ASSUME NEW Y, NEW m, NEW x, NEW s, NEW n \in Nat \ {0}, Arriving(m, x, s, n, Y)
    PROVE  \/ Atop(Exec(m, SwapOrPanic(n)), <<x>> \o s, n, Y)
           \/ SwapOrPanic(n) = Panic /\ Faulted(Exec(m, SwapOrPanic(n)), Y)
<1> DEFINE C == CellOf(Y)
           z == m.stack
           q == <<x>> \o s
           t == [[z EXCEPT ![1] = z[n + 1]] EXCEPT ![n + 1] = z[1]]
<1>1. PICK r : Holds(r, s, n, Y) /\ z = <<x>> \o r
  BY DEF Arriving
<1>2. IsMachine(m, Y) /\ m.fault = FALSE /\ m.jump = <<>> /\ x \in C
  BY DEF Arriving, IsMachine
<1>3. /\ r \in Seq(C) /\ s \in Seq(C) /\ Len(r) = n + Len(s) /\ Len(s) \in Nat
      /\ \A i \in 1 .. n : r[i] \in WordCells
      /\ \A i \in 1 .. Len(s) : r[n + i] = s[i]
  BY <1>1 DEF Holds
<1> HIDE DEF C, z
<1>4. C \cup {x} = C
  BY <1>2
<1>5. /\ z \in Seq(C) /\ Len(z) = n + 1 + Len(s) /\ z[1] = x
      /\ \A i \in 1 .. n + Len(s) : z[i + 1] = r[i]
  BY <1>1, <1>3, <1>4, ConsLen
<1>6. q \in Seq(C) /\ Len(q) = Len(s) + 1 /\ q[1] = x /\ \A i \in 1 .. Len(s) : q[i + 1] = s[i]
  BY <1>3, <1>4, ConsLen
<1> HIDE DEF q
<1>7. /\ t \in Seq(C) /\ Len(t) = n + 1 + Len(s) /\ t[1] = z[n + 1] /\ t[n + 1] = x
      /\ \A i \in 2 .. n + 1 + Len(s) : i # n + 1 => t[i] = z[i]
  <2>1. 1 \in 1 .. Len(z) /\ n + 1 \in 1 .. Len(z) /\ n + 1 # 1
    BY <1>3, <1>5
  <2>2. z[n + 1] \in C /\ z[1] \in C
    BY <1>5, <2>1
  <2> QED BY <1>3, <1>5, <2>1, <2>2
<1> HIDE DEF t
<1>8. ASSUME NEW i \in 1 .. n PROVE t[i] \in WordCells
  <2>1. CASE i = 1
    <3>1. z[n + 1] = r[n]
      BY <1>3, <1>5
    <3> QED BY <1>3, <1>7, <2>1, <3>1
  <2>2. CASE i # 1
    <3>1. i - 1 \in 1 .. n /\ i \in 2 .. n + 1 + Len(s) /\ i # n + 1 /\ i - 1 \in 1 .. n + Len(s) /\ (i - 1) + 1 = i
      BY <1>3, <2>2
    <3> QED BY <1>3, <1>5, <1>7, <3>1
  <2> QED BY <2>1, <2>2
<1>9. ASSUME NEW i \in 1 .. Len(q) PROVE t[n + i] = q[i]
  <2>1. CASE i = 1
    BY <2>1, <1>6, <1>7
  <2>2. CASE i # 1
    <3>1. /\ n + i \in 2 .. n + 1 + Len(s) /\ n + i # n + 1 /\ n + (i - 1) \in 1 .. n + Len(s)
          /\ (n + (i - 1)) + 1 = n + i /\ i - 1 \in 1 .. Len(s) /\ (i - 1) + 1 = i
      BY <1>3, <1>6, <2>2
    <3>2. t[n + i] = z[n + i] /\ z[n + i] = r[n + (i - 1)]
      BY <1>5, <1>7, <3>1
    <3> QED BY <1>3, <1>6, <3>1, <3>2
  <2> QED BY <2>1, <2>2
<1>10. Holds(t, q, n, Y)
  BY <1>3, <1>6, <1>7, <1>8, <1>9 DEF Holds, C
<1>11. CASE n <= MaxDup
  <2>1. SwapOrPanic(n) = Swap(n)
    BY <1>11 DEF SwapOrPanic
  <2>2. ~ (Len(m.stack) < n + 1)
    BY <1>3, <1>5 DEF z
  <2>3. Exec(m, Swap(n)) = [m EXCEPT !.stack[1] = z[n + 1], !.stack[n + 1] = z[1]]
    BY <1>2, <2>2 DEF Exec, Swap, Needs, ArithOps, z
  <2>4. Exec(m, Swap(n)) = [m EXCEPT !.stack = t]
    BY <2>3 DEF t, z
  <2>5. Atop(Exec(m, Swap(n)), q, n, Y)
    BY <1>2, <1>7, <1>10, <2>4 DEF Atop, IsMachine, C
  <2> QED BY <2>1, <2>5 DEF q
<1>12. CASE ~ (n <= MaxDup)
  <2>1. SwapOrPanic(n) = Panic
    BY <1>12 DEF SwapOrPanic
  <2>2. Len(m.stack) \in Nat
    BY <1>5 DEF z
  <2>3. Exec(m, Panic) = [m EXCEPT !.fault = TRUE]
    BY <1>2, <2>2 DEF Exec, Panic, Needs, ArithOps
  <2>4. Faulted(Exec(m, Panic), Y)
    BY <1>2, <2>3 DEF Faulted, IsMachine
  <2> QED BY <2>1, <2>4
<1> QED BY <1>11, <1>12

(* The prologue of an internal function leaves the continuation under its   *)
(* entry layout.                                                            *)
LEMMA PrologueInternal ==
    ASSUME NEW p, NEW c, UnitTyped(p, c.unit), ~ c.unit.cfg.external, EntryJoined(c),
           NEW Y, NEW m, NEW x, NEW s, Arriving(m, x, s, Len(c.unit.cfg.params), Y)
    PROVE  Ends(Run(m, Prologue(c)), <<x>> \o s, Len(c.unit.entry_layout[c.unit.cfg.entry]), Y, Prologue(c))
<1> DEFINE params == c.unit.cfg.params
           n == Len(params)
           layout == c.unit.entry_layout[c.unit.cfg.entry]
           ops == Prologue(c)
           q == <<x>> \o s
<1>1. params \in Seq(Slot) /\ n \in Nat /\ layout \in Seq(Slot)
  BY DEF UnitTyped
<1>2. CASE n = 0
  <2>1. ops = <<>>
    BY <1>2 DEF Prologue
  <2>2. layout = <<>>
    <3>1. ToSet(layout) \subseteq ToSet(params) /\ params = <<>>
      BY <1>1, <1>2 DEF UnitTyped
    <3>2. ToSet(params) = {} /\ \A i \in 1 .. Len(layout) : layout[i] \in ToSet(layout)
      BY <1>1, <3>1 DEF ToSet
    <3> HIDE DEF layout, params
    <3> QED BY <1>1, <3>1, <3>2
  <2>3. Run(m, ops) = m
    BY <2>1, RunNothing
  <2>4. Atop(m, q, 0, Y)
    <3>1. PICK r : Holds(r, s, 0, Y) /\ m.stack = <<x>> \o r
      BY <1>2 DEF Arriving
    <3>2. r = s /\ s \in Seq(CellOf(Y))
      BY <3>1 DEF Holds
    <3>3. x \in CellOf(Y) /\ CellOf(Y) \cup {x} = CellOf(Y)
      BY DEF Arriving
    <3>4. q \in Seq(CellOf(Y))
      BY <3>2, <3>3, ConsLen
    <3>5. m.stack = q
      BY <3>1, <3>2
    <3> HIDE DEF q
    <3>6. Holds(q, q, 0, Y)
      BY <3>4 DEF Holds
    <3> QED BY <3>5, <3>6 DEF Atop, Arriving
  <2>5. Len(layout) = 0
    BY <2>2
  <2> HIDE DEF ops, q, layout
  <2>6. Ends(Run(m, ops), q, Len(layout), Y, ops)
    BY <2>3, <2>4, <2>5 DEF Ends
  <2> QED BY <2>6 DEF ops, q, layout
<1>3. CASE n # 0
  <2> DEFINE o == SwapOrPanic(n)
             r == <<o>>
             sh == Shuffle(Pushed(c), layout, c.base)
  <2>1. ops = r \o sh
    BY <1>3 DEF Prologue, Pushed
  <2>2. Pushed(c) \in Seq(Slot) /\ Len(Pushed(c)) = n
    <3>1. params # <<>> /\ params[1] \in Slot /\ Tail(params) \in Seq(Slot) /\ Len(Tail(params)) = n - 1
      BY <1>1, <1>3
    <3>2. Reverse(Tail(params)) \in Seq(Slot) /\ Len(Reverse(Tail(params))) = n - 1
      <4> DEFINE u == Tail(params)
      <4> HIDE DEF u
      <4>1. u \in Seq(Slot) /\ Len(u) = n - 1 /\ Len(u) \in Nat
        BY <3>1, <1>1 DEF u
      <4>2. \A i \in 1 .. Len(u) : Len(u) - i + 1 \in 1 .. Len(u)
        BY <4>1
      <4>3. Reverse(u) = [i \in 1 .. Len(u) |-> u[(Len(u) - i) + 1]]
        BY DEF Reverse
      <4>4. Reverse(u) \in Seq(Slot) /\ Len(Reverse(u)) = Len(u)
        BY <4>1, <4>2, <4>3
      <4> QED BY <4>1, <4>4 DEF u
    <3>3. Slot \cup {params[1]} = Slot
      BY <3>1
    <3> HIDE DEF n, params
    <3> QED BY <1>1, <3>1, <3>2, <3>3, ConsLen DEF Pushed, params
  <2>3. IsCode(sh) /\ Lifts(sh, 0, n, Len(layout))
    <3>1. Reaches(Pushed(c), layout)
      BY <1>1, <1>3 DEF EntryJoined
    <3> HIDE DEF layout, n
    <3> QED BY <1>1, <2>2, <3>1, ShuffleLifts
  <2>4. IsCode(r) /\ \A y : Run(y, r) = Exec(y, o)
    BY CodeOne, RunOne
  <2>5. r[1] = o /\ 1 \in DOMAIN r
    OBVIOUS
  <2>6. \/ Atop(Exec(m, o), q, n, Y)
        \/ o = Panic /\ Faulted(Exec(m, o), Y)
    BY <1>1, <1>3, ExecSink
  <2> HIDE DEF o, r, sh, ops, q, layout, n
  <2>7. PICK S : r \in Seq(S) /\ sh \in Seq(S)
    BY <2>3, <2>4, CodeConcat
  <2>8. Run(m, ops) = Run(Exec(m, o), sh)
    BY <2>1, <2>4, <2>7, RunConcat
  <2>9. Panics(ops) = (Panics(r) \/ Panics(sh))
    BY <2>1, <2>3, <2>4, PanicsConcat
  <2>10. CASE Atop(Exec(m, o), q, n, Y)
    <3>1. Ends(Run(Exec(m, o), sh), q, Len(layout), Y, sh)
      BY <2>3, <2>10, FloorNothing DEF Lifts
    <3>2. Ends(Run(m, ops), q, Len(layout), Y, ops)
      BY <2>8, <2>9, <3>1 DEF Ends
    <3> QED BY <3>2 DEF ops, q, layout
  <2>11. CASE o = Panic /\ Faulted(Exec(m, o), Y)
    <3>1. Run(m, ops) = Exec(m, o)
      <4>1. Len(sh) \in Nat
        BY <2>3 DEF IsCode
      <4> QED BY <2>8, <2>11, <4>1, RunStops DEF Faulted
    <3>2. Panics(ops)
      BY <2>5, <2>9, <2>11 DEF Panics
    <3>3. Ends(Run(m, ops), q, Len(layout), Y, ops)
      BY <2>11, <3>1, <3>2 DEF Ends
    <3> QED BY <3>3 DEF ops, q, layout
  <2> QED BY <2>6, <2>10, <2>11
<1> QED BY <1>2, <1>3

(* A call jumps with its arguments on the caller's frame, and its           *)
(* continuation on top of them.                                             *)
LEMMA CallLands ==
    ASSUME NEW p, NEW c, NEW b, InUnit(p, c, b),
           NEW i \in DOMAIN c.unit.cfg.code[b], NEW n \in Nat, Operands(c.unit.cfg.code[b][i].args, n),
           NEW Y, <<c.fn, b, i>> \in Y, EntryLabel(p, c.unit.cfg.code[b][i].ref) \in Y,
           NEW m, NEW q, Atop(m, q, Height(c, b, i), Y),
           NEW r, r = Run(m, CallOps(p, c, b, i))
    PROVE  \/ Faulted(r, Y) /\ Panics(CallOps(p, c, b, i))
           \/ /\ ~ r.fault /\ r.jump = EntryLabel(p, c.unit.cfg.code[b][i].ref)
              /\ Arriving(Landed(r), LabelCell(<<c.fn, b, i>>), m.stack, n, Y)
<1> DEFINE ref == c.unit.cfg.code[b][i].ref
           l == <<c.fn, b, i>>
           e == EntryLabel(p, ref)
           x == LabelCell(l)
           args == Arguments(c, b, i)
           u == PushLabel(l)
           v == GotoLabel(e)
           last == <<u, v>>
           ops == CallOps(p, c, b, i)
           s == m.stack
           d == Height(c, b, i)
           m1 == Run(m, args)
<1>1. ops = args \o last
  BY Zenon DEF CallOps, Arguments
<1>2. IsCode(args) /\ Lifts(args, d, 0, n)
  BY ArgumentsLift
<1>3. last \in Seq({u, v}) /\ \A y : Run(y, last) = Exec(Exec(y, u), v)
  BY RunPair
<1>4. s \in Seq(CellOf(Y)) /\ Atop(m, s, 0, Y) /\ Floor(s, d)
  <2>1. Holds(s, q, d, Y)
    BY DEF Atop
  <2>2. s \in Seq(CellOf(Y)) /\ d \in Nat /\ Len(s) \in Nat /\ d <= Len(s) /\ \A k \in 1 .. d : s[k] \in WordCells
    BY <2>1 DEF Holds
  <2>3. Holds(s, s, 0, Y)
    BY <2>2 DEF Holds
  <2> HIDE DEF d, s
  <2> QED BY <2>2, <2>3 DEF Atop, Floor, s
<1>5. Ends(m1, s, n, Y, args)
  BY <1>2, <1>4 DEF Lifts
<1>6. x \in CellOf(Y) /\ e \in Y /\ e # <<>> /\ l # <<>>
  <2>1. 0 \in Word
    BY WordCountIs DEF Word
  <2>2. e # <<>> /\ l # <<>> /\ e \in Y /\ l \in Y
    BY Zenon DEF EntryLabel
  <2> HIDE DEF l, e
  <2>3. x = [word |-> 0, label |-> l]
    BY DEF LabelCell
  <2> QED BY <2>1, <2>2, <2>3 DEF CellOf
<1> HIDE DEF args, last, ops, s, d, e, l
<1>7. IsCode(last)
  BY <1>3 DEF IsCode
<1>8. r = Run(m1, last) /\ Panics(ops) = (Panics(args) \/ Panics(last))
  <2>1. PICK S : args \in Seq(S) /\ last \in Seq(S)
    BY <1>2, <1>7, CodeConcat
  <2>2. Run(m, args \o last) = Run(m1, last)
    BY <2>1, RunConcat
  <2> QED BY <1>1, <1>2, <1>7, <2>2, PanicsConcat DEF ops
<1>9. CASE Faulted(m1, Y) /\ Panics(args)
  <2>1. Len(last) \in Nat
    BY <1>3
  <2>2. r = m1
    BY <1>8, <1>9, <2>1, RunStops DEF Faulted
  <2> QED BY <1>8, <1>9, <2>2 DEF ops
<1>10. CASE Atop(m1, s, n, Y)
  <2> DEFINE t == m1.stack
             w == <<x>> \o t
             m2 == [m1 EXCEPT !.stack = w]
             m3 == [m2 EXCEPT !.jump = e]
  <2>1. IsMachine(m1, Y) /\ m1.fault = FALSE /\ m1.jump = <<>> /\ Holds(t, s, n, Y) /\ t \in Seq(CellOf(Y))
    BY <1>10 DEF Atop, Holds, IsMachine
  <2>2. w \in Seq(CellOf(Y))
    <3>1. CellOf(Y) \cup {x} = CellOf(Y)
      BY <1>6
    <3> HIDE DEF x
    <3> QED BY <2>1, <3>1, ConsLen
  <2>3. Exec(m1, u) = m2
    <3>1. Exec(m1, u) = [m1 EXCEPT !.stack = <<x>> \o SubSeq(t, 1, Len(t))]
      BY <2>1 DEF Exec, PushLabel, Needs, ArithOps
    <3>2. SubSeq(t, 1, Len(t)) = t
      BY <2>1
    <3> QED BY <3>1, <3>2
  <2> HIDE DEF w, t
  <2>4. IsMachine(m2, Y) /\ m2.fault = FALSE /\ m2.jump = <<>> /\ m2.stack = w
    BY <2>1, <2>2 DEF IsMachine
  <2>5. Exec(m2, v) = m3
    <3>1. Len(m2.stack) \in Nat
      BY <2>2, <2>4
    <3> HIDE DEF m2
    <3> QED BY <2>4, <3>1 DEF Exec, GotoLabel, Needs, ArithOps
  <2> HIDE DEF m2
  <2>6. r = m3
    <3> HIDE DEF m1, u, v, m3
    <3> QED BY <1>3, <1>8, <2>3, <2>5
  <2>7. r.fault = FALSE /\ r.jump = e /\ IsMachine(Landed(r), Y) /\ Landed(r).fault = FALSE
        /\ Landed(r).jump = <<>> /\ Landed(r).stack = w
    BY <2>4, <2>6, <1>6 DEF IsMachine, Landed
  <2>8. Arriving(Landed(r), x, s, n, Y)
    BY <1>6, <2>1, <2>7 DEF Arriving, w
  <2> QED BY <2>7, <2>8 DEF e, s, l
<1> QED BY <1>5, <1>9, <1>10 DEF Ends

-----------------------------------------------------------------------------
(* The frames of the callers. *)

(* The labels of program p, and whether l is a call of fn.                  *)
PointLabels(p, fn) ==
    UNION {{<<fn, b, i>> : i \in Points(p.fns[fn].cfg, b)} : b \in p.fns[fn].cfg.blocks}
Labels(p) == {Outside} \cup UNION {PointLabels(p, fn) : fn \in DOMAIN p.fns}
CallAt(p, l, fn) ==
    \E f \in DOMAIN p.fns : \E b \in p.fns[f].cfg.blocks : \E i \in DOMAIN p.fns[f].cfg.code[b] :
        /\ l = <<f, b, i>>
        /\ p.fns[f].cfg.code[b][i].op = "Call" /\ p.fns[f].cfg.code[b][i].ref = fn
Continues(p, l, fn) == (l = Outside /\ fn = p.main) \/ CallAt(p, l, fn)

HeightOf(p, l) == Height(Ctx(p, l[1]), l[2], l[3])

(* Under the label at i: a frame of words, and the continuation of the      *)
(* caller's caller.                                                         *)
Framed(p, q, i) ==
    LET l == q[i].label
        k == i + 1 + HeightOf(p, l)
    IN  /\ \E g : CallAt(p, l, g)
        /\ k <= Len(q)
        /\ \A j \in i + 1 .. k - 1 : q[j] \in WordCells
        /\ Continues(p, q[k].label, l[1])

(* What is under the frame of a function fn.                                *)
Chained(p, q, fn, Y) ==
    /\ q \in Seq(CellOf(Y)) /\ q # <<>>
    /\ q[Len(q)].label = Outside
    /\ Continues(p, q[1].label, fn)
    /\ \A i \in 1 .. Len(q) - 1 : IsLabel(q[i]) => Framed(p, q, i)

(* The unit of a function of the program.                                   *)
LEMMA UnitOf ==
    ASSUME NEW p, WellTyped(p), NEW fn \in DOMAIN p.fns
    PROVE  /\ UnitTyped(p, Ctx(p, fn).unit) /\ Ctx(p, fn).unit = p.fns[fn] /\ Ctx(p, fn).fn = fn
           /\ \A b \in p.fns[fn].cfg.blocks : InUnit(p, Ctx(p, fn), b)
BY DEF WellTyped, Ctx, InUnit

(* A label of a call, taken apart.                                          *)
LEMMA CallFacts ==
    ASSUME NEW p, WellTyped(p), NEW l, NEW fn, CallAt(p, l, fn)
    PROVE  /\ l # Outside /\ l # <<>> /\ l = <<l[1], l[2], l[3]>>
           /\ l[1] \in DOMAIN p.fns /\ l[2] \in p.fns[l[1]].cfg.blocks
           /\ l[3] \in DOMAIN p.fns[l[1]].cfg.code[l[2]]
           /\ p.fns[l[1]].cfg.code[l[2]][l[3]].op = "Call"
           /\ p.fns[l[1]].cfg.code[l[2]][l[3]].ref = fn
           /\ l[3] \in Points(p.fns[l[1]].cfg, l[2]) /\ l[3] + 1 \in Points(p.fns[l[1]].cfg, l[2])
           /\ HeightOf(p, l) \in Nat /\ l \in Labels(p)
<1>0. PICK f \in DOMAIN p.fns : \E b \in p.fns[f].cfg.blocks : \E i \in DOMAIN p.fns[f].cfg.code[b] :
         /\ l = <<f, b, i>>
         /\ p.fns[f].cfg.code[b][i].op = "Call" /\ p.fns[f].cfg.code[b][i].ref = fn
  BY DEF CallAt
<1>1. PICK b \in p.fns[f].cfg.blocks : \E i \in DOMAIN p.fns[f].cfg.code[b] :
         /\ l = <<f, b, i>>
         /\ p.fns[f].cfg.code[b][i].op = "Call" /\ p.fns[f].cfg.code[b][i].ref = fn
  BY <1>0
<1>11. PICK i \in DOMAIN p.fns[f].cfg.code[b] :
         /\ l = <<f, b, i>>
         /\ p.fns[f].cfg.code[b][i].op = "Call" /\ p.fns[f].cfg.code[b][i].ref = fn
  BY <1>1
<1>2. l[1] = f /\ l[2] = b /\ l[3] = i
  BY <1>11
<1>3. l # Outside /\ l # <<>>
  <2>1. Len(l) = 3 /\ Len(Outside) = 1
    BY <1>11 DEF Outside
  <2>2. l # <<>>
    BY <1>11
  <2> QED BY <2>1, <2>2
<1>4. i \in Points(p.fns[f].cfg, b) /\ i + 1 \in Points(p.fns[f].cfg, b)
  <2>1. IsList(p.fns[f].cfg.code[b])
    BY DEF WellTyped, UnitTyped
  <2> QED BY <2>1 DEF IsList, Points
<1>5. HeightOf(p, l) \in Nat
  <2>1. InUnit(p, Ctx(p, f), b) /\ Ctx(p, f).unit = p.fns[f]
    BY UnitOf
  <2> QED BY <1>2, <1>4, <2>1, Stacked DEF HeightOf
<1>6. l \in Labels(p)
  BY <1>11, <1>4 DEF Labels, PointLabels
<1> QED BY <1>11, <1>2, <1>3, <1>4, <1>5, <1>6

(* A continuation is a label: outside, or a call of the function that       *)
(* returns to it.                                                           *)
LEMMA ContinuesLabel ==
    ASSUME NEW p, WellTyped(p), NEW l, NEW fn, Continues(p, l, fn)
    PROVE  l # <<>> /\ (l # Outside => CallAt(p, l, fn)) /\ (l = Outside => fn = p.main)
<1>1. Outside # <<>>
  BY DEF Outside
<1> QED BY <1>1, CallFacts, Zenon DEF Continues

(* Frames do not depend on where they are.                                  *)
LEMMA FramedShift ==
    ASSUME NEW p, WellTyped(p), NEW q, NEW t, NEW e \in Int, NEW i \in Nat, Len(q) \in Nat,
           Len(t) = e + Len(q), \A j \in i .. Len(q) : t[e + j] = q[j], i <= Len(q), Framed(p, q, i)
    PROVE  Framed(p, t, e + i)
<1> DEFINE l == q[i].label
           h == HeightOf(p, l)
           k == i + 1 + h
<1>1. /\ \E g : CallAt(p, l, g)
      /\ k <= Len(q)
      /\ \A j \in i + 1 .. k - 1 : q[j] \in WordCells
      /\ Continues(p, q[k].label, l[1])
  BY DEF Framed
<1>2. h \in Nat
  BY <1>1, CallFacts, Zenon
<1>3. t[e + i].label = l
  OBVIOUS
<1> HIDE DEF l, h
<1>4. t[e + k] = q[k]
  BY <1>1, <1>2
<1>5. (e + i) + 1 + h = e + k /\ e + k <= Len(t)
  BY <1>1, <1>2
<1>6. ASSUME NEW j \in (e + i) + 1 .. (e + k) - 1 PROVE t[j] \in WordCells
  <2>1. j - e \in i + 1 .. k - 1 /\ j - e \in i .. Len(q) /\ e + (j - e) = j
    BY <1>1, <1>2
  <2> QED BY <1>1, <2>1
<1> HIDE DEF k
<1> QED BY <1>1, <1>3, <1>4, <1>5, <1>6 DEF Framed, h

(* A call puts the caller's frame and its continuation on them.             *)
LEMMA PushFrame ==
    ASSUME NEW p, WellTyped(p), NEW Y, NEW q, NEW fn, Chained(p, q, fn, Y),
           NEW l \in Y, NEW g, CallAt(p, l, g), l[1] = fn, NEW s, Holds(s, q, HeightOf(p, l), Y)
    PROVE  Chained(p, <<LabelCell(l)>> \o s, g, Y)
<1> DEFINE x == LabelCell(l)
           C == CellOf(Y)
           k == HeightOf(p, l)
           t == <<x>> \o s
<1>1. /\ k \in Nat /\ l # <<>>
      /\ s \in Seq(C) /\ q \in Seq(C) /\ Len(s) = k + Len(q) /\ Len(q) \in Nat /\ Len(q) >= 1
      /\ \A i \in 1 .. k : s[i] \in WordCells
      /\ \A i \in 1 .. Len(q) : s[k + i] = q[i]
  <2>1. k \in Nat /\ l # <<>>
    BY CallFacts, Zenon
  <2> HIDE DEF k
  <2>2. q \in Seq(C) /\ q # <<>>
    BY DEF Chained
  <2>3. Len(q) \in Nat /\ Len(q) >= 1
    <3> HIDE DEF C
    <3> QED BY <2>2
  <2>4. Holds(s, q, k, Y)
    BY DEF k
  <2> QED BY <2>1, <2>2, <2>3, <2>4 DEF Holds
<1>2. x \in C /\ x.label = l
  <2>1. 0 \in Word
    BY WordCountIs DEF Word
  <2> QED BY <2>1 DEF LabelCell, CellOf
<1> HIDE DEF x, C, k
<1>3. /\ t \in Seq(C) /\ Len(t) = k + 1 + Len(q) /\ t[1] = x
      /\ \A i \in 1 .. k + Len(q) : t[i + 1] = s[i]
  <2>1. C \cup {x} = C
    BY <1>2
  <2>2. /\ t \in Seq(C \cup {x}) /\ Len(t) = Len(s) + 1 /\ t[1] = x
        /\ \A i \in 1 .. Len(s) : t[i + 1] = s[i]
    BY <1>1, ConsLen
  <2> HIDE DEF t
  <2>3. Len(s) + 1 = k + 1 + Len(q)
    BY <1>1
  <2> QED BY <1>1, <2>1, <2>2, <2>3
<1> HIDE DEF t
<1>4. ASSUME NEW i \in 2 .. k + 1 PROVE t[i] \in WordCells
  <2>1. i - 1 \in 1 .. k /\ i - 1 \in 1 .. k + Len(q) /\ (i - 1) + 1 = i
    BY <1>1
  <2> QED BY <1>1, <1>3, <2>1
<1>5. ASSUME NEW i \in 1 .. Len(q) PROVE t[(k + 1) + i] = q[i]
  <2>1. k + i \in 1 .. k + Len(q) /\ (k + i) + 1 = (k + 1) + i
    BY <1>1
  <2> QED BY <1>1, <1>3, <2>1
<1>6. t # <<>> /\ t[Len(t)].label = Outside
  <2>1. (k + 1) + Len(q) = Len(t) /\ Len(q) \in 1 .. Len(q)
    BY <1>1, <1>3
  <2>2. q[Len(q)].label = Outside
    BY DEF Chained
  <2>3. Len(t) # 0
    BY <1>1, <1>3
  <2> QED BY <1>5, <2>1, <2>2, <2>3
<1>7. Continues(p, t[1].label, g)
  BY <1>2, <1>3 DEF Continues
<1>8. ASSUME NEW i \in 1 .. Len(t) - 1, IsLabel(t[i]) PROVE Framed(p, t, i)
  <2>1. CASE i = 1
    <3>1. t[i].label = l /\ HeightOf(p, l) = k
      BY <1>2, <1>3, <2>1 DEF k
    <3>2. i + 1 + k <= Len(t) /\ i + 1 + k = (k + 1) + 1
      BY <1>1, <1>3, <2>1
    <3>3. Continues(p, t[i + 1 + k].label, l[1])
      <4>1. t[(k + 1) + 1] = q[1]
        BY <1>1, <1>5
      <4> QED BY <3>2, <4>1 DEF Chained
    <3>4. \A j \in i + 1 .. (i + 1 + k) - 1 : t[j] \in WordCells
      BY <1>1, <1>4, <2>1
    <3> QED BY <3>1, <3>2, <3>3, <3>4 DEF Framed
  <2>2. CASE i \in 2 .. k + 1
    BY <1>4, <1>8, <2>2 DEF WordCells, IsLabel
  <2>3. CASE i > k + 1
    <3> DEFINE j == i - (k + 1)
    <3>1. j \in 1 .. Len(q) - 1 /\ (k + 1) + j = i /\ j \in 1 .. Len(q) /\ j \in Nat /\ j <= Len(q)
      BY <1>1, <1>3, <2>3
    <3> HIDE DEF j
    <3>2. t[i] = q[j]
      BY <1>5, <3>1
    <3>3. Framed(p, q, j)
      BY <1>8, <3>1, <3>2 DEF Chained
    <3>4. Len(t) = (k + 1) + Len(q) /\ k + 1 \in Int /\ \A n \in j .. Len(q) : t[(k + 1) + n] = q[n]
      BY <1>1, <1>3, <1>5, <3>1
    <3>5. Framed(p, t, (k + 1) + j)
      BY <1>1, <3>1, <3>3, <3>4, FramedShift
    <3> QED BY <3>1, <3>5
  <2> QED BY <1>1, <1>3, <2>1, <2>2, <2>3
<1>9. Chained(p, t, g, Y)
  BY <1>3, <1>6, <1>7, <1>8 DEF Chained, C
<1> QED BY <1>9 DEF t, x

(* A return takes them off again.                                           *)
LEMMA PopFrame ==
    ASSUME NEW p, WellTyped(p), NEW Y, NEW q, NEW fn, Chained(p, q, fn, Y), q[1].label # Outside
    PROVE  LET l == q[1].label
               r == SubSeq(q, HeightOf(p, l) + 2, Len(q))
           IN  CallAt(p, l, fn) /\ Holds(Tail(q), r, HeightOf(p, l), Y) /\ Chained(p, r, l[1], Y)
<1> DEFINE l == q[1].label
           C == CellOf(Y)
           k == HeightOf(p, l)
           r == SubSeq(q, k + 2, Len(q))
           t == Tail(q)
<1>1. q \in Seq(C) /\ Len(q) \in Nat /\ Len(q) >= 1 /\ q[Len(q)].label = Outside /\ Continues(p, l, fn)
  BY DEF Chained
<1>2. CallAt(p, l, fn)
  BY <1>1, ContinuesLabel
<1>3. k \in Nat /\ l # <<>>
  BY <1>2, CallFacts, Zenon
<1>4. Len(q) > 1
  BY <1>1
<1>5. Framed(p, q, 1)
  <2>1. 1 \in 1 .. Len(q) - 1 /\ IsLabel(q[1])
    BY <1>1, <1>3, <1>4 DEF IsLabel
  <2> QED BY <2>1 DEF Chained
<1>6. /\ k + 2 <= Len(q) /\ \A j \in 2 .. k + 1 : q[j] \in WordCells
      /\ Continues(p, q[k + 2].label, l[1])
  <2>1. 1 + 1 + k = k + 2 /\ 1 + 1 = 2 /\ (1 + 1 + k) - 1 = k + 1
    BY <1>3
  <2> HIDE DEF k
  <2> QED BY <1>5, <2>1 DEF Framed, k
<1> HIDE DEF k, l, C
<1>7. /\ r \in Seq(C) /\ Len(r) = Len(q) - (k + 1)
      /\ \A i \in 1 .. Len(q) - (k + 1) : r[i] = q[(k + 1) + i]
  <2>1. k + 2 \in 1 .. Len(q) + 1 /\ Len(q) \in k + 2 - 1 .. Len(q)
    BY <1>1, <1>3, <1>6
  <2>2. /\ r \in Seq(C) /\ Len(r) = Len(q) - (k + 2) + 1
        /\ \A i \in 1 .. Len(q) - (k + 2) + 1 : r[i] = q[k + 2 + i - 1]
    BY <1>1, <2>1, SubSeqProperties
  <2>3. Len(q) - (k + 2) + 1 = Len(q) - (k + 1) /\ \A i \in 1 .. Len(q) - (k + 1) : k + 2 + i - 1 = (k + 1) + i
    BY <1>1, <1>3
  <2> HIDE DEF r
  <2> QED BY <2>2, <2>3
<1>8. t \in Seq(C) /\ Len(t) = Len(q) - 1 /\ \A i \in 1 .. Len(q) - 1 : t[i] = q[i + 1]
  <2>1. q # <<>>
    BY <1>1
  <2> QED BY <1>1, <2>1
<1> HIDE DEF r, t
<1>9. Holds(t, r, k, Y)
  <2>1. Len(t) = k + Len(r)
    BY <1>1, <1>3, <1>7, <1>8
  <2>2. ASSUME NEW i \in 1 .. k PROVE t[i] \in WordCells
    <3>1. i \in 1 .. Len(q) - 1 /\ i + 1 \in 2 .. k + 1
      BY <1>1, <1>3, <1>6
    <3> QED BY <1>6, <1>8, <3>1
  <2>3. ASSUME NEW i \in 1 .. Len(r) PROVE t[k + i] = r[i]
    <3>1. k + i \in 1 .. Len(q) - 1 /\ i \in 1 .. Len(q) - (k + 1) /\ (k + i) + 1 = (k + 1) + i
      BY <1>1, <1>3, <1>7
    <3> QED BY <1>7, <1>8, <3>1
  <2> QED BY <1>3, <1>7, <1>8, <2>1, <2>2, <2>3 DEF Holds, C
<1>10. Chained(p, r, l[1], Y)
  <2>1. Len(r) >= 1 /\ Len(r) \in Nat /\ r # <<>>
    BY <1>1, <1>3, <1>6, <1>7
  <2>2. r[Len(r)].label = Outside
    <3>1. Len(r) \in 1 .. Len(q) - (k + 1) /\ (k + 1) + Len(r) = Len(q)
      BY <1>1, <1>3, <1>7, <2>1
    <3> QED BY <1>1, <1>7, <3>1
  <2>3. Continues(p, r[1].label, l[1])
    <3>1. 1 \in 1 .. Len(q) - (k + 1) /\ (k + 1) + 1 = k + 2
      BY <1>1, <1>3, <1>7, <2>1
    <3> QED BY <1>6, <1>7, <3>1
  <2>4. ASSUME NEW i \in 1 .. Len(r) - 1, IsLabel(r[i]) PROVE Framed(p, r, i)
    <3> DEFINE e == 0 - (k + 1)
               n == (k + 1) + i
    <3>1. /\ n \in 1 .. Len(q) - 1 /\ n \in Nat /\ n <= Len(q) /\ e \in Int /\ e + n = i
          /\ i \in 1 .. Len(q) - (k + 1) /\ Len(r) = e + Len(q)
      <4>1. Len(r) = Len(q) - (k + 1) /\ Len(q) \in Nat /\ k \in Nat /\ i \in 1 .. Len(r) - 1
        BY <1>1, <1>3, <1>7
      <4> QED BY <4>1
    <3>2. Framed(p, q, n)
      <4>1. IsLabel(q[n])
        BY <1>7, <2>4, <3>1
      <4> HIDE DEF n
      <4> QED BY <3>1, <4>1 DEF Chained
    <3>3. ASSUME NEW j \in n .. Len(q) PROVE r[e + j] = q[j]
      <4>1. e + j \in 1 .. Len(q) - (k + 1) /\ (k + 1) + (e + j) = j
        BY <1>1, <1>3, <3>1
      <4> QED BY <1>7, <4>1
    <3> HIDE DEF e, n
    <3>4. Framed(p, r, e + n)
      BY <1>1, <3>1, <3>2, <3>3, FramedShift
    <3> QED BY <3>1, <3>4
  <2> QED BY <1>7, <2>1, <2>2, <2>3, <2>4 DEF Chained, C
<1> QED BY <1>2, <1>9, <1>10 DEF l, k, r, t

(* Words on words on q.                                                     *)
LEMMA HoldsOn ==
    ASSUME NEW s, NEW t, NEW q, NEW h, NEW k, NEW Y, Holds(s, t, k, Y), Holds(t, q, h, Y)
    PROVE  Holds(s, q, k + h, Y)
<1>1. /\ s \in Seq(CellOf(Y)) /\ q \in Seq(CellOf(Y)) /\ k \in Nat /\ h \in Nat
      /\ Len(s) = k + Len(t) /\ Len(t) = h + Len(q) /\ Len(q) \in Nat
  BY DEF Holds
<1>2. ASSUME NEW i \in 1 .. k + h PROVE s[i] \in WordCells
  <2>1. CASE i <= k
    BY <1>1, <2>1 DEF Holds
  <2>2. CASE i > k
    <3>1. i - k \in 1 .. h /\ i - k \in 1 .. Len(t) /\ k + (i - k) = i
      BY <1>1, <2>2
    <3> QED BY <3>1 DEF Holds
  <2> QED BY <1>1, <2>1, <2>2
<1>3. ASSUME NEW i \in 1 .. Len(q) PROVE s[(k + h) + i] = q[i]
  <2>1. h + i \in 1 .. Len(t) /\ k + (h + i) = (k + h) + i
    BY <1>1
  <2> QED BY <2>1 DEF Holds
<1> QED BY <1>1, <1>2, <1>3 DEF Holds

-----------------------------------------------------------------------------
(* The steps of a compiled program. *)

Covered(p) == WellTyped(p) /\ CallsInternal(p) /\ ShufflesReach(p)

IsPoint(p, at) ==
    /\ at = [fn |-> at.fn, block |-> at.block, idx |-> at.idx]
    /\ at.fn \in DOMAIN p.fns /\ at.block \in p.fns[at.fn].cfg.blocks
    /\ at.idx \in Points(p.fns[at.fn].cfg, at.block)
CodeAt(p, at) == Emitted(p, Ctx(p, at.fn), at.block, at.idx)

(* The machine at point at, on top of the callers' frames q.                *)
Stands(p, m, at, q) ==
    /\ Atop(m, q, Height(Ctx(p, at.fn), at.block, at.idx), Labels(p))
    /\ Chained(p, q, at.fn, Labels(p))

(* Either the code of p cannot all be emitted, or execution goes on.        *)
Reaching(p, m, at, q) ==
    \/ Faulted(m, Labels(p)) /\ ~ Emittable(p)
    \/ ~ m.fault /\ IsPoint(p, at) /\ Stands(p, Landed(m), at, q)

(* Landing changes nothing of a machine that did not jump.                  *)
LEMMA AtopLanded ==
    ASSUME NEW m, NEW q, NEW k, NEW Y, Atop(m, q, k, Y) PROVE Atop(Landed(m), q, k, Y) /\ ~ m.fault
BY Zenon DEF Atop, Landed, IsMachine

(* A point, its unit and the code emitted there.                            *)
LEMMA PointFacts ==
    ASSUME NEW p, WellTyped(p), NEW at, IsPoint(p, at)
    PROVE  /\ InUnit(p, Ctx(p, at.fn), at.block) /\ Ctx(p, at.fn).unit = p.fns[at.fn]
           /\ UnitTyped(p, p.fns[at.fn]) /\ Ctx(p, at.fn).fn = at.fn
           /\ IsList(p.fns[at.fn].cfg.code[at.block])
           /\ at.idx \notin DOMAIN p.fns[at.fn].cfg.code[at.block]
                 => at.idx = Len(p.fns[at.fn].cfg.code[at.block]) + 1
           /\ <<at.fn, at.block, at.idx>> \in Labels(p)
<1>1. InUnit(p, Ctx(p, at.fn), at.block) /\ Ctx(p, at.fn).unit = p.fns[at.fn] /\ Ctx(p, at.fn).fn = at.fn
  BY UnitOf, Zenon DEF IsPoint
<1>2. UnitTyped(p, p.fns[at.fn]) /\ IsList(p.fns[at.fn].cfg.code[at.block])
  BY DEF IsPoint, WellTyped, UnitTyped
<1>3. at.idx \notin DOMAIN p.fns[at.fn].cfg.code[at.block]
        => at.idx = Len(p.fns[at.fn].cfg.code[at.block]) + 1
  BY <1>2 DEF IsList, IsPoint, Points
<1>4. <<at.fn, at.block, at.idx>> \in Labels(p)
  BY DEF IsPoint, Labels, PointLabels
<1> QED BY <1>1, <1>2, <1>3, <1>4

(* The first point of a block, at the height of its entry layout.           *)
LEMMA StartPoint ==
    ASSUME NEW p, WellTyped(p), NEW fn \in DOMAIN p.fns, NEW b \in p.fns[fn].cfg.blocks
    PROVE  /\ IsPoint(p, [fn |-> fn, block |-> b, idx |-> 1])
           /\ Height(Ctx(p, fn), b, 1) = Len(p.fns[fn].entry_layout[b])
<1>1. InUnit(p, Ctx(p, fn), b) /\ Ctx(p, fn).unit = p.fns[fn]
  BY UnitOf
<1>2. IsList(p.fns[fn].cfg.code[b])
  BY DEF WellTyped, UnitTyped
<1>3. 1 \in Points(p.fns[fn].cfg, b)
  <2> DEFINE n == Len(p.fns[fn].cfg.code[b])
  <2>1. n \in Nat
    BY <1>2 DEF IsList
  <2> HIDE DEF n
  <2>2. 1 \in 1 .. n + 1
    BY <2>1
  <2> QED BY <2>2 DEF Points, n
<1>4. IsPoint(p, [fn |-> fn, block |-> b, idx |-> 1])
  BY <1>3 DEF IsPoint
<1>5. Height(Ctx(p, fn), b, 1) = Len(p.fns[fn].entry_layout[b])
  <2>1. BlockStack(Ctx(p, fn), b, 1) = <<>>
    BY <1>1, BlockStacks
  <2>2. p.fns[fn].entry_layout[b] \in Seq(Slot)
    BY <1>1, UnitFacts
  <2>3. Height(Ctx(p, fn), b, 1) = 0 + Len(p.fns[fn].entry_layout[b])
    BY <1>1, <2>1 DEF Height, Cells
  <2> QED BY <2>2, <2>3
<1> QED BY <1>4, <1>5

(* The point behind an instruction.                                         *)
LEMMA NextPoint ==
    ASSUME NEW p, WellTyped(p), NEW at, IsPoint(p, at), at.idx \in DOMAIN p.fns[at.fn].cfg.code[at.block]
    PROVE  LET next == [at EXCEPT !.idx = @ + 1]
           IN  IsPoint(p, next) /\ next.fn = at.fn /\ next.block = at.block /\ next.idx = at.idx + 1
<1> DEFINE g == p.fns[at.fn].cfg
           next == [at EXCEPT !.idx = @ + 1]
<1>1. at.idx + 1 \in Points(g, at.block)
  <2>1. IsList(g.code[at.block]) /\ at.idx \in DOMAIN g.code[at.block]
    BY DEF IsPoint, WellTyped, UnitTyped
  <2> HIDE DEF g
  <2> QED BY <2>1 DEF IsList, Points
<1>2. at = [fn |-> at.fn, block |-> at.block, idx |-> at.idx]
  BY DEF IsPoint
<1>3. next = [fn |-> at.fn, block |-> at.block, idx |-> at.idx + 1]
  BY <1>2
<1>4. next.fn = at.fn /\ next.block = at.block /\ next.idx = at.idx + 1
  BY <1>3
<1> HIDE DEF next, g
<1>5. IsPoint(p, next)
  BY <1>1, <1>3, <1>4 DEF IsPoint, g
<1> QED BY <1>4, <1>5 DEF next

(* Compute: from one point of a block to the next.                          *)
LEMMA ComputeStep ==
    ASSUME NEW p, WellTyped(p), NEW at, IsPoint(p, at),
           at.idx \in DOMAIN p.fns[at.fn].cfg.code[at.block],
           p.fns[at.fn].cfg.code[at.block][at.idx].op # "Call",
           NEW m, NEW q, Stands(p, m, at, q)
    PROVE  Reaching(p, Run(m, CodeAt(p, at).ops \o CodeAt(p, at).store), [at EXCEPT !.idx = @ + 1], q)
<1> DEFINE c == Ctx(p, at.fn)
           b == at.block
           i == at.idx
           Y == Labels(p)
           u == Operation(c, b, i)
           v == StoreResult(c, b, i)
           r == Run(m, u \o v)
           next == [at EXCEPT !.idx = @ + 1]
<1>1. InUnit(p, c, b) /\ c.unit = p.fns[at.fn] /\ IsList(c.unit.cfg.code[b]) /\ i \in DOMAIN c.unit.cfg.code[b]
  BY PointFacts, Zenon
<1>2. CodeAt(p, at).ops = u /\ CodeAt(p, at).store = v
  BY <1>1, Zenon DEF CodeAt, Emitted
<1>3. IsPoint(p, next) /\ next.fn = at.fn /\ next.block = b /\ next.idx = i + 1
  BY NextPoint, Zenon
<1>4. Lifts(u \o v, 0, Height(c, b, i), Height(c, b, i + 1)) /\ IsCode(u) /\ IsCode(v)
  BY <1>1, ComputeLifts, OperationLifts, StoreResultLifts, Zenon
<1>5. Atop(m, q, Height(c, b, i), Y) /\ Chained(p, q, at.fn, Y)
  BY DEF Stands
<1> HIDE DEF u, v, c, b, i, next
<1>6. Ends(r, q, Height(c, b, i + 1), Y, u \o v)
  BY <1>4, <1>5, FloorNothing, Zenon DEF Lifts
<1>7. CASE Atop(r, q, Height(c, b, i + 1), Y)
  <2>1. Atop(Landed(r), q, Height(c, b, i + 1), Y) /\ ~ r.fault
    BY <1>7, AtopLanded
  <2>2. Stands(p, Landed(r), next, q)
    BY <1>3, <1>5, <2>1 DEF Stands, c
  <2> QED BY <1>2, <1>3, <2>1, <2>2 DEF Reaching, next
<1>8. CASE Faulted(r, Y) /\ Panics(u \o v)
  <2>1. Panics(u) \/ Panics(v)
    BY <1>4, <1>8, PanicsConcat
  <2>2. ~ Emittable(p)
    BY <2>1, <1>2 DEF Emittable, CodeAt, IsPoint
  <2> QED BY <1>2, <1>8, <2>2 DEF Reaching
<1> QED BY <1>6, <1>7, <1>8 DEF Ends

(* Goto: to another block of the function, which is not its entry.          *)
LEMMA GotoStep ==
    ASSUME NEW p, Covered(p), NEW at, IsPoint(p, at),
           at.idx \notin DOMAIN p.fns[at.fn].cfg.code[at.block],
           p.fns[at.fn].cfg.term[at.block].kind \in {"Jump", "Branch"},
           NEW m, NEW q, Stands(p, m, at, q), NEW r, r = Run(m, CodeAt(p, at).ops)
    PROVE  \/ Faulted(r, Labels(p)) /\ ~ Emittable(p)
           \/ /\ ~ r.fault /\ Target(r).fn = at.fn /\ Target(r).block # p.fns[at.fn].cfg.entry
              /\ Reaching(p, Landed(r), Target(r), q)
<1> DEFINE c == Ctx(p, at.fn)
           b == at.block
           i == at.idx
           Y == Labels(p)
           ops == TerminatorOps(c, b)
<1>0. WellTyped(p) /\ Joined(c, b)
  BY DEF Covered, ShufflesReach, IsPoint
<1>1. /\ InUnit(p, c, b) /\ c.unit = p.fns[at.fn] /\ c.fn = at.fn /\ i = Len(c.unit.cfg.code[b]) + 1
      /\ at.fn \in DOMAIN p.fns
  <2>1. InUnit(p, c, b) /\ c.unit = p.fns[at.fn] /\ c.fn = at.fn
    BY <1>0, PointFacts, Zenon
  <2>2. i = Len(p.fns[at.fn].cfg.code[b]) + 1
    BY <1>0, PointFacts, Zenon
  <2>3. i = Len(c.unit.cfg.code[b]) + 1
    <3> HIDE DEF c, b, i
    <3> QED BY <2>1, <2>2
  <2>4. at.fn \in DOMAIN p.fns
    BY DEF IsPoint
  <2> HIDE DEF c, b, i
  <2> QED BY <2>1, <2>3, <2>4
<1>2. CodeAt(p, at).ops = ops
  BY <1>1, Zenon DEF CodeAt, Emitted
<1>3. Atop(m, q, Height(c, b, Len(c.unit.cfg.code[b]) + 1), Y) /\ Chained(p, q, at.fn, Y)
  BY <1>1, Zenon DEF Stands
<1>4. \A t \in c.unit.cfg.blocks : BlockLabel(c, t) \in Y
  <2>1. ASSUME NEW t \in p.fns[at.fn].cfg.blocks PROVE <<at.fn, t, 1>> \in Y
    BY <1>0, <1>1, StartPoint DEF IsPoint, Labels, PointLabels
  <2> QED BY <1>1, <2>1 DEF BlockLabel
<1>5. PICK t \in c.unit.cfg.blocks \ {c.unit.cfg.entry} :
         Lands(Run(m, ops), BlockLabel(c, t), q, Len(c.unit.entry_layout[t]), Y, ops)
  <2>1. c.unit.cfg.term[b].kind \in {"Jump", "Branch"}
    BY <1>1
  <2> HIDE DEF c, b, ops, Y
  <2> QED BY <1>0, <1>1, <1>3, <1>4, <2>1, JumpLands, Zenon DEF ops
<1> HIDE DEF ops
<1>6. CASE Faulted(r, Y) /\ Panics(ops)
  BY <1>2, <1>6 DEF Emittable, CodeAt, IsPoint
<1>7. CASE Jumped(r, BlockLabel(c, t), q, Len(c.unit.entry_layout[t]), Y)
  <2> DEFINE next == [fn |-> at.fn, block |-> t, idx |-> 1]
  <2>1. ~ r.fault /\ Target(r) = next
    BY <1>1, <1>7 DEF Jumped, Target, PointOf, BlockLabel
  <2>2. Atop(Landed(r), q, Len(c.unit.entry_layout[t]), Y)
    BY <1>7, LandedAtop
  <2>3. Atop(Landed(Landed(r)), q, Len(c.unit.entry_layout[t]), Y) /\ ~ Landed(r).fault
    BY <2>2, AtopLanded
  <2>4. IsPoint(p, next) /\ Height(c, t, 1) = Len(c.unit.entry_layout[t])
    BY <1>0, <1>1, StartPoint
  <2>5. Stands(p, Landed(Landed(r)), next, q)
    BY <1>3, <2>3, <2>4 DEF Stands
  <2>6. Reaching(p, Landed(r), next, q)
    BY <2>3, <2>4, <2>5 DEF Reaching
  <2>7. next.fn = at.fn /\ next.block # p.fns[at.fn].cfg.entry
    BY <1>1
  <2> HIDE DEF next
  <2> QED BY <2>1, <2>6, <2>7
<1> QED BY <1>2, <1>5, <1>6, <1>7 DEF Lands

(* Call: to the entry of the callee, behind its prologue.                   *)
LEMMA CallStep ==
    ASSUME NEW p, Covered(p), NEW at, IsPoint(p, at),
           at.idx \in DOMAIN p.fns[at.fn].cfg.code[at.block],
           p.fns[at.fn].cfg.code[at.block][at.idx].op = "Call",
           NEW m, NEW q, Stands(p, m, at, q), NEW r, r = Run(m, CodeAt(p, at).ops)
    PROVE  \/ Faulted(r, Labels(p)) /\ ~ Emittable(p)
           \/ /\ ~ r.fault /\ Target(r).fn \in DOMAIN p.fns
              /\ Target(r).block = p.fns[Target(r).fn].cfg.entry
              /\ Reaching(p, Run(Landed(r), Prologue(Ctx(p, Target(r).fn))), Target(r),
                          <<LabelCell(<<at.fn, at.block, at.idx>>)>> \o m.stack)
<1> DEFINE c == Ctx(p, at.fn)
           b == at.block
           i == at.idx
           Y == Labels(p)
           inst == p.fns[at.fn].cfg.code[b][i]
           g == inst.ref
           d == Ctx(p, g)
           n == Len(p.fns[g].cfg.params)
           l == <<at.fn, b, i>>
           x == LabelCell(l)
           entry == p.fns[g].cfg.entry
           next == [fn |-> g, block |-> entry, idx |-> 1]
           q2 == <<x>> \o m.stack
           ops == CallOps(p, c, b, i)
           m2 == Run(Landed(r), Prologue(d))
<1>0. WellTyped(p) /\ CallsInternal(p) /\ ShufflesReach(p)
  BY DEF Covered
<1>1. InUnit(p, c, b) /\ c.unit = p.fns[at.fn] /\ c.fn = at.fn /\ l \in Y
  BY <1>0, PointFacts, Zenon
<1>2. CodeAt(p, at).ops = ops
  BY <1>1 DEF CodeAt, Emitted
<1>3. Atop(m, q, Height(c, b, i), Y) /\ Chained(p, q, at.fn, Y)
  BY DEF Stands
<1>4. g \in DOMAIN p.fns /\ Operands(inst.args, n)
  <2>1. InstTyped(p, inst)
    BY <1>1, UnitFacts
  <2> QED BY <2>1, Zenon DEF InstTyped
<1>5. CallAt(p, l, g) /\ ~ p.fns[g].cfg.external
  BY <1>0, Zenon DEF CallAt, CallsInternal, IsPoint
<1>6. /\ UnitTyped(p, d.unit) /\ d.unit = p.fns[g] /\ d.fn = g
      /\ entry \in p.fns[g].cfg.blocks /\ n \in Nat
  <2>1. UnitTyped(p, d.unit) /\ d.unit = p.fns[g] /\ d.fn = g
    BY <1>0, <1>4, UnitOf, Zenon
  <2>2. UnitTyped(p, p.fns[g])
    BY <1>0, <1>4, Zenon DEF WellTyped
  <2>3. entry \in p.fns[g].cfg.blocks /\ p.fns[g].cfg.params \in Seq(Slot)
    BY <2>2, Zenon DEF UnitTyped
  <2> HIDE DEF g, d, entry
  <2> QED BY <2>1, <2>3
<1>7. IsPoint(p, next) /\ Height(d, entry, 1) = Len(p.fns[g].entry_layout[entry])
  BY <1>0, <1>4, <1>6, StartPoint, Zenon
<1>8. EntryLabel(p, g) = <<g, entry, 1>> /\ <<g, entry, 1>> \in Y
  <2>1. 1 \in Points(p.fns[g].cfg, entry)
    BY <1>7, Zenon DEF IsPoint
  <2> HIDE DEF g, entry
  <2>2. <<g, entry, 1>> \in Labels(p)
    <3>1. <<g, entry, 1>> \in PointLabels(p, g)
      BY <1>6, <2>1 DEF PointLabels
    <3> QED BY <1>4, <3>1, Zenon DEF Labels
  <2>3. EntryLabel(p, g) = <<g, entry, 1>>
    BY DEF EntryLabel, entry
  <2> QED BY <2>2, <2>3
<1>9. \/ Faulted(r, Y) /\ Panics(ops)
      \/ /\ ~ r.fault /\ r.jump = EntryLabel(p, g)
         /\ Arriving(Landed(r), x, m.stack, n, Y)
  <2>1. i \in DOMAIN c.unit.cfg.code[b] /\ inst = c.unit.cfg.code[b][i]
    BY <1>1
  <2>2. r = Run(m, ops)
    BY <1>2
  <2>3. l = <<c.fn, b, i>>
    BY <1>1
  <2>4. Atop(m, q, Height(c, b, i), Y)
    BY <1>3
  <2> HIDE DEF c, b, i, Y, n, l, inst
  <2>5. Operands(c.unit.cfg.code[b][i].args, n) /\ EntryLabel(p, c.unit.cfg.code[b][i].ref) = EntryLabel(p, g)
    BY <1>4, <2>1, Zenon
  <2> HIDE DEF g, ops
  <2>6. EntryLabel(p, c.unit.cfg.code[b][i].ref) \in Y
    BY <1>8, <2>5, Zenon
  <2>7. r = Run(m, CallOps(p, c, b, i))
    BY <2>2 DEF ops
  <2>8. <<c.fn, b, i>> \in Y
    BY <1>1, <2>3
  <2>9. \/ Faulted(r, Y) /\ Panics(CallOps(p, c, b, i))
        \/ /\ ~ r.fault /\ r.jump = EntryLabel(p, c.unit.cfg.code[b][i].ref)
           /\ Arriving(Landed(r), LabelCell(<<c.fn, b, i>>), m.stack, n, Y)
    BY <1>1, <1>6, <2>1, <2>4, <2>5, <2>6, <2>7, <2>8, CallLands, Zenon
  <2> QED BY <2>3, <2>5, <2>9, Zenon DEF ops, x
<1>10. CASE Faulted(r, Y) /\ Panics(ops)
  BY <1>2, <1>10 DEF Emittable, CodeAt, IsPoint
<1>11. CASE ~ r.fault /\ r.jump = EntryLabel(p, g) /\ Arriving(Landed(r), x, m.stack, n, Y)
  <2>1. Target(r) = next
    <3>1. Target(r) = PointOf(<<g, entry, 1>>)
      BY <1>8, <1>11, Zenon DEF Target
    <3> QED BY <3>1, Zenon DEF PointOf
  <2>2. EntryJoined(d)
    BY <1>0, <1>4, Zenon DEF ShufflesReach
  <2>3. Ends(m2, q2, Len(p.fns[g].entry_layout[entry]), Y, Prologue(d))
    <3> HIDE DEF d, Y, x, n
    <3> QED BY <1>5, <1>6, <1>11, <2>2, PrologueInternal, Zenon DEF n
  <2>4. Chained(p, q2, g, Y)
    <3>1. l[1] = at.fn /\ l[2] = b /\ l[3] = i
      OBVIOUS
    <3>2. Holds(m.stack, q, HeightOf(p, l), Y)
      BY <1>3, <3>1 DEF HeightOf, Atop
    <3> HIDE DEF l
    <3> QED BY <1>0, <1>1, <1>3, <1>5, <3>1, <3>2, PushFrame, Zenon
  <2> HIDE DEF q2, m2, next
  <2>5. Reaching(p, m2, next, q2)
    <3>1. CASE Atop(m2, q2, Len(p.fns[g].entry_layout[entry]), Y)
      <4>1. Atop(Landed(m2), q2, Height(d, entry, 1), Y) /\ ~ m2.fault
        BY <1>7, <3>1, AtopLanded, Zenon
      <4>2. Stands(p, Landed(m2), next, q2)
        BY <2>4, <4>1, Zenon DEF Stands, next
      <4> QED BY <1>7, <4>1, <4>2, Zenon DEF Reaching
    <3>2. CASE Faulted(m2, Y) /\ Panics(Prologue(d))
      BY <3>2, <1>4, Zenon DEF Reaching, Emittable
    <3> QED BY <2>3, <3>1, <3>2, Zenon DEF Ends
  <2>6. next.fn = g /\ next.block = entry
    BY Zenon DEF next
  <2> QED BY <1>4, <1>11, <2>1, <2>5, <2>6, Zenon DEF q2, m2
<1> QED BY <1>9, <1>10, <1>11, Zenon

(* Return: behind the call, with the frame that was under it.               *)
LEMMA ReturnStep ==
    ASSUME NEW p, Covered(p), NEW at, IsPoint(p, at),
           at.idx \notin DOMAIN p.fns[at.fn].cfg.code[at.block],
           p.fns[at.fn].cfg.term[at.block].kind = "Return",
           NEW m, NEW q, Stands(p, m, at, q), NEW r, r = Run(m, CodeAt(p, at).ops)
    PROVE  LET l == q[1].label
               under == SubSeq(q, HeightOf(p, l) + 2, Len(q))
           IN  \/ Faulted(r, Labels(p)) /\ ~ Emittable(p)
               \/ /\ ~ r.fault /\ r.jump = l /\ l = Outside /\ at.fn = p.main
                  /\ \E k : /\ k = (IF p.fns[at.fn].cfg.term[at.block].args = <<>> THEN 0 ELSE 1)
                            /\ Jumped(r, l, Tail(q), k, Labels(p))
               \/ /\ ~ r.fault /\ r.jump = l /\ l # Outside
                  /\ IsPoint(p, Target(r))
                  /\ Holds(Tail(q), under, HeightOf(p, l), Labels(p))
                  /\ Reaching(p, Run(Landed(r), CodeAt(p, Target(r)).store), [Target(r) EXCEPT !.idx = @ + 1], under)
<1> DEFINE c == Ctx(p, at.fn)
           b == at.block
           i == at.idx
           Y == Labels(p)
           ops == TerminatorOps(c, b)
           l == q[1].label
           h == HeightOf(p, l)
           under == SubSeq(q, h + 2, Len(q))
           k == IF p.fns[at.fn].cfg.term[b].args = <<>> THEN 0 ELSE 1
<1>0. WellTyped(p) /\ Joined(c, b)
  BY DEF Covered, ShufflesReach, IsPoint
<1>1. /\ InUnit(p, c, b) /\ c.unit = p.fns[at.fn] /\ c.fn = at.fn /\ i = Len(c.unit.cfg.code[b]) + 1
      /\ at.fn \in DOMAIN p.fns
  <2>1. InUnit(p, c, b) /\ c.unit = p.fns[at.fn] /\ c.fn = at.fn
    BY <1>0, PointFacts, Zenon
  <2>2. i = Len(p.fns[at.fn].cfg.code[b]) + 1
    BY <1>0, PointFacts, Zenon
  <2>3. i = Len(c.unit.cfg.code[b]) + 1
    <3> HIDE DEF c, b, i
    <3> QED BY <2>1, <2>2
  <2>4. at.fn \in DOMAIN p.fns
    BY DEF IsPoint
  <2> HIDE DEF c, b, i
  <2> QED BY <2>1, <2>3, <2>4
<1>2. CodeAt(p, at).ops = ops
  BY <1>1, Zenon DEF CodeAt, Emitted
<1>3. Atop(m, q, Height(c, b, Len(c.unit.cfg.code[b]) + 1), Y) /\ Chained(p, q, at.fn, Y)
  BY <1>1, Zenon DEF Stands
<1>4. q # <<>> /\ IsLabel(q[1]) /\ Continues(p, l, at.fn)
  BY <1>0, <1>3, ContinuesLabel DEF Chained, IsLabel
<1>5. Lands(r, l, Tail(q), k, Y, ops)
  <2>1. c.unit.cfg.term[b].kind = "Return"
    BY <1>1, Zenon
  <2> HIDE DEF c, b, ops, Y
  <2> QED BY <1>0, <1>1, <1>2, <1>3, <1>4, <2>1, ReturnLands, Zenon DEF ops, c, b
<1> HIDE DEF ops
<1>6. CASE Faulted(r, Y) /\ Panics(ops)
  BY <1>2, <1>6 DEF Emittable, CodeAt, IsPoint
<1>7. CASE Jumped(r, l, Tail(q), k, Y) /\ l = Outside
  <2>1. ~ r.fault /\ r.jump = l /\ at.fn = p.main
    BY <1>0, <1>4, <1>7, ContinuesLabel, Zenon DEF Jumped
  <2> QED BY <1>7, <2>1, Zenon
<1>8. CASE Jumped(r, l, Tail(q), k, Y) /\ l # Outside
  <2> DEFINE f == l[1]
             e == Ctx(p, f)
             inst == p.fns[f].cfg.code[l[2]][l[3]]
             to == [fn |-> f, block |-> l[2], idx |-> l[3]]
             store == CodeAt(p, to).store
             m2 == Run(Landed(r), store)
             next == [to EXCEPT !.idx = @ + 1]
  <2>1. CallAt(p, l, at.fn) /\ Holds(Tail(q), under, h, Y) /\ Chained(p, under, f, Y)
    BY <1>0, <1>3, <1>8, PopFrame, Zenon
  <2>2. /\ f \in DOMAIN p.fns /\ l[2] \in p.fns[f].cfg.blocks
        /\ l[3] \in DOMAIN p.fns[f].cfg.code[l[2]]
        /\ inst.op = "Call" /\ inst.ref = at.fn
        /\ l[3] \in Points(p.fns[f].cfg, l[2]) /\ l[3] + 1 \in Points(p.fns[f].cfg, l[2])
        /\ h \in Nat
    <3> HIDE DEF l
    <3> QED BY <1>0, <2>1, CallFacts, Zenon DEF f, inst, h
  <2>3. IsPoint(p, to) /\ IsPoint(p, next) /\ next = [fn |-> f, block |-> l[2], idx |-> l[3] + 1]
    <3>1. to.fn = f /\ to.block = l[2] /\ to.idx = l[3] /\ to = [fn |-> to.fn, block |-> to.block, idx |-> to.idx]
      OBVIOUS
    <3>2. next.fn = f /\ next.block = l[2] /\ next.idx = l[3] + 1
          /\ next = [fn |-> f, block |-> l[2], idx |-> l[3] + 1]
      OBVIOUS
    <3> HIDE DEF to, next, f, l
    <3>3. IsPoint(p, to)
      BY <2>2, <3>1 DEF IsPoint
    <3>4. IsPoint(p, next)
      BY <2>2, <3>2 DEF IsPoint
    <3> QED BY <3>2, <3>3, <3>4
  <2>4. Target(r) = to /\ ~ r.fault /\ r.jump = l
    BY <1>8, Zenon DEF Jumped, Target, PointOf
  <2>5. InUnit(p, e, l[2]) /\ e.unit = p.fns[f]
    BY <1>0, <2>2, UnitOf, Zenon
  <2>6. Yield(inst) = k
    <3>1. InstTyped(p, inst)
      BY <2>2, <2>5, UnitFacts, Zenon
    <3>2. Returns(p.fns[at.fn], inst.dest = {})
      BY <2>2, <3>1, Zenon DEF InstTyped
    <3>3. (p.fns[at.fn].cfg.term[b].args = <<>>) = (inst.dest = {})
      BY <3>2, Zenon DEF Returns, IsPoint
    <3> QED BY <3>3, Zenon DEF Yield
  <2>7. Holds(Landed(r).stack, under, h + Yield(inst), Y)
    <3>1. Landed(r).stack = r.stack /\ Holds(r.stack, Tail(q), k, Y)
      BY <1>8, Zenon DEF Jumped, Landed, IsMachine
    <3>2. k \in Nat
      OBVIOUS
    <3> HIDE DEF k, under, h, inst, Y
    <3>3. Holds(r.stack, under, k + h, Y)
      BY <2>1, <3>1, HoldsOn
    <3> QED BY <2>2, <2>6, <3>1, <3>2, <3>3
  <2>8. Atop(Landed(r), under, h + Yield(inst), Y)
    <3>1. Atop(Landed(r), Tail(q), k, Y)
      BY <1>8, LandedAtop, Zenon
    <3> HIDE DEF k, under, h, inst, Y
    <3> QED BY <2>7, <3>1 DEF Atop
  <2>9. store = StoreResult(e, l[2], l[3])
    BY <2>2, <2>5, Zenon DEF CodeAt, Emitted
  <2>10. Lifts(store, 0, h + Yield(inst), Height(e, l[2], l[3] + 1))
    BY <2>2, <2>5, <2>9, StoreResultLifts, Zenon DEF HeightOf
  <2> HIDE DEF store, h, inst, under, k, m2, next, to, l
  <2>11. Ends(m2, under, Height(e, l[2], l[3] + 1), Y, store)
    BY <2>8, <2>10, FloorNothing DEF Lifts, m2
  <2>12. Reaching(p, m2, next, under)
    <3>1. CASE Atop(m2, under, Height(e, l[2], l[3] + 1), Y)
      <4>1. Atop(Landed(m2), under, Height(e, l[2], l[3] + 1), Y) /\ ~ m2.fault
        BY <3>1, AtopLanded
      <4>2. Stands(p, Landed(m2), next, under)
        BY <2>1, <2>3, <4>1 DEF Stands
      <4> QED BY <2>3, <4>1, <4>2 DEF Reaching
    <3>2. CASE Faulted(m2, Y) /\ Panics(store)
      <4>1. ~ Emittable(p)
        BY <2>2, <3>2 DEF Emittable, store, CodeAt, to
      <4> QED BY <3>2, <4>1 DEF Reaching
    <3> QED BY <2>11, <3>1, <3>2 DEF Ends
  <2> QED BY <1>8, <2>1, <2>3, <2>4, <2>12, Zenon DEF m2, store, next, l, h, under
<1> QED BY <1>5, <1>6, <1>7, <1>8, Zenon DEF Lands

(* Compile(p) holds the code of every point.                                *)
LEMMA CompiledIs ==
    ASSUME NEW p, NEW at, IsPoint(p, at)
    PROVE  Compile(p)[at.fn].blocks[at.block][at.idx] = CodeAt(p, at)
BY DEF IsPoint, Compile, CodeAt, Ctx

(* And the prologue of every function.                                      *)
LEMMA PrologueIs ==
    ASSUME NEW p, NEW fn \in DOMAIN p.fns
    PROVE  Compile(p)[fn].prologue = Prologue(Ctx(p, fn))
BY DEF Compile

(* Landing leaves a machine, faulted or not as before.                      *)
LEMMA LandedMachine ==
    ASSUME NEW m, NEW Y, IsMachine(m, Y) PROVE IsMachine(Landed(m), Y) /\ Landed(m).fault = m.fault
<1>1. m = [stack |-> m.stack, memory |-> m.memory, storage |-> m.storage,
           jump |-> m.jump, fault |-> m.fault, stale |-> m.stale]
  BY DEF IsMachine
<1>2. Landed(m) = [stack |-> m.stack, memory |-> m.memory, storage |-> m.storage,
                   jump |-> <<>>, fault |-> m.fault, stale |-> m.stale]
  BY <1>1 DEF Landed
<1>3. /\ m.stack \in Seq(CellOf(Y)) /\ m.storage \in [Keys -> Word]
      /\ m.fault \in BOOLEAN /\ m.stale \in BOOLEAN /\ Memories(m.memory)
  BY DEF IsMachine
<1>4. /\ Landed(m).memory = m.memory /\ Landed(m).stack = m.stack /\ Landed(m).storage = m.storage
      /\ Landed(m).jump = <<>> /\ Landed(m).fault = m.fault /\ Landed(m).stale = m.stale
  BY <1>2
<1>5. Landed(m) \in [stack : Seq(CellOf(Y)), memory : {Landed(m).memory}, storage : [Keys -> Word],
                     jump : Y \cup {<<>>}, fault : BOOLEAN, stale : BOOLEAN]
  BY <1>2, <1>3, <1>4
<1> QED BY <1>3, <1>4, <1>5 DEF IsMachine

(* Under k words and then a label lies what starts with that label.         *)
LEMMA UnderFrameIs ==
    ASSUME NEW s, NEW q, NEW k, NEW Y, Holds(s, q, k, Y), q # <<>>, IsLabel(q[1])
    PROVE  UnderFrame(s) = q
<1>1. /\ s \in Seq(CellOf(Y)) /\ q \in Seq(CellOf(Y)) /\ k \in Nat /\ Len(s) = k + Len(q)
      /\ Len(q) >= 1 /\ DOMAIN s = 1 .. Len(s) /\ Len(q) \in Nat
  BY DEF Holds
<1>2. \A j \in 1 .. k : ~ IsLabel(s[j])
  BY DEF Holds, WordCells, IsLabel
<1>3. s[k + 1] = q[1]
  BY <1>1 DEF Holds
<1>4. Continuation(s) = k + 1
  <2>1. k + 1 \in DOMAIN s /\ IsLabel(s[k + 1]) /\ \A j \in 1 .. (k + 1) - 1 : ~ IsLabel(s[j])
    BY <1>1, <1>2, <1>3
  <2>2. ASSUME NEW i \in DOMAIN s, IsLabel(s[i]), \A j \in 1 .. i - 1 : ~ IsLabel(s[j])
        PROVE  i = k + 1
    BY <1>1, <1>2, <2>1, <2>2
  <2> QED BY <2>1, <2>2 DEF Continuation
<1>5. SubSeq(s, k + 1, Len(s)) = q
  <2> DEFINE t == SubSeq(s, k + 1, Len(s))
  <2>1. t = [i \in 1 .. Len(q) |-> s[k + i]]
    <3>1. t = [i \in 1 .. Len(s) - (k + 1) + 1 |-> s[(k + 1) + i - 1]]
      BY <1>1
    <3>2. Len(s) - (k + 1) + 1 = Len(q)
      BY <1>1
    <3>3. \A i \in 1 .. Len(q) : (k + 1) + i - 1 = k + i
      BY <1>1
    <3> HIDE DEF t
    <3> QED BY <3>1, <3>2, <3>3
  <2>2. \A i \in 1 .. Len(q) : s[k + i] = q[i]
    BY DEF Holds
  <2>3. q = [i \in 1 .. Len(q) |-> q[i]]
    BY <1>1
  <2> HIDE DEF t
  <2> QED BY <2>1, <2>2, <2>3 DEF t
<1>6. \E i \in DOMAIN s : IsLabel(s[i])
  BY <1>1, <1>3
<1> QED BY <1>4, <1>5, <1>6 DEF UnderFrame, Below

(* The outside call: the entry of main, on the continuation outside.        *)
LEMMA StartsStand ==
    ASSUME NEW p, WellTyped(p), NEW memory, Memories(memory), NEW st \in [Keys -> Word],
           NEW at, at = [fn |-> p.main, block |-> p.fns[p.main].cfg.entry, idx |-> 1],
           NEW r, r = Run(Machine(<<LabelCell(Outside)>>, memory, st), Prologue(Ctx(p, p.main)))
    PROVE  IsPoint(p, at) /\ Stands(p, r, at, <<LabelCell(Outside)>>)
<1> DEFINE c == Ctx(p, p.main)
           Y == Labels(p)
           x == LabelCell(Outside)
           q == <<x>>
           m == Machine(q, memory, st)
           entry == p.fns[p.main].cfg.entry
<1>1. p.main \in DOMAIN p.fns /\ p.fns[p.main].cfg.external
  BY DEF WellTyped
<1>2. UnitTyped(p, c.unit) /\ c.unit = p.fns[p.main] /\ c.unit.cfg.external
  BY <1>1, UnitOf
<1>3. entry \in p.fns[p.main].cfg.blocks
  BY <1>1 DEF WellTyped, UnitTyped
<1>4. IsPoint(p, at) /\ Height(c, entry, 1) = Len(p.fns[p.main].entry_layout[entry])
  BY <1>1, <1>3, StartPoint
<1>5. x \in CellOf(Y) /\ IsLabel(x) /\ x.label = Outside
  BY WordCountIs DEF CellOf, LabelCell, Labels, Word, IsLabel, Outside
<1>6. Atop(m, q, 0, Y) /\ Floor(q, 0)
  <2>1. q \in Seq(CellOf(Y)) /\ Len(q) = 1 /\ q[1] = x
    BY <1>5
  <2>2. IsMachine(m, Y) /\ ~ m.fault /\ m.jump = <<>> /\ m.stack = q
    BY <2>1 DEF IsMachine, Machine
  <2> HIDE DEF q, m
  <2>3. Holds(q, q, 0, Y)
    BY <2>1 DEF Holds
  <2> QED BY <2>1, <2>2, <2>3 DEF Atop, Floor
<1>7. Lifts(Prologue(c), 0, 0, Len(c.unit.entry_layout[c.unit.cfg.entry])) /\ ~ Panics(Prologue(c))
  BY <1>2, PrologueExternal
<1>8. Chained(p, q, p.main, Y)
  BY <1>5 DEF Chained, Continues
<1>9. Atop(r, q, Height(c, entry, 1), Y)
  <2>1. r = Run(m, Prologue(c))
    OBVIOUS
  <2>2. Len(c.unit.entry_layout[c.unit.cfg.entry]) = Height(c, entry, 1)
    BY <1>2, <1>4
  <2> HIDE DEF c, m, Y, q, entry
  <2>3. Ends(Run(m, Prologue(c)), q, Height(c, entry, 1), Y, Prologue(c))
    BY <1>6, <1>7, <2>2 DEF Lifts
  <2> QED BY <1>7, <2>1, <2>3 DEF Ends
<1>10. at.fn = p.main /\ at.block = entry /\ at.idx = 1
  OBVIOUS
<1> HIDE DEF c, Y, q, entry
<1> QED BY <1>4, <1>8, <1>9, <1>10 DEF Stands, c, Y, q

(* Nothing follows the only element.                                        *)
LEMMA TailOne ==
    ASSUME NEW S, NEW q \in Seq(S), Len(q) = 1 PROVE Tail(q) = <<>>
<1> DEFINE r == Tail(q)
<1>1. q # <<>>
  OBVIOUS
<1>2. r \in Seq(S) /\ Len(r) = Len(q) - 1
  BY <1>1, HeadTailProperties
<1>3. Len(r) = 0
  BY <1>2
<1> HIDE DEF r
<1>4. Len(<<>>) = 0 /\ <<>> \in Seq(S)
  BY EmptySeq
<1>5. r = <<>>
  BY <1>2, <1>3, <1>4, SeqEqual
<1> QED BY <1>5 DEF r

(* Nothing is under the continuation outside.                               *)
LEMMA OutsideLast ==
    ASSUME NEW p, WellTyped(p), NEW q, NEW fn, NEW Y, Chained(p, q, fn, Y), q[1].label = Outside
    PROVE  Len(q) = 1 /\ Tail(q) = <<>>
<1> DEFINE n == Len(q)
<1>1. q \in Seq(CellOf(Y)) /\ n \in Nat /\ n >= 1
  BY DEF Chained
<1>2. IsLabel(q[1]) /\ \A i \in 1 .. n - 1 : IsLabel(q[i]) => Framed(p, q, i)
  BY DEF IsLabel, Outside, Chained
<1>3. ~ Framed(p, q, 1)
  BY CallFacts, Zenon DEF Framed
<1>4. n = 1
  <2> HIDE DEF n
  <2> QED BY <1>1, <1>2, <1>3
<1> QED BY <1>1, <1>4, TailOne DEF n

(* The external continuation: it returns the word it finds.                 *)
LEMMA OutsideReturns ==
    ASSUME NEW p, NEW Y, NEW m, NEW k \in {0, 1}, Atop(m, <<>>, k, Y),
           NEW end, end = Run(m, ExternalContinuation(p))
    PROVE  /\ IsMachine(end, Y)
           /\ end.fault => k = 0 /\ ~ p.creation
           /\ ~ end.fault => Recall(end.memory, 0).word \in Word
<1>1. IsMachine(m, Y) /\ ~ m.fault /\ m.jump = <<>> /\ Holds(m.stack, <<>>, k, Y)
  BY DEF Atop
<1>2. ASSUME NEW f, Memories(f) PROVE Recall(f, 0).word \in Word
  <2>1. WordCell(0).word \in Word
    BY WordCountIs DEF WordCell, Word
  <2>2. 0 \in DOMAIN f => f[0].word \in Word
    BY <1>2 DEF Memories, WordCells
  <2> QED BY <2>1, <2>2 DEF Recall
<1>3. CASE p.creation
  <2>1. end = m
    BY <1>3, RunNothing DEF ExternalContinuation
  <2> QED BY <1>1, <1>2, <2>1 DEF IsMachine
<1>4. CASE ~ p.creation
  <2> DEFINE o == MStore(0)
  <2>1. end = Exec(m, o)
    BY <1>4, RunOne DEF ExternalContinuation
  <2>2. CASE k = 1
    <3>1. Moves(o, 0, 1, 0) /\ o # Panic
      BY DEF Moves, MStore, Panic
    <3>2. Floor(<<>>, 0)
      BY DEF Floor
    <3> HIDE DEF o
    <3>3. Atop(end, <<>>, 0, Y)
      BY <2>1, <2>2, <3>1, <3>2, ExecMoves
    <3> QED BY <1>2, <3>3 DEF Atop, IsMachine
  <2>3. CASE k = 0
    <3>1. Len(m.stack) = 0
      BY <1>1, <2>3 DEF Holds
    <3>2. end = [m EXCEPT !.fault = TRUE]
      <4>1. Needs(o) = 1
        BY DEF Needs, MStore, ArithOps
      <4>2. Len(m.stack) < Needs(o)
        BY <3>1, <4>1
      <4> HIDE DEF o
      <4> QED BY <1>1, <2>1, <4>2 DEF Exec
    <3>3. IsMachine(end, Y) /\ end.fault
      BY <1>1, <3>2 DEF IsMachine
    <3> QED BY <1>4, <2>3, <3>3
  <2> QED BY <2>2, <2>3
<1> QED BY <1>3, <1>4

(* Where the function of the frame that starts at cell i stands.            *)
Spot(at, s, i) == IF i = 1 THEN at ELSE PointOf(s[i-1].label)
LayoutAt(p, at) == Layout(Ctx(p, at.fn), at.block, at.idx)
FrameHolds(s, i, n) ==
    /\ i + n \in DOMAIN s /\ IsLabel(s[i + n])
    /\ \A j \in i .. i + n - 1 : ~ IsLabel(s[j])

(* The layout of a point has one slot for each cell of its frame.           *)
LEMMA LayoutHeight ==
    ASSUME NEW p, WellTyped(p), NEW at, IsPoint(p, at)
    PROVE  /\ Len(LayoutAt(p, at)) = Height(Ctx(p, at.fn), at.block, at.idx)
           /\ Len(LayoutAt(p, at)) \in Nat
<1>1. InUnit(p, Ctx(p, at.fn), at.block) /\ Ctx(p, at.fn).unit = p.fns[at.fn]
  BY PointFacts
<1>2. at.idx \in Points(Ctx(p, at.fn).unit.cfg, at.block)
  BY <1>1 DEF IsPoint
<1> QED BY <1>1, <1>2, Stacked DEF LayoutAt

(* A label of a call is a point of the program.                             *)
LEMMA CallPoint ==
    ASSUME NEW p, WellTyped(p), NEW l, NEW g, CallAt(p, l, g)
    PROVE  IsPoint(p, PointOf(l)) /\ Len(LayoutAt(p, PointOf(l))) = HeightOf(p, l)
<1>1. /\ l[1] \in DOMAIN p.fns /\ l[2] \in p.fns[l[1]].cfg.blocks
      /\ l[3] \in Points(p.fns[l[1]].cfg, l[2])
  BY CallFacts, Zenon
<1> DEFINE at == PointOf(l)
<1>2. /\ at = [fn |-> at.fn, block |-> at.block, idx |-> at.idx]
      /\ at.fn = l[1] /\ at.block = l[2] /\ at.idx = l[3]
  BY DEF PointOf
<1> HIDE DEF at
<1>3. IsPoint(p, at)
  BY <1>1, <1>2 DEF IsPoint
<1>4. Len(LayoutAt(p, at)) = HeightOf(p, l)
  BY <1>2, <1>3, LayoutHeight DEF HeightOf
<1> QED BY <1>3, <1>4 DEF at

(* Where a program stands on the frames of its callers, every frame has the *)
(* layout of its point.                                                     *)
LEMMA FramesStand ==
    ASSUME NEW p, WellTyped(p), NEW at, IsPoint(p, at), NEW m, NEW q, Stands(p, m, at, q),
           NEW s, s = m.stack
    PROVE  /\ s # <<>> /\ s[Len(s)].label = Outside
           /\ \A i \in DOMAIN s : IsStart(s, i) =>
                 IsPoint(p, Spot(at, s, i)) /\ FrameHolds(s, i, Len(LayoutAt(p, Spot(at, s, i))))
<1> DEFINE Y == Labels(p)
           k == Len(LayoutAt(p, at))
<1>1. Holds(s, q, k, Y) /\ Chained(p, q, at.fn, Y) /\ k \in Nat
  BY LayoutHeight DEF Stands, Atop
<1> HIDE DEF k, Y
<1>2. /\ s \in Seq(CellOf(Y)) /\ q \in Seq(CellOf(Y)) /\ Len(s) = k + Len(q)
      /\ Len(q) \in Nat /\ Len(q) >= 1 /\ DOMAIN s = 1 .. Len(s)
      /\ \A e \in 1 .. Len(q) : s[k + e] = q[e]
  BY <1>1 DEF Holds, Chained
<1>3. \A i \in 1 .. k : ~ IsLabel(s[i])
  BY <1>1 DEF Holds, WordCells, IsLabel
<1>4. q[Len(q)].label = Outside
  BY <1>1 DEF Chained
<1>5. s # <<>> /\ s[Len(s)].label = Outside
  <2>1. s[k + Len(q)] = q[Len(q)]
    BY <1>2
  <2>2. Len(s) # 0
    BY <1>1, <1>2
  <2> QED BY <1>2, <1>4, <2>1, <2>2
<1>6. ASSUME NEW i \in DOMAIN s, i = 1
      PROVE  IsPoint(p, Spot(at, s, i)) /\ FrameHolds(s, i, Len(LayoutAt(p, Spot(at, s, i))))
  <2>1. Spot(at, s, i) = at
    BY <1>6 DEF Spot
  <2>2. IsLabel(q[1])
    BY <1>1, ContinuesLabel DEF Chained, IsLabel
  <2>3. 1 + k \in DOMAIN s /\ s[1 + k] = q[1]
    <3>1. s[k + 1] = q[1] /\ k + 1 = 1 + k
      BY <1>1, <1>2
    <3> QED BY <1>1, <1>2, <3>1
  <2>4. FrameHolds(s, 1, k)
    BY <1>1, <1>3, <2>2, <2>3 DEF FrameHolds
  <2> QED BY <1>6, <2>1, <2>4 DEF k
<1>7. ASSUME NEW i \in DOMAIN s, i # 1, IsLabel(s[i-1])
      PROVE  IsPoint(p, Spot(at, s, i)) /\ FrameHolds(s, i, Len(LayoutAt(p, Spot(at, s, i))))
  <2> DEFINE e == i - 1 - k
             l == s[i-1].label
             h == HeightOf(p, l)
  <2>1. e \in 1 .. Len(q) - 1 /\ i = k + e + 1 /\ s[i-1] = q[e]
    <3>1. i - 1 \in 1 .. Len(s) - 1 /\ i \in Int
      BY <1>2, <1>7
    <3>2. i - 1 > k
      BY <1>1, <1>3, <1>7, <3>1
    <3>3. e \in 1 .. Len(q) - 1 /\ i = k + e + 1 /\ k + e = i - 1
      BY <1>1, <1>2, <3>1, <3>2
    <3> HIDE DEF e
    <3> QED BY <1>2, <3>3
  <2> HIDE DEF e
  <2>2. Framed(p, q, e)
    BY <1>1, <1>7, <2>1 DEF Chained
  <2>3. l = q[e].label
    BY <2>1
  <2>4. PICK g : CallAt(p, l, g)
    BY <2>2, <2>3 DEF Framed
  <2>5. IsPoint(p, PointOf(l)) /\ Len(LayoutAt(p, PointOf(l))) = h /\ h \in Nat
    BY <2>4, CallPoint, CallFacts, Zenon
  <2>6. Spot(at, s, i) = PointOf(l)
    BY <1>7 DEF Spot
  <2> HIDE DEF l, h
  <2>7. /\ e + 1 + h <= Len(q) /\ \A j \in e + 1 .. e + 1 + h - 1 : q[j] \in WordCells
        /\ Continues(p, q[e + 1 + h].label, l[1])
    <3>1. h = HeightOf(p, q[e].label)
      BY <2>3 DEF h
    <3>2. e + 1 + HeightOf(p, q[e].label) <= Len(q)
      BY <2>2 DEF Framed
    <3>3. ASSUME NEW j \in e + 1 .. e + 1 + HeightOf(p, q[e].label) - 1 PROVE q[j] \in WordCells
      BY <2>1, <2>2, <2>5, <3>1, SMTT(30) DEF Framed
    <3>4. Continues(p, q[e + 1 + HeightOf(p, q[e].label)].label, q[e].label[1])
      BY <2>2 DEF Framed
    <3> QED BY <2>3, <3>1, <3>2, <3>3, <3>4
  <2>8. IsLabel(q[e + 1 + h])
    BY <2>7, ContinuesLabel DEF IsLabel
  <2>9. i + h \in DOMAIN s /\ s[i + h] = q[e + 1 + h]
    <3>1. e + 1 + h \in 1 .. Len(q) /\ k + (e + 1 + h) = i + h /\ i + h \in 1 .. Len(s)
      BY <1>1, <1>2, <2>1, <2>5, <2>7
    <3>2. s[k + (e + 1 + h)] = q[e + 1 + h]
      BY <1>2, <3>1
    <3> QED BY <1>2, <3>1, <3>2
  <2>10. ASSUME NEW j \in i .. i + h - 1 PROVE ~ IsLabel(s[j])
    <3>1. j - k \in e + 1 .. e + 1 + h - 1 /\ j - k \in 1 .. Len(q) /\ k + (j - k) = j
      BY <1>1, <1>2, <2>1, <2>5, <2>7
    <3>2. s[k + (j - k)] = q[j - k] /\ q[j - k] \in WordCells
      BY <1>2, <2>7, <3>1
    <3>3. s[j] \in WordCells
      BY <3>1, <3>2
    <3> QED BY <3>3 DEF WordCells, IsLabel
  <2>11. FrameHolds(s, i, h)
    BY <2>8, <2>9, <2>10 DEF FrameHolds
  <2> QED BY <2>5, <2>6, <2>11
<1> QED BY <1>5, <1>6, <1>7 DEF IsStart

-----------------------------------------------------------------------------
(* The inductive invariant. *)
CodegenInv ==
    /\ program \in Programs /\ asm = Compile(program)
    /\ IsPoint(program, pc)
    /\ IsMachine(evm, Labels(program))
    /\ outcome \in {"running", "returned", "invalid", "fault"} /\ result \in Seq(Word)
    /\ outcome = "running" => \E q : Stands(program, evm, pc, q)
    /\ outcome = "fault" =>
          ~ (Emittable(program) /\ Returns(program.fns[program.main], program.creation))

(* What the theorems assume of the programs. *)
AllCovered == \A p \in Programs : CallsInternal(p) /\ ShufflesReach(p)

(* What was pushed on s leaves s.                                           *)
LEMMA TailPush ==
    ASSUME NEW S, NEW s \in Seq(S), NEW x PROVE Tail(<<x>> \o s) = s
<1> DEFINE r == <<x>> \o s
           T == S \cup {x}
<1>1. s \in Seq(T) /\ r \in Seq(T) /\ Len(r) = Len(s) + 1 /\ \A i \in 1 .. Len(s) : r[i + 1] = s[i]
  BY ConsLen
<1> HIDE DEF r, T
<1>2. r # <<>> /\ Len(s) \in Nat
  BY <1>1
<1>3. Tail(r) \in Seq(T) /\ Len(Tail(r)) = Len(r) - 1 /\ \A i \in 1 .. Len(r) - 1 : Tail(r)[i] = r[i + 1]
  BY <1>1, <1>2, HeadTailProperties
<1>4. Len(Tail(r)) = Len(s) /\ \A i \in 1 .. Len(s) : Tail(r)[i] = s[i]
  BY <1>1, <1>2, <1>3
<1>5. Tail(r) = s
  BY <1>1, <1>3, <1>4, SeqEqual
<1> QED BY <1>5 DEF r

(* The programs, under that assumption.                                     *)
LEMMA ProgramCovered ==
    ASSUME AllCovered, NEW p \in Programs PROVE Covered(p) /\ WellTyped(p)
BY ProgramsAssumption DEF AllCovered, Covered

(* The frames of the callers are what is under the running frame.           *)
LEMMA StandsUnder ==
    ASSUME NEW p, WellTyped(p), NEW m, NEW at, NEW q, Stands(p, m, at, q)
    PROVE  UnderFrame(m.stack) = q /\ q # <<>>
<1>1. Holds(m.stack, q, Height(Ctx(p, at.fn), at.block, at.idx), Labels(p))
  BY DEF Stands, Atop
<1>2. q # <<>> /\ IsLabel(q[1])
  BY ContinuesLabel DEF Stands, Chained, IsLabel
<1> QED BY <1>1, <1>2, UnderFrameIs

(* What stands anywhere is a machine.                                       *)
LEMMA StandsMachine ==
    ASSUME NEW p, NEW m, NEW at, NEW q, Stands(p, m, at, q) PROVE IsMachine(m, Labels(p))
BY DEF Stands, Atop

(* It holds initially: main starts on the continuation outside.             *)
LEMMA InitInvariant == AllCovered /\ Init => CodegenInv
<1> SUFFICES ASSUME AllCovered, Init PROVE CodegenInv
  OBVIOUS
<1> DEFINE params == program.fns[program.main].cfg.params
           c == Ctx(program, program.main)
           base == asm[program.main].base
<1>1. program \in Programs /\ asm = Compile(program) /\ WellTyped(program)
  BY ProgramCovered, Zenon DEF Init
<1>2. program.main \in DOMAIN program.fns /\ params \in Seq(Slot)
  BY <1>1 DEF WellTyped, UnitTyped
<1>3. PICK args \in [1 .. Len(params) -> Word] : \E st \in Storages :
         evm = Run(Machine(<<LabelCell(Outside)>>,
                           [a \in {base + params[i] : i \in DOMAIN params} |->
                               WordCell(args[CHOOSE i \in DOMAIN params : base + params[i] = a])], st),
                   asm[program.main].prologue)
  BY Zenon DEF Init
<1> DEFINE memory == [a \in {base + params[i] : i \in DOMAIN params} |->
                         WordCell(args[CHOOSE i \in DOMAIN params : base + params[i] = a])]
<1>4. PICK st \in Storages :
         evm = Run(Machine(<<LabelCell(Outside)>>, memory, st), asm[program.main].prologue)
  BY <1>3, Zenon
<1>5. asm[program.main].prologue = Prologue(c)
  BY <1>1, <1>2, PrologueIs
<1>6. Memories(memory)
  <2>1. DOMAIN params = 1 .. Len(params)
    BY <1>2
  <2> HIDE DEF params, base
  <2>2. ASSUME NEW a \in {base + params[i] : i \in DOMAIN params}
        PROVE  args[CHOOSE i \in DOMAIN params : base + params[i] = a] \in Word
    <3>1. \E i \in DOMAIN params : base + params[i] = a
      OBVIOUS
    <3>2. (CHOOSE i \in DOMAIN params : base + params[i] = a) \in DOMAIN params
      BY <3>1
    <3> QED BY <1>3, <2>1, <3>2
  <2> QED BY <2>2 DEF Memories, WordCells, WordCell
<1>7. st \in [Keys -> Word]
  BY <1>4, StoragesAssumption, Zenon
<1>8. pc = [fn |-> program.main, block |-> program.fns[program.main].cfg.entry, idx |-> 1]
  BY Zenon DEF Init
<1> HIDE DEF memory
<1>9. IsPoint(program, pc) /\ Stands(program, evm, pc, <<LabelCell(Outside)>>)
  <2>1. evm = Run(Machine(<<LabelCell(Outside)>>, memory, st), Prologue(Ctx(program, program.main)))
    BY <1>4, <1>5
  <2> QED BY <1>1, <1>6, <1>7, <1>8, <2>1, StartsStand
<1>10. IsMachine(evm, Labels(program))
  BY <1>9, StandsMachine
<1>11. outcome = "running" /\ result \in Seq(Word)
  <2>1. <<>> \in Seq(Word)
    OBVIOUS
  <2>2. outcome = "running" /\ result = <<>>
    BY Zenon DEF Init
  <2> QED BY <2>1, <2>2
<1> QED BY <1>1, <1>9, <1>10, <1>11 DEF CodegenInv

(* A step that goes on, from the frame on q to the frame on r.              *)
LEMMA Continued ==
    ASSUME AllCovered, CodegenInv, NEW m, NEW next, Continue(m, next), NEW at, NEW r,
           Reaching(program, m, at, r), m.fault \/ at = next
    PROVE  CodegenInv' /\ (outcome' = "running" => UnderFrame(evm'.stack) = r /\ r # <<>>)
<1> DEFINE Y == Labels(program)
<1>1. /\ program' = program /\ asm' = asm /\ result' = result /\ evm' = Landed(m)
      /\ pc' = (IF m.fault THEN pc ELSE next)
      /\ outcome' = (IF m.fault THEN "fault" ELSE "running")
  BY DEF Continue
<1>2. /\ program \in Programs /\ asm = Compile(program) /\ IsPoint(program, pc)
      /\ result \in Seq(Word) /\ WellTyped(program)
  BY ProgramCovered DEF CodegenInv
<1>3. CASE Faulted(m, Y) /\ ~ Emittable(program)
  <2>1. m.fault /\ IsMachine(Landed(m), Y)
    BY <1>3, LandedMachine DEF Faulted
  <2>2. pc' = pc /\ outcome' = "fault" /\ IsMachine(evm', Labels(program'))
    BY <1>1, <2>1
  <2> QED BY <1>1, <1>2, <1>3, <2>2 DEF CodegenInv
<1>4. CASE ~ m.fault /\ IsPoint(program, at) /\ Stands(program, Landed(m), at, r)
  <2>1. pc' = at /\ outcome' = "running"
    BY <1>1, <1>4
  <2>2. IsPoint(program', pc') /\ Stands(program', evm', pc', r)
    BY <1>1, <1>4, <2>1
  <2>3. IsMachine(evm', Labels(program'))
    BY <1>1, <1>4, StandsMachine
  <2>4. UnderFrame(evm'.stack) = r /\ r # <<>>
    BY <1>1, <1>2, <1>4, StandsUnder
  <2> QED BY <1>1, <1>2, <2>1, <2>2, <2>3, <2>4 DEF CodegenInv
<1> QED BY <1>3, <1>4 DEF Reaching

(* What holds of a running program, at the instruction about to execute.    *)
LEMMA Running ==
    ASSUME AllCovered, CodegenInv, outcome = "running"
    PROVE  /\ Covered(program) /\ WellTyped(program) /\ IsPoint(program, pc)
           /\ Assembly(pc) = CodeAt(program, pc)
           /\ \E q : Stands(program, evm, pc, q) /\ UnderFrame(evm.stack) = q
<1>1. program \in Programs /\ IsPoint(program, pc) /\ asm = Compile(program)
  BY DEF CodegenInv
<1>2. Covered(program) /\ WellTyped(program)
  BY <1>1, ProgramCovered
<1>3. Assembly(pc) = CodeAt(program, pc)
  BY <1>1, CompiledIs DEF Assembly
<1>4. PICK q : Stands(program, evm, pc, q)
  BY DEF CodegenInv
<1>5. UnderFrame(evm.stack) = q
  BY <1>2, <1>4, StandsUnder
<1> QED BY <1>1, <1>2, <1>3, <1>4, <1>5

(* Compute keeps it, on the same frames of callers.                         *)
LEMMA ComputeKeeps ==
    ASSUME AllCovered, CodegenInv, Compute PROVE CodegenInv' /\ FramesKept
<1> DEFINE next == [pc EXCEPT !.idx = @ + 1]
           m == Run(evm, Assembly(pc).ops \o Assembly(pc).store)
<1>1. /\ outcome = "running" /\ pc.idx \in DOMAIN program.fns[pc.fn].cfg.code[pc.block]
      /\ program.fns[pc.fn].cfg.code[pc.block][pc.idx].op # "Call"
  BY Zenon DEF Compute, AtInstruction, Here
<1>2. PICK q : Stands(program, evm, pc, q) /\ UnderFrame(evm.stack) = q
  BY <1>1, Running
<1>3. /\ WellTyped(program) /\ IsPoint(program, pc)
      /\ Assembly(pc) = CodeAt(program, pc)
  BY <1>1, Running
<1>4. Reaching(program, m, next, q)
  BY <1>1, <1>2, <1>3, ComputeStep, Zenon
<1>5. Continue(m, next)
  BY DEF Compute
<1> HIDE DEF m, next
<1>6. CodegenInv' /\ (outcome' = "running" => UnderFrame(evm'.stack) = q /\ q # <<>>)
  BY <1>4, <1>5, Continued
<1> QED BY <1>2, <1>6 DEF FramesKept

(* Goto: to a block that is no entry, so without a prologue.                *)
LEMMA GotoKeeps ==
    ASSUME AllCovered, CodegenInv, Goto PROVE CodegenInv' /\ FramesKept
<1> DEFINE m == Run(evm, Assembly(pc).ops)
           to == Target(m)
           end == Run(Landed(m), Arrival(to))
<1>1. /\ outcome = "running" /\ pc.idx \notin DOMAIN program.fns[pc.fn].cfg.code[pc.block]
      /\ program.fns[pc.fn].cfg.term[pc.block].kind \in {"Jump", "Branch"}
  BY DEF Goto, AtTerminator, Here
<1>2. PICK q : Stands(program, evm, pc, q) /\ UnderFrame(evm.stack) = q
  BY <1>1, Running
<1>3. /\ Covered(program) /\ IsPoint(program, pc)
      /\ Assembly(pc) = CodeAt(program, pc)
  BY <1>1, Running
<1>4. IF m.fault THEN Continue(m, pc) ELSE Continue(end, to)
  BY DEF Goto
<1>5. m = Run(evm, CodeAt(program, pc).ops)
  BY <1>3, Zenon
<1> HIDE DEF m
<1>6. \/ Faulted(m, Labels(program)) /\ ~ Emittable(program)
      \/ /\ ~ m.fault /\ to.fn = pc.fn /\ to.block # program.fns[pc.fn].cfg.entry
         /\ Reaching(program, Landed(m), to, q)
  <2> DEFINE kinds == {"Jump", "Branch"}
  <2>1. program.fns[pc.fn].cfg.term[pc.block].kind \in kinds
    BY <1>1
  <2>2. Stands(program, evm, pc, q)
    BY <1>2
  <2>3. pc.idx \notin DOMAIN program.fns[pc.fn].cfg.code[pc.block]
    BY <1>1
  <2>4. \A p, at, e, f, r :
           /\ Covered(p) /\ IsPoint(p, at) /\ at.idx \notin DOMAIN p.fns[at.fn].cfg.code[at.block]
           /\ p.fns[at.fn].cfg.term[at.block].kind \in kinds
           /\ Stands(p, e, at, f) /\ r = Run(e, CodeAt(p, at).ops)
           => \/ Faulted(r, Labels(p)) /\ ~ Emittable(p)
              \/ /\ ~ r.fault /\ Target(r).fn = at.fn /\ Target(r).block # p.fns[at.fn].cfg.entry
                 /\ Reaching(p, Landed(r), Target(r), f)
    BY GotoStep
  <2> HIDE DEF kinds
  <2> QED BY <1>3, <1>5, <2>1, <2>2, <2>3, <2>4
<1>7. CASE Faulted(m, Labels(program)) /\ ~ Emittable(program)
  <2>1. Reaching(program, m, pc, q) /\ m.fault
    BY <1>7 DEF Reaching, Faulted
  <2>2. CodegenInv' /\ (outcome' = "running" => UnderFrame(evm'.stack) = q /\ q # <<>>)
    BY <1>4, <2>1, Continued
  <2> QED BY <1>2, <2>2 DEF FramesKept
<1>8. CASE /\ ~ m.fault /\ to.fn = pc.fn /\ to.block # program.fns[pc.fn].cfg.entry
           /\ Reaching(program, Landed(m), to, q)
  <2>1. Arrival(to) = <<>>
    BY <1>8 DEF Arrival
  <2>2. end = Landed(m)
    BY <2>1, RunNothing
  <2>3. Continue(end, to) /\ Reaching(program, end, to, q)
    BY <1>4, <1>8, <2>2
  <2> HIDE DEF end, to
  <2>4. CodegenInv' /\ (outcome' = "running" => UnderFrame(evm'.stack) = q /\ q # <<>>)
    BY <2>3, Continued
  <2> QED BY <1>2, <2>4 DEF FramesKept
<1> QED BY <1>6, <1>7, <1>8

(* Call: the callee runs on the caller's frame, under a new continuation.   *)
LEMMA CallKeeps ==
    ASSUME AllCovered, CodegenInv, Call PROVE CodegenInv' /\ FramesKept
<1> DEFINE m == Run(evm, Assembly(pc).ops)
           to == Target(m)
           end == Run(Landed(m), Arrival(to))
           x == LabelCell(<<pc.fn, pc.block, pc.idx>>)
           r == <<x>> \o evm.stack
<1>1. /\ outcome = "running" /\ pc.idx \in DOMAIN program.fns[pc.fn].cfg.code[pc.block]
      /\ program.fns[pc.fn].cfg.code[pc.block][pc.idx].op = "Call"
  BY DEF Call, AtInstruction, Here
<1>2. PICK q : Stands(program, evm, pc, q) /\ UnderFrame(evm.stack) = q
  BY <1>1, Running
<1>3. /\ Covered(program) /\ IsPoint(program, pc)
      /\ Assembly(pc) = CodeAt(program, pc)
  BY <1>1, Running
<1>4. IF m.fault THEN Continue(m, pc) ELSE Continue(end, to)
  BY DEF Call
<1>5. m = Run(evm, CodeAt(program, pc).ops)
  BY <1>3
<1> HIDE DEF m
<1>6. \/ Faulted(m, Labels(program)) /\ ~ Emittable(program)
      \/ /\ ~ m.fault /\ to.fn \in DOMAIN program.fns
         /\ to.block = program.fns[to.fn].cfg.entry
         /\ Reaching(program, Run(Landed(m), Prologue(Ctx(program, to.fn))), to, r)
  BY <1>1, <1>2, <1>3, <1>5, CallStep, Zenon
<1>7. CASE Faulted(m, Labels(program)) /\ ~ Emittable(program)
  <2>1. Reaching(program, m, pc, q) /\ m.fault
    BY <1>7 DEF Reaching, Faulted
  <2>2. CodegenInv' /\ (outcome' = "running" => UnderFrame(evm'.stack) = q /\ q # <<>>)
    BY <1>4, <2>1, Continued
  <2> QED BY <1>2, <2>2 DEF FramesKept
<1>8. CASE /\ ~ m.fault /\ to.fn \in DOMAIN program.fns
           /\ to.block = program.fns[to.fn].cfg.entry
           /\ Reaching(program, Run(Landed(m), Prologue(Ctx(program, to.fn))), to, r)
  <2>1. asm[to.fn].prologue = Prologue(Ctx(program, to.fn))
    BY <1>8, PrologueIs DEF CodegenInv
  <2>2. Arrival(to) = Prologue(Ctx(program, to.fn))
    BY <1>8, <2>1 DEF Arrival
  <2>3. Continue(end, to) /\ Reaching(program, end, to, r)
    BY <1>4, <1>8, <2>2
  <2>4. Tail(r) = evm.stack
    <3>1. evm.stack \in Seq(CellOf(Labels(program)))
      BY DEF CodegenInv, IsMachine
    <3> HIDE DEF x
    <3> QED BY <3>1, TailPush
  <2> HIDE DEF end, to, r
  <2>5. CodegenInv' /\ (outcome' = "running" => UnderFrame(evm'.stack) = r /\ r # <<>>)
    BY <2>3, Continued
  <2> QED BY <2>4, <2>5 DEF FramesKept
<1> QED BY <1>6, <1>7, <1>8, Zenon

(* Return: the callee's continuation is gone, and the caller's frame runs   *)
(* again.                                                                   *)
LEMMA ReturnKeeps ==
    ASSUME AllCovered, CodegenInv, Return PROVE CodegenInv' /\ FramesKept
<1> DEFINE m == Run(evm, Assembly(pc).ops)
           to == Target(m)
           end == Run(Landed(m), Assembly(to).store)
           next == [to EXCEPT !.idx = @ + 1]
<1>1. /\ outcome = "running" /\ pc.idx \notin DOMAIN program.fns[pc.fn].cfg.code[pc.block]
      /\ program.fns[pc.fn].cfg.term[pc.block].kind = "Return"
  BY DEF Return, AtTerminator, Here
<1>2. PICK q : Stands(program, evm, pc, q) /\ UnderFrame(evm.stack) = q
  BY <1>1, Running
<1>3. /\ Covered(program) /\ WellTyped(program) /\ IsPoint(program, pc)
      /\ Assembly(pc) = CodeAt(program, pc)
  BY <1>1, Running
<1>4. /\ m.fault \/ m.jump # Outside
      /\ IF m.fault THEN Continue(m, pc) ELSE Continue(end, next)
  BY DEF Return
<1>5. m = Run(evm, CodeAt(program, pc).ops)
  BY <1>3
<1> HIDE DEF m
<1> DEFINE l == q[1].label
           h == HeightOf(program, l)
           under == SubSeq(q, h + 2, Len(q))
           store == CodeAt(program, to).store
<1>6. \/ Faulted(m, Labels(program)) /\ ~ Emittable(program)
      \/ ~ m.fault /\ m.jump = Outside
      \/ /\ ~ m.fault /\ IsPoint(program, to)
         /\ Holds(Tail(q), under, h, Labels(program))
         /\ Reaching(program, Run(Landed(m), store), next, under)
  BY <1>1, <1>2, <1>3, <1>5, ReturnStep, Zenon
<1>7. CASE Faulted(m, Labels(program)) /\ ~ Emittable(program)
  <2>1. Reaching(program, m, pc, q) /\ m.fault
    BY <1>7 DEF Reaching, Faulted
  <2>2. CodegenInv' /\ (outcome' = "running" => UnderFrame(evm'.stack) = q /\ q # <<>>)
    BY <1>4, <2>1, Continued
  <2> QED BY <1>2, <2>2 DEF FramesKept
<1>8. CASE /\ ~ m.fault /\ IsPoint(program, to)
           /\ Holds(Tail(q), under, h, Labels(program))
           /\ Reaching(program, Run(Landed(m), store), next, under)
  <2> HIDE DEF to, h, under
  <2>1. Assembly(to) = CodeAt(program, to)
    BY <1>8, CompiledIs DEF Assembly, CodegenInv
  <2>2. Continue(end, next) /\ Reaching(program, end, next, under)
    BY <1>4, <1>8, <2>1
  <2> HIDE DEF end, next
  <2>3. CodegenInv' /\ (outcome' = "running" => UnderFrame(evm'.stack) = under /\ under # <<>>)
    BY <2>2, Continued
  <2>4. end.fault \/ (under # <<>> /\ IsLabel(under[1]))
    <3>1. CASE Faulted(end, Labels(program))
      BY <3>1 DEF Faulted
    <3>2. CASE Stands(program, Landed(end), next, under)
      BY <1>3, <3>2, ContinuesLabel DEF Stands, Chained, IsLabel
    <3> QED BY <2>2, <3>1, <3>2 DEF Reaching
  <2>5. CASE end.fault
    <3>1. outcome' = "fault"
      BY <2>2, <2>5 DEF Continue
    <3> QED BY <2>3, <3>1 DEF FramesKept
  <2>6. CASE under # <<>> /\ IsLabel(under[1])
    <3>1. UnderFrame(Tail(q)) = under
      BY <1>8, <2>6, UnderFrameIs
    <3> QED BY <1>2, <2>3, <3>1 DEF FramesKept
  <2> QED BY <2>4, <2>5, <2>6
<1> QED BY <1>4, <1>6, <1>7, <1>8

(* ReturnOutside: nothing is left but the word returned, if there is one.   *)
LEMMA ReturnOutsideKeeps ==
    ASSUME AllCovered, CodegenInv, ReturnOutside PROVE CodegenInv' /\ FramesKept
<1> DEFINE m == Run(evm, Assembly(pc).ops)
           end == Run(Landed(m), ExternalContinuation(program))
           Y == Labels(program)
           args == program.fns[pc.fn].cfg.term[pc.block].args
           k == IF args = <<>> THEN 0 ELSE 1
<1>1. /\ outcome = "running" /\ pc.idx \notin DOMAIN program.fns[pc.fn].cfg.code[pc.block]
      /\ program.fns[pc.fn].cfg.term[pc.block].kind = "Return"
  BY DEF ReturnOutside, AtTerminator, Here
<1>2. PICK q : Stands(program, evm, pc, q) /\ UnderFrame(evm.stack) = q
  BY <1>1, Running
<1>3. /\ Covered(program) /\ WellTyped(program) /\ IsPoint(program, pc)
      /\ Assembly(pc) = CodeAt(program, pc)
  BY <1>1, Running
<1>4. /\ ~ m.fault /\ m.jump = Outside /\ evm' = end
      /\ outcome' = (IF end.fault THEN "fault" ELSE "returned")
      /\ result' = (IF end.fault \/ program.creation THEN <<>> ELSE <<Recall(end.memory, 0).word>>)
      /\ program' = program /\ asm' = asm /\ pc' = pc
  BY DEF ReturnOutside
<1>5. m = Run(evm, CodeAt(program, pc).ops)
  BY <1>3, Zenon
<1> HIDE DEF m
<1>6. /\ m.jump = q[1].label /\ pc.fn = program.main
      /\ Jumped(m, Outside, Tail(q), k, Y)
  <2>1. m.jump = q[1].label
    BY <1>1, <1>2, <1>3, <1>4, <1>5, ReturnStep, Zenon DEF Faulted
  <2>2. pc.fn = program.main /\ Jumped(m, q[1].label, Tail(q), k, Y)
    BY <1>1, <1>2, <1>3, <1>4, <1>5, <2>1, ReturnStep, Zenon DEF Faulted
  <2> QED BY <1>4, <2>1, <2>2
<1>7. Tail(q) = <<>>
  BY <1>2, <1>3, <1>4, <1>6, OutsideLast DEF Stands
<1>8. Atop(Landed(m), <<>>, k, Y) /\ k \in {0, 1}
  BY <1>6, <1>7, LandedAtop
<1> HIDE DEF k, Y
<1>9. /\ IsMachine(end, Y) /\ (end.fault => k = 0 /\ ~ program.creation)
      /\ (~ end.fault => Recall(end.memory, 0).word \in Word)
  BY <1>8, OutsideReturns
<1> HIDE DEF end
<1>10. outcome' = "fault" => ~ Returns(program.fns[program.main], program.creation)
  <2> SUFFICES ASSUME outcome' = "fault", Returns(program.fns[program.main], program.creation)
               PROVE  FALSE
    OBVIOUS
  <2>1. args = <<>> /\ ~ program.creation
    BY <1>4, <1>9 DEF k
  <2>2. (args = <<>>) = program.creation
    BY <1>1, <1>3, <1>6 DEF Returns, IsPoint
  <2> QED BY <2>1, <2>2
<1>11. result' \in Seq(Word)
  <2>1. <<>> \in Seq(Word) /\ \A w \in Word : <<w>> \in Seq(Word)
    OBVIOUS
  <2> QED BY <1>4, <1>9, <2>1
<1>12. outcome' \in {"returned", "fault"}
  BY <1>4
<1>13. /\ program' \in Programs /\ asm' = Compile(program') /\ IsPoint(program', pc')
       /\ IsMachine(evm', Labels(program'))
  BY <1>4, <1>9 DEF CodegenInv, Y
<1> QED BY <1>4, <1>10, <1>11, <1>12, <1>13 DEF CodegenInv, FramesKept

(* Abort: INVALID ends the transaction.                                     *)
LEMMA AbortKeeps ==
    ASSUME AllCovered, CodegenInv, Abort PROVE CodegenInv' /\ FramesKept
<1> DEFINE c == Ctx(program, pc.fn)
           b == pc.block
<1>1. /\ outcome = "running" /\ pc.idx \notin DOMAIN program.fns[pc.fn].cfg.code[pc.block]
      /\ program.fns[pc.fn].cfg.term[pc.block].kind = "Unreachable"
  BY DEF Abort, AtTerminator, Here
<1>2. PICK q : Stands(program, evm, pc, q)
  BY <1>1, Running
<1>3. /\ WellTyped(program) /\ IsPoint(program, pc)
      /\ Assembly(pc) = CodeAt(program, pc)
  BY <1>1, Running
<1>4. /\ evm' = Run(evm, Assembly(pc).ops) /\ outcome' = "invalid"
      /\ program' = program /\ asm' = asm /\ pc' = pc /\ result' = result
  BY DEF Abort
<1>5. /\ InUnit(program, c, b) /\ c.unit = program.fns[pc.fn]
      /\ pc.idx = Len(program.fns[pc.fn].cfg.code[b]) + 1
  BY <1>1, <1>3, PointFacts, Zenon
<1>6. pc.idx = Len(c.unit.cfg.code[b]) + 1 /\ c.unit.cfg.term[b].kind = "Unreachable"
  BY <1>1, <1>5
<1>7. CodeAt(program, pc).ops = TerminatorOps(c, b)
  BY <1>1, <1>5, Zenon DEF CodeAt, Emitted
<1>8. Atop(evm, q, Height(c, b, Len(c.unit.cfg.code[b]) + 1), Labels(program))
  BY <1>2, <1>6 DEF Stands
<1> HIDE DEF c, b
<1>9. IsMachine(evm', Labels(program))
  BY <1>3, <1>4, <1>5, <1>6, <1>7, <1>8, AbortEnds
<1>10. /\ program' \in Programs /\ asm' = Compile(program') /\ IsPoint(program', pc')
       /\ IsMachine(evm', Labels(program')) /\ result' \in Seq(Word)
  BY <1>4, <1>9 DEF CodegenInv
<1> QED BY <1>4, <1>10 DEF CodegenInv, FramesKept

(* Every step keeps the invariant and the frames of the callers.            *)
LEMMA StepKeeps ==
    ASSUME AllCovered, CodegenInv, [Next]_vars PROVE CodegenInv' /\ [FramesKept]_vars
<1>1. CASE Compute
  BY <1>1, ComputeKeeps
<1>2. CASE Call
  BY <1>2, CallKeeps
<1>3. CASE Goto
  BY <1>3, GotoKeeps
<1>4. CASE Return
  BY <1>4, ReturnKeeps
<1>5. CASE ReturnOutside
  BY <1>5, ReturnOutsideKeeps
<1>6. CASE Abort
  BY <1>6, AbortKeeps
<1>7. CASE UNCHANGED vars
  <2>1. CodegenInv'
    BY <1>7 DEF CodegenInv, vars
  <2> QED BY <1>7, <2>1
<1> QED BY <1>1, <1>2, <1>3, <1>4, <1>5, <1>6, <1>7 DEF Next

(* The invariant, and what no step does to a caller's frame.                *)
LEMMA CodegenInvariant == ASSUME AllCovered PROVE Spec => []CodegenInv /\ CallerUntouched
<1>1. Init => CodegenInv
  BY InitInvariant
<1>2. CodegenInv /\ [Next]_vars => CodegenInv'
  BY StepKeeps
<1>3. CodegenInv /\ [Next]_vars => [FramesKept]_vars
  BY StepKeeps
<1> QED BY <1>1, <1>2, <1>3, PTL DEF Spec, CallerUntouched

(* TypeOK from the invariant.                                               *)
LEMMA InvTypes == ASSUME AllCovered, CodegenInv PROVE TypeOK
<1>1. IsPoint(program, pc) /\ IsMachine(evm, Labels(program))
  BY DEF CodegenInv
<1>2. ASSUME NEW i \in DOMAIN evm.stack PROVE evm.stack[i].word \in Word
  <2>1. evm.stack \in Seq(CellOf(Labels(program)))
    BY <1>1 DEF IsMachine
  <2>2. evm.stack[i] \in CellOf(Labels(program))
    BY <2>1
  <2> QED BY <2>2 DEF CellOf
<1>3. evm.storage \in [Keys -> Word]
  BY <1>1 DEF IsMachine
<1>4. /\ pc.fn \in DOMAIN program.fns
      /\ pc.block \in program.fns[pc.fn].cfg.blocks
      /\ pc.idx \in Points(program.fns[pc.fn].cfg, pc.block)
  BY <1>1 DEF IsPoint
<1> QED BY <1>2, <1>3, <1>4 DEF TypeOK, CodegenInv

(* StackDiscipline from the invariant.                                      *)
LEMMA InvDiscipline == ASSUME AllCovered, CodegenInv PROVE StackDiscipline
<1> SUFFICES ASSUME outcome = "running"
             PROVE  /\ evm.stack # <<>>
                    /\ evm.stack[Len(evm.stack)].label = Outside
                    /\ \A i \in DOMAIN evm.stack : IsStart(evm.stack, i) =>
                          LET next == i + Len(Assembly(At(i)).layout)
                          IN  /\ next \in DOMAIN evm.stack /\ IsLabel(evm.stack[next])
                              /\ \A j \in i .. next - 1 : ~ IsLabel(evm.stack[j])
  BY DEF StackDiscipline
<1> DEFINE s == evm.stack
<1>1. WellTyped(program) /\ IsPoint(program, pc)
  BY Running
<1>2. PICK q : Stands(program, evm, pc, q)
  BY Running
<1>3. /\ s # <<>> /\ s[Len(s)].label = Outside
      /\ \A i \in DOMAIN s : IsStart(s, i) =>
            /\ IsPoint(program, Spot(pc, s, i))
            /\ FrameHolds(s, i, Len(LayoutAt(program, Spot(pc, s, i))))
  BY <1>1, <1>2, FramesStand
<1>4. ASSUME NEW i \in DOMAIN s, IsStart(s, i)
      PROVE  FrameHolds(s, i, Len(Assembly(At(i)).layout))
  <2>1. At(i) = Spot(pc, s, i)
    BY DEF At, Spot
  <2>2. IsPoint(program, At(i)) /\ FrameHolds(s, i, Len(LayoutAt(program, At(i))))
    BY <1>3, <1>4, <2>1
  <2>3. Assembly(At(i)) = CodeAt(program, At(i))
    BY <2>2, CompiledIs DEF Assembly, CodegenInv
  <2>4. CodeAt(program, At(i)).layout = LayoutAt(program, At(i))
    BY DEF CodeAt, Emitted, LayoutAt
  <2> QED BY <2>2, <2>3, <2>4
<1> QED BY <1>3, <1>4 DEF FrameHolds

-----------------------------------------------------------------------------
(* The theorems: of every compiled program that calls internal functions    *)
(* only and none of whose shuffles leaves a DUP out, for every number of    *)
(* functions, blocks, parameters, stack registers and words, and for        *)
(* recursive calls of any depth.                                            *)

(* A running program is always at a point of one of its functions, on a     *)
(* stack of words and with storage of words: TypeOK.                        *)
THEOREM CompiledTyped ==
    ASSUME \A p \in Programs : CallsInternal(p) /\ ShufflesReach(p)
    PROVE  Spec => []TypeOK
<1>1. AllCovered
  BY DEF AllCovered
<1>2. CodegenInv => TypeOK
  BY <1>1, InvTypes
<1>3. Spec => []CodegenInv
  BY <1>1, CodegenInvariant
<1> QED BY <1>2, <1>3, PTL

(* Between two instructions every frame of the stack, the callers' included, *)
(* is exactly what the code generator believes it to be: the code of        *)
(* instructions, shuffles, calls, prologues and returns agrees on every     *)
(* cell.                                                                    *)
THEOREM StackDisciplined ==
    ASSUME \A p \in Programs : CallsInternal(p) /\ ShufflesReach(p)
    PROVE  Spec => []StackDiscipline
<1>1. AllCovered
  BY DEF AllCovered
<1>2. CodegenInv => StackDiscipline
  BY <1>1, InvDiscipline
<1>3. Spec => []CodegenInv
  BY <1>1, CodegenInvariant
<1> QED BY <1>2, <1>3, PTL

(* No step changes a caller's frame: a call puts its continuation on the    *)
(* whole stack, a return takes just that away, and every other step leaves  *)
(* what is under the running frame as it is.                                *)
THEOREM CallersUntouched ==
    ASSUME \A p \in Programs : CallsInternal(p) /\ ShufflesReach(p)
    PROVE  Spec => CallerUntouched
<1>1. AllCovered
  BY DEF AllCovered
<1> QED BY <1>1, CodegenInvariant

(* If, besides, the compiler can emit all the code, and main returns a word  *)
(* unless it is the constructor, no execution faults: the stack never       *)
(* underflows, and every JUMP finds a label.                                *)
THEOREM CompiledNeverFaults ==
    ASSUME \A p \in Programs :
               /\ CallsInternal(p) /\ ShufflesReach(p) /\ Emittable(p)
               /\ Returns(p.fns[p.main], p.creation)
    PROVE  Spec => []NeverFaults
<1>1. AllCovered
  BY DEF AllCovered
<1>2. CodegenInv => NeverFaults
  BY DEF CodegenInv, NeverFaults
<1>3. Spec => []CodegenInv
  BY <1>1, CodegenInvariant
<1> QED BY <1>2, <1>3, PTL
=============================================================================
