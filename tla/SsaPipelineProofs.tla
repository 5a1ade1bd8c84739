-------------------------- MODULE SsaPipelineProofs ---------------------------
(***************************************************************************)
(* Proofs about the compilation of a function, for every function name     *)
(* resolution accepts: SsaBuilder hands on a graph the analysis can rely   *)
(* on, what the analysis then finds of it is dominance, its frontiers and  *)
(* its loops, renaming finds a version of every name and leaves the graph  *)
(* in SSA form, and lowering finds a slot for every register.              *)
(***************************************************************************)
EXTENDS SsaPipeline, SsaRenamingProofs

-----------------------------------------------------------------------------
(* The graphs SsaBuilder makes: blocks are numbered from the entry on, both *)
(* lists of an edge are kept, and no edge leads to the entry.               *)
Graph(g) ==
    /\ DOMAIN g = {"entry", "blocks", "params", "succ", "pred", "code", "term"}
    /\ IsFiniteSet(g.blocks) /\ g.blocks = 0 .. Cardinality(g.blocks) - 1
    /\ g.entry = 0 /\ 0 \in g.blocks
    /\ g.succ \in [g.blocks -> Seq(g.blocks)] /\ g.pred \in [g.blocks -> Seq(g.blocks)]
    /\ \A b, c \in g.blocks : c \in Successors(g, b) <=> b \in Predecessors(g, c)
    /\ Predecessors(g, g.entry) = {}

Reached(g) == {g.entry} \cup ReachableFrom(g, g.entry)

(* A graph with more: nothing of it is lost.                                *)
Grown(g, h) ==
    /\ Graph(h) /\ g.blocks \subseteq h.blocks
    /\ \A b \in g.blocks : Successors(g, b) \subseteq Successors(h, b)

(* What a graph SsaBuilder makes has.                                       *)
LEMMA GraphFacts ==
    ASSUME NEW g, Graph(g)
    PROVE  /\ WellFormed(g) /\ Cardinality(g.blocks) \in Nat
           /\ \A b \in g.blocks : g.succ[b] \in Seq(g.blocks) /\ g.pred[b] \in Seq(g.blocks)
           /\ \A b \in g.blocks : Successors(g, b) = ToSet(g.succ[b]) /\ Predecessors(g, b) = ToSet(g.pred[b])
<1>1. \A b \in g.blocks : g.succ[b] \in Seq(g.blocks) /\ g.pred[b] \in Seq(g.blocks)
  BY DEF Graph
<1>2. \A b \in g.blocks : Successors(g, b) = ToSet(g.succ[b]) /\ Predecessors(g, b) = ToSet(g.pred[b])
  BY DEF Successors, Predecessors, ToSet
<1>3. \A s \in Seq(g.blocks) : ToSet(s) \subseteq g.blocks
  BY DEF ToSet
<1>4. WellFormed(g)
  BY <1>1, <1>2, <1>3 DEF Graph, WellFormed
<1>5. Cardinality(g.blocks) \in Nat
  BY FS_CardinalityType DEF Graph
<1> QED BY <1>1, <1>2, <1>4, <1>5

(* The blocks the entry leads to are blocks, and an edge leads to another.  *)
LEMMA ReachedFacts ==
    ASSUME NEW g, Graph(g)
    PROVE  /\ g.entry \in Reached(g) /\ Reached(g) \subseteq g.blocks
           /\ \A b \in Reached(g) : Successors(g, b) \subseteq Reached(g)
           /\ \A C : g.entry \in C /\ (\A b \in C \cap g.blocks : Successors(g, b) \subseteq C)
                     => Reached(g) \subseteq C
<1>1. WellFormed(g) /\ g.entry \in g.blocks
  BY GraphFacts DEF WellFormed
<1> DEFINE R == ReachableFrom(g, g.entry)
<1>2. /\ R \subseteq g.blocks
      /\ \A y \in R \cup {g.entry} : Successors(g, y) \subseteq R
      /\ \A C : (\A y \in (C \cap g.blocks) \cup {g.entry} : Successors(g, y) \subseteq C) => R \subseteq C
  BY <1>1, ReachableFacts
<1>3. Reached(g) = {g.entry} \cup R
  BY DEF Reached
<1> HIDE DEF R
<1> QED BY <1>1, <1>2, <1>3

(* A block stays reached as the graph grows.                                *)
LEMMA ReachedGrows ==
    ASSUME NEW g, NEW h, Graph(g), Grown(g, h)
    PROVE  Reached(g) \subseteq Reached(h)
<1> DEFINE C == Reached(h)
<1>1. Graph(h) /\ g.entry = h.entry
  BY DEF Grown, Graph
<1>2. g.entry \in C /\ \A b \in C \cap g.blocks : Successors(g, b) \subseteq C
  BY <1>1, ReachedFacts DEF Grown
<1> HIDE DEF C
<1>3. Reached(g) \subseteq C
  BY <1>2, ReachedFacts
<1> QED BY <1>3 DEF C

(* Growing twice is growing.                                                *)
LEMMA GrownTwice ==
    ASSUME NEW g, NEW h, NEW k, Grown(g, h), Grown(h, k)
    PROVE  Grown(g, k)
  BY DEF Grown

(* Instructions and terminators do not touch the edges.                     *)
LEMMA CodeFacts ==
    ASSUME NEW g, NEW h, Graph(g), DOMAIN h = DOMAIN g,
           h.entry = g.entry, h.blocks = g.blocks, h.succ = g.succ, h.pred = g.pred
    PROVE  /\ Grown(g, h) /\ \A b : Successors(h, b) = Successors(g, b)
           /\ Reached(h) = Reached(g)
<1>1. \A b : Successors(h, b) = Successors(g, b) /\ Predecessors(h, b) = Predecessors(g, b)
  BY DEF Successors, Predecessors
<1>2. Graph(h)
  BY <1>1 DEF Graph
<1>3. Grown(g, h) /\ Grown(h, g)
  BY <1>1, <1>2 DEF Grown
<1>4. Reached(h) \subseteq Reached(g) /\ Reached(g) \subseteq Reached(h)
  BY <1>2, <1>3, ReachedGrows
<1> QED BY <1>1, <1>3, <1>4

(* Instructions and terminators leave the edges alone.                      *)
LEMMA InstructionFacts ==
    ASSUME NEW g, Graph(g), NEW b, NEW q, NEW t
    PROVE  /\ Grown(g, AddInstructions(g, b, q)) /\ Reached(AddInstructions(g, b, q)) = Reached(g)
           /\ AddInstructions(g, b, q).blocks = g.blocks
           /\ Grown(g, AddTerminator(g, b, t)) /\ Reached(AddTerminator(g, b, t)) = Reached(g)
           /\ AddTerminator(g, b, t).blocks = g.blocks
<1>1. DOMAIN g = {"entry", "blocks", "params", "succ", "pred", "code", "term"}
  BY DEF Graph
<1>2. LET h == AddInstructions(g, b, q)
      IN  DOMAIN h = DOMAIN g /\ h.entry = g.entry /\ h.blocks = g.blocks /\ h.succ = g.succ /\ h.pred = g.pred
  BY <1>1 DEF AddInstructions
<1>3. LET h == AddTerminator(g, b, t)
      IN  DOMAIN h = DOMAIN g /\ h.entry = g.entry /\ h.blocks = g.blocks /\ h.succ = g.succ /\ h.pred = g.pred
  BY <1>1 DEF AddTerminator
<1> QED BY <1>2, <1>3, CodeFacts

(* A successor or a predecessor more.                                       *)
LEMMA AppendFacts ==
    ASSUME NEW S, NEW q \in Seq(S), NEW x \in S
    PROVE  AppendOnce(q, x) \in Seq(S) /\ ToSet(AppendOnce(q, x)) = ToSet(q) \cup {x}
<1>1. CASE x \in ToSet(q)
  BY <1>1 DEF AppendOnce
<1>2. CASE x \notin ToSet(q)
  <2>1. AppendOnce(q, x) = Append(q, x)
    BY <1>2 DEF AppendOnce
  <2>2. /\ Append(q, x) \in Seq(S) /\ Len(q) \in Nat /\ DOMAIN q = 1 .. Len(q)
        /\ DOMAIN Append(q, x) = 1 .. Len(q) + 1 /\ Append(q, x)[Len(q) + 1] = x
        /\ \A i \in 1 .. Len(q) : Append(q, x)[i] = q[i]
    OBVIOUS
  <2>3. \A i : i \in 1 .. Len(q) + 1 <=> i \in 1 .. Len(q) \/ i = Len(q) + 1
    BY <2>2
  <2>4. \A y : y \in ToSet(Append(q, x)) <=> y \in ToSet(q) \/ y = x
    BY <2>2, <2>3 DEF ToSet
  <2> QED BY <2>1, <2>2, <2>4
<1> QED BY <1>1, <1>2

(* Adding an edge between two blocks.                                       *)
LEMMA EdgeFacts ==
    ASSUME NEW g, Graph(g), NEW a \in g.blocks, NEW c \in g.blocks, c # 0
    PROVE  /\ Grown(g, AddEdge(g, a, c)) /\ AddEdge(g, a, c).blocks = g.blocks
           /\ c \in Successors(AddEdge(g, a, c), a)
<1> DEFINE h == AddEdge(g, a, c)
           B == g.blocks
<1>1. /\ DOMAIN g = {"entry", "blocks", "params", "succ", "pred", "code", "term"}
      /\ g.succ \in [B -> Seq(B)] /\ g.pred \in [B -> Seq(B)] /\ g.entry = 0 /\ 0 \in B
  BY DEF Graph
<1>2. /\ DOMAIN h = DOMAIN g /\ h.entry = g.entry /\ h.blocks = B
      /\ h.succ = [g.succ EXCEPT ![a] = AppendOnce(g.succ[a], c)]
      /\ h.pred = [g.pred EXCEPT ![c] = AppendOnce(g.pred[c], a)]
  BY <1>1 DEF AddEdge
<1> HIDE DEF h
<1>3. /\ AppendOnce(g.succ[a], c) \in Seq(B) /\ ToSet(AppendOnce(g.succ[a], c)) = ToSet(g.succ[a]) \cup {c}
      /\ AppendOnce(g.pred[c], a) \in Seq(B) /\ ToSet(AppendOnce(g.pred[c], a)) = ToSet(g.pred[c]) \cup {a}
  <2>1. g.succ[a] \in Seq(B) /\ g.pred[c] \in Seq(B)
    BY <1>1
  <2> HIDE DEF B
  <2>2. AppendOnce(g.succ[a], c) \in Seq(B) /\ ToSet(AppendOnce(g.succ[a], c)) = ToSet(g.succ[a]) \cup {c}
    BY <2>1, AppendFacts DEF B
  <2>3. AppendOnce(g.pred[c], a) \in Seq(B) /\ ToSet(AppendOnce(g.pred[c], a)) = ToSet(g.pred[c]) \cup {a}
    BY <2>1, AppendFacts DEF B
  <2> QED BY <2>2, <2>3
<1>4. h.succ \in [B -> Seq(B)] /\ h.pred \in [B -> Seq(B)]
  BY <1>1, <1>2, <1>3
<1>5. \A b \in B : /\ Successors(g, b) = ToSet(g.succ[b]) /\ Predecessors(g, b) = ToSet(g.pred[b])
                   /\ Successors(h, b) = ToSet(h.succ[b]) /\ Predecessors(h, b) = ToSet(h.pred[b])
  BY DEF Successors, Predecessors, ToSet
<1>6. /\ h.succ[a] = AppendOnce(g.succ[a], c) /\ h.pred[c] = AppendOnce(g.pred[c], a)
      /\ \A b \in B : (b # a => h.succ[b] = g.succ[b]) /\ (b # c => h.pred[b] = g.pred[b])
  BY <1>1, <1>2
<1>7. \A b \in B : /\ Successors(h, b) = IF b = a THEN Successors(g, b) \cup {c} ELSE Successors(g, b)
                   /\ Predecessors(h, b) = IF b = c THEN Predecessors(g, b) \cup {a} ELSE Predecessors(g, b)
  BY <1>3, <1>5, <1>6
<1>8. \A b, d \in B : d \in Successors(h, b) <=> b \in Predecessors(h, d)
  <2>1. \A b, d \in B : d \in Successors(g, b) <=> b \in Predecessors(g, d)
    BY DEF Graph
  <2> SUFFICES ASSUME NEW b \in B, NEW d \in B
               PROVE  d \in Successors(h, b) <=> b \in Predecessors(h, d)
    OBVIOUS
  <2>2. d \in Successors(h, b) <=> d \in Successors(g, b) \/ (b = a /\ d = c)
    BY <1>7
  <2>3. b \in Predecessors(h, d) <=> b \in Predecessors(g, d) \/ (d = c /\ b = a)
    BY <1>7
  <2> QED BY <2>1, <2>2, <2>3
<1>9. Predecessors(h, h.entry) = {}
  BY <1>1, <1>2, <1>7 DEF Graph
<1>10. Graph(h)
  BY <1>1, <1>2, <1>4, <1>8, <1>9 DEF Graph
<1> QED BY <1>2, <1>7, <1>10 DEF Grown, h

(* A new block has the next number and no edge.                             *)
LEMMA NewBlockFacts ==
    ASSUME NEW g, Graph(g)
    PROVE  LET n == Cardinality(g.blocks)
               h == NewBlock(g)
           IN  /\ Grown(g, h) /\ h.blocks = g.blocks \cup {n} /\ n # 0
               /\ n \in Nat /\ Cardinality(h.blocks) = n + 1
<1> DEFINE n == Cardinality(g.blocks)
           h == NewBlock(g)
           B == g.blocks
           C == B \cup {n}
           e == <<>>
<1>1. /\ DOMAIN g = {"entry", "blocks", "params", "succ", "pred", "code", "term"}
      /\ IsFiniteSet(B) /\ B = 0 .. n - 1 /\ g.entry = 0 /\ 0 \in B
      /\ g.succ \in [B -> Seq(B)] /\ g.pred \in [B -> Seq(B)]
  BY DEF Graph
<1>2. n \in Nat
  BY GraphFacts
<1>3. /\ DOMAIN h = DOMAIN g /\ h.entry = g.entry /\ h.blocks = C
      /\ h.succ = [b \in DOMAIN g.succ \cup {n} |-> IF b = n THEN e ELSE g.succ[b]]
      /\ h.pred = [b \in DOMAIN g.pred \cup {n} |-> IF b = n THEN e ELSE g.pred[b]]
  BY <1>1 DEF NewBlock, Put
<1> HIDE DEF h, n
<1>4. n \notin B /\ n # 0 /\ C = 0 .. n /\ (n + 1) - 1 = n
  BY <1>1, <1>2
<1>5. IsFiniteSet(C) /\ Cardinality(C) = n + 1
  BY <1>1, <1>4, FS_AddElement DEF n
<1>6. \A s \in Seq(B) : s \in Seq(C)
  OBVIOUS
<1>7. /\ DOMAIN h.succ = C /\ DOMAIN h.pred = C
      /\ h.succ = [b \in C |-> IF b \in B THEN g.succ[b] ELSE e]
      /\ h.pred = [b \in C |-> IF b \in B THEN g.pred[b] ELSE e]
  BY <1>1, <1>3, <1>4
<1>8. h.succ \in [C -> Seq(C)] /\ h.pred \in [C -> Seq(C)]
  <2>1. e \in Seq(C)
    OBVIOUS
  <2>2. \A b \in B : g.succ[b] \in Seq(C) /\ g.pred[b] \in Seq(C)
    BY <1>1, <1>6
  <2> HIDE DEF e, C
  <2> QED BY <1>7, <2>1, <2>2
<1>9. \A b \in B : Successors(h, b) = Successors(g, b) /\ Predecessors(h, b) = Predecessors(g, b)
  BY <1>7, ZenonT(40) DEF Successors, Predecessors
<1>10. Successors(h, n) = {} /\ Predecessors(h, n) = {}
  <2>1. h.succ[n] = e /\ h.pred[n] = e
    BY <1>4, <1>7
  <2>2. DOMAIN e = {}
    OBVIOUS
  <2> QED BY <2>1, <2>2 DEF Successors, Predecessors
<1>11. \A s \in Seq(B) : \A i \in DOMAIN s : s[i] \in B
  OBVIOUS
<1>12. \A b \in B : n \notin Successors(g, b) /\ n \notin Predecessors(g, b)
  BY <1>1, <1>4, <1>11 DEF Successors, Predecessors
<1>13. \A b, c \in C : c \in Successors(h, b) <=> b \in Predecessors(h, c)
  BY <1>9, <1>10, <1>12 DEF Graph
<1>14. Predecessors(h, h.entry) = {}
  BY <1>1, <1>3, <1>9 DEF Graph
<1>15. Graph(h)
  BY <1>1, <1>3, <1>4, <1>5, <1>8, <1>13, <1>14 DEF Graph
<1>16. Grown(g, h)
  BY <1>3, <1>9, <1>15 DEF Grown
<1> QED BY <1>2, <1>3, <1>4, <1>5, <1>16 DEF h, n

-----------------------------------------------------------------------------
(* A frame waits for blocks of the graph: those it will move to are         *)
(* reached, but for an exit that is reached only once the block inside it   *)
(* has ended.                                                              *)
FrameKinds == {"body", "then", "last", "while"}
FrameFits(f, g) ==
    /\ DOMAIN f = {"kind", "todo", "blocks", "otherwise"} /\ f.kind \in FrameKinds
    /\ f.kind # "body" => f.blocks.exit \in g.blocks \ {0}
    /\ f.kind = "then" => f.blocks.other \in Reached(g)
    /\ f.kind = "while" => f.blocks.body \in g.blocks /\ f.blocks.header \in Reached(g)
Nested(q, g) ==
    /\ \E S : q \in Seq(S)
    /\ q # <<>>
    /\ \A i \in DOMAIN q : FrameFits(q[i], g) /\ (q[i].kind = "body" <=> i = Len(q))
Waits(q) == {q[i].blocks.exit : i \in {j \in DOMAIN q : q[j].kind \in {"then", "while"}}}

(* Frames stay nested as the graph grows.                                   *)
LEMMA NestedGrows ==
    ASSUME NEW q, NEW g, NEW h, Graph(g), Grown(g, h), Nested(q, g)
    PROVE  Nested(q, h)
<1>1. Reached(g) \subseteq Reached(h) /\ g.blocks \subseteq h.blocks
  BY ReachedGrows DEF Grown
<1>2. \A f : FrameFits(f, g) => FrameFits(f, h)
  BY <1>1 DEF FrameFits
<1> QED BY <1>2 DEF Nested

(* The statement at hand is read off the innermost frame.                   *)
LEMMA NestedReads ==
    ASSUME NEW q, NEW g, Nested(q, g), NEW todo
    PROVE  LET r == [q EXCEPT ![1].todo = todo]
           IN  Nested(r, g) /\ Waits(r) = Waits(q)
<1> DEFINE n == Len(q)
           f == [q[1] EXCEPT !.todo = todo]
           r == [q EXCEPT ![1] = f]
<1>1. PICK S : q \in Seq(S)
  BY DEF Nested
<1>2. n \in Nat /\ n >= 1 /\ DOMAIN q = 1 .. n
  BY <1>1 DEF Nested
<1>3. \A i \in 1 .. n : FrameFits(q[i], g) /\ (q[i].kind = "body" <=> i = n)
  BY <1>2 DEF Nested
<1>13. 1 \in 1 .. n
  BY <1>2
<1>14. FrameFits(q[1], g) /\ (q[1].kind = "body" <=> 1 = n)
  <2> HIDE DEF n
  <2> QED BY <1>3, <1>13
<1>4. f.kind = q[1].kind /\ f.blocks = q[1].blocks /\ DOMAIN f = DOMAIN q[1]
  <2>1. DOMAIN q[1] = {"kind", "todo", "blocks", "otherwise"}
    BY <1>14 DEF FrameFits
  <2> QED BY <2>1
<1>5. FrameFits(f, g)
  <2>1. FrameFits(q[1], g)
    BY <1>14
  <2> HIDE DEF f
  <2> QED BY <1>4, <2>1 DEF FrameFits
<1> HIDE DEF f
<1>6. r \in Seq(S \cup {f}) /\ Len(r) = n /\ DOMAIN r = 1 .. n
  <2>1. r \in [1 .. n -> S \cup {f}]
    BY <1>1, <1>2
  <2> HIDE DEF r, n
  <2> QED BY <1>2, <2>1
<1>7. r[1] = f /\ \A i \in 1 .. n : i # 1 => r[i] = q[i]
  BY <1>2
<1> HIDE DEF r, n
<1>8. \A i \in 1 .. n : r[i].kind = q[i].kind /\ r[i].blocks = q[i].blocks /\ FrameFits(r[i], g)
  BY <1>3, <1>4, <1>5, <1>7
<1>9. r # <<>>
  BY <1>2, <1>6
<1>10. Nested(r, g)
  <2>1. \E T : r \in Seq(T)
    BY <1>6
  <2>2. \A i \in DOMAIN r : FrameFits(r[i], g) /\ (r[i].kind = "body" <=> i = Len(r))
    BY <1>3, <1>6, <1>8
  <2> QED BY <1>9, <2>1, <2>2 DEF Nested
<1>11. Waits(r) = Waits(q)
  BY <1>2, <1>6, <1>8 DEF Waits
<1>12. r = [q EXCEPT ![1].todo = todo]
  BY DEF r, f
<1> QED BY <1>10, <1>11, <1>12

(* Opening a body puts a frame on top.                                      *)
LEMMA NestedPush ==
    ASSUME NEW q, NEW g, Nested(q, g), NEW f, FrameFits(f, g), f.kind # "body"
    PROVE  LET r == <<f>> \o q
           IN  /\ Nested(r, g)
               /\ Waits(q) \subseteq Waits(r)
               /\ f.kind \in {"then", "while"} => f.blocks.exit \in Waits(r)
<1> DEFINE n == Len(q)
           r == <<f>> \o q
<1>1. PICK S : q \in Seq(S)
  BY DEF Nested
<1>2. n \in Nat /\ n >= 1 /\ DOMAIN q = 1 .. n
  BY <1>1 DEF Nested
<1>3. \A i \in 1 .. n : FrameFits(q[i], g) /\ (q[i].kind = "body" <=> i = n)
  BY <1>2 DEF Nested
<1>4. /\ r \in Seq(S \cup {f}) /\ Len(r) = n + 1 /\ DOMAIN r = 1 .. n + 1
      /\ r[1] = f /\ \A i \in 1 .. n : r[i + 1] = q[i]
  <2>1. <<f>> \in Seq(S \cup {f}) /\ q \in Seq(S \cup {f})
    BY <1>1
  <2> QED BY <1>2, <2>1
<1> HIDE DEF r, n
<1>5. \A j \in 1 .. n + 1 : j = 1 \/ \E i \in 1 .. n : j = i + 1
  <2> SUFFICES ASSUME NEW j \in 1 .. n + 1, j # 1 PROVE \E i \in 1 .. n : j = i + 1
    OBVIOUS
  <2>1. j - 1 \in 1 .. n /\ j = (j - 1) + 1
    BY <1>2
  <2> QED BY <2>1
<1>6. \A i \in 1 .. n : i + 1 \in 1 .. n + 1 /\ (i = n <=> i + 1 = n + 1)
  BY <1>2
<1>7. 1 \in 1 .. n + 1 /\ 1 # n + 1
  BY <1>2
<1>8. ASSUME NEW j \in 1 .. n + 1 PROVE FrameFits(r[j], g) /\ (r[j].kind = "body" <=> j = n + 1)
  <2>1. CASE j = 1
    BY <1>4, <1>7, <2>1
  <2>2. CASE j # 1
    <3>1. PICK i \in 1 .. n : j = i + 1
      BY <1>5, <2>2
    <3> QED BY <1>3, <1>4, <1>6, <3>1
  <2> QED BY <2>1, <2>2
<1>9. Nested(r, g)
  <2>1. \E T : r \in Seq(T)
    BY <1>4
  <2>2. r # <<>>
    BY <1>2, <1>4
  <2> QED BY <1>4, <1>8, <2>1, <2>2 DEF Nested
<1>10. Waits(q) \subseteq Waits(r)
  <2> SUFFICES ASSUME NEW x \in Waits(q) PROVE x \in Waits(r)
    OBVIOUS
  <2>1. PICK i \in 1 .. n : q[i].kind \in {"then", "while"} /\ x = q[i].blocks.exit
    BY <1>2 DEF Waits
  <2>2. i + 1 \in DOMAIN r /\ r[i + 1] = q[i]
    BY <1>4, <1>6
  <2> QED BY <2>1, <2>2 DEF Waits
<1>11. f.kind \in {"then", "while"} => f.blocks.exit \in Waits(r)
  BY <1>4, <1>7 DEF Waits
<1> QED BY <1>9, <1>10, <1>11 DEF r

(* Ending a body takes it off.                                              *)
LEMMA NestedPop ==
    ASSUME NEW q, NEW g, Nested(q, g), q[1].kind # "body"
    PROVE  /\ Nested(Tail(q), g)
           /\ Waits(q) \subseteq Waits(Tail(q)) \cup {q[1].blocks.exit}
<1> DEFINE n == Len(q)
           r == Tail(q)
<1>1. PICK S : q \in Seq(S)
  BY DEF Nested
<1>2. n \in Nat /\ n >= 1 /\ DOMAIN q = 1 .. n
  BY <1>1 DEF Nested
<1>3. \A i \in 1 .. n : FrameFits(q[i], g) /\ (q[i].kind = "body" <=> i = n)
  BY <1>2 DEF Nested
<1>4. n # 1
  <2>1. 1 \in 1 .. n
    BY <1>2
  <2> HIDE DEF n
  <2> QED BY <1>3, <2>1
<1>5. /\ r \in Seq(S) /\ Len(r) = n - 1 /\ DOMAIN r = 1 .. n - 1
      /\ \A i \in 1 .. n - 1 : r[i] = q[i + 1]
  <2>1. q # <<>>
    BY <1>2
  <2> QED BY <1>1, <1>2, <2>1
<1> HIDE DEF r, n
<1>6. \A i \in 1 .. n - 1 : i + 1 \in 1 .. n /\ (i = n - 1 <=> i + 1 = n)
  BY <1>2
<1>7. Nested(r, g)
  <2>1. \E T : r \in Seq(T)
    BY <1>5
  <2>2. r # <<>>
    BY <1>2, <1>4, <1>5
  <2>3. \A i \in 1 .. n - 1 : FrameFits(r[i], g) /\ (r[i].kind = "body" <=> i = n - 1)
    BY <1>3, <1>5, <1>6
  <2> QED BY <1>5, <2>1, <2>2, <2>3 DEF Nested
<1>8. Waits(q) \subseteq Waits(r) \cup {q[1].blocks.exit}
  <2> SUFFICES ASSUME NEW x \in Waits(q), x # q[1].blocks.exit PROVE x \in Waits(r)
    OBVIOUS
  <2>1. PICK i \in 1 .. n : q[i].kind \in {"then", "while"} /\ x = q[i].blocks.exit
    BY <1>2 DEF Waits
  <2>2. i - 1 \in 1 .. n - 1 /\ (i - 1) + 1 = i
    BY <1>2, <2>1
  <2>3. r[i - 1] = q[i] /\ i - 1 \in DOMAIN r
    BY <1>5, <2>2
  <2> QED BY <2>1, <2>3 DEF Waits
<1> QED BY <1>7, <1>8 DEF r

-----------------------------------------------------------------------------
(* While SsaBuilder runs, every block is reached or some frame's exit.      *)
Building ==
    /\ Graph(cfg)
    /\ current_block \in Reached(cfg)
    /\ Nested(frames, cfg)
    /\ cfg.blocks \subseteq Reached(cfg) \cup Waits(frames)

(* A statement without control flow keeps the graph a graph.                *)
LEMMA StraightKeeps ==
    ASSUME Building, NEW t, NEW g, Grown(cfg, g), Reached(g) = Reached(cfg), g.blocks = cfg.blocks,
           Straight(t, g)
    PROVE  Building'
<1>1. cfg' = g /\ current_block' = current_block /\ frames' = [frames EXCEPT ![1].todo = Tail(frames[1].todo)]
  BY DEF Straight, AfterStatement
<1>2. Nested(frames', cfg) /\ Waits(frames') = Waits(frames)
  BY <1>1, NestedReads DEF Building
<1>3. Nested(frames', cfg')
  BY <1>1, <1>2, NestedGrows DEF Building
<1> QED BY <1>1, <1>2, <1>3 DEF Building, Grown

(* So do the statements that add instructions to the block at hand.         *)
LEMMA InstructionsKeep ==
    ASSUME Building,
           TransformExpressionStatement \/ TransformAssignment \/ TransformReturn
    PROVE  Building'
<1>1. CASE TransformExpressionStatement
  <2> DEFINE t == TransformExpression(stmt.expr)
             g == AddInstructions(cfg, current_block, t.code)
  <2>1. Straight(t, g)
    BY <1>1 DEF TransformExpressionStatement
  <2>2. Grown(cfg, g) /\ Reached(g) = Reached(cfg) /\ g.blocks = cfg.blocks
    BY InstructionFacts DEF Building
  <2> HIDE DEF t, g
  <2> QED BY <2>1, <2>2, StraightKeeps
<1>2. CASE TransformAssignment
  <2> DEFINE t    == TransformExpression(stmt.expr)
             inst == IF stmt.ref \in StateVariable
                     THEN Instr("SStore", stmt.ref, {}, <<Value(t)>>)
                     ELSE Instr("Copy", <<"", 0>>, {Reg(stmt.ref, 0)}, <<Value(t)>>)
             g == AddInstructions(cfg, current_block, Append(t.code, inst))
  <2>1. Straight(t, g)
    BY <1>2 DEF TransformAssignment
  <2>2. Grown(cfg, g) /\ Reached(g) = Reached(cfg) /\ g.blocks = cfg.blocks
    BY InstructionFacts DEF Building
  <2> HIDE DEF t, g
  <2> QED BY <2>1, <2>2, StraightKeeps
<1>3. CASE TransformReturn
  <2> DEFINE t == TransformExpression(stmt.expr)
             value == IF stmt.expr = <<>> THEN <<>> ELSE <<Value(t)>>
             h == AddInstructions(cfg, current_block, t.code)
             end == Return(value)
             g == AddTerminator(h, current_block, end)
  <2>1. Straight(t, g)
    BY <1>3 DEF TransformReturn
  <2>2. Grown(cfg, h) /\ Reached(h) = Reached(cfg) /\ h.blocks = cfg.blocks /\ Graph(h)
    BY InstructionFacts DEF Building, Grown
  <2> HIDE DEF h, end
  <2>3. Grown(h, g) /\ Reached(g) = Reached(h) /\ g.blocks = h.blocks
    BY <2>2, InstructionFacts
  <2> HIDE DEF t, g
  <2>4. Grown(cfg, g)
    BY <2>2, <2>3, GrownTwice
  <2> QED BY <2>1, <2>2, <2>3, <2>4, StraightKeeps
<1> QED BY <1>1, <1>2, <1>3

(* An edge from a reached block reaches its end.                            *)
LEMMA EdgeReaches ==
    ASSUME NEW g, Graph(g), NEW a \in Reached(g), NEW c \in g.blocks, c # 0
    PROVE  LET h == AddEdge(g, a, c)
           IN  Graph(h) /\ Grown(g, h) /\ h.blocks = g.blocks
               /\ Reached(g) \subseteq Reached(h) /\ c \in Reached(h)
<1> DEFINE h == AddEdge(g, a, c)
<1>1. a \in g.blocks
  BY ReachedFacts
<1>2. Grown(g, h) /\ h.blocks = g.blocks /\ c \in Successors(h, a) /\ Graph(h)
  BY <1>1, EdgeFacts DEF Grown
<1> HIDE DEF h
<1>3. Reached(g) \subseteq Reached(h)
  BY <1>2, ReachedGrows
<1>4. c \in Reached(h)
  BY <1>2, <1>3, ReachedFacts
<1> QED BY <1>2, <1>3, <1>4 DEF h

(* A statement that pushes a frame: the blocks are reached already or they  *)
(* are those reached now or the frame's exit.                              *)
LEMMA PushKeeps ==
    ASSUME Building, NEW f, Grown(cfg, cfg'), FrameFits(f, cfg'), f.kind # "body",
           current_block' \in Reached(cfg'),
           frames' = <<f>> \o AfterStatement,
           NEW waiting, cfg'.blocks \subseteq cfg.blocks \cup Reached(cfg') \cup waiting,
           waiting = {} \/ (f.kind \in {"then", "while"} /\ waiting = {f.blocks.exit})
    PROVE  Building'
<1> DEFINE q == [frames EXCEPT ![1].todo = Tail(frames[1].todo)]
<1>1. q = AfterStatement
  BY DEF AfterStatement
<1>2. Nested(q, cfg) /\ Waits(q) = Waits(frames)
  BY NestedReads DEF Building
<1> HIDE DEF q
<1>3. Nested(q, cfg') /\ Reached(cfg) \subseteq Reached(cfg') /\ Graph(cfg')
  BY <1>2, NestedGrows, ReachedGrows DEF Building, Grown
<1>4. /\ Nested(frames', cfg') /\ Waits(q) \subseteq Waits(frames')
      /\ f.kind \in {"then", "while"} => f.blocks.exit \in Waits(frames')
  BY <1>1, <1>3, NestedPush
<1>5. cfg'.blocks \subseteq Reached(cfg') \cup Waits(frames')
  BY <1>2, <1>3, <1>4 DEF Building
<1> QED BY <1>3, <1>4, <1>5 DEF Building

(* So does an if, with its branches and its exit.                           *)
LEMMA IfKeeps ==
    ASSUME Building, TransformIf
    PROVE  Building'
<1> DEFINE t     == TransformExpression(stmt.expr)
           n     == Cardinality(cfg.blocks)
           other == n + 1
           exit  == IF stmt.kind = "IfElse" THEN n + 2 ELSE n + 1
           two   == NewBlock(NewBlock(cfg))
           grown == IF stmt.kind = "IfElse" THEN NewBlock(NewBlock(NewBlock(cfg)))
                    ELSE NewBlock(NewBlock(cfg))
           coded == AddInstructions(grown, current_block, t.code)
           branch == Branch(Value(t), n, other)
           branched == AddTerminator(coded, current_block, branch)
           first == AddEdge(branched, current_block, n)
           f == Frame(IF stmt.kind = "IfElse" THEN "then" ELSE "last", stmt.block,
                      [NoBlocks EXCEPT !.exit = exit, !.other = other], stmt.otherwise)
           waiting == IF stmt.kind = "IfElse" THEN {exit} ELSE {}
<1>1. /\ cfg' = AddEdge(first, current_block, other) /\ current_block' = n
      /\ frames' = <<f>> \o AfterStatement
  BY DEF TransformIf
<1>2. /\ f.kind = (IF stmt.kind = "IfElse" THEN "then" ELSE "last")
      /\ f.blocks.exit = exit /\ f.blocks.other = other
      /\ DOMAIN f = {"kind", "todo", "blocks", "otherwise"}
  BY DEF Frame, NoBlocks
<1> HIDE DEF f
<1>3. /\ Graph(two) /\ Grown(cfg, two) /\ two.blocks = cfg.blocks \cup {n, n + 1}
      /\ n \in Nat /\ n # 0 /\ Cardinality(two.blocks) = n + 2
  <2> DEFINE one == NewBlock(cfg)
  <2>1. /\ Grown(cfg, one) /\ one.blocks = cfg.blocks \cup {n} /\ n # 0
        /\ n \in Nat /\ Cardinality(one.blocks) = n + 1 /\ Graph(one)
    BY NewBlockFacts DEF Building, Grown
  <2> HIDE DEF one, n
  <2>2. /\ Grown(one, NewBlock(one)) /\ NewBlock(one).blocks = one.blocks \cup {n + 1}
        /\ Cardinality(NewBlock(one).blocks) = (n + 1) + 1 /\ Graph(NewBlock(one))
    BY <2>1, NewBlockFacts DEF Grown
  <2>3. Grown(cfg, NewBlock(one))
    BY <2>1, <2>2, GrownTwice
  <2> QED BY <2>1, <2>2, <2>3 DEF one
<1> HIDE DEF two, n
<1>4. /\ Graph(grown) /\ Grown(cfg, grown) /\ grown.blocks = cfg.blocks \cup {n, other, exit}
      /\ n # 0 /\ other # 0 /\ exit # 0
  <2>1. CASE stmt.kind = "IfElse"
    <3>1. grown = NewBlock(two)
      BY <2>1 DEF two
    <3>2. /\ Grown(two, NewBlock(two)) /\ NewBlock(two).blocks = two.blocks \cup {n + 2} /\ Graph(NewBlock(two))
      BY <1>3, NewBlockFacts DEF Grown
    <3>3. Grown(cfg, grown)
      BY <1>3, <3>1, <3>2, GrownTwice
    <3> QED BY <1>3, <2>1, <3>1, <3>2, <3>3
  <2>2. CASE stmt.kind # "IfElse"
    <3>1. grown = two
      BY <2>2 DEF two
    <3> QED BY <1>3, <2>2, <3>1
  <2> QED BY <2>1, <2>2
<1> HIDE DEF grown
<1>5. Grown(grown, coded) /\ coded.blocks = grown.blocks /\ Graph(coded)
  BY <1>4, InstructionFacts DEF Grown
<1> HIDE DEF coded, branch
<1>6. Grown(coded, branched) /\ branched.blocks = coded.blocks
  BY <1>5, InstructionFacts
<1> HIDE DEF branched
<1>16. Graph(branched)
  BY <1>6 DEF Grown
<1>7. Grown(cfg, branched) /\ branched.blocks = cfg.blocks \cup {n, other, exit}
  BY <1>4, <1>5, <1>6, GrownTwice
<1>8. current_block \in Reached(branched)
  BY <1>7, ReachedGrows DEF Building
<1>9. /\ Graph(first) /\ Grown(branched, first) /\ first.blocks = branched.blocks
      /\ current_block \in Reached(first) /\ n \in Reached(first)
  BY <1>4, <1>7, <1>8, <1>16, EdgeReaches
<1> HIDE DEF first
<1>10. /\ Graph(cfg') /\ Grown(first, cfg') /\ cfg'.blocks = first.blocks
       /\ n \in Reached(cfg') /\ other \in Reached(cfg')
  BY <1>1, <1>4, <1>7, <1>9, EdgeReaches
<1>11. Grown(cfg, cfg')
  BY <1>7, <1>9, <1>10, GrownTwice
<1>12. cfg'.blocks = cfg.blocks \cup {n, other, exit}
  BY <1>7, <1>9, <1>10
<1>13. FrameFits(f, cfg') /\ f.kind # "body"
  BY <1>2, <1>4, <1>10, <1>12 DEF FrameFits, FrameKinds
<1>14. cfg'.blocks \subseteq cfg.blocks \cup Reached(cfg') \cup waiting
  BY <1>10, <1>12
<1>15. waiting = {} \/ (f.kind \in {"then", "while"} /\ waiting = {f.blocks.exit})
  BY <1>2
<1> HIDE DEF waiting
<1> QED BY <1>1, <1>10, <1>11, <1>13, <1>14, <1>15, PushKeeps

(* The end of a body leads to its exit.                                     *)
LEMMA JoinFacts ==
    ASSUME Building, NEW exit \in cfg.blocks, exit # 0
    PROVE  LET h == JoinExit(cfg, exit)
           IN  Grown(cfg, h) /\ Graph(h) /\ h.blocks = cfg.blocks /\ exit \in Reached(h)
<1> DEFINE joined == AddEdge(cfg, current_block, exit)
           out == Jump(exit)
           h == JoinExit(cfg, exit)
<1>1. /\ Graph(joined) /\ Grown(cfg, joined) /\ joined.blocks = cfg.blocks /\ exit \in Reached(joined)
  BY EdgeReaches DEF Building
<1>2. h = joined \/ h = AddTerminator(joined, current_block, out)
  BY DEF JoinExit
<1> HIDE DEF joined, out, h
<1>3. CASE h = joined
  BY <1>1, <1>3 DEF h
<1>4. CASE h = AddTerminator(joined, current_block, out)
  <2>1. Grown(joined, h) /\ Reached(h) = Reached(joined) /\ h.blocks = joined.blocks
    BY <1>1, <1>4, InstructionFacts
  <2>2. Grown(cfg, h)
    BY <1>1, <2>1, GrownTwice
  <2>3. Graph(h)
    BY <2>1 DEF Grown
  <2> QED BY <1>1, <2>1, <2>2, <2>3 DEF h
<1> QED BY <1>2, <1>3, <1>4

(* The innermost frame, when the block inside it has ended.                 *)
LEMMA InnermostFits ==
    ASSUME Building
    PROVE  FrameFits(frames[1], cfg) /\ frames # <<>>
<1>1. PICK S : frames \in Seq(S) /\ frames # <<>>
  BY DEF Building, Nested
<1>2. 1 \in DOMAIN frames
  BY <1>1
<1> QED BY <1>1, <1>2 DEF Building, Nested

(* So does the end of a branch, with its edge to the exit.                  *)
LEMMA EndsKeep ==
    ASSUME Building, EndThen \/ EndIf
    PROVE  Building'
<1> DEFINE exit == frames[1].blocks.exit
           rest == Tail(frames)
<1>1. /\ FrameFits(frames[1], cfg) /\ frames[1].kind \in {"then", "last"}
      /\ cfg' = JoinExit(cfg, exit)
  BY InnermostFits DEF EndThen, EndIf, BlockEnds
<1>2. exit \in cfg.blocks /\ exit # 0
  BY <1>1 DEF FrameFits
<1>3. Nested(rest, cfg) /\ Waits(frames) \subseteq Waits(rest) \cup {exit}
  BY <1>1, NestedPop DEF Building
<1> HIDE DEF exit, rest
<1>4. /\ Grown(cfg, cfg') /\ Graph(cfg') /\ cfg'.blocks = cfg.blocks /\ exit \in Reached(cfg')
  BY <1>1, <1>2, JoinFacts
<1>5. Reached(cfg) \subseteq Reached(cfg') /\ Nested(rest, cfg')
  BY <1>3, <1>4, ReachedGrows, NestedGrows DEF Building
<1>6. cfg'.blocks \subseteq Reached(cfg') \cup Waits(rest)
  BY <1>3, <1>4, <1>5 DEF Building
<1>7. CASE EndThen
  <2> DEFINE f == Frame("last", frames[1].otherwise, frames[1].blocks, <<>>)
  <2>1. frames' = <<f>> \o rest /\ current_block' = frames[1].blocks.other /\ frames[1].kind = "then"
    BY <1>7 DEF EndThen, BlockEnds, rest
  <2>2. f.kind = "last" /\ f.blocks = frames[1].blocks /\ DOMAIN f = {"kind", "todo", "blocks", "otherwise"}
    BY DEF Frame
  <2> HIDE DEF f
  <2>3. FrameFits(f, cfg')
    BY <1>2, <1>4, <2>2 DEF FrameFits, FrameKinds, exit
  <2>4. Nested(frames', cfg') /\ Waits(rest) \subseteq Waits(frames')
    BY <1>5, <2>1, <2>2, <2>3, NestedPush
  <2>5. current_block' \in Reached(cfg')
    BY <1>1, <1>5, <2>1 DEF FrameFits
  <2> QED BY <1>4, <1>6, <2>4, <2>5 DEF Building
<1>8. CASE EndIf
  <2>1. frames' = rest /\ current_block' = exit
    BY <1>8 DEF EndIf, exit, rest
  <2> QED BY <1>4, <1>5, <1>6, <2>1 DEF Building
<1> QED BY <1>7, <1>8

(* So does a while, with its header, its body and its exit.                 *)
LEMMA WhileKeeps ==
    ASSUME Building, TransformWhile
    PROVE  Building'
<1> DEFINE header == Cardinality(cfg.blocks)
           body   == header + 1
           exit   == header + 2
           t      == TransformExpression(stmt.expr)
           grown  == NewBlock(NewBlock(NewBlock(cfg)))
           in     == Jump(header)
           jumps  == AddTerminator(grown, current_block, in)
           entered == AddEdge(jumps, current_block, header)
           coded  == AddInstructions(entered, header, t.code)
           branch == Branch(Value(t), body, exit)
           branched == AddTerminator(coded, header, branch)
           inside == AddEdge(branched, header, body)
           f == Frame("while", stmt.block,
                      [NoBlocks EXCEPT !.header = header, !.body = body, !.exit = exit], <<>>)
<1>1. cfg' = AddEdge(inside, body, header) /\ current_block' = body /\ frames' = <<f>> \o AfterStatement
  BY DEF TransformWhile
<1>2. /\ f.kind = "while" /\ f.blocks.exit = exit /\ f.blocks.body = body /\ f.blocks.header = header
      /\ DOMAIN f = {"kind", "todo", "blocks", "otherwise"}
  BY DEF Frame, NoBlocks
<1> HIDE DEF f
<1>3. /\ Graph(grown) /\ Grown(cfg, grown) /\ grown.blocks = cfg.blocks \cup {header, body, exit}
      /\ header # 0 /\ body # 0 /\ exit # 0
  <2> DEFINE one == NewBlock(cfg)
             two == NewBlock(one)
  <2>1. /\ Grown(cfg, one) /\ one.blocks = cfg.blocks \cup {header} /\ header # 0
        /\ header \in Nat /\ Cardinality(one.blocks) = header + 1 /\ Graph(one)
    BY NewBlockFacts DEF Building, Grown
  <2>2. grown = NewBlock(two)
    OBVIOUS
  <2> HIDE DEF one, header, grown
  <2>3. /\ Grown(one, two) /\ two.blocks = one.blocks \cup {header + 1}
        /\ Cardinality(two.blocks) = (header + 1) + 1 /\ Graph(two)
    BY <2>1, NewBlockFacts DEF Grown
  <2> HIDE DEF two
  <2>4. /\ Grown(two, grown) /\ grown.blocks = two.blocks \cup {(header + 1) + 1} /\ Graph(grown)
    BY <2>2, <2>3, NewBlockFacts DEF Grown
  <2>5. (header + 1) + 1 = header + 2 /\ header + 1 # 0 /\ header + 2 # 0
    BY <2>1
  <2>6. Grown(cfg, grown)
    BY <2>1, <2>3, <2>4, GrownTwice
  <2> QED BY <2>1, <2>3, <2>4, <2>5, <2>6
<1> HIDE DEF grown, in, branch, header, body, exit
<1>4. Grown(grown, jumps) /\ jumps.blocks = grown.blocks
  BY <1>3, InstructionFacts
<1> HIDE DEF jumps
<1>5. Graph(jumps) /\ Grown(cfg, jumps) /\ jumps.blocks = cfg.blocks \cup {header, body, exit}
  BY <1>3, <1>4, GrownTwice DEF Grown
<1>6. current_block \in Reached(jumps)
  BY <1>5, ReachedGrows DEF Building
<1>7. /\ Graph(entered) /\ Grown(jumps, entered) /\ entered.blocks = jumps.blocks /\ header \in Reached(entered)
  BY <1>3, <1>5, <1>6, EdgeReaches
<1> HIDE DEF entered
<1>8. Grown(entered, coded) /\ coded.blocks = entered.blocks /\ Reached(coded) = Reached(entered)
  BY <1>7, InstructionFacts
<1> HIDE DEF coded
<1>9. Graph(coded)
  BY <1>8 DEF Grown
<1>10. Grown(coded, branched) /\ branched.blocks = coded.blocks /\ Reached(branched) = Reached(coded)
  BY <1>9, InstructionFacts
<1> HIDE DEF branched
<1>11. Graph(branched)
  BY <1>10 DEF Grown
<1>12. /\ Graph(inside) /\ Grown(branched, inside) /\ inside.blocks = branched.blocks /\ body \in Reached(inside)
  BY <1>3, <1>5, <1>7, <1>8, <1>10, <1>11, EdgeReaches
<1> HIDE DEF inside
<1>13. /\ Graph(cfg') /\ Grown(inside, cfg') /\ cfg'.blocks = inside.blocks
       /\ header \in Reached(cfg') /\ Reached(inside) \subseteq Reached(cfg')
  BY <1>1, <1>3, <1>5, <1>7, <1>8, <1>10, <1>12, EdgeReaches
<1>14. Grown(cfg, cfg')
  <2>1. Grown(cfg, coded)
    BY <1>5, <1>7, <1>8, GrownTwice
  <2>2. Grown(cfg, inside)
    BY <1>10, <1>12, <2>1, GrownTwice
  <2> QED BY <1>13, <2>2, GrownTwice
<1>15. cfg'.blocks = cfg.blocks \cup {header, body, exit} /\ body \in Reached(cfg')
  BY <1>5, <1>7, <1>8, <1>10, <1>12, <1>13
<1>16. FrameFits(f, cfg') /\ f.kind # "body"
  BY <1>2, <1>3, <1>13, <1>15 DEF FrameFits, FrameKinds
<1> DEFINE waiting == {exit}
<1>17. /\ cfg'.blocks \subseteq cfg.blocks \cup Reached(cfg') \cup waiting
       /\ f.kind \in {"then", "while"} /\ waiting = {f.blocks.exit}
  BY <1>2, <1>13, <1>15
<1> HIDE DEF waiting
<1> QED BY <1>1, <1>14, <1>15, <1>16, <1>17, PushKeeps

(* So does the end of a loop, with its edge back to the header.             *)
LEMMA EndWhileKeeps ==
    ASSUME Building, EndWhile
    PROVE  Building'
<1> DEFINE b == frames[1].blocks
           out == Jump(b.header)
           g == AddTerminator(cfg, BackJumpFrom(b), out)
           rest == Tail(frames)
<1>1. /\ FrameFits(frames[1], cfg) /\ frames[1].kind = "while"
      /\ cfg' = AddEdge(g, b.header, b.exit) /\ current_block' = b.exit /\ frames' = rest
  BY InnermostFits DEF EndWhile, BlockEnds
<1>2. b.exit \in cfg.blocks /\ b.exit # 0 /\ b.header \in Reached(cfg)
  BY <1>1 DEF FrameFits
<1>3. Nested(rest, cfg) /\ Waits(frames) \subseteq Waits(rest) \cup {b.exit}
  BY <1>1, NestedPop DEF Building
<1> HIDE DEF b, out, rest
<1>4. Grown(cfg, g) /\ g.blocks = cfg.blocks /\ Reached(g) = Reached(cfg)
  BY InstructionFacts DEF Building
<1> HIDE DEF g
<1>5. Graph(g)
  BY <1>4 DEF Grown
<1>6. /\ Graph(cfg') /\ Grown(g, cfg') /\ cfg'.blocks = g.blocks
      /\ Reached(g) \subseteq Reached(cfg') /\ b.exit \in Reached(cfg')
  BY <1>1, <1>2, <1>4, <1>5, EdgeReaches
<1>7. Grown(cfg, cfg')
  BY <1>4, <1>6, GrownTwice
<1>8. Nested(rest, cfg')
  BY <1>3, <1>7, NestedGrows DEF Building
<1>9. cfg'.blocks \subseteq Reached(cfg') \cup Waits(rest)
  BY <1>3, <1>4, <1>6 DEF Building
<1> QED BY <1>1, <1>6, <1>8, <1>9 DEF Building

(* What SsaBuilder hands on.                                                *)
LEMMA BuildEnds ==
    ASSUME Building, FinishBuild
    PROVE  Graph(cfg') /\ Ready(cfg')
<1>1. PICK S : frames \in Seq(S) /\ frames # <<>>
  BY DEF Building, Nested
<1>2. Len(frames) = 1
  <2>1. 1 \in DOMAIN frames /\ frames[1].kind = "body"
    BY <1>1 DEF FinishBuild, BlockEnds
  <2> QED BY <2>1 DEF Building, Nested
<1>3. Waits(frames) = {}
  <2>1. DOMAIN frames = {1} /\ frames[1].kind = "body"
    BY <1>1, <1>2 DEF FinishBuild, BlockEnds
  <2> QED BY <2>1 DEF Waits
<1>4. Graph(cfg') /\ Reached(cfg') = Reached(cfg) /\ cfg'.blocks = cfg.blocks
  <2> DEFINE end == Return(<<>>)
  <2>1. cfg' = cfg \/ cfg' = AddTerminator(cfg, current_block, end)
    BY DEF FinishBuild
  <2> HIDE DEF end
  <2>2. CASE cfg' = cfg
    BY <2>2 DEF Building
  <2>3. CASE cfg' = AddTerminator(cfg, current_block, end)
    <3>1. Grown(cfg, cfg') /\ Reached(cfg') = Reached(cfg) /\ cfg'.blocks = cfg.blocks
      BY <2>3, InstructionFacts DEF Building
    <3> QED BY <3>1 DEF Grown
  <2> QED BY <2>1, <2>2, <2>3
<1>5. cfg'.blocks \subseteq Reached(cfg')
  BY <1>3, <1>4 DEF Building
<1>6. WellFormed(cfg') /\ \A b \in cfg'.blocks : cfg'.succ[b] \in Seq(cfg'.blocks) /\ cfg'.pred[b] \in Seq(cfg'.blocks)
  BY <1>4, GraphFacts
<1>7. Predecessors(cfg', cfg'.entry) = {}
  BY <1>4 DEF Graph
<1> QED BY <1>4, <1>5, <1>6, <1>7 DEF Ready, Reached

-----------------------------------------------------------------------------
(* What each pass can rely on when it runs.                                 *)
AnalysisInv ==
    /\ Graph(cfg) /\ CandidatesClimb
    /\ phase = "build" => Building /\ path = <<>> /\ postorder = <<>>
    /\ phase \in {"build", "order"} => idom = <<>>
    /\ phase # "build" => Ready(cfg)
    /\ phase = "order" => Searching
    /\ phase \notin {"build", "order"} => Ordered /\ Tree
    /\ phase = "dominance" => Rounds
    /\ phase \notin {"build", "order", "dominance"} => Fixed
    /\ FrontiersAtDominanceEnds /\ LoopsTurn

(* With no dominators yet there is none to climb to.                        *)
LEMMA NoCandidates ==
    ASSUME idom = <<>>
    PROVE  CandidatesClimb
<1>1. DOMAIN idom = {}
  OBVIOUS
<1> QED BY <1>1 DEF CandidatesClimb

(* At first there is the entry alone.                                       *)
LEMMA AnalysisStarts ==
    ASSUME Init
    PROVE  AnalysisInv
<1> DEFINE params == [i \in DOMAIN program.params |-> Reg(program.params[i], 0)]
           f == Frame("body", program.body, NoBlocks, <<>>)
           none == <<>>
<1>1. /\ phase = "build" /\ cfg = NewCfg(params) /\ current_block = 0 /\ frames = <<f>>
      /\ path = <<>> /\ postorder = <<>> /\ idom = <<>>
  BY DEF Init, InitBuilder, InitPass, InitDominance
<1>2. f.kind = "body" /\ DOMAIN f = {"kind", "todo", "blocks", "otherwise"}
  BY DEF Frame
<1> HIDE DEF params, f
<1>3. /\ DOMAIN cfg = {"entry", "blocks", "params", "succ", "pred", "code", "term"}
      /\ cfg.entry = 0 /\ cfg.blocks = {0}
      /\ cfg.succ = [b \in {0} |-> none] /\ cfg.pred = [b \in {0} |-> none]
  BY <1>1 DEF NewCfg
<1>4. none \in Seq({0}) /\ DOMAIN none = {}
  OBVIOUS
<1>5. IsFiniteSet({0}) /\ Cardinality({0}) = 1 /\ {0} = 0 .. 1 - 1
  <2>1. IsFiniteSet({0}) /\ Cardinality({0}) = 1
    BY FS_Singleton
  <2>2. {0} = 0 .. 1 - 1
    OBVIOUS
  <2> QED BY <2>1, <2>2
<1>6. Successors(cfg, 0) = {} /\ Predecessors(cfg, 0) = {}
  BY <1>3, <1>4 DEF Successors, Predecessors
<1>7. cfg.succ \in [{0} -> Seq({0})] /\ cfg.pred \in [{0} -> Seq({0})]
  <2> HIDE DEF none
  <2> QED BY <1>3, <1>4
<1>8. Graph(cfg)
  BY <1>3, <1>5, <1>6, <1>7 DEF Graph
<1>9. Nested(frames, cfg)
  <2>1. frames \in Seq({f}) /\ frames # <<>> /\ DOMAIN frames = {1} /\ frames[1] = f /\ Len(frames) = 1
    BY <1>1
  <2>2. FrameFits(f, cfg)
    BY <1>2 DEF FrameFits, FrameKinds
  <2> QED BY <1>2, <2>1, <2>2 DEF Nested
<1>10. current_block \in Reached(cfg) /\ cfg.blocks \subseteq Reached(cfg)
  BY <1>1, <1>3 DEF Reached
<1>11. Building
  BY <1>8, <1>9, <1>10 DEF Building
<1> QED BY <1>1, <1>8, <1>11, NoCandidates DEF AnalysisInv, FrontiersAtDominanceEnds, LoopsTurn

(* A step of SsaBuilder.                                                    *)
LEMMA BuilderStep ==
    ASSUME AnalysisInv, NextBuilder, UNCHANGED dominance
    PROVE  AnalysisInv'
<1>1. /\ phase = "build" /\ Building /\ path' = <<>> /\ postorder' = <<>> /\ idom' = <<>>
  <2>1. phase = "build"
    BY DEF NextBuilder, TransformExpressionStatement, TransformAssignment, TransformReturn,
           TransformIf, EndThen, EndIf, TransformWhile, EndWhile, FinishBuild, Reading, BlockEnds
  <2> QED BY <2>1 DEF AnalysisInv, dominance, search, fixpoint
<1>2. CandidatesClimb'
  <2>1. DOMAIN idom' = {}
    BY <1>1
  <2> QED BY <2>1 DEF CandidatesClimb
<1>3. CASE FinishBuild
  <2>1. phase' = "order"
    BY <1>3 DEF FinishBuild
  <2>2. Graph(cfg') /\ Ready(cfg')
    BY <1>1, <1>3, BuildEnds
  <2>3. Searching'
    <3>1. DOMAIN path' = {} /\ DOMAIN postorder' = {} /\ path' \in Seq([block : cfg'.blocks, left : Seq(cfg'.blocks)])
          /\ postorder' \in Seq(cfg'.blocks)
      BY <1>1
    <3> QED BY <3>1 DEF Searching, OnceEach, AlongPath, LeftBefore
  <2> QED BY <1>1, <1>2, <2>1, <2>2, <2>3 DEF AnalysisInv, FrontiersAtDominanceEnds, LoopsTurn
<1>4. CASE ~ FinishBuild
  <2>1. phase' = "build"
    BY <1>1, <1>4 DEF NextBuilder, TransformExpressionStatement, TransformAssignment, TransformReturn,
           TransformIf, EndThen, EndIf, TransformWhile, EndWhile, Straight
  <2>2. Building'
    BY <1>1, <1>4, InstructionsKeep, IfKeeps, EndsKeep, WhileKeeps, EndWhileKeeps DEF NextBuilder
  <2>3. Graph(cfg')
    BY <2>2 DEF Building
  <2> QED BY <1>1, <1>2, <2>1, <2>2, <2>3 DEF AnalysisInv, FrontiersAtDominanceEnds, LoopsTurn
<1> QED BY <1>3, <1>4

(* A step of the analysis.                                                  *)
LEMMA AnalysisStep ==
    ASSUME AnalysisInv, NextDominance
    PROVE  AnalysisInv'
<1>1. CASE StartSearch \/ VisitSuccessor \/ LeaveBlock
  <2>1. phase = "order" /\ phase' = "order" /\ cfg' = cfg /\ idom' = idom
    BY <1>1 DEF StartSearch, VisitSuccessor, LeaveBlock, fixpoint
  <2>2. Ready(cfg) /\ Searching /\ Graph(cfg) /\ idom = <<>>
    BY <2>1 DEF AnalysisInv
  <2>3. Searching'
    BY <1>1, <2>2, SearchStarts, VisitKeepsSearching, LeaveKeepsSearching
  <2>4. CandidatesClimb'
    <3>1. DOMAIN idom' = {}
      BY <2>1, <2>2
    <3> QED BY <3>1 DEF CandidatesClimb
  <2> QED BY <2>1, <2>2, <2>3, <2>4 DEF AnalysisInv, FrontiersAtDominanceEnds, LoopsTurn
<1>2. CASE StartDominance
  <2>1. phase = "order" /\ phase' = "dominance" /\ cfg' = cfg
    BY <1>2 DEF StartDominance
  <2>2. Ready(cfg) /\ Searching /\ Graph(cfg)
    BY <2>1 DEF AnalysisInv
  <2>3. Ordered' /\ Tree' /\ Rounds'
    BY <1>2, <2>2, OrderFound, RoundsStart
  <2>4. CandidatesClimb'
    BY <2>3 DEF Tree
  <2> QED BY <2>1, <2>2, <2>3, <2>4 DEF AnalysisInv, FrontiersAtDominanceEnds, LoopsTurn
<1>3. CASE ComputeIdom \/ NextRound
  <2>1. phase = "dominance" /\ phase' = "dominance" /\ cfg' = cfg
    BY <1>3 DEF ComputeIdom, NextRound
  <2>2. Ready(cfg) /\ Ordered /\ Tree /\ Rounds /\ Graph(cfg)
    BY <2>1 DEF AnalysisInv
  <2>3. Ordered' /\ Tree' /\ Rounds'
    BY <1>3, <2>2, RoundsGoOn, RoundsAgain
  <2>4. CandidatesClimb'
    BY <2>3 DEF Tree
  <2> QED BY <2>1, <2>2, <2>3, <2>4 DEF AnalysisInv, FrontiersAtDominanceEnds, LoopsTurn
<1>4. CASE FinishDominance
  <2>1. phase = "dominance" /\ phase' = "loops" /\ UNCHANGED <<cfg, rpo, idom>>
    BY <1>4 DEF FinishDominance, fixpoint
  <2>2. Ready(cfg) /\ Ordered /\ Tree /\ Rounds /\ Graph(cfg)
    BY <2>1 DEF AnalysisInv
  <2>3. Fixed
    BY <1>4, <2>2, RoundsEnd
  <2>4. Ordered' /\ Tree' /\ Fixed'
    BY <2>1, <2>2, <2>3, SameTree
  <2>5. FrontiersAtDominanceEnds'
    BY <1>4, <2>2, <2>3, FrontiersFound
  <2>6. CandidatesClimb'
    BY <2>4 DEF Tree
  <2> QED BY <2>1, <2>2, <2>4, <2>5, <2>6 DEF AnalysisInv, LoopsTurn
<1>5. CASE BuildLoopForest
  <2>1. phase = "loops" /\ phase' = "phis" /\ cfg' = cfg /\ rpo' = rpo /\ idom' = idom
    BY <1>5 DEF BuildLoopForest, fixpoint
  <2>2. Ready(cfg) /\ Ordered /\ Tree /\ Fixed /\ Graph(cfg) /\ CandidatesClimb
    BY <2>1 DEF AnalysisInv
  <2>3. LoopsTurn'
    BY <1>5, <2>2, LoopsFound
  <2>4. CandidatesClimb'
    BY <2>1, <2>2, SameCandidates
  <2>5. Ordered' /\ Tree' /\ Fixed'
    BY <2>1, <2>2, SameTree
  <2> QED BY <2>1, <2>2, <2>3, <2>4, <2>5 DEF AnalysisInv, FrontiersAtDominanceEnds
<1> QED BY <1>1, <1>2, <1>3, <1>4, <1>5 DEF NextDominance

(* The passes after the analysis change instructions only.                  *)
OnlyCode(g, h) ==
    /\ DOMAIN h = DOMAIN g
    /\ h.entry = g.entry /\ h.blocks = g.blocks /\ h.succ = g.succ /\ h.pred = g.pred

(* A step after the analysis that changes no block and no edge.             *)
LEMMA LaterStep ==
    ASSUME AnalysisInv, UNCHANGED dominance, OnlyCode(cfg, cfg'),
           phase \notin {"build", "order", "dominance", "loops"},
           phase' \notin {"build", "order", "dominance", "loops", "phis"}
    PROVE  AnalysisInv'
<1>1. Graph(cfg) /\ CandidatesClimb /\ rpo' = rpo /\ idom' = idom
  BY DEF AnalysisInv, dominance, fixpoint
<1>2. Graph(cfg')
  BY <1>1, CodeFacts DEF OnlyCode, Grown
<1>3. CandidatesClimb'
  BY <1>1, SameCandidates DEF OnlyCode
<1>4. Ready(cfg) /\ Ordered /\ Tree /\ Fixed
  BY DEF AnalysisInv
<1>5. Ordered' /\ Tree' /\ Fixed'
  BY <1>1, <1>4, SameTree DEF OnlyCode
<1>6. Ready(cfg')
  <2>1. Reached(cfg') = Reached(cfg)
    BY <1>1, CodeFacts DEF OnlyCode
  <2>2. cfg'.blocks \subseteq Reached(cfg')
    BY <1>4, <2>1 DEF Ready, Reached, OnlyCode
  <2>3. Predecessors(cfg', cfg'.entry) = {}
    BY <1>2 DEF Graph
  <2> QED BY <1>2, <2>2, <2>3, GraphFacts DEF Ready, Reached
<1> QED BY <1>2, <1>3, <1>5, <1>6 DEF AnalysisInv, FrontiersAtDominanceEnds, LoopsTurn

(* A step of renaming, which changes neither blocks nor edges.              *)
LEMMA RenamingStep ==
    ASSUME AnalysisInv, NextRenaming
    PROVE  AnalysisInv'
<1>1. DOMAIN cfg = {"entry", "blocks", "params", "succ", "pred", "code", "term"}
  BY DEF AnalysisInv, Graph
<1>2. \A code : OnlyCode(cfg, [cfg EXCEPT !.code = code])
  BY <1>1 DEF OnlyCode
<1>3. ASSUME NEW b, NEW c, RenameBlock(b, c) PROVE OnlyCode(cfg, cfg')
  <2>1. \A x, y, code : OnlyCode(cfg, [[cfg EXCEPT !.code[b] = x, !.term[b] = y] EXCEPT !.code = code])
    BY <1>1 DEF OnlyCode
  <2> QED BY <1>3, <2>1 DEF RenameBlock
<1>4. CASE CollectDefSites
  BY <1>1, <1>4, LaterStep DEF CollectDefSites, OnlyCode
<1>5. CASE PlacePhis
  <2>1. phase = "place" /\ phase' = "place" /\ UNCHANGED dominance
    BY <1>5 DEF PlacePhis
  <2>2. OnlyCode(cfg, cfg')
    BY <1>2, <1>5 DEF PlacePhis
  <2> QED BY <2>1, <2>2, LaterStep
<1>6. CASE RenameEntry
  <2>1. phase = "place" /\ phase' = "rename" /\ UNCHANGED dominance
    BY <1>6 DEF RenameEntry
  <2>2. OnlyCode(cfg, cfg')
    BY <1>3, <1>6 DEF RenameEntry
  <2> QED BY <2>1, <2>2, LaterStep
<1>7. CASE RenameChild
  <2>1. phase = "rename" /\ phase' = "rename" /\ UNCHANGED dominance
    BY <1>7 DEF RenameChild
  <2>2. OnlyCode(cfg, cfg')
    BY <1>3, <1>7 DEF RenameChild
  <2> QED BY <2>1, <2>2, LaterStep
<1>8. CASE LeaveRenamed
  <2>1. phase = "rename" /\ phase' \in {"rename", "renamed"} /\ UNCHANGED dominance /\ cfg' = cfg
    BY <1>8 DEF LeaveRenamed
  <2>2. OnlyCode(cfg, cfg')
    BY <2>1 DEF OnlyCode
  <2> QED BY <2>1, <2>2, LaterStep
<1> QED BY <1>4, <1>5, <1>6, <1>7, <1>8 DEF NextRenaming

(* A step of the lowering.                                                  *)
LEMMA LoweringStep ==
    ASSUME AnalysisInv, EliminatePhiNodes \/ LowerRegisters \/ LowerFunction \/ Optimize
    PROVE  AnalysisInv'
<1>1. DOMAIN cfg = {"entry", "blocks", "params", "succ", "pred", "code", "term"}
  BY DEF AnalysisInv, Graph
<1>2. UNCHANGED dominance
  BY DEF EliminatePhiNodes, LowerRegisters, LowerFunction, Optimize
<1>3. phase \notin {"build", "order", "dominance", "loops"} /\ phase' \notin {"build", "order", "dominance", "loops", "phis"}
  BY DEF EliminatePhiNodes, LowerRegisters, LowerFunction, Optimize
<1>4. OnlyCode(cfg, cfg')
  <2>1. \A code : OnlyCode(cfg, [cfg EXCEPT !.code = code])
    BY <1>1 DEF OnlyCode
  <2>2. CASE EliminatePhiNodes
    BY <2>1, <2>2 DEF EliminatePhiNodes
  <2>3. CASE LowerRegisters \/ LowerFunction \/ Optimize
    BY <2>3 DEF LowerRegisters, LowerFunction, Optimize, OnlyCode
  <2> QED BY <2>2, <2>3
<1> QED BY <1>2, <1>3, <1>4, LaterStep

(* The invariant is one of the state.                                       *)
LEMMA AnalysisStutters ==
    ASSUME AnalysisInv, UNCHANGED vars
    PROVE  AnalysisInv'
<1>1. /\ phase' = phase /\ cfg' = cfg /\ path' = path /\ postorder' = postorder /\ rpo' = rpo /\ pos' = pos
      /\ changed' = changed /\ idom' = idom /\ frontier' = frontier /\ loops' = loops
      /\ current_block' = current_block /\ frames' = frames
  BY DEF vars, builder, dominance, search, fixpoint
<1>2. Building => Building'
  BY <1>1 DEF Building
<1>3. Searching => Searching'
  <2>1. Visited' = Visited
    BY <1>1 DEF Visited, OnPath
  <2>2. OnceEach => OnceEach'
    BY <1>1 DEF OnceEach
  <2>3. AlongPath => AlongPath'
    BY <1>1, <2>1 DEF AlongPath
  <2>4. LeftBefore => LeftBefore'
    BY <1>1, <2>1 DEF LeftBefore
  <2> QED BY <2>2, <2>3, <2>4 DEF Searching
<1>4. /\ Ordered => Ordered' /\ (Tree => Tree') /\ (Fixed => Fixed')
      /\ \A b : Hangs(b) => Hangs(b)'
  BY <1>1, SameTree
<1>5. Rounds => Rounds'
  <2>1. (\A i \in 2 .. pos - 1 : Hangs(rpo[i])) => \A i \in 2 .. pos - 1 : \A c : c = rpo[i] => Hangs(c)'
    BY <1>4
  <2> QED BY <1>1, <2>1 DEF Rounds
<1>6. CandidatesClimb => CandidatesClimb'
  BY <1>1, SameCandidates
<1>7. LoopsTurn => LoopsTurn'
  BY <1>1, SameLoops
<1>8. FrontiersAtDominanceEnds => FrontiersAtDominanceEnds'
  <2>1. \A b : Dominators(b)' = Dominators(b)
    BY <1>1, SameDominators
  <2> QED BY <1>1, <2>1 DEF FrontiersAtDominanceEnds
<1> QED BY <1>1, <1>2, <1>3, <1>4, <1>5, <1>6, <1>7, <1>8 DEF AnalysisInv

(* What each pass relies on is so, from the first block SsaBuilder makes to *)
(* the lowered function.                                                   *)
THEOREM AnalysisInvariant == Spec => []AnalysisInv
<1>1. Init => AnalysisInv
  BY AnalysisStarts
<1>2. AnalysisInv /\ [Next]_vars => AnalysisInv'
  <2> SUFFICES ASSUME AnalysisInv, [Next]_vars PROVE AnalysisInv'
    OBVIOUS
  <2>1. CASE NextBuilder /\ UNCHANGED <<dominance, renamer, lowering>>
    BY <2>1, BuilderStep
  <2>2. CASE Analyse
    BY <2>2, AnalysisStep DEF Analyse
  <2>3. CASE NextRenaming /\ UNCHANGED <<program, builder, lowering>>
    BY <2>3, RenamingStep
  <2>4. CASE EliminatePhiNodes \/ LowerRegisters \/ LowerFunction \/ Optimize
    BY <2>4, LoweringStep
  <2>5. CASE UNCHANGED vars
    BY <2>5, AnalysisStutters
  <2> QED BY <2>1, <2>2, <2>3, <2>4, <2>5 DEF Next
<1> QED BY <1>1, <1>2, PTL DEF Spec

(* Whatever the round, candidates climb and no true dominator is left out   *)
(* (intersect, ssa_ir.rs:827).                                             *)
THEOREM CandidatesAlwaysClimb == Spec => []CandidatesClimb
<1>1. AnalysisInv => CandidatesClimb
  BY DEF AnalysisInv
<1> QED BY <1>1, AnalysisInvariant, PTL

(* The immediate dominators of every function are dominance by paths        *)
(* (compute_dominance, ssa_ir.rs:744).                                     *)
THEOREM DominanceIsByPaths == Spec => []IdomIsDominance
<1>1. AnalysisInv => IdomIsDominance
  <2> SUFFICES ASSUME AnalysisInv, phase = "loops" PROVE IdomIsDominance
    BY DEF IdomIsDominance
  <2> QED BY DominanceFound DEF AnalysisInv
<1> QED BY <1>1, AnalysisInvariant, PTL

(* Frontiers are where dominance ends (compute_dominance_frontiers,         *)
(* ssa_ir.rs:857).                                                         *)
THEOREM FrontiersInvariant == Spec => []FrontiersAtDominanceEnds
<1>1. AnalysisInv => FrontiersAtDominanceEnds
  BY DEF AnalysisInv
<1> QED BY <1>1, AnalysisInvariant, PTL

(* The loops found are those that turn around their header                  *)
(* (compute_natural_loop, ssa_ir.rs:965).                                  *)
THEOREM LoopsInvariant == Spec => []LoopsTurn
<1>1. AnalysisInv => LoopsTurn
  BY DEF AnalysisInv
<1> QED BY <1>1, AnalysisInvariant, PTL

-----------------------------------------------------------------------------
(* The code SsaBuilder emits: instructions without sources, on a graph of   *)
(* instructions.                                                           *)
Emitted(q) == IsList(q) /\ \A i \in DOMAIN q : Instruction(q[i]) /\ q[i].sources = <<>>
Plain(g) == Coded(g) /\ Unfilled(g)

(* The empty list.                                                          *)
LEMMA EmptyList == IsList(<<>>) /\ DOMAIN <<>> = {} /\ ToSet(<<>>) = {} /\ Len(<<>>) = 0 /\ Emitted(<<>>)
  BY DEF IsList, ToSet, Emitted

(* An instruction as SsaBuilder makes it.                                   *)
LEMMA InstrFacts ==
    ASSUME NEW op, NEW ref, NEW args
    PROVE  /\ Instruction(Instr(op, ref, {}, args)) /\ Instr(op, ref, {}, args).sources = <<>>
           /\ \A r : /\ Instruction(Instr(op, ref, {r}, args)) /\ Instr(op, ref, {r}, args).sources = <<>>
                     /\ Instruction(Phi(r)) /\ Phi(r).sources = <<>>
  BY EmptyList DEF Instr, Phi, Instruction

(* One instruction more is emitted.                                         *)
LEMMA EmittedAppend ==
    ASSUME NEW q, Emitted(q), NEW x, Instruction(x), x.sources = <<>>
    PROVE  Emitted(Append(q, x))
<1> DEFINE r == Append(q, x)
           n == Len(q)
<1>1. /\ IsList(r) /\ Len(r) = n + 1 /\ r[n + 1] = x /\ \A i \in 1 .. n : r[i] = q[i]
      /\ n \in Nat /\ DOMAIN q = 1 .. n
  BY AppendList, ListBasics DEF Emitted
<1>2. DOMAIN r = 1 .. n + 1
  BY <1>1, ListBasics
<1> HIDE DEF r, n
<1>3. \A i : i \in 1 .. n + 1 <=> i \in 1 .. n \/ i = n + 1
  BY <1>1
<1>4. Emitted(r)
  BY <1>1, <1>2, <1>3 DEF Emitted
<1> QED BY <1>4 DEF r

(* Two emitted lists make one.                                              *)
LEMMA EmittedJoin ==
    ASSUME NEW q, NEW r, IsList(q), IsList(r)
    PROVE  /\ IsList(q \o r) /\ DOMAIN (q \o r) = 1 .. Len(q \o r)
           /\ \A i \in DOMAIN (q \o r) : (\E j \in DOMAIN q : (q \o r)[i] = q[j]) \/ \E j \in DOMAIN r : (q \o r)[i] = r[j]
           /\ Emitted(q) /\ Emitted(r) => Emitted(q \o r)
<1> DEFINE s == q \o r
<1>1. IsList(s) /\ ToSet(s) = ToSet(q) \cup ToSet(r)
  BY JoinLists
<1> HIDE DEF s
<1>2. DOMAIN s = 1 .. Len(s)
  BY <1>1, ListBasics
<1>3. \A i \in DOMAIN s : s[i] \in ToSet(q) \/ s[i] \in ToSet(r)
  BY <1>1 DEF ToSet
<1>4. \A i \in DOMAIN s : (\E j \in DOMAIN q : s[i] = q[j]) \/ \E j \in DOMAIN r : s[i] = r[j]
  BY <1>3 DEF ToSet
<1>5. Emitted(q) /\ Emitted(r) => Emitted(s)
  BY <1>1, <1>4 DEF Emitted
<1> QED BY <1>1, <1>2, <1>4, <1>5 DEF s

(* transform_expression emits instructions: node by node.                   *)
LEMMA TransformSteps ==
    ASSUME NEW expr, IsList(expr)
    PROVE  \E f : /\ f[0] = [code |-> <<>>, operands |-> <<>>, next |-> next_temp]
                  /\ TransformExpression(expr) = f[Len(expr)]
                  /\ \A n \in 1 .. Len(expr) : f[n] = TransformNode(f[n-1], expr[n])
<1> DEFINE m == Len(expr)
           c0 == [code |-> <<>>, operands |-> <<>>, next |-> next_temp]
           rec(k, f) == [n \in 0 .. k |-> IF n = 0 THEN c0 ELSE TransformNode(f[n-1], expr[n])]
           S == {k \in Nat : \E f : f = rec(k, f)}
           after == CHOOSE f : f = rec(m, f)
<1>1. m \in Nat
  BY ListBasics
<1>2. TransformExpression(expr) = after[m]
  BY DEF TransformExpression
<1> HIDE DEF m, c0
<1>3. 0 \in S
  <2> DEFINE f == [n \in 0 .. 0 |-> c0]
  <2>1. f = rec(0, f)
    OBVIOUS
  <2> HIDE DEF f, rec
  <2> QED BY <2>1
<1>4. ASSUME NEW k \in Nat, k \in S PROVE k + 1 \in S
  <2>1. PICK f : f = rec(k, f)
    BY <1>4
  <2> DEFINE g == [n \in 0 .. k + 1 |-> IF n = k + 1 THEN TransformNode(f[k], expr[k + 1]) ELSE f[n]]
             h == rec(k + 1, g)
  <2>2. ASSUME NEW n \in 0 .. k + 1 PROVE g[n] = h[n]
    <3>1. h[n] = IF n = 0 THEN c0 ELSE TransformNode(g[n-1], expr[n])
      OBVIOUS
    <3>2. CASE n = k + 1
      <4>1. n - 1 = k /\ n # 0 /\ k \in 0 .. k + 1 /\ k # k + 1
        BY <3>2
      <4>2. g[n-1] = f[k]
        BY <4>1
      <4>3. g[n] = TransformNode(f[k], expr[k + 1])
        BY <3>2
      <4> HIDE DEF g, h
      <4> QED BY <3>1, <3>2, <4>1, <4>2, <4>3
    <3>3. CASE n # k + 1
      <4>1. n \in 0 .. k /\ (n # 0 => n - 1 \in 0 .. k /\ n - 1 \in 0 .. k + 1 /\ n - 1 # k + 1)
        BY <3>3
      <4>2. g[n] = f[n] /\ (n # 0 => g[n-1] = f[n-1])
        BY <3>3, <4>1
      <4>3. f[n] = IF n = 0 THEN c0 ELSE TransformNode(f[n-1], expr[n])
        BY <2>1, <4>1
      <4> HIDE DEF g, h
      <4> QED BY <3>1, <4>2, <4>3
    <3> QED BY <3>2, <3>3
  <2>3. g = h
    <3>1. g = [n \in 0 .. k + 1 |-> g[n]] /\ h = [n \in 0 .. k + 1 |-> h[n]]
      OBVIOUS
    <3> HIDE DEF g, h
    <3> QED BY <2>2, <3>1
  <2> HIDE DEF g, rec
  <2> QED BY <2>3
<1>5. m \in S
  <2> HIDE DEF S
  <2>1. Nat \subseteq S
    BY <1>3, <1>4, Induction
  <2> QED BY <1>1, <2>1
<1>6. after = rec(m, after)
  <2>1. \E f : f = rec(m, f)
    BY <1>5
  <2> HIDE DEF rec
  <2> QED BY <2>1, Zenon
<1> HIDE DEF after
<1>7. after[0] = c0 /\ \A n \in 1 .. m : after[n] = TransformNode(after[n-1], expr[n])
  <2>1. after = [n \in 0 .. m |-> IF n = 0 THEN c0 ELSE TransformNode(after[n-1], expr[n])]
    BY <1>6
  <2>2. 0 \in 0 .. m /\ \A n \in 1 .. m : n \in 0 .. m /\ n # 0
    BY <1>1
  <2> QED BY <2>1, <2>2
<1> QED BY <1>2, <1>7 DEF m, c0

(* A node of an expression emits one instruction or none.                   *)
LEMMA NodeEmits ==
    ASSUME NEW acc, DOMAIN acc = {"code", "operands", "next"}, Emitted(acc.code), NEW node
    PROVE  DOMAIN TransformNode(acc, node) = {"code", "operands", "next"} /\ Emitted(TransformNode(acc, node).code)
<1> DEFINE given == [i \in DOMAIN node.args |-> acc.operands[node.args[i]]]
           args  == IF node.op = "MemberCall" THEN Tail(given) ELSE given
           target == Reg(<<"tmp", acc.next>>, 0)
           valued == Instr(Opcode(node), node.ref, {target}, args)
           void == Instr(Opcode(node), node.ref, {}, args)
           t == TransformNode(acc, node)
<1>1. Emitted(Append(acc.code, valued)) /\ Emitted(Append(acc.code, void))
  <2> HIDE DEF args, target
  <2>1. Instruction(valued) /\ valued.sources = <<>> /\ Instruction(void) /\ void.sources = <<>>
    BY InstrFacts
  <2> HIDE DEF valued, void
  <2> QED BY <2>1, EmittedAppend
<1>2. \/ \E x : t = [acc EXCEPT !.operands = x]
      \/ \E x, y : t = [code |-> Append(acc.code, valued), operands |-> x, next |-> y]
      \/ \E x : t = [acc EXCEPT !.code = Append(acc.code, void), !.operands = x]
  <2>1. \/ t = [acc EXCEPT !.operands = Append(@, Const(node.val))]
        \/ t = [acc EXCEPT !.operands = Append(@, At(Reg(node.ref, 0)))]
        \/ t = [code |-> Append(acc.code, valued), operands |-> Append(acc.operands, At(target)), next |-> acc.next + 1]
        \/ t = [acc EXCEPT !.code = Append(@, void), !.operands = Append(@, Const(0))]
    BY DEF TransformNode
  <2> HIDE DEF valued, void, target, t
  <2> QED BY <2>1
<1> HIDE DEF valued, void, target, t
<1>3. DOMAIN t = {"code", "operands", "next"} /\ Emitted(t.code)
  <2>1. ASSUME NEW x, t = [acc EXCEPT !.operands = x]
        PROVE  DOMAIN t = {"code", "operands", "next"} /\ t.code = acc.code
    BY <2>1
  <2>2. ASSUME NEW q, NEW x, NEW y, t = [code |-> q, operands |-> x, next |-> y]
        PROVE  DOMAIN t = {"code", "operands", "next"} /\ t.code = q
    BY <2>2
  <2>3. ASSUME NEW q, NEW x, t = [acc EXCEPT !.code = q, !.operands = x]
        PROVE  DOMAIN t = {"code", "operands", "next"} /\ t.code = q
    BY <2>3
  <2> QED BY <1>1, <1>2, <2>1, <2>2, <2>3, Zenon
<1> QED BY <1>3 DEF t

(* An expression emits no phi and no other instruction SsaBuilder does not  *)
(* know.                                                                    *)
LEMMA ExpressionEmits ==
    ASSUME NEW expr, IsList(expr)
    PROVE  Emitted(TransformExpression(expr).code)
<1> DEFINE m == Len(expr)
           Good(t) == DOMAIN t = {"code", "operands", "next"} /\ Emitted(t.code)
<1>1. m \in Nat
  BY ListBasics
<1>2. PICK f : /\ f[0] = [code |-> <<>>, operands |-> <<>>, next |-> next_temp]
               /\ TransformExpression(expr) = f[m]
               /\ \A n \in 1 .. m : f[n] = TransformNode(f[n-1], expr[n])
  BY TransformSteps
<1> DEFINE S == {k \in Nat : k <= m => Good(f[k])}
<1> HIDE DEF m
<1>3. 0 \in S
  BY <1>2, EmptyList
<1>4. ASSUME NEW k \in Nat, k \in S PROVE k + 1 \in S
  <2> SUFFICES ASSUME k + 1 <= m PROVE Good(f[k + 1])
    OBVIOUS
  <2>1. k <= m /\ k + 1 \in 1 .. m /\ (k + 1) - 1 = k
    BY <1>1
  <2>2. Good(f[k])
    BY <1>4, <2>1
  <2>3. f[k + 1] = TransformNode(f[k], expr[k + 1])
    BY <1>2, <2>1
  <2> QED BY <2>2, <2>3, NodeEmits
<1>5. m \in S
  <2> HIDE DEF S
  <2>1. Nat \subseteq S
    BY <1>3, <1>4, Induction
  <2> QED BY <1>1, <2>1
<1> QED BY <1>1, <1>2, <1>5

-----------------------------------------------------------------------------
(* What SsaBuilder does to a graph keeps it one of instructions.            *)
LEMMA NewCfgPlain ==
    ASSUME NEW params, ParamList(params)
    PROVE  Plain(NewCfg(params))
<1> DEFINE g == NewCfg(params)
<1>1. /\ DOMAIN g = {"entry", "blocks", "params", "succ", "pred", "code", "term"}
      /\ g.blocks = {0} /\ g.params = params
      /\ g.code = [b \in {0} |-> <<>>] /\ g.term = [b \in {0} |-> Unreachable]
  BY DEF NewCfg
<1> HIDE DEF g
<1>2. g.code[0] = <<>> /\ g.term[0] = Unreachable
  BY <1>1
<1>3. DOMAIN Unreachable = {"kind", "args", "targets"}
  BY DEF Unreachable
<1> QED BY <1>1, <1>2, <1>3, EmptyList DEF Plain, Coded, Unfilled, g

(* A new block is empty.                                                    *)
LEMMA NewBlockPlain ==
    ASSUME NEW g, Plain(g)
    PROVE  Plain(NewBlock(g))
<1> DEFINE n == Cardinality(g.blocks)
           h == NewBlock(g)
           e == <<>>
<1>0. DOMAIN g = {"entry", "blocks", "params", "succ", "pred", "code", "term"}
  BY DEF Plain, Coded
<1>1. /\ DOMAIN h = DOMAIN g /\ h.blocks = g.blocks \cup {n} /\ h.params = g.params
      /\ h.code = Put(g.code, n, e) /\ h.term = Put(g.term, n, Unreachable)
  BY <1>0 DEF NewBlock
<1> HIDE DEF h, n
<1>2. /\ DOMAIN h.code = g.blocks \cup {n} /\ h.code[n] = e
      /\ DOMAIN h.term = g.blocks \cup {n} /\ h.term[n] = Unreachable
      /\ \A b \in g.blocks : b # n => h.code[b] = g.code[b] /\ h.term[b] = g.term[b]
  BY <1>1 DEF Put, Plain, Coded
<1>3. DOMAIN Unreachable = {"kind", "args", "targets"}
  BY DEF Unreachable
<1>4. IsList(e) /\ DOMAIN e = {}
  BY EmptyList
<1> HIDE DEF e
<1> QED BY <1>0, <1>1, <1>2, <1>3, <1>4 DEF Plain, Coded, Unfilled, h

(* Emitted instructions may be added to a block.                            *)
LEMMA InstructionsPlain ==
    ASSUME NEW g, Plain(g), NEW b, NEW q, Emitted(q)
    PROVE  Plain(AddInstructions(g, b, q))
<1> DEFINE h == AddInstructions(g, b, q)
           both == g.code[b] \o q
<1>0. DOMAIN g = {"entry", "blocks", "params", "succ", "pred", "code", "term"} /\ DOMAIN g.code = g.blocks
  BY DEF Plain, Coded
<1>1. /\ DOMAIN h = DOMAIN g /\ h.blocks = g.blocks /\ h.params = g.params
      /\ h.code = [g.code EXCEPT ![b] = both] /\ h.term = g.term
  BY <1>0 DEF AddInstructions
<1>2. ASSUME b \in g.blocks PROVE Emitted(both)
  <2>1. Emitted(g.code[b])
    BY <1>2 DEF Plain, Coded, Unfilled, Emitted
  <2>2. IsList(g.code[b]) /\ IsList(q)
    BY <2>1 DEF Emitted
  <2> QED BY <2>1, <2>2, EmittedJoin
<1> HIDE DEF h, both
<1>3. /\ DOMAIN h.code = g.blocks /\ \A d \in g.blocks : d # b => h.code[d] = g.code[d]
      /\ b \in g.blocks => h.code[b] = both
  BY <1>0, <1>1
<1>4. \A d \in g.blocks : Emitted(h.code[d])
  <2>1. \A d \in g.blocks : Emitted(g.code[d])
    BY DEF Plain, Coded, Unfilled, Emitted
  <2> QED BY <1>2, <1>3, <2>1
<1>5. Plain(h)
  BY <1>0, <1>1, <1>3, <1>4 DEF Plain, Coded, Unfilled, Emitted
<1> QED BY <1>5 DEF h

(* So may a terminator.                                                     *)
LEMMA TerminatorPlain ==
    ASSUME NEW g, Plain(g), NEW b, NEW t, DOMAIN t = {"kind", "args", "targets"}
    PROVE  Plain(AddTerminator(g, b, t))
<1> DEFINE h == AddTerminator(g, b, t)
<1>0. DOMAIN g = {"entry", "blocks", "params", "succ", "pred", "code", "term"} /\ DOMAIN g.term = g.blocks
  BY DEF Plain, Coded
<1>1. /\ DOMAIN h = DOMAIN g /\ h.blocks = g.blocks /\ h.params = g.params
      /\ h.code = g.code /\ h.term = [g.term EXCEPT ![b] = t]
  BY <1>0 DEF AddTerminator
<1> HIDE DEF h
<1>3. /\ DOMAIN h.term = g.blocks /\ \A d \in g.blocks : h.term[d] \in {g.term[d], t}
  BY <1>0, <1>1
<1>5. Plain(h)
  BY <1>0, <1>1, <1>3 DEF Plain, Coded, Unfilled
<1> QED BY <1>5 DEF h

(* Edges change no code.                                                    *)
LEMMA EdgePlain ==
    ASSUME NEW g, Plain(g), NEW a, NEW c
    PROVE  Plain(AddEdge(g, a, c))
<1> DEFINE h == AddEdge(g, a, c)
<1>0. DOMAIN g = {"entry", "blocks", "params", "succ", "pred", "code", "term"}
  BY DEF Plain, Coded
<1>1. /\ DOMAIN h = DOMAIN g /\ h.blocks = g.blocks /\ h.params = g.params
      /\ h.code = g.code /\ h.term = g.term
  BY <1>0 DEF AddEdge
<1> HIDE DEF h
<1>5. Plain(h)
  BY <1>0, <1>1 DEF Plain, Coded, Unfilled
<1> QED BY <1>5 DEF h

(* The fields of a terminator.                                              *)
LEMMA TerminatorFacts ==
    /\ \A b : DOMAIN Jump(b) = {"kind", "args", "targets"}
    /\ \A c, b, d : DOMAIN Branch(c, b, d) = {"kind", "args", "targets"}
    /\ \A args : DOMAIN Return(args) = {"kind", "args", "targets"}
  BY DEF Jump, Branch, Return

-----------------------------------------------------------------------------
(* The statements SsaBuilder has still to read: lists of statements whose   *)
(* expressions are lists, and whose nested blocks are among B.              *)
Fit(q, B) ==
    IsList(q) /\ \A s \in ToSet(q) : IsList(s.expr) /\ s.block \in B /\ s.otherwise \in B
FrameOf(f, B) ==
    DOMAIN f = {"kind", "todo", "blocks", "otherwise"} /\ Fit(f.todo, B) /\ Fit(f.otherwise, B)
FramesFit(q, B) == IsList(q) /\ \A i \in DOMAIN q : FrameOf(q[i], B)
Written == \E B : (\A q \in B : Fit(q, B)) /\ FramesFit(frames, B)

(* The rest of a block of statements is one.                                *)
LEMMA FitFacts ==
    ASSUME NEW q, NEW B, Fit(q, B), q # <<>>
    PROVE  /\ Fit(Tail(q), B) /\ IsList(Head(q).expr)
           /\ Head(q).block \in B /\ Head(q).otherwise \in B
<1> DEFINE n == Len(q)
           t == Tail(q)
<1>1. /\ n >= 1 /\ IsList(t) /\ Len(t) = n - 1 /\ n \in Nat /\ DOMAIN q = 1 .. n
      /\ \A i \in 1 .. n - 1 : t[i] = q[i + 1]
  BY TailList, ListBasics DEF Fit
<1>2. DOMAIN t = 1 .. n - 1
  BY <1>1, ListBasics
<1>3. Head(q) = q[1]
  OBVIOUS
<1> HIDE DEF t, n
<1>4. 1 \in 1 .. n /\ \A i \in 1 .. n - 1 : i + 1 \in 1 .. n
  BY <1>1
<1>5. q[1] \in ToSet(q) /\ ToSet(t) \subseteq ToSet(q)
  BY <1>1, <1>2, <1>4 DEF ToSet
<1>6. Fit(t, B)
  BY <1>1, <1>5 DEF Fit
<1>7. IsList(q[1].expr) /\ q[1].block \in B /\ q[1].otherwise \in B
  BY <1>5 DEF Fit
<1> QED BY <1>3, <1>6, <1>7 DEF t

(* Reading a statement leaves the rest of it in the frame.                  *)
LEMMA FramesRead ==
    ASSUME NEW q, NEW B, FramesFit(q, B), q # <<>>, NEW todo, Fit(todo, B)
    PROVE  LET r == [q EXCEPT ![1].todo = todo]
           IN  FramesFit(r, B) /\ r # <<>>
<1> DEFINE n == Len(q)
           f == [q[1] EXCEPT !.todo = todo]
           r == [q EXCEPT ![1] = f]
<1>1. n \in Nat /\ DOMAIN q = 1 .. n /\ n >= 1
  BY ListBasics, TailList DEF FramesFit
<1>2. FrameOf(q[1], B)
  <2> HIDE DEF n
  <2>1. 1 \in 1 .. n
    BY <1>1
  <2> QED BY <1>1, <2>1 DEF FramesFit
<1>3. FrameOf(f, B)
  <2>1. DOMAIN f = DOMAIN q[1] /\ f.todo = todo /\ f.otherwise = q[1].otherwise
    BY <1>2 DEF FrameOf
  <2> HIDE DEF f
  <2> QED BY <1>2, <2>1 DEF FrameOf
<1> HIDE DEF f
<1>4. DOMAIN r = 1 .. n /\ r[1] = f /\ \A i \in 1 .. n : i # 1 => r[i] = q[i]
  BY <1>1
<1>5. r = [i \in 1 .. n |-> r[i]]
  BY <1>1
<1> HIDE DEF r, n
<1>6. IsList(r) /\ Len(r) = n
  BY <1>1, <1>5, ListByIndex
<1>7. r # <<>>
  <2>1. Len(r) # 0
    BY <1>1, <1>6
  <2> QED BY <2>1
<1>8. FramesFit(r, B)
  BY <1>1, <1>3, <1>4, <1>6 DEF FramesFit
<1>9. r = [q EXCEPT ![1].todo = todo]
  BY DEF r, f
<1> QED BY <1>7, <1>8, <1>9

(* A body opened is a block of the function.                                *)
LEMMA FramesPush ==
    ASSUME NEW q, NEW B, FramesFit(q, B), NEW f, FrameOf(f, B)
    PROVE  FramesFit(<<f>> \o q, B)
<1> DEFINE r == <<f>> \o q
           n == Len(q)
<1>1. /\ IsList(r) /\ Len(r) = n + 1 /\ r[1] = f /\ \A i \in 1 .. n : r[i + 1] = q[i]
      /\ n \in Nat /\ DOMAIN q = 1 .. n
  BY PushFrame, ListBasics DEF FramesFit
<1>2. DOMAIN r = 1 .. n + 1
  BY <1>1, ListBasics
<1> HIDE DEF r, n
<1>3. ASSUME NEW i \in 1 .. n + 1 PROVE FrameOf(r[i], B)
  <2>1. CASE i = 1
    BY <1>1, <2>1
  <2>2. CASE i # 1
    <3>1. i - 1 \in 1 .. n /\ (i - 1) + 1 = i
      BY <1>1, <2>2
    <3>2. r[i] = q[i - 1]
      BY <1>1, <3>1
    <3> QED BY <1>1, <3>1, <3>2 DEF FramesFit
  <2> QED BY <2>1, <2>2
<1>4. FramesFit(r, B)
  BY <1>1, <1>2, <1>3 DEF FramesFit
<1> QED BY <1>4 DEF r

(* A body ended leaves the frames below.                                    *)
LEMMA FramesPop ==
    ASSUME NEW q, NEW B, FramesFit(q, B), q # <<>>
    PROVE  FramesFit(Tail(q), B) /\ FrameOf(q[1], B)
<1> DEFINE n == Len(q)
           t == Tail(q)
<1>1. /\ n >= 1 /\ IsList(t) /\ Len(t) = n - 1 /\ n \in Nat /\ DOMAIN q = 1 .. n
      /\ \A i \in 1 .. n - 1 : t[i] = q[i + 1]
  BY TailList, ListBasics DEF FramesFit
<1>2. DOMAIN t = 1 .. n - 1
  BY <1>1, ListBasics
<1> HIDE DEF t, n
<1>3. 1 \in 1 .. n /\ \A i \in 1 .. n - 1 : i + 1 \in 1 .. n
  BY <1>1
<1>4. FramesFit(t, B) /\ FrameOf(q[1], B)
  BY <1>1, <1>2, <1>3 DEF FramesFit
<1> QED BY <1>4 DEF t

(* The statement at hand, and the frames once it is read.                   *)
LEMMA ReadFacts ==
    ASSUME Written, NEW kinds, Reading(kinds)
    PROVE  /\ IsList(stmt.expr) /\ Emitted(TransformExpression(stmt.expr).code)
           /\ \E B : /\ \A q \in B : Fit(q, B)
                     /\ FramesFit(AfterStatement, B)
                     /\ Fit(stmt.block, B) /\ Fit(stmt.otherwise, B)
<1>1. PICK B : (\A q \in B : Fit(q, B)) /\ FramesFit(frames, B)
  BY DEF Written
<1>2. frames # <<>> /\ frames[1].todo # <<>>
  BY DEF Reading
<1>3. Fit(frames[1].todo, B)
  BY <1>1, <1>2, FramesPop DEF FrameOf
<1>4. /\ Fit(Tail(frames[1].todo), B) /\ IsList(stmt.expr)
      /\ stmt.block \in B /\ stmt.otherwise \in B
  BY <1>2, <1>3, FitFacts DEF stmt
<1>5. FramesFit([frames EXCEPT ![1].todo = Tail(frames[1].todo)], B)
  BY <1>1, <1>2, <1>4, FramesRead
<1>6. AfterStatement = [frames EXCEPT ![1].todo = Tail(frames[1].todo)]
  BY DEF AfterStatement
<1> QED BY <1>1, <1>4, <1>5, <1>6, ExpressionEmits

(* A statement without control flow writes instructions into one block.     *)
LEMMA StraightWrites ==
    ASSUME Plain(cfg), Written,
           TransformExpressionStatement \/ TransformAssignment \/ TransformReturn
    PROVE  Plain(cfg') /\ Written'
<1> DEFINE t == TransformExpression(stmt.expr)
<1>1. \E kinds : Reading(kinds)
  BY DEF TransformExpressionStatement, TransformAssignment, TransformReturn
<1>2. /\ Emitted(t.code)
      /\ \E B : (\A q \in B : Fit(q, B)) /\ FramesFit(AfterStatement, B)
  BY <1>1, ReadFacts
<1>3. frames' = AfterStatement
  BY DEF TransformExpressionStatement, TransformAssignment, TransformReturn, Straight
<1>4. Written'
  BY <1>2, <1>3 DEF Written
<1> HIDE DEF t
<1>5. CASE TransformExpressionStatement
  <2>1. cfg' = AddInstructions(cfg, current_block, t.code)
    BY <1>5 DEF TransformExpressionStatement, Straight, t
  <2> QED BY <1>2, <1>4, <2>1, InstructionsPlain
<1>6. CASE TransformAssignment
  <2> DEFINE store == Instr("SStore", stmt.ref, {}, <<Value(t)>>)
             copy == Instr("Copy", <<"", 0>>, {Reg(stmt.ref, 0)}, <<Value(t)>>)
  <2>1. \E inst \in {store, copy} : cfg' = AddInstructions(cfg, current_block, Append(t.code, inst))
    BY <1>6 DEF TransformAssignment, Straight, t
  <2>2. /\ Instruction(store) /\ store.sources = <<>>
        /\ Instruction(copy) /\ copy.sources = <<>>
    BY InstrFacts
  <2> HIDE DEF store, copy
  <2>3. \A inst \in {store, copy} : Emitted(Append(t.code, inst))
    BY <1>2, <2>2, EmittedAppend
  <2> QED BY <1>4, <2>1, <2>3, InstructionsPlain
<1>7. CASE TransformReturn
  <2>1. \E args : cfg' = AddTerminator(AddInstructions(cfg, current_block, t.code), current_block, Return(args))
    BY <1>7 DEF TransformReturn, Straight, t
  <2>2. Plain(AddInstructions(cfg, current_block, t.code))
    BY <1>2, InstructionsPlain
  <2> QED BY <1>4, <2>1, <2>2, TerminatorPlain, TerminatorFacts
<1> QED BY <1>5, <1>6, <1>7

(* A condition is written into the block it ends.                           *)
LEMMA BranchWrites ==
    ASSUME Plain(cfg), Written, TransformIf \/ TransformWhile
    PROVE  Plain(cfg') /\ Written'
<1> DEFINE t == TransformExpression(stmt.expr)
<1>1. \E kinds : Reading(kinds)
  BY DEF TransformIf, TransformWhile
<1>2. /\ Emitted(t.code)
      /\ \E B : /\ \A q \in B : Fit(q, B)
                /\ FramesFit(AfterStatement, B)
                /\ Fit(stmt.block, B) /\ Fit(stmt.otherwise, B)
  BY <1>1, ReadFacts
<1>3. PICK B : /\ \A q \in B : Fit(q, B)
               /\ FramesFit(AfterStatement, B)
               /\ Fit(stmt.block, B) /\ Fit(stmt.otherwise, B)
  BY <1>2
<1> HIDE DEF t
<1>4. Plain(NewBlock(NewBlock(cfg))) /\ Plain(NewBlock(NewBlock(NewBlock(cfg))))
  BY NewBlockPlain
<1>5. \A kind, blocks : \A otherwise \in {stmt.otherwise, <<>>} :
         FrameOf(Frame(kind, stmt.block, blocks, otherwise), B)
  <2>1. Fit(<<>>, B)
    BY EmptyList DEF Fit
  <2> QED BY <1>3, <2>1 DEF Frame, FrameOf
<1>6. CASE TransformIf
  <2>1. PICK g, a, b, value, kind, blocks :
           /\ g \in {NewBlock(NewBlock(cfg)), NewBlock(NewBlock(NewBlock(cfg)))}
           /\ cfg' = AddEdge(AddEdge(AddTerminator(AddInstructions(g, current_block, t.code),
                                                   current_block, Branch(value, a, b)),
                                     current_block, a), current_block, b)
           /\ frames' = <<Frame(kind, stmt.block, blocks, stmt.otherwise)>> \o AfterStatement
    BY <1>6 DEF TransformIf, t
  <2>2. Plain(cfg')
    BY <1>2, <1>4, <2>1, InstructionsPlain, TerminatorPlain, TerminatorFacts, EdgePlain
  <2>3. FramesFit(frames', B)
    BY <1>3, <1>5, <2>1, FramesPush
  <2> QED BY <1>3, <2>2, <2>3 DEF Written
<1>7. CASE TransformWhile
  <2>1. PICK header, body, exit, value, blocks :
           /\ cfg' = AddEdge(AddEdge(AddTerminator(AddInstructions(
                         AddEdge(AddTerminator(NewBlock(NewBlock(NewBlock(cfg))), current_block, Jump(header)),
                                 current_block, header), header, t.code),
                         header, Branch(value, body, exit)), header, body), body, header)
           /\ frames' = <<Frame("while", stmt.block, blocks, <<>>)>> \o AfterStatement
    BY <1>7 DEF TransformWhile, t
  <2>2. Plain(AddEdge(AddTerminator(NewBlock(NewBlock(NewBlock(cfg))), current_block, Jump(header)),
                      current_block, header))
    BY <1>4, TerminatorPlain, TerminatorFacts, EdgePlain
  <2>3. Plain(cfg')
    BY <1>2, <2>1, <2>2, InstructionsPlain, TerminatorPlain, TerminatorFacts, EdgePlain
  <2>4. FramesFit(frames', B)
    BY <1>3, <1>5, <2>1, FramesPush
  <2> QED BY <1>3, <2>3, <2>4 DEF Written
<1> QED BY <1>6, <1>7

(* The end of a body writes a terminator.                                   *)
LEMMA EndWrites ==
    ASSUME Plain(cfg), Written, EndThen \/ EndIf \/ EndWhile \/ FinishBuild
    PROVE  Plain(cfg') /\ Written'
<1>1. PICK B : (\A q \in B : Fit(q, B)) /\ FramesFit(frames, B)
  BY DEF Written
<1>2. frames # <<>>
  BY DEF EndThen, EndIf, EndWhile, FinishBuild, BlockEnds
<1>3. FramesFit(Tail(frames), B) /\ FrameOf(frames[1], B) /\ Fit(<<>>, B) /\ FramesFit(<<>>, B)
  BY <1>1, <1>2, FramesPop, EmptyList DEF Fit, FramesFit
<1>4. \A exit : Plain(JoinExit(cfg, exit))
  BY EdgePlain, TerminatorPlain, TerminatorFacts DEF JoinExit
<1>5. CASE EndThen
  <2>1. PICK exit, blocks :
           /\ cfg' = JoinExit(cfg, exit)
           /\ frames' = <<Frame("last", frames[1].otherwise, blocks, <<>>)>> \o Tail(frames)
    BY <1>5 DEF EndThen
  <2>2. FrameOf(Frame("last", frames[1].otherwise, blocks, <<>>), B)
    BY <1>3 DEF Frame, FrameOf
  <2>3. FramesFit(frames', B)
    BY <1>3, <2>1, <2>2, FramesPush
  <2> QED BY <1>1, <1>4, <2>1, <2>3 DEF Written
<1>6. CASE EndIf
  <2>1. (\E exit : cfg' = JoinExit(cfg, exit)) /\ frames' = Tail(frames)
    BY <1>6 DEF EndIf
  <2> QED BY <1>1, <1>3, <1>4, <2>1 DEF Written
<1>7. CASE EndWhile
  <2>1. /\ \E b, h, exit : cfg' = AddEdge(AddTerminator(cfg, b, Jump(h)), h, exit)
        /\ frames' = Tail(frames)
    BY <1>7 DEF EndWhile
  <2>2. Plain(cfg')
    BY <2>1, EdgePlain, TerminatorPlain, TerminatorFacts
  <2> QED BY <1>1, <1>3, <2>1, <2>2 DEF Written
<1>8. CASE FinishBuild
  <2>1. /\ cfg' = AddTerminator(cfg, current_block, Return(<<>>)) \/ cfg' = cfg
        /\ frames' = <<>>
    BY <1>8 DEF FinishBuild
  <2>2. Plain(cfg')
    BY <2>1, TerminatorPlain, TerminatorFacts
  <2> QED BY <1>1, <1>3, <2>1, <2>2 DEF Written
<1> QED BY <1>5, <1>6, <1>7, <1>8

(* A body is one of its blocks, however deep they nest.                     *)
LEMMA BodyIsBlock ==
    ASSUME NEW body
    PROVE  body \in Blocks(body)
<1> DEFINE more(outer) == outer \cup UNION {{s.block, s.otherwise} : s \in UNION {ToSet(b) : b \in outer}}
           rec(k, f) == [n \in 0 .. k |-> IF n = 0 THEN {body} ELSE more(f[n-1])]
           S == {k \in Nat : \E f : f = rec(k, f)}
           nested == CHOOSE f : f = rec(Depth, f)
<1>1. Blocks(body) = nested[Depth]
  BY DEF Blocks
<1>2. \A outer : body \in outer => body \in more(outer)
  OBVIOUS
<1> HIDE DEF more
<1>3. 0 \in S
  <2> DEFINE f == [n \in 0 .. 0 |-> {body}]
  <2>1. f = rec(0, f)
    OBVIOUS
  <2> HIDE DEF f, rec
  <2> QED BY <2>1
<1>4. ASSUME NEW k \in Nat, k \in S PROVE k + 1 \in S
  <2>1. PICK f : f = rec(k, f)
    BY <1>4
  <2> DEFINE g == [n \in 0 .. k + 1 |-> IF n = k + 1 THEN more(f[k]) ELSE f[n]]
             h == rec(k + 1, g)
  <2>2. ASSUME NEW n \in 0 .. k + 1 PROVE g[n] = h[n]
    <3>1. h[n] = IF n = 0 THEN {body} ELSE more(g[n-1])
      OBVIOUS
    <3>2. CASE n = k + 1
      <4>1. n - 1 = k /\ n # 0 /\ k \in 0 .. k + 1 /\ k # k + 1
        BY <3>2
      <4>2. g[n-1] = f[k] /\ g[n] = more(f[k])
        BY <3>2, <4>1
      <4> HIDE DEF g, h
      <4> QED BY <3>1, <4>1, <4>2
    <3>3. CASE n # k + 1
      <4>1. n \in 0 .. k /\ (n # 0 => n - 1 \in 0 .. k /\ n - 1 \in 0 .. k + 1 /\ n - 1 # k + 1)
        BY <3>3
      <4>2. g[n] = f[n] /\ (n # 0 => g[n-1] = f[n-1])
        BY <3>3, <4>1
      <4>3. f[n] = IF n = 0 THEN {body} ELSE more(f[n-1])
        BY <2>1, <4>1
      <4> HIDE DEF g, h
      <4> QED BY <3>1, <4>2, <4>3
    <3> QED BY <3>2, <3>3
  <2>3. g = h
    <3>1. g = [n \in 0 .. k + 1 |-> g[n]] /\ h = [n \in 0 .. k + 1 |-> h[n]]
      OBVIOUS
    <3> HIDE DEF g, h
    <3> QED BY <2>2, <3>1
  <2> HIDE DEF g, rec
  <2> QED BY <2>3
<1>5. Depth \in S
  <2> HIDE DEF S
  <2>1. Nat \subseteq S
    BY <1>3, <1>4, Induction
  <2> QED BY <2>1, DepthAssumption
<1>6. nested = rec(Depth, nested)
  <2>1. \E f : f = rec(Depth, f)
    BY <1>5
  <2> HIDE DEF rec
  <2> QED BY <2>1, Zenon
<1> HIDE DEF nested
<1>7. nested[0] = {body} /\ \A n \in 1 .. Depth : nested[n] = more(nested[n-1])
  <2>1. 0 \in 0 .. Depth /\ \A n \in 1 .. Depth : n \in 0 .. Depth /\ n # 0
    BY DepthAssumption
  <2> QED BY <1>6, <2>1
<1> DEFINE T == {k \in Nat : k <= Depth => body \in nested[k]}
<1>8. 0 \in T
  BY <1>7
<1>9. ASSUME NEW k \in Nat, k \in T PROVE k + 1 \in T
  <2> SUFFICES ASSUME k + 1 <= Depth PROVE body \in nested[k + 1]
    OBVIOUS
  <2>1. k <= Depth /\ k + 1 \in 1 .. Depth /\ (k + 1) - 1 = k
    BY DepthAssumption
  <2> QED BY <1>2, <1>7, <1>9, <2>1
<1>10. Depth \in T
  <2> HIDE DEF T
  <2>1. Nat \subseteq T
    BY <1>8, <1>9, Induction
  <2> QED BY <2>1, DepthAssumption
<1> QED BY <1>1, <1>10, DepthAssumption

(* At first there is an entry without code.                                 *)
LEMMA CodeStarts ==
    ASSUME Init
    PROVE  Plain(cfg) /\ Written
<1>1. PICK p \in Programs : program = EnsureReturn(p)
  BY DEF Init, InitBuilder
<1> DEFINE B == Blocks(p.body) \cup {<<>>}
           added == Statement("Return", <<"", 0>>, <<>>, <<>>, <<>>)
<1>2. /\ DOMAIN p = {"constructor", "params", "body"}
      /\ IsList(p.params) /\ IsInjective(p.params)
      /\ \A block \in Blocks(p.body) :
            /\ IsList(block)
            /\ \A s \in ToSet(block) : IsList(s.expr) /\ {s.block, s.otherwise} \subseteq Blocks(p.body)
  BY ProgramsAssumption
<1>3. Fit(<<>>, B) /\ \A q \in Blocks(p.body) : Fit(q, B)
  BY <1>2, EmptyList DEF Fit
<1>4. Fit(p.body, B)
  BY <1>3, BodyIsBlock
<1>5. Fit(Append(p.body, added), B)
  <2>1. IsList(added.expr) /\ added.block \in B /\ added.otherwise \in B
    BY EmptyList DEF Statement
  <2> HIDE DEF added, B
  <2>2. IsList(p.body)
    BY <1>4 DEF Fit
  <2> DEFINE r == Append(p.body, added)
             n == Len(p.body)
  <2>3. /\ IsList(r) /\ Len(r) = n + 1 /\ r[n + 1] = added /\ \A i \in 1 .. n : r[i] = p.body[i]
        /\ n \in Nat /\ DOMAIN p.body = 1 .. n
    BY <2>2, AppendList, ListBasics
  <2>4. DOMAIN r = 1 .. n + 1
    BY <2>3, ListBasics
  <2> HIDE DEF r, n
  <2>5. \A i : i \in 1 .. n + 1 <=> i \in 1 .. n \/ i = n + 1
    BY <2>3
  <2>6. \A s \in ToSet(r) : s \in ToSet(p.body) \/ s = added
    BY <2>3, <2>4, <2>5 DEF ToSet
  <2>7. Fit(r, B)
    BY <1>4, <2>1, <2>3, <2>6 DEF Fit
  <2> QED BY <2>7 DEF r
<1>6. program.params = p.params /\ program.body \in {p.body, Append(p.body, added)}
  <2>1. program = p \/ program = [p EXCEPT !.body = Append(p.body, added)]
    BY <1>1 DEF EnsureReturn
  <2> HIDE DEF added
  <2> QED BY <1>2, <2>1
<1> HIDE DEF B, added
<1> DEFINE params == [i \in DOMAIN program.params |-> Reg(program.params[i], 0)]
<1>7. cfg = NewCfg(params) /\ frames = <<Frame("body", program.body, NoBlocks, <<>>)>>
  BY DEF Init, InitBuilder, InitPass
<1>8. ParamList(params)
  <2> DEFINE n == Len(p.params)
             f == [i \in 1 .. n |-> Reg(p.params[i], 0)]
  <2>1. n \in Nat /\ DOMAIN p.params = 1 .. n
    BY <1>2, ListBasics
  <2> HIDE DEF n
  <2>2. params = f
    BY <1>6, <2>1
  <2>3. /\ DOMAIN f = 1 .. n /\ \A i \in 1 .. n : f[i] = Reg(p.params[i], 0)
        /\ f = [i \in 1 .. n |-> f[i]]
    OBVIOUS
  <2> HIDE DEF f
  <2>4. IsList(f)
    BY <2>1, <2>3, ListByIndex
  <2>5. \A i, j \in 1 .. n : f[i] = f[j] => i = j
    <3>1. \A i, j \in 1 .. n : f[i] = f[j] => p.params[i] = p.params[j]
      BY <2>3, RegFacts
    <3> QED BY <1>2, <2>1, <3>1 DEF IsInjective
  <2>6. ParamList(f)
    BY <2>3, <2>4, <2>5 DEF ParamList
  <2> QED BY <2>2, <2>6
<1> HIDE DEF params
<1>9. Plain(cfg)
  BY <1>7, <1>8, NewCfgPlain
<1>10. Written
  <2>1. PICK f : f = Frame("body", program.body, NoBlocks, <<>>)
    OBVIOUS
  <2>2. FrameOf(f, B)
    BY <1>3, <1>4, <1>5, <1>6, <2>1 DEF Frame, FrameOf
  <2>3. frames = <<f>> \o <<>>
    <3>1. <<f>> \o <<>> = <<f>>
      OBVIOUS
    <3> QED BY <1>7, <2>1, <3>1
  <2>4. FramesFit(<<>>, B)
    BY EmptyList DEF FramesFit
  <2>5. FramesFit(frames, B)
    BY <2>2, <2>3, <2>4, FramesPush
  <2>6. \A q \in B : Fit(q, B)
    BY <1>3 DEF B
  <2> QED BY <2>5, <2>6 DEF Written
<1> QED BY <1>9, <1>10

(* A phi more in front of some blocks.                                      *)
LEMMA PhisPlain ==
    ASSUME Plain(cfg), PlacePhis
    PROVE  Plain(cfg')
<1>1. PICK x \in symbols :
         cfg' = [cfg EXCEPT !.code =
                   [b \in cfg.blocks |->
                      (IF b \in PhiBlocks(x) THEN <<Phi(Reg(x, 0))>> ELSE <<>>) \o cfg.code[b]]]
  BY DEF PlacePhis
<1>2. PICK phi : phi = Phi(Reg(x, 0))
  OBVIOUS
<1> DEFINE code == [b \in cfg.blocks |-> (IF b \in PhiBlocks(x) THEN <<phi>> ELSE <<>>) \o cfg.code[b]]
<1>3. Emitted(<<>>) /\ Emitted(<<phi>>)
  <2>1. Instruction(phi) /\ phi.sources = <<>>
    BY <1>2, InstrFacts
  <2>2. <<phi>> = Append(<<>>, phi)
    OBVIOUS
  <2> QED BY <2>1, <2>2, EmptyList, EmittedAppend
<1>4. ASSUME NEW b \in cfg.blocks PROVE Emitted(code[b])
  <2>1. Emitted(cfg.code[b])
    BY DEF Plain, Coded, Unfilled, Emitted
  <2>2. ASSUME NEW q, Emitted(q) PROVE Emitted(q \o cfg.code[b])
    <3>1. IsList(q) /\ IsList(cfg.code[b])
      BY <2>1, <2>2 DEF Emitted
    <3> QED BY <2>1, <2>2, <3>1, EmittedJoin
  <2>3. code[b] = <<phi>> \o cfg.code[b] \/ code[b] = <<>> \o cfg.code[b]
    OBVIOUS
  <2> HIDE DEF code
  <2> QED BY <1>3, <2>2, <2>3
<1>5. cfg' = [cfg EXCEPT !.code = code] /\ DOMAIN code = cfg.blocks
  BY <1>1, <1>2
<1> HIDE DEF code
<1>6. DOMAIN cfg = {"entry", "blocks", "params", "succ", "pred", "code", "term"}
  BY DEF Plain, Coded
<1>7. /\ DOMAIN cfg' = DOMAIN cfg /\ cfg'.blocks = cfg.blocks /\ cfg'.params = cfg.params
      /\ cfg'.term = cfg.term /\ cfg'.code = code
  BY <1>5, <1>6
<1> QED BY <1>4, <1>5, <1>6, <1>7 DEF Plain, Coded, Unfilled, Emitted

-----------------------------------------------------------------------------
(* What renaming starts from, what it keeps, and what it leaves behind.     *)
Prepared ==
    /\ Plain(cfg)
    /\ counters = <<>> /\ stacks = <<>> /\ renaming = <<>> /\ undefined = FALSE
RenamingInv ==
    /\ phase \in {"build", "order", "dominance", "loops", "phis", "place"} => Prepared
    /\ phase = "build" => Written
    /\ phase = "rename" /\ ~ undefined => Walk
    /\ SsaHolds

(* Each step of SsaBuilder keeps the code in order.                         *)
LEMMA BuilderWrites ==
    ASSUME RenamingInv, NextBuilder, UNCHANGED renamer
    PROVE  RenamingInv'
<1>1. phase = "build" /\ phase' \in {"build", "order"}
  BY DEF NextBuilder, TransformExpressionStatement, TransformAssignment, TransformReturn,
         TransformIf, EndThen, EndIf, TransformWhile, EndWhile, FinishBuild, Reading, BlockEnds, Straight
<1>2. Plain(cfg') /\ Written'
  BY <1>1, StraightWrites, BranchWrites, EndWrites DEF RenamingInv, Prepared, NextBuilder
<1>3. Prepared'
  BY <1>1, <1>2 DEF RenamingInv, Prepared, renamer, Plain, Coded, Unfilled
<1> QED BY <1>1, <1>2, <1>3 DEF RenamingInv, SsaHolds

(* The analysis changes no code.                                            *)
LEMMA AnalysisKeepsCode ==
    ASSUME RenamingInv, NextDominance, UNCHANGED renamer
    PROVE  RenamingInv'
<1>1. /\ phase \in {"order", "dominance", "loops"} /\ phase' \in {"order", "dominance", "loops", "phis"}
      /\ cfg' = cfg
  BY DEF NextDominance, StartSearch, VisitSuccessor, LeaveBlock, StartDominance, ComputeIdom, NextRound,
         FinishDominance, BuildLoopForest
<1>2. Prepared'
  BY <1>1 DEF RenamingInv, Prepared, renamer, Plain, Coded, Unfilled
<1> QED BY <1>1, <1>2 DEF RenamingInv, SsaHolds

(* Renaming is a walk, and leaves the function in SSA form.                 *)
LEMMA RenamingWalks ==
    ASSUME RenamingInv, AnalysisInv, NextRenaming
    PROVE  RenamingInv'
<1>1. CASE CollectDefSites \/ PlacePhis
  <2>1. /\ phase \in {"phis", "place"} /\ phase' = "place"
        /\ counters' = counters /\ stacks' = stacks /\ renaming' = renaming /\ undefined' = undefined
    BY <1>1 DEF CollectDefSites, PlacePhis
  <2>2. Prepared
    BY <2>1 DEF RenamingInv
  <2>3. CASE CollectDefSites
    <3>1. cfg' = cfg
      BY <2>3 DEF CollectDefSites
    <3>2. Prepared'
      BY <2>1, <2>2, <3>1 DEF Prepared, Plain, Coded, Unfilled
    <3> QED BY <2>1, <3>2 DEF RenamingInv, SsaHolds
  <2>4. CASE PlacePhis
    <3>1. Plain(cfg')
      BY <2>2, <2>4, PhisPlain DEF Prepared
    <3>2. Prepared'
      BY <2>1, <2>2, <3>1 DEF Prepared, Plain, Coded, Unfilled
    <3> QED BY <2>1, <3>2 DEF RenamingInv, SsaHolds
  <2> QED BY <1>1, <2>3, <2>4
<1>2. CASE RenameEntry
  <2>1. phase = "place" /\ phase' = "rename"
    BY <1>2 DEF RenameEntry
  <2>2. Prepared /\ Analysed
    BY <2>1 DEF RenamingInv, AnalysisInv, Analysed
  <2>3. ~ undefined' => Walk'
    BY <1>2, <2>2, WalkStarts DEF Prepared, Plain
  <2> QED BY <2>1, <2>3 DEF RenamingInv, SsaHolds
<1>3. CASE RenameChild
  <2>1. phase = "rename" /\ phase' = "rename" /\ ~ undefined
    BY <1>3 DEF RenameChild
  <2>2. Walk /\ Analysed
    BY <2>1 DEF RenamingInv, AnalysisInv, Analysed
  <2>3. ~ undefined' => Walk'
    BY <1>3, <2>2, WalkGoesOn
  <2> QED BY <2>1, <2>3 DEF RenamingInv, SsaHolds
<1>4. CASE LeaveRenamed
  <2>1. /\ phase = "rename" /\ ~ undefined /\ undefined' = undefined /\ cfg' = cfg
        /\ phase' = IF Tail(renaming) = <<>> THEN "renamed" ELSE "rename"
    BY <1>4 DEF LeaveRenamed
  <2>2. Walk /\ Analysed
    BY <2>1 DEF RenamingInv, AnalysisInv, Analysed
  <2>3. IF Tail(renaming) = <<>> THEN InSsaForm ELSE Walk'
    BY <1>4, <2>2, WalkLeaves
  <2>4. CASE Tail(renaming) = <<>>
    <3>1. InSsaForm'
      BY <2>1, <2>3, <2>4, SameSsaForm
    <3> QED BY <2>1, <2>4, <3>1 DEF RenamingInv, SsaHolds
  <2>5. CASE Tail(renaming) # <<>>
    BY <2>1, <2>3, <2>5 DEF RenamingInv, SsaHolds
  <2> QED BY <2>4, <2>5
<1> QED BY <1>1, <1>2, <1>3, <1>4 DEF NextRenaming

(* The invariant is one of the state.                                       *)
LEMMA RenamingStutters ==
    ASSUME RenamingInv, UNCHANGED vars
    PROVE  RenamingInv'
<1>1. /\ phase' = phase /\ cfg' = cfg /\ frames' = frames /\ idom' = idom
      /\ counters' = counters /\ stacks' = stacks /\ renaming' = renaming /\ undefined' = undefined
  BY DEF vars, builder, dominance, renamer, fixpoint
<1>2. Prepared => Prepared'
  BY <1>1 DEF Prepared, Plain, Coded, Unfilled
<1>3. Written => Written'
  BY <1>1 DEF Written
<1>4. Walk => Walk'
  BY <1>1, SameWalk
<1>5. SsaHolds => SsaHolds'
  BY <1>1, SameSsaForm DEF SsaHolds
<1> QED BY <1>1, <1>2, <1>3, <1>4, <1>5 DEF RenamingInv

(* What renaming counts on holds of every function.                         *)
LEMMA RenamingInvariant == Spec => []RenamingInv
<1>1. Init => RenamingInv
  <2> SUFFICES ASSUME Init PROVE RenamingInv
    OBVIOUS
  <2>1. phase = "build" /\ counters = <<>> /\ stacks = <<>> /\ renaming = <<>> /\ undefined = FALSE
    BY DEF Init, InitBuilder, InitPass, InitRenaming
  <2> QED BY <2>1, CodeStarts DEF RenamingInv, Prepared, SsaHolds
<1>2. RenamingInv /\ AnalysisInv /\ [Next]_vars => RenamingInv'
  <2> SUFFICES ASSUME RenamingInv, AnalysisInv, [Next]_vars PROVE RenamingInv'
    OBVIOUS
  <2>1. CASE NextBuilder /\ UNCHANGED <<dominance, renamer, lowering>>
    BY <2>1, BuilderWrites
  <2>2. CASE Analyse
    BY <2>2, AnalysisKeepsCode DEF Analyse
  <2>3. CASE NextRenaming /\ UNCHANGED <<program, builder, lowering>>
    BY <2>3, RenamingWalks
  <2>4. CASE EliminatePhiNodes \/ LowerRegisters \/ LowerFunction \/ Optimize
    <3>1. phase' \in {"eliminated", "allocated", "lowered", "refused", "optimized"}
      BY <2>4 DEF EliminatePhiNodes, LowerRegisters, LowerFunction, Optimize
    <3> QED BY <3>1 DEF RenamingInv, SsaHolds
  <2>5. CASE UNCHANGED vars
    BY <2>5, RenamingStutters
  <2> QED BY <2>1, <2>2, <2>3, <2>4, <2>5 DEF Next
<1> QED BY <1>1, <1>2, AnalysisInvariant, PTL DEF Spec

(* Every function is in SSA form once renamed: a register has one           *)
(* definition, a use is below it on every path from the entry, and a source *)
(* of a phi is defined at the end of its predecessor                       *)
(* (recursive_rename_blocks, ssa_ir.rs:1148).                              *)
THEOREM SsaHoldsInvariant == Spec => []SsaHolds
<1>1. RenamingInv => SsaHolds
  BY DEF RenamingInv
<1> QED BY <1>1, RenamingInvariant, PTL

-----------------------------------------------------------------------------
(* What a block reads and defines as it grows.                              *)
LEMMA DefinedParts ==
    /\ Defined(<<>>) = {}
    /\ \A q, r : IsList(q) /\ IsList(r) => Defined(q \o r) = Defined(q) \cup Defined(r)
    /\ \A q, x : IsList(q) => Defined(Append(q, x)) = Defined(q) \cup SymsOf(x.dest)
<1>1. Defined(<<>>) = {}
  BY EmptyList DEF Defined
<1>2. \A q, x : x \in Defined(q) <=> \E inst \in ToSet(q) : x \in SymsOf(inst.dest)
  BY DEF Defined, SymsOf
<1>3. ASSUME NEW q, NEW r, IsList(q), IsList(r) PROVE Defined(q \o r) = Defined(q) \cup Defined(r)
  <2>1. ToSet(q \o r) = ToSet(q) \cup ToSet(r)
    BY <1>3, JoinLists
  <2> QED BY <1>2, <2>1
<1>4. ASSUME NEW q, NEW x, IsList(q) PROVE Defined(Append(q, x)) = Defined(q) \cup SymsOf(x.dest)
  <2>1. IsList(Append(q, x)) /\ Len(Append(q, x)) = Len(q) + 1 /\ Len(q) \in Nat
    BY <1>4, AppendList, ListBasics
  <2>2. Defined(q) = DefinedBy(q, Len(q)) /\ Defined(Append(q, x)) = DefinedBy(Append(q, x), Len(q) + 1)
    BY <1>4, <2>1, DefinedFacts
  <2>3. \A i \in 1 .. Len(q) : Append(q, x)[i] = q[i]
    BY <1>4, AppendList
  <2>4. Append(q, x)[Len(q) + 1] = x
    BY <1>4, AppendList
  <2>5. DefinedBy(Append(q, x), Len(q)) = DefinedBy(q, Len(q))
    BY <2>3, SameDefinedBy
  <2> QED BY <2>1, <2>2, <2>4, <2>5, DefinedByStep
<1> QED BY <1>1, <1>3, <1>4

(* An instruction more that reads no name but those there are.              *)
LEMMA CoveredAppend ==
    ASSUME NEW q, IsList(q), NEW S, Covered(q, S), NEW x, Syms(x.args) \subseteq S \cup Defined(q)
    PROVE  Covered(Append(q, x), S)
<1> DEFINE r == Append(q, x)
<1>1. /\ IsList(r) /\ Len(r) = Len(q) + 1 /\ Len(q) \in Nat
      /\ \A i \in 1 .. Len(q) : r[i] = q[i]
      /\ r[Len(q) + 1] = x
  BY AppendList, ListBasics
<1>2. DOMAIN r = 1 .. Len(q) + 1 /\ DOMAIN q = 1 .. Len(q)
  BY <1>1, ListBasics
<1> HIDE DEF r
<1>3. \A i \in DOMAIN r : DefinedBy(r, i - 1) = DefinedBy(q, i - 1)
  <2> SUFFICES ASSUME NEW i \in DOMAIN r PROVE \A j \in 1 .. i - 1 : SymsOf(r[j].dest) = SymsOf(q[j].dest)
    BY SameDefinedBy
  <2> QED BY <1>1, <1>2
<1>4. ASSUME NEW i \in DOMAIN r PROVE Syms(r[i].args) \subseteq S \cup DefinedBy(r, i - 1)
  <2>1. CASE i \in DOMAIN q
    BY <1>1, <1>2, <1>3, <2>1 DEF Covered
  <2>2. CASE i = Len(q) + 1
    <3>1. DefinedBy(r, i - 1) = Defined(q)
      BY <1>1, <1>3, <2>2, DefinedFacts
    <3> QED BY <1>1, <2>2, <3>1
  <2> QED BY <1>1, <1>2, <2>1, <2>2
<1> QED BY <1>4 DEF Covered, r

(* Two lists, the second counting on what the first defines.                *)
LEMMA CoveredJoin ==
    ASSUME NEW q, IsList(q), NEW r, IsList(r), NEW S, Covered(q, S),
           NEW T, Covered(r, T), T \subseteq S \cup Defined(q)
    PROVE  Covered(q \o r, S)
<1> DEFINE s == q \o r
<1>1. /\ IsList(s) /\ Len(s) = Len(q) + Len(r) /\ Len(q) \in Nat /\ Len(r) \in Nat
      /\ \A i \in 1 .. Len(q) : s[i] = q[i]
      /\ \A i \in 1 .. Len(r) : s[Len(q) + i] = r[i]
  BY JoinLists, ListBasics
<1>2. DOMAIN s = 1 .. Len(q) + Len(r) /\ DOMAIN q = 1 .. Len(q) /\ DOMAIN r = 1 .. Len(r)
  BY <1>1, ListBasics
<1> HIDE DEF s
<1>3. \A p, n, x : x \in DefinedBy(p, n) <=> \E j \in 1 .. n : x \in SymsOf(p[j].dest)
  BY DEF DefinedBy, SymsOf
<1>4. ASSUME NEW i \in DOMAIN s PROVE Syms(s[i].args) \subseteq S \cup DefinedBy(s, i - 1)
  <2>1. CASE i \in DOMAIN q
    <3>1. DefinedBy(s, i - 1) = DefinedBy(q, i - 1)
      <4>1. \A j \in 1 .. i - 1 : SymsOf(s[j].dest) = SymsOf(q[j].dest)
        BY <1>1, <1>2, <2>1
      <4> QED BY <4>1, SameDefinedBy
    <3> QED BY <1>1, <1>2, <2>1, <3>1 DEF Covered
  <2>2. ASSUME NEW k \in DOMAIN r, i = Len(q) + k PROVE Syms(s[i].args) \subseteq S \cup DefinedBy(s, i - 1)
    <3>1. Syms(s[i].args) \subseteq T \cup DefinedBy(r, k - 1)
      BY <1>1, <1>2, <2>2 DEF Covered
    <3>2. ASSUME NEW x \in DefinedBy(r, k - 1) PROVE x \in DefinedBy(s, i - 1)
      <4>1. PICK j \in 1 .. k - 1 : x \in SymsOf(r[j].dest)
        BY <1>3
      <4>2. Len(q) + j \in 1 .. i - 1 /\ s[Len(q) + j] = r[j]
        BY <1>1, <1>2, <2>2
      <4> QED BY <1>3, <4>1, <4>2
    <3>3. ASSUME NEW x \in Defined(q) PROVE x \in DefinedBy(s, i - 1)
      <4>1. PICK j \in DOMAIN q : x \in SymsOf(q[j].dest)
        BY DefinedFacts
      <4>2. j \in 1 .. i - 1 /\ s[j] = q[j]
        BY <1>1, <1>2, <2>2
      <4> QED BY <1>3, <4>1, <4>2
    <3> QED BY <3>1, <3>2, <3>3
  <2>3. i \in DOMAIN q \/ \E k \in DOMAIN r : i = Len(q) + k
    <3>1. i \notin DOMAIN q => i - Len(q) \in DOMAIN r /\ i = Len(q) + (i - Len(q))
      BY <1>1, <1>2
    <3> QED BY <3>1
  <2> QED BY <2>1, <2>2, <2>3
<1> QED BY <1>4 DEF Covered, s

(* More names do no harm.                                                   *)
LEMMA CoveredMore ==
    ASSUME NEW q, NEW S, NEW T, Covered(q, S), S \subseteq T
    PROVE  Covered(q, T)
BY DEF Covered

-----------------------------------------------------------------------------
(* The names in scope at the start of each block: a block reads those and   *)
(* what it has defined, and passes on no others.                            *)
ScopedBy(g, sc) ==
    /\ sc[g.entry] \subseteq SymsOf(ToSet(g.params))
    /\ \A b \in g.blocks :
          /\ Covered(g.code[b], sc[b])
          /\ Syms(g.term[b].args) \subseteq sc[b] \cup Defined(g.code[b])
          /\ \A c \in Successors(g, b) : sc[c] \subseteq sc[b] \cup Defined(g.code[b])
PhiFree(q) == \A inst \in ToSet(q) : inst.op # "Phi"
NoPhis(g) == \A b \in g.blocks : PhiFree(g.code[b])
FrontierEnds ==
    \A b \in cfg.blocks : frontier[b] =
       {n \in cfg.blocks : /\ \E p \in Predecessors(cfg, n) : b \in Dominators(p)
                           /\ b \notin Dominators(n) \ {n}}

(* Phis come first in their block, and read nothing while they are placed.  *)
Leads(q, x) == \E i \in DOMAIN q : x \in SymsOf(q[i].dest) /\ \A j \in 1 .. i : q[j].args = <<>>
Placed(x) ==
    \A d \in cfg.blocks : x \in Defined(cfg.code[d]) \/ (d = cfg.entry /\ x \in ParamSymbols)
                             => \A b \in frontier[d] : Leads(cfg.code[b], x)

(* A block headed by instructions that read nothing, one of which defines   *)
(* x, need not be handed x.                                                 *)
LEMMA LeadsFacts ==
    ASSUME NEW q, IsList(q)
    PROVE  \A x : Leads(q, x) =>
             /\ x \in Defined(q)
             /\ \A S : Covered(q, S \cup {x}) => Covered(q, S)
             /\ \A p : p.args = <<>> => Leads(<<p>> \o q, x)
<1> SUFFICES ASSUME NEW x, Leads(q, x)
             PROVE  /\ x \in Defined(q)
                    /\ \A S : Covered(q, S \cup {x}) => Covered(q, S)
                    /\ \A p : p.args = <<>> => Leads(<<p>> \o q, x)
  OBVIOUS
<1>1. PICK i \in DOMAIN q : x \in SymsOf(q[i].dest) /\ \A j \in 1 .. i : q[j].args = <<>>
  BY DEF Leads
<1>2. DOMAIN q = 1 .. Len(q) /\ Len(q) \in Nat
  BY ListBasics
<1>3. x \in Defined(q)
  BY <1>1, DefinedFacts
<1>4. Syms(<<>>) = {}
  BY DEF Syms, SymsOf, RegsOf
<1>5. ASSUME NEW S, Covered(q, S \cup {x}) PROVE Covered(q, S)
  <2> SUFFICES ASSUME NEW k \in DOMAIN q PROVE Syms(q[k].args) \subseteq S \cup DefinedBy(q, k - 1)
    BY DEF Covered
  <2>1. CASE k \in 1 .. i
    BY <1>1, <1>4, <2>1
  <2>2. CASE k \notin 1 .. i
    <3>1. i \in 1 .. k - 1
      BY <1>2, <2>2
    <3>2. x \in DefinedBy(q, k - 1)
      BY <1>1, <3>1 DEF DefinedBy, SymsOf
    <3> QED BY <1>5, <3>2 DEF Covered
  <2> QED BY <2>1, <2>2
<1>6. ASSUME NEW p, p.args = <<>> PROVE Leads(<<p>> \o q, x)
  <2> DEFINE r == <<p>> \o q
  <2>1. IsList(r) /\ Len(r) = Len(q) + 1 /\ r[1] = p /\ \A j \in 1 .. Len(q) : r[j + 1] = q[j]
    BY PushFrame
  <2>2. DOMAIN r = 1 .. Len(q) + 1
    BY <2>1, ListBasics
  <2> HIDE DEF r
  <2>3. i + 1 \in DOMAIN r /\ r[i + 1] = q[i]
    BY <1>2, <2>1, <2>2
  <2>4. ASSUME NEW j \in 1 .. i + 1 PROVE r[j].args = <<>>
    <3>1. CASE j = 1
      BY <1>6, <2>1, <3>1
    <3>2. CASE j # 1
      <4>1. j - 1 \in 1 .. i /\ j - 1 \in 1 .. Len(q) /\ (j - 1) + 1 = j
        BY <1>2, <3>2
      <4> QED BY <1>1, <2>1, <4>1
    <3> QED BY <3>1, <3>2
  <2>5. Leads(r, x)
    BY <1>1, <2>3, <2>4 DEF Leads
  <2> QED BY <2>5 DEF r
<1> QED BY <1>3, <1>5, <1>6

(* With the phis in place the names in scope are defined above the block,   *)
(* or by a phi at its start.                                                *)
LEMMA ScopeIsDefined ==
    ASSUME Analysed, Coded(cfg), FrontierEnds, \A x : Placed(x), NEW sc, ScopedBy(cfg, sc),
           NEW b \in cfg.blocks
    PROVE  \A x \in sc[b] : x \in AtEntry(b) \/ Leads(cfg.code[b], x)
<1> DEFINE G == {c \in cfg.blocks : \A x \in sc[c] : x \in AtEntry(c) \/ Leads(cfg.code[c], x)}
<1>1. WellFormed(cfg) /\ cfg.entry \in cfg.blocks /\ cfg.blocks \subseteq {cfg.entry} \cup ReachableFrom(cfg, cfg.entry)
  BY DEF Analysed, Ready, WellFormed
<1>2. cfg.entry \in G
  <2>1. sc[cfg.entry] \subseteq ParamSymbols
    BY DEF ScopedBy, ParamSymbols, SymsOf
  <2> QED BY <1>1, <2>1 DEF AtEntry
<1>3. ASSUME NEW p \in G, NEW c \in Successors(cfg, p) PROVE c \in G
  <2>1. p \in cfg.blocks /\ c \in cfg.blocks /\ p \in Predecessors(cfg, c)
    BY <1>1, <1>3 DEF WellFormed
  <2>2. sc[c] \subseteq sc[p] \cup Defined(cfg.code[p])
    BY <1>3, <2>1 DEF ScopedBy
  <2>3. IsList(cfg.code[p])
    BY <2>1 DEF Coded
  <2>4. ASSUME NEW x \in sc[c] PROVE x \in AtEntry(c) \/ Leads(cfg.code[c], x)
    <3>1. x \in AtEntry(p) \/ x \in Defined(cfg.code[p])
      BY <2>2, <2>3, LeadsFacts
    <3>2. p \in Dominators(p) /\ Dominators(p) \subseteq cfg.blocks
      BY <2>1, DominatorsClimb
    <3>3. x \in ParamSymbols \/ \E d \in Dominators(p) : x \in Defined(cfg.code[d])
      BY <3>1, <3>2 DEF AtEntry
    <3>4. CASE x \in ParamSymbols
      BY <3>4 DEF AtEntry
    <3>5. ASSUME NEW d \in Dominators(p), x \in Defined(cfg.code[d])
          PROVE  x \in AtEntry(c) \/ Leads(cfg.code[c], x)
      <4>1. CASE d \in Dominators(c) \ {c}
        BY <3>5, <4>1 DEF AtEntry
      <4>2. CASE d \notin Dominators(c) \ {c}
        <5>1. d \in cfg.blocks
          BY <3>2
        <5>2. c \in frontier[d]
          BY <2>1, <4>2, <5>1 DEF FrontierEnds
        <5> QED BY <3>5, <5>1, <5>2 DEF Placed
      <4> QED BY <4>1, <4>2
    <3> QED BY <3>3, <3>4, <3>5
  <2> QED BY <2>1, <2>4
<1>4. ReachableFrom(cfg, cfg.entry) \subseteq G
  <2> HIDE DEF G
  <2>1. \A y \in (G \cap cfg.blocks) \cup {cfg.entry} : Successors(cfg, y) \subseteq G
    BY <1>2, <1>3
  <2> QED BY <1>1, <2>1, ReachableFacts
<1> QED BY <1>1, <1>2, <1>4

(* Names in scope have a definition in the blocks that dominate: where two  *)
(* paths meet with a definition on either, the frontier has put a phi.      *)
LEMMA ScopedIsSupplied ==
    ASSUME Analysed, Coded(cfg), FrontierEnds, \A x : Placed(x), NEW sc, ScopedBy(cfg, sc)
    PROVE  Supplied
<1> SUFFICES ASSUME NEW b \in cfg.blocks
             PROVE  /\ Covered(cfg.code[b], AtEntry(b))
                    /\ Syms(cfg.term[b].args) \subseteq AtEntry(b) \cup Defined(cfg.code[b])
  BY DEF Supplied
<1>1. \A x \in sc[b] : x \in AtEntry(b) \/ Leads(cfg.code[b], x)
  BY ScopeIsDefined
<1>2. IsList(cfg.code[b])
  BY DEF Coded
<1>3. Covered(cfg.code[b], sc[b]) /\ Syms(cfg.term[b].args) \subseteq sc[b] \cup Defined(cfg.code[b])
  BY DEF ScopedBy
<1>4. Covered(cfg.code[b], AtEntry(b))
  <2> DEFINE q == cfg.code[b]
  <2>1. \A x : Leads(q, x) => /\ x \in Defined(q)
                              /\ \A S : Covered(q, S \cup {x}) => Covered(q, S)
    BY <1>2, LeadsFacts
  <2> SUFFICES ASSUME NEW k \in DOMAIN q, NEW x \in Syms(q[k].args)
               PROVE  x \in AtEntry(b) \cup DefinedBy(q, k - 1)
    BY DEF Covered
  <2>2. x \in sc[b] \cup DefinedBy(q, k - 1)
    BY <1>3 DEF Covered
  <2>3. ASSUME Leads(q, x) PROVE x \in DefinedBy(q, k - 1)
    <3>1. Covered(q, sc[b] \ {x})
      <4>1. Covered(q, (sc[b] \ {x}) \cup {x})
        BY <1>3, CoveredMore
      <4> QED BY <2>1, <2>3, <4>1
    <3> QED BY <3>1 DEF Covered
  <2> QED BY <1>1, <2>2, <2>3
<1>5. \A x \in sc[b] : x \in AtEntry(b) \cup Defined(cfg.code[b])
  BY <1>1, <1>2, LeadsFacts
<1> QED BY <1>3, <1>4, <1>5

(* The blocks with a phi are closed: a definition of the symbol, phi or not, *)
(* puts its whole frontier among them.                                      *)
LEMMA PhisAreClosed ==
    ASSUME Graph(cfg), FrontierEnds, NEW x
    PROVE  /\ PhiBlocks(x) \subseteq cfg.blocks
           /\ \A b \in DefSites(x) \cup PhiBlocks(x) : frontier[b] \subseteq PhiBlocks(x)
           /\ \A n \in PhiBlocks(x) : \E b \in DefSites(x) \cup PhiBlocks(x) : n \in frontier[b]
<1> DEFINE V == SUBSET cfg.blocks
           m == Cardinality(cfg.blocks)
           sites == DefSites(x)
           step == [B \in V |-> B \cup UNION {frontier[b] : b \in sites \cup B}]
           rec(h) == [n \in 0 .. m |-> IF n = 0 THEN {}
                         ELSE LET before == h[n-1]
                              IN  before \cup UNION {frontier[b] : b \in sites \cup before}]
<1>1. IsFiniteSet(cfg.blocks) /\ m \in Nat /\ cfg.entry \in cfg.blocks
  BY GraphFacts DEF Graph
<1>2. sites \subseteq cfg.blocks /\ \A b \in cfg.blocks : frontier[b] \subseteq cfg.blocks
  BY <1>1 DEF DefSites, FrontierEnds
<1> HIDE DEF sites, m
<1>3. step \in [V -> V] /\ {} \in V /\ \A X \in V : X \subseteq step[X]
  BY <1>2
<1>4. PICK e : Stepped(e, 0, m, V, {}, step)
  <2> HIDE DEF V, step
  <2> QED BY <1>1, <1>3, SteppedExists
<1>5. e = rec(e)
  <2>1. \A n \in 0 .. m : n # 0 => n - 1 \in 0 .. m
    BY <1>1
  <2>2. \A n \in 0 .. m : n # 0 => e[n-1] \in V
    BY <1>4, <2>1 DEF Stepped
  <2>3. \A n \in 0 .. m : n # 0 => step[e[n-1]] = e[n-1] \cup UNION {frontier[b] : b \in sites \cup e[n-1]}
    BY <2>2
  <2> HIDE DEF step, V
  <2> QED BY <1>4, <2>3 DEF Stepped
<1>6. PICK h : h = rec(h) /\ PhiBlocks(x) = h[m]
  <2>1. (CHOOSE h : h = rec(h)) = rec(CHOOSE h : h = rec(h))
    <3> HIDE DEF rec
    <3> QED BY <1>5, Zenon
  <2> QED BY <2>1 DEF PhiBlocks, m, sites
<1>7. Stepped(h, 0, m, V, {}, step)
  <2> DEFINE body == rec(h)
  <2>1. h = body
    BY <1>6
  <2>2. h = [n \in 0 .. m |-> h[n]]
    BY <2>1
  <2>3. h[0] = {}
    BY <2>1, <1>1
  <2>4. ASSUME NEW n \in 0 + 1 .. m, h[n-1] \in V PROVE h[n] = step[h[n-1]]
    <3>1. n \in 0 .. m /\ n # 0
      BY <1>1
    <3>2. h[n] = h[n-1] \cup UNION {frontier[b] : b \in sites \cup h[n-1]}
      BY <2>1, <3>1
    <3> QED BY <2>4, <3>2
  <2> HIDE DEF V, step, body
  <2> QED BY <2>2, <2>3, <2>4, <1>1, <1>3, SolutionStepped
<1>8. Growing(h, 0, m, cfg.blocks, {}, step)
  <2>1. Cardinality({}) = 0
    BY FS_EmptySet
  <2>2. Cardinality({}) + (m - 0) >= Cardinality(cfg.blocks)
    BY <1>1, <2>1 DEF m
  <2> HIDE DEF step
  <2> QED BY <1>1, <1>3, <1>7, <2>2 DEF Growing
<1>9. h[m] \in V /\ step[h[m]] = h[m]
  <2> HIDE DEF step
  <2> QED BY <1>8, Saturation
<1>10. \A b \in sites \cup h[m] : frontier[b] \subseteq h[m]
  BY <1>9
<1>11. PhiBlocks(x) = h[m]
  BY <1>6
<1>12. ASSUME NEW n \in h[m] PROVE \E b \in sites \cup h[m] : n \in frontier[b]
  <2> DEFINE C == {c \in h[m] : \E b \in sites \cup h[m] : c \in frontier[b]}
  <2>1. ASSUME NEW X \in SUBSET cfg.blocks, X \subseteq C PROVE step[X] \subseteq C
    <3>1. step[X] = X \cup UNION {frontier[b] : b \in sites \cup X}
      OBVIOUS
    <3>2. X \subseteq h[m]
      BY <2>1
    <3>3. UNION {frontier[b] : b \in sites \cup X} \subseteq C
      BY <1>10, <3>2
    <3> HIDE DEF C, step
    <3> QED BY <2>1, <3>1, <3>3
  <2>2. h[m] \subseteq C
    <3> HIDE DEF C, step
    <3>1. {} \subseteq C
      OBVIOUS
    <3> QED BY <1>8, <2>1, <3>1, GrowsInside
  <2> QED BY <2>2
<1> HIDE DEF rec, step
<1> QED BY <1>9, <1>10, <1>11, <1>12 DEF sites

(* One phi at the start of a block, or none.                                *)
LEMMA PhiAdded ==
    ASSUME NEW q, IsList(q), NEW x, NEW r, r = <<Phi(Reg(x, 0))>> \o q \/ r = <<>> \o q
    PROVE  /\ IsList(r)
           /\ Defined(q) \subseteq Defined(r) /\ Defined(r) \subseteq Defined(q) \cup {x}
           /\ r = <<>> \o q => Defined(r) = Defined(q)
           /\ r = <<Phi(Reg(x, 0))>> \o q => Leads(r, x)
           /\ \A S : Covered(q, S) => Covered(r, S)
           /\ \A y : Leads(q, y) => Leads(r, y)
           /\ \A inst \in ToSet(r) : inst \in ToSet(q) \/ (inst.op = "Phi" /\ SymsOf(inst.dest) = {x})
           /\ ToSet(q) \subseteq ToSet(r)
<1> DEFINE phi == Phi(Reg(x, 0))
<1>1. phi.args = <<>> /\ phi.op = "Phi" /\ SymsOf(phi.dest) = {x}
  <2>1. PICK r0 : r0 = Reg(x, 0)
    OBVIOUS
  <2>2. phi.args = <<>> /\ phi.op = "Phi" /\ phi.dest = {r0}
    BY <2>1 DEF Phi
  <2> HIDE DEF phi
  <2>3. SymsOf({r0}) = {x}
    BY <2>1, RegFacts DEF SymsOf
  <2> QED BY <2>2, <2>3
<1>2. IsList(<<>>) /\ IsList(<<phi>>) /\ Defined(<<>>) = {} /\ Defined(<<phi>>) = {x}
  <2>1. IsList(<<>>) /\ Defined(<<>>) = {}
    BY EmptyList, DefinedParts
  <2> HIDE DEF phi
  <2>2. ToSet(<<phi>>) = {phi} /\ <<phi>> \in Seq({phi})
    BY DEF ToSet
  <2>3. Defined(<<phi>>) = SymsOf(phi.dest)
    BY <2>2 DEF Defined, SymsOf
  <2> QED BY <1>1, <2>1, <2>2, <2>3 DEF IsList
<1>3. ToSet(<<phi>>) = {phi} /\ ToSet(<<>>) = {}
  BY DEF ToSet
<1>4. Covered(<<>>, {}) /\ Covered(<<phi>>, {})
  BY <1>1 DEF Covered, Syms, SymsOf, RegsOf
<1> HIDE DEF phi
<1>5. ASSUME NEW p, p \in {<<phi>>, <<>>}
      PROVE  /\ IsList(p \o q) /\ Defined(p \o q) = Defined(p) \cup Defined(q)
             /\ ToSet(p \o q) = ToSet(p) \cup ToSet(q)
             /\ \A S : Covered(q, S) => Covered(p \o q, S)
  <2>1. IsList(p) /\ Covered(p, {})
    BY <1>2, <1>4, <1>5
  <2>2. ASSUME NEW S, Covered(q, S) PROVE Covered(p \o q, S)
    <3>1. Covered(p, S)
      BY <2>1, CoveredMore
    <3> QED BY <2>1, <2>2, <3>1, CoveredJoin
  <2> QED BY <2>1, <2>2, JoinLists, DefinedParts
<1>6. CASE r = <<phi>> \o q
  <2>1. \A y : Leads(q, y) => Leads(r, y)
    BY <1>1, <1>6, LeadsFacts
  <2>2. Leads(r, x)
    <3>1. IsList(r) /\ Len(r) = Len(q) + 1 /\ r[1] = phi /\ Len(q) \in Nat
      BY <1>6, PushFrame, ListBasics
    <3>2. 1 \in DOMAIN r
      BY <3>1, ListBasics
    <3>3. \A j \in 1 .. 1 : j = 1
      OBVIOUS
    <3> QED BY <1>1, <3>1, <3>2, <3>3 DEF Leads
  <2>3. r = <<>> \o q => FALSE
    <3>1. Len(r) = Len(q) + 1 /\ Len(q) \in Nat
      BY <1>6, PushFrame, ListBasics
    <3>2. r = <<>> \o q => Len(r) = Len(<<>>) + Len(q)
      BY <1>2, JoinLists
    <3> QED BY <3>1, <3>2, EmptyList
  <2> QED BY <1>1, <1>2, <1>3, <1>5, <1>6, <2>1, <2>2, <2>3
<1>7. CASE r = <<>> \o q
  <2>1. r = q
    BY <1>7 DEF IsList
  <2>2. r # <<phi>> \o q
    <3>1. Len(<<phi>> \o q) = Len(q) + 1 /\ Len(q) \in Nat
      BY PushFrame, ListBasics
    <3> QED BY <2>1, <3>1
  <2> QED BY <2>1, <2>2 DEF phi
<1> QED BY <1>6, <1>7 DEF phi

(* A graph stays scoped if its blocks define more and read no more.         *)
LEMMA ScopedSame ==
    ASSUME NEW g, Coded(g), NEW h, NEW sc, ScopedBy(g, sc),
           h.entry = g.entry, h.params = g.params, h.blocks = g.blocks,
           \A b \in g.blocks : /\ Covered(h.code[b], sc[b]) /\ Defined(g.code[b]) \subseteq Defined(h.code[b])
                               /\ Syms(h.term[b].args) \subseteq sc[b] \cup Defined(h.code[b])
                               /\ Successors(h, b) = Successors(g, b)
    PROVE  ScopedBy(h, sc)
BY DEF ScopedBy

(* What is known while phis are placed.                                     *)
Placing ==
    /\ FrontierEnds /\ \E sc : ScopedBy(cfg, sc)
    /\ \A x : x \notin symbols => Placed(x)
    /\ \A b \in cfg.blocks : \A inst \in ToSet(cfg.code[b]) :
          inst.op = "Phi" => SymsOf(inst.dest) \cap symbols = {}
    /\ Grounded

(* The symbols to place phis for are those the blocks define.               *)
LEMMA PlacingStarts ==
    ASSUME FrontierEnds, NEW sc, ScopedBy(cfg, sc), NoPhis(cfg), CollectDefSites
    PROVE  Placing'
<1>1. cfg' = cfg /\ frontier' = frontier /\ symbols' = AllSymbols
  BY DEF CollectDefSites, dominance
<1>2. \A x : x \notin AllSymbols => Placed(x)
  BY DEF AllSymbols, Placed
<1>3. FrontierEnds'
  <2>1. \A d : Dominators(d)' = Dominators(d)
    BY <1>1, SameDominators
  <2> QED BY <1>1, <2>1 DEF FrontierEnds, Predecessors
<1>4. \A x : Placed(x) => Placed(x)'
  BY <1>1 DEF Placed, ParamSymbols
<1>5. \A b \in cfg.blocks : \A inst \in ToSet(cfg.code[b]) : inst.op # "Phi"
  BY DEF NoPhis, PhiFree
<1>6. Grounded'
  BY <1>1, <1>5 DEF Grounded, ToSet
<1> QED BY <1>1, <1>2, <1>3, <1>4, <1>5, <1>6 DEF Placing

(* Placing the phis of one symbol keeps the rest in order.                  *)
LEMMA PlacingGoesOn ==
    ASSUME Graph(cfg), Coded(cfg), Placing, PlacePhis
    PROVE  Placing'
<1>1. PICK x \in symbols :
         /\ cfg' = [cfg EXCEPT !.code =
                      [b \in cfg.blocks |->
                         (IF b \in PhiBlocks(x) THEN <<Phi(Reg(x, 0))>> ELSE <<>>) \o cfg.code[b]]]
         /\ symbols' = symbols \ {x}
  BY DEF PlacePhis
<1>2. PICK P : P = PhiBlocks(x)
  OBVIOUS
<1>3. frontier' = frontier
  BY DEF PlacePhis, dominance
<1>4. /\ cfg'.entry = cfg.entry /\ cfg'.blocks = cfg.blocks /\ cfg'.params = cfg.params /\ cfg'.succ = cfg.succ
      /\ cfg'.pred = cfg.pred /\ cfg'.term = cfg.term
      /\ \A b \in cfg.blocks :
            /\ b \in P => cfg'.code[b] = <<Phi(Reg(x, 0))>> \o cfg.code[b]
            /\ b \notin P => cfg'.code[b] = <<>> \o cfg.code[b]
  BY <1>1, <1>2 DEF Coded
<1>5. /\ P \subseteq cfg.blocks
      /\ \A b \in DefSites(x) \cup P : frontier[b] \subseteq P
      /\ \A n \in P : \E b \in DefSites(x) \cup P : n \in frontier[b]
  BY <1>2, PhisAreClosed DEF Placing
<1>6. ASSUME NEW b \in cfg.blocks
      PROVE  LET q == cfg.code[b]  r == cfg'.code[b]
             IN  /\ Defined(q) \subseteq Defined(r) /\ Defined(r) \subseteq Defined(q) \cup {x}
                 /\ b \notin P => Defined(r) = Defined(q)
                 /\ b \in P => Leads(r, x)
                 /\ \A S : Covered(q, S) => Covered(r, S)
                 /\ \A y : Leads(q, y) => Leads(r, y)
                 /\ \A inst \in ToSet(r) : inst \in ToSet(q) \/ (inst.op = "Phi" /\ SymsOf(inst.dest) = {x})
  <2>1. IsList(cfg.code[b])
    BY DEF Coded
  <2>2. PICK q : q = cfg.code[b]
    OBVIOUS
  <2>3. PICK r : r = cfg'.code[b]
    OBVIOUS
  <2>4. IsList(q) /\ (r = <<Phi(Reg(x, 0))>> \o q \/ r = <<>> \o q)
        /\ (b \in P => r = <<Phi(Reg(x, 0))>> \o q) /\ (b \notin P => r = <<>> \o q)
    BY <1>4, <2>1, <2>2, <2>3
  <2> SUFFICES
        /\ Defined(q) \subseteq Defined(r) /\ Defined(r) \subseteq Defined(q) \cup {x}
        /\ b \notin P => Defined(r) = Defined(q)
        /\ b \in P => Leads(r, x)
        /\ \A S : Covered(q, S) => Covered(r, S)
        /\ \A y : Leads(q, y) => Leads(r, y)
        /\ \A inst \in ToSet(r) : inst \in ToSet(q) \/ (inst.op = "Phi" /\ SymsOf(inst.dest) = {x})
    BY <2>2, <2>3
  <2> HIDE <2>2, <2>3
  <2> QED BY <2>4, PhiAdded
<1>7. FrontierEnds'
  <2>1. FrontierEnds
    BY DEF Placing
  <2>2. \A d : Dominators(d)' = Dominators(d)
    BY <1>4, SameDominators
  <2> QED BY <1>3, <1>4, <2>1, <2>2 DEF FrontierEnds, Predecessors
<1>8. \E sc : ScopedBy(cfg', sc)
  <2>1. PICK sc : ScopedBy(cfg, sc)
    BY DEF Placing
  <2>2. \A b \in cfg.blocks : Successors(cfg', b) = Successors(cfg, b)
    BY <1>4 DEF Successors
  <2>3. \A b \in cfg.blocks : /\ Covered(cfg'.code[b], sc[b])
                              /\ Syms(cfg'.term[b].args) \subseteq sc[b] \cup Defined(cfg'.code[b])
    BY <1>4, <1>6, <2>1 DEF ScopedBy
  <2>4. ScopedBy(cfg', sc)
    BY <1>4, <1>6, <2>1, <2>2, <2>3, ScopedSame
  <2> QED BY <2>4
<1>9. ASSUME NEW y, y \notin symbols' PROVE Placed(y)'
  <2>1. ParamSymbols' = ParamSymbols
    BY <1>4 DEF ParamSymbols
  <2>2. \A d \in cfg.blocks : frontier[d] \subseteq cfg.blocks
    BY DEF Placing, FrontierEnds
  <2>3. CASE y # x
    <3>1. Placed(y)
      BY <1>1, <1>9, <2>3 DEF Placing
    <3>2. ASSUME NEW d \in cfg.blocks,
                 y \in Defined(cfg'.code[d]) \/ (d = cfg.entry /\ y \in ParamSymbols), NEW b \in frontier[d]
          PROVE  Leads(cfg'.code[b], y)
      <4>1. y \in Defined(cfg.code[d]) \/ (d = cfg.entry /\ y \in ParamSymbols)
        BY <1>6, <2>3, <3>2
      <4>2. Leads(cfg.code[b], y)
        BY <3>1, <4>1 DEF Placed
      <4> QED BY <1>6, <2>2, <4>2
    <3> QED BY <1>3, <1>4, <2>1, <3>2 DEF Placed
  <2>4. CASE y = x
    <3>1. ASSUME NEW d \in cfg.blocks,
                 x \in Defined(cfg'.code[d]) \/ (d = cfg.entry /\ x \in ParamSymbols), NEW b \in frontier[d]
          PROVE  Leads(cfg'.code[b], x)
      <4>1. d \in DefSites(x) \cup P
        <5>1. CASE d = cfg.entry /\ x \in ParamSymbols
          BY <5>1 DEF DefSites
        <5>2. CASE x \in Defined(cfg.code[d])
          <6>1. PICK inst \in ToSet(cfg.code[d]) : x \in SymsOf(inst.dest)
            BY <5>2 DEF Defined, SymsOf
          <6>2. inst.op # "Phi"
            BY <6>1 DEF Placing
          <6> QED BY <6>1, <6>2 DEF DefSites, SymsOf
        <5>3. CASE x \in Defined(cfg'.code[d]) /\ d \notin P
          BY <1>6, <5>2, <5>3
        <5> QED BY <3>1, <5>1, <5>3
      <4>2. b \in P
        BY <1>5, <4>1
      <4> QED BY <1>5, <1>6, <4>2
    <3> QED BY <1>3, <1>4, <2>1, <2>4, <3>1 DEF Placed
  <2> QED BY <2>3, <2>4
<1>10. \A b \in cfg'.blocks : \A inst \in ToSet(cfg'.code[b]) :
          inst.op = "Phi" => SymsOf(inst.dest) \cap symbols' = {}
  <2> SUFFICES ASSUME NEW b \in cfg.blocks, NEW inst \in ToSet(cfg'.code[b]), inst.op = "Phi"
               PROVE  SymsOf(inst.dest) \cap symbols' = {}
    BY <1>4
  <2>1. CASE inst \in ToSet(cfg.code[b])
    BY <1>1, <2>1 DEF Placing
  <2>2. CASE SymsOf(inst.dest) = {x}
    BY <1>1, <2>2
  <2> QED BY <1>6, <2>1, <2>2
<1>11. Grounded'
  <2>1. /\ \A d : Dominators(d)' = Dominators(d)
        /\ ParamSymbols' = ParamSymbols
    BY <1>4, SameDominators DEF ParamSymbols
  <2>2. ASSUME NEW p \in cfg.blocks PROVE Ends(p) \subseteq Ends(p)'
    <3>1. Dominators(p) \subseteq cfg.blocks
      BY DEF Dominators
    <3> QED BY <1>6, <2>1, <3>1 DEF Ends, AtEntry
  <2>3. ASSUME NEW b \in P PROVE \E p \in Predecessors(cfg, b) : x \in Ends(p)'
    <3>1. PICK d \in DefSites(x) \cup P : b \in frontier[d]
      BY <1>5
    <3>2. d \in cfg.blocks /\ b \in cfg.blocks
      BY <1>5, GraphFacts DEF DefSites, Graph
    <3>3. PICK p \in Predecessors(cfg, b) : d \in Dominators(p)
      BY <3>1, <3>2 DEF Placing, FrontierEnds
    <3>4. CASE d = cfg.entry /\ x \in ParamSymbols
      BY <2>1, <3>3, <3>4 DEF Ends, AtEntry
    <3>5. CASE x \in Defined(cfg'.code[d])
      BY <2>1, <3>3, <3>5 DEF Ends, AtEntry
    <3>6. d \in P => x \in Defined(cfg'.code[d])
      BY <1>6, <3>2 DEF Leads, Defined, SymsOf, ToSet
    <3>7. d \in DefSites(x) /\ ~ (d = cfg.entry /\ x \in ParamSymbols) => x \in Defined(cfg.code[d])
      BY DEF DefSites, Defined
    <3> QED BY <1>6, <3>1, <3>2, <3>4, <3>5, <3>6, <3>7
  <2>4. ASSUME NEW b \in cfg.blocks, NEW inst \in ToSet(cfg.code[b]), inst.op = "Phi"
        PROVE  SymsOf(inst.dest) # {} /\ \E p : Feeds(p, b, inst.dest)
    BY <2>4 DEF Placing, Grounded, ToSet
  <2>5. WellFormed(cfg)
    BY GraphFacts DEF Graph
  <2>6. ASSUME NEW b \in cfg.blocks, NEW i \in DOMAIN cfg'.code[b], cfg'.code[b][i].op = "Phi",
               NEW E, E = cfg'.code[b][i].dest
        PROVE  SymsOf(E) # {} /\ \E p : Feeds(p, b, E)'
    <3>1. PICK inst \in ToSet(cfg'.code[b]) : inst = cfg'.code[b][i]
      BY DEF ToSet
    <3>2. CASE inst \in ToSet(cfg.code[b])
      <4>1. PICK p : Feeds(p, b, E)
        BY <2>4, <2>6, <3>1, <3>2
      <4>2. p \in cfg.blocks
        BY <2>5, <4>1 DEF Feeds, WellFormed
      <4>3. Feeds(p, b, E)'
        BY <1>4, <2>2, <4>1, <4>2 DEF Feeds, Predecessors
      <4> QED BY <2>4, <2>6, <3>1, <3>2, <4>3
    <3>3. CASE inst \notin ToSet(cfg.code[b])
      <4>1. b \in P
        <5> SUFFICES ASSUME b \notin P PROVE cfg'.code[b] = cfg.code[b]
          BY <3>3
        <5>1. IsList(cfg.code[b])
          BY DEF Coded
        <5> QED BY <1>4, <5>1 DEF IsList
      <4>2. SymsOf(E) = {x}
        BY <1>6, <2>6, <3>1, <3>3
      <4>3. PICK p \in Predecessors(cfg, b) : x \in Ends(p)'
        BY <2>3, <4>1
      <4>4. Feeds(p, b, E)'
        BY <1>4, <4>2, <4>3 DEF Feeds, Predecessors
      <4> QED BY <4>2, <4>4
    <3> QED BY <3>2, <3>3
  <2>7. ASSUME NEW b \in cfg.blocks, NEW i \in DOMAIN cfg'.code[b], cfg'.code[b][i].op = "Phi"
        PROVE  SymsOf(cfg'.code[b][i].dest) # {} /\ \E p : (Feeds(p, b, cfg.code[b][i].dest))'
    <3>1. PICK E : E = cfg'.code[b][i].dest
      OBVIOUS
    <3>2. SymsOf(E) # {} /\ \E p : Feeds(p, b, E)'
      BY <2>6, <2>7, <3>1
    <3>3. \A p : Feeds(p, b, E)' => (Feeds(p, b, cfg.code[b][i].dest))'
      BY <3>1 DEF Feeds
    <3> QED BY <3>1, <3>2, <3>3
  <2> HIDE DEF Feeds
  <2> QED BY <1>4, <2>7 DEF Grounded
<1> QED BY <1>7, <1>8, <1>9, <1>10, <1>11 DEF Placing

-----------------------------------------------------------------------------
(* The builder's operations on a graph whose blocks keep to their scope.    *)
Scoped(g, sc) == Graph(g) /\ Plain(g) /\ NoPhis(g) /\ ScopedBy(g, sc)

(* Instructions that read names in scope may be added to a block.           *)
LEMMA ScopedInstructions ==
    ASSUME NEW g, NEW sc, Scoped(g, sc), NEW b \in g.blocks,
           NEW q, Emitted(q), PhiFree(q), NEW T, Covered(q, T), T \subseteq sc[b] \cup Defined(g.code[b])
    PROVE  LET h == AddInstructions(g, b, q)
           IN  /\ Scoped(h, sc) /\ h.blocks = g.blocks
               /\ Defined(h.code[b]) = Defined(g.code[b]) \cup Defined(q)
               /\ \A d \in g.blocks : Defined(g.code[d]) \subseteq Defined(h.code[d])
<1> DEFINE h == AddInstructions(g, b, q)
           both == g.code[b] \o q
<1>1. DOMAIN g = {"entry", "blocks", "params", "succ", "pred", "code", "term"} /\ DOMAIN g.code = g.blocks
  BY DEF Scoped, Plain, Coded
<1>2. /\ h.entry = g.entry /\ h.blocks = g.blocks /\ h.params = g.params /\ h.succ = g.succ
      /\ h.code = [g.code EXCEPT ![b] = both] /\ h.term = g.term
  BY <1>1 DEF AddInstructions
<1>3. Graph(h) /\ Plain(h)
  BY InstructionFacts, InstructionsPlain DEF Scoped, Grown
<1>4. IsList(g.code[b]) /\ IsList(q)
  BY DEF Scoped, Plain, Coded, Emitted
<1>5. /\ Defined(both) = Defined(g.code[b]) \cup Defined(q)
      /\ ToSet(both) = ToSet(g.code[b]) \cup ToSet(q)
  BY <1>4, DefinedParts, JoinLists
<1>6. Covered(both, sc[b])
  <2>1. Covered(g.code[b], sc[b])
    BY DEF Scoped, ScopedBy
  <2> QED BY <1>4, <2>1, CoveredJoin
<1> HIDE DEF h, both
<1>7. h.code[b] = both /\ \A d \in g.blocks : d # b => h.code[d] = g.code[d]
  BY <1>1, <1>2
<1>8. \A d : Successors(h, d) = Successors(g, d)
  BY <1>2 DEF Successors
<1>9. NoPhis(h)
  BY <1>2, <1>5, <1>7 DEF Scoped, NoPhis, PhiFree
<1>10. \A d \in g.blocks : Defined(g.code[d]) \subseteq Defined(h.code[d]) /\ Covered(h.code[d], sc[d])
  BY <1>5, <1>6, <1>7 DEF Scoped, ScopedBy
<1>11. ScopedBy(h, sc)
  BY <1>2, <1>8, <1>10 DEF Scoped, ScopedBy
<1>12. Scoped(h, sc) /\ Defined(h.code[b]) = Defined(g.code[b]) \cup Defined(q)
  BY <1>3, <1>5, <1>7, <1>9, <1>11 DEF Scoped
<1> QED BY <1>2, <1>10, <1>12 DEF h

(* So may a terminator.                                                     *)
LEMMA ScopedTerminator ==
    ASSUME NEW g, NEW sc, Scoped(g, sc), NEW b \in g.blocks,
           NEW t, DOMAIN t = {"kind", "args", "targets"}, Syms(t.args) \subseteq sc[b] \cup Defined(g.code[b])
    PROVE  LET h == AddTerminator(g, b, t)
           IN  Scoped(h, sc) /\ h.blocks = g.blocks /\ h.code = g.code
<1> DEFINE h == AddTerminator(g, b, t)
<1>1. DOMAIN g = {"entry", "blocks", "params", "succ", "pred", "code", "term"} /\ DOMAIN g.term = g.blocks
  BY DEF Scoped, Plain, Coded
<1>2. /\ h.entry = g.entry /\ h.blocks = g.blocks /\ h.params = g.params /\ h.succ = g.succ
      /\ h.code = g.code /\ h.term = [g.term EXCEPT ![b] = t]
  BY <1>1 DEF AddTerminator
<1>3. Graph(h) /\ Plain(h)
  BY InstructionFacts, TerminatorPlain DEF Scoped, Grown
<1> HIDE DEF h
<1>4. h.term[b] = t /\ \A d \in g.blocks : d # b => h.term[d] = g.term[d]
  BY <1>1, <1>2
<1>5. \A d : Successors(h, d) = Successors(g, d)
  BY <1>2 DEF Successors
<1>6. ScopedBy(h, sc)
  BY <1>2, <1>4, <1>5 DEF Scoped, ScopedBy
<1>7. NoPhis(h)
  BY <1>2 DEF Scoped, NoPhis
<1>8. Scoped(h, sc) /\ h.blocks = g.blocks /\ h.code = g.code
  BY <1>2, <1>3, <1>6, <1>7 DEF Scoped
<1> QED BY <1>8 DEF h

(* An edge asks that its target count on no more than its source has.       *)
LEMMA ScopedEdge ==
    ASSUME NEW g, NEW sc, Scoped(g, sc), NEW a \in g.blocks, NEW c \in g.blocks, c # 0,
           sc[c] \subseteq sc[a] \cup Defined(g.code[a])
    PROVE  LET h == AddEdge(g, a, c)
           IN  Scoped(h, sc) /\ h.blocks = g.blocks /\ h.code = g.code /\ h.term = g.term
<1> DEFINE h == AddEdge(g, a, c)
           B == g.blocks
<1>1. /\ DOMAIN g = {"entry", "blocks", "params", "succ", "pred", "code", "term"}
      /\ g.succ \in [B -> Seq(B)]
  BY DEF Scoped, Graph
<1>2. /\ h.entry = g.entry /\ h.blocks = B /\ h.params = g.params
      /\ h.succ = [g.succ EXCEPT ![a] = AppendOnce(g.succ[a], c)]
      /\ h.code = g.code /\ h.term = g.term
  BY <1>1 DEF AddEdge
<1>3. Graph(h) /\ Plain(h)
  BY EdgeFacts, EdgePlain DEF Scoped, Grown
<1> HIDE DEF h
<1>4. ToSet(AppendOnce(g.succ[a], c)) = ToSet(g.succ[a]) \cup {c}
  <2>1. g.succ[a] \in Seq(g.blocks)
    BY <1>1
  <2> HIDE DEF B
  <2> QED BY <2>1, AppendFacts
<1>5. h.succ[a] = AppendOnce(g.succ[a], c) /\ \A d \in B : d # a => h.succ[d] = g.succ[d]
  BY <1>1, <1>2
<1>6. \A d : Successors(h, d) = ToSet(h.succ[d]) /\ Successors(g, d) = ToSet(g.succ[d])
  BY DEF Successors, ToSet
<1>7. \A d \in B : Successors(h, d) \subseteq IF d = a THEN Successors(g, d) \cup {c} ELSE Successors(g, d)
  BY <1>4, <1>5, <1>6
<1>8. ScopedBy(h, sc)
  BY <1>2, <1>7 DEF Scoped, ScopedBy
<1>9. NoPhis(h)
  BY <1>2 DEF Scoped, NoPhis
<1>10. Scoped(h, sc) /\ h.blocks = g.blocks /\ h.code = g.code /\ h.term = g.term
  BY <1>2, <1>3, <1>8, <1>9 DEF Scoped
<1> QED BY <1>10 DEF h

(* A new block may be given any names to start with.                        *)
LEMMA ScopedNewBlock ==
    ASSUME NEW g, NEW sc, Scoped(g, sc)
    PROVE  LET h == NewBlock(g)
           IN  /\ Scoped(h, sc) /\ h.blocks = g.blocks \cup {Cardinality(g.blocks)}
               /\ \A d \in g.blocks : h.code[d] = g.code[d] /\ h.term[d] = g.term[d]
<1> DEFINE n == Cardinality(g.blocks)
           h == NewBlock(g)
<1>1. /\ DOMAIN g = {"entry", "blocks", "params", "succ", "pred", "code", "term"}
      /\ DOMAIN g.code = g.blocks /\ DOMAIN g.term = g.blocks /\ DOMAIN g.succ = g.blocks
  BY DEF Scoped, Plain, Coded, Graph
<1>2. n \in Nat /\ g.blocks = 0 .. n - 1
  BY GraphFacts DEF Scoped, Graph
<1>3. /\ h.entry = g.entry /\ h.blocks = g.blocks \cup {n} /\ h.params = g.params
      /\ h.succ = [b \in g.blocks \cup {n} |-> IF b = n THEN <<>> ELSE g.succ[b]]
      /\ h.code = [b \in g.blocks \cup {n} |-> IF b = n THEN <<>> ELSE g.code[b]]
      /\ h.term = [b \in g.blocks \cup {n} |-> IF b = n THEN Unreachable ELSE g.term[b]]
  BY <1>1 DEF NewBlock, Put
<1>4. Graph(h) /\ Plain(h)
  BY NewBlockFacts, NewBlockPlain DEF Scoped, Grown
<1> HIDE DEF h
<1>5. n \notin g.blocks
  BY <1>2
<1> HIDE DEF n
<1>6. /\ \A b \in g.blocks : h.succ[b] = g.succ[b] /\ h.code[b] = g.code[b] /\ h.term[b] = g.term[b]
      /\ h.succ[n] = <<>> /\ h.code[n] = <<>> /\ h.term[n] = Unreachable
  BY <1>3, <1>5
<1>7. Successors(h, n) = {} /\ \A b \in g.blocks : Successors(h, b) = Successors(g, b)
  BY <1>6 DEF Successors
<1>8. Covered(<<>>, sc[n]) /\ Syms(Unreachable.args) = {} /\ PhiFree(<<>>)
  BY EmptyList DEF Covered, Unreachable, Syms, SymsOf, RegsOf, PhiFree
<1>9. ScopedBy(h, sc)
  BY <1>3, <1>6, <1>7, <1>8 DEF Scoped, ScopedBy
<1>10. NoPhis(h)
  BY <1>3, <1>6, <1>8 DEF Scoped, NoPhis
<1>11. Scoped(h, sc)
  BY <1>4, <1>9, <1>10 DEF Scoped
<1> QED BY <1>3, <1>6, <1>11 DEF h, n

(* Scopes matter for the blocks of the graph only.                          *)
LEMMA ScopedAgree ==
    ASSUME NEW g, NEW sc, Scoped(g, sc), NEW new, \A b \in g.blocks : new[b] = sc[b]
    PROVE  Scoped(g, new)
<1>1. g.entry \in g.blocks /\ \A b \in g.blocks : Successors(g, b) \subseteq g.blocks
  BY GraphFacts DEF Scoped, WellFormed
<1> QED BY <1>1 DEF Scoped, ScopedBy

-----------------------------------------------------------------------------
(* The names of an operand sequence, one by one.                            *)
SymOf(o) == IF o.kind = "reg" THEN {o.val.sym} ELSE {}

(* The names of operands are those of each.                                 *)
LEMMA SymsEach ==
    ASSUME NEW args, NEW S
    PROVE  Syms(args) \subseteq S <=> \A i \in DOMAIN args : SymOf(args[i]) \subseteq S
BY DEF Syms, SymsOf, RegsOf, SymOf

(* A constant names nothing, and a register its symbol.                     *)
LEMMA OperandNames ==
    /\ \A v : SymOf(Const(v)) = {}
    /\ \A x : SymOf(At(Reg(x, 0))) = {x}
<1>1. \A v : SymOf(Const(v)) = {}
  BY DEF SymOf, Const
<1>2. ASSUME NEW x PROVE SymOf(At(Reg(x, 0))) = {x}
  <2>1. At(Reg(x, 0)).kind = "reg" /\ At(Reg(x, 0)).val = Reg(x, 0)
    BY DEF At
  <2> QED BY <2>1, RegFacts DEF SymOf
<1> QED BY <1>1, <1>2

(* An expression whose locals are in scope reads only those and what it     *)
(* has computed.                                                           *)
Computes(t, n, names) ==
    /\ DOMAIN t = {"code", "operands", "next"}
    /\ Emitted(t.code) /\ PhiFree(t.code) /\ Covered(t.code, names)
    /\ IsList(t.operands) /\ Len(t.operands) = n
    /\ \A i \in 1 .. n : SymOf(t.operands[i]) \subseteq names \cup Defined(t.code)

(* A node adds an operand, and with it an instruction or none.              *)
LEMMA OperandAdded ==
    ASSUME NEW t, NEW n \in Nat, NEW names, Computes(t, n, names),
           NEW e, DOMAIN e = {"code", "operands", "next"},
           NEW o, e.operands = Append(t.operands, o), SymOf(o) \subseteq names \cup Defined(e.code),
           \/ e.code = t.code
           \/ \E inst : /\ e.code = Append(t.code, inst)
                        /\ Instruction(inst) /\ inst.sources = <<>> /\ inst.op # "Phi"
                        /\ Syms(inst.args) \subseteq names \cup Defined(t.code)
    PROVE  Computes(e, n + 1, names)
<1>1. /\ IsList(e.operands) /\ Len(e.operands) = n + 1 /\ e.operands[n + 1] = o
      /\ \A i \in 1 .. n : e.operands[i] = t.operands[i]
  BY AppendList DEF Computes
<1>2. IsList(t.code)
  BY DEF Computes, Emitted
<1>3. Emitted(e.code) /\ PhiFree(e.code) /\ Covered(e.code, names) /\ Defined(t.code) \subseteq Defined(e.code)
  <2>1. CASE e.code = t.code
    BY <2>1 DEF Computes
  <2>2. ASSUME NEW inst, e.code = Append(t.code, inst),
               Instruction(inst), inst.sources = <<>>, inst.op # "Phi",
               Syms(inst.args) \subseteq names \cup Defined(t.code)
        PROVE  Emitted(e.code) /\ PhiFree(e.code) /\ Covered(e.code, names) /\ Defined(t.code) \subseteq Defined(e.code)
    <3>1. Emitted(e.code)
      BY <2>2, EmittedAppend DEF Computes
    <3>2. Covered(e.code, names)
      BY <1>2, <2>2, CoveredAppend DEF Computes
    <3>3. Defined(e.code) = Defined(t.code) \cup SymsOf(inst.dest)
      BY <1>2, <2>2, DefinedParts
    <3>4. \A p \in ToSet(e.code) : p \in ToSet(t.code) \/ p = inst
      <4>1. /\ IsList(e.code) /\ Len(e.code) = Len(t.code) + 1 /\ e.code[Len(t.code) + 1] = inst
            /\ \A i \in 1 .. Len(t.code) : e.code[i] = t.code[i]
        BY <1>2, <2>2, AppendList
      <4>2. DOMAIN e.code = 1 .. Len(t.code) + 1 /\ DOMAIN t.code = 1 .. Len(t.code) /\ Len(t.code) \in Nat
        BY <1>2, <4>1, ListBasics
      <4>3. \A i \in DOMAIN e.code : i \in DOMAIN t.code \/ i = Len(t.code) + 1
        BY <4>2
      <4> QED BY <4>1, <4>2, <4>3 DEF ToSet
    <3>5. PhiFree(e.code)
      BY <2>2, <3>4 DEF PhiFree, Computes
    <3> QED BY <3>1, <3>2, <3>3, <3>5
  <2> QED BY <2>1, <2>2
<1>4. ASSUME NEW i \in 1 .. n + 1 PROVE SymOf(e.operands[i]) \subseteq names \cup Defined(e.code)
  <2>1. CASE i \in 1 .. n
    BY <1>1, <1>3, <2>1 DEF Computes
  <2>2. CASE i = n + 1
    <3>1. e.operands[i] = o
      BY <1>1, <2>2
    <3> QED BY <3>1, Zenon
  <2>3. i \in 1 .. n \/ i = n + 1
    OBVIOUS
  <2> QED BY <2>1, <2>2, <2>3, Zenon
<1> QED BY <1>1, <1>3, <1>4 DEF Computes

(* A resolved node reads the operands of the nodes before it and names in   *)
(* scope.                                                                   *)
LEMMA NodeComputes ==
    ASSUME NEW t, NEW n \in Nat, NEW names, Computes(t, n, names),
           NEW node, ResolvedNode(node, n + 1, names)
    PROVE  Computes(TransformNode(t, node), n + 1, names)
<1> DEFINE given == [i \in DOMAIN node.args |-> t.operands[node.args[i]]]
           args  == IF node.op = "MemberCall" THEN Tail(given) ELSE given
           target == Reg(<<"tmp", t.next>>, 0)
           valued == Instr(Opcode(node), node.ref, {target}, args)
           void == Instr(Opcode(node), node.ref, {}, args)
           e == TransformNode(t, node)
<1>1. IsList(given) /\ \A i \in DOMAIN given : SymOf(given[i]) \subseteq names \cup Defined(t.code)
  <2>1. IsList(node.args) /\ ToSet(node.args) \subseteq 1 .. n
    <3>1. (n + 1) - 1 = n
      OBVIOUS
    <3> QED BY <3>1 DEF ResolvedNode
  <2>2. DOMAIN node.args = 1 .. Len(node.args) /\ Len(node.args) \in Nat
    BY <2>1, ListBasics
  <2>3. \A i \in DOMAIN node.args : node.args[i] \in 1 .. n
    BY <2>1 DEF ToSet
  <2>4. IsList(given)
    <3>1. given = [i \in 1 .. Len(node.args) |-> given[i]]
      BY <2>2
    <3> HIDE DEF given
    <3> QED BY <2>2, <3>1, ListByIndex
  <2>5. DOMAIN given = DOMAIN node.args /\ \A i \in DOMAIN node.args : given[i] = t.operands[node.args[i]]
    OBVIOUS
  <2> HIDE DEF given
  <2> QED BY <2>3, <2>4, <2>5 DEF Computes
<1>2. Syms(args) \subseteq names \cup Defined(t.code)
  <2>1. CASE node.op = "MemberCall"
    <3>1. given # <<>>
      <4>1. node.args # <<>> /\ IsList(node.args)
        BY <2>1 DEF ResolvedNode
      <4>2. 1 \in DOMAIN node.args
        BY <4>1, TailList, ListBasics
      <4>3. DOMAIN given = DOMAIN node.args
        OBVIOUS
      <4> HIDE DEF given
      <4> QED BY <4>2, <4>3, EmptyList
    <3>2. args = Tail(given)
      BY <2>1
    <3> HIDE DEF given, args
    <3>3. /\ IsList(args) /\ Len(args) = Len(given) - 1 /\ Len(given) \in Nat
          /\ \A i \in 1 .. Len(given) - 1 : args[i] = given[i + 1]
      BY <1>1, <3>1, <3>2, TailList, ListBasics
    <3>4. DOMAIN args = 1 .. Len(given) - 1 /\ DOMAIN given = 1 .. Len(given)
      BY <1>1, <3>3, ListBasics
    <3>5. \A i \in DOMAIN args : i + 1 \in DOMAIN given /\ args[i] = given[i + 1]
      BY <3>3, <3>4
    <3>6. \A i \in DOMAIN args : SymOf(args[i]) \subseteq names \cup Defined(t.code)
      BY <1>1, <3>5
    <3> QED BY <3>6, SymsEach
  <2>2. CASE node.op # "MemberCall"
    <3>1. args = given
      BY <2>2
    <3> HIDE DEF given, args
    <3>2. \A i \in DOMAIN args : SymOf(args[i]) \subseteq names \cup Defined(t.code)
      BY <1>1, <3>1
    <3> QED BY <3>2, SymsEach
  <2> QED BY <2>1, <2>2
<1>3. Opcode(node) # "Phi"
  BY DEF Opcode, ResolvedNode, NodeOps
<1> HIDE DEF given, args
<1>4. /\ Instruction(valued) /\ valued.sources = <<>> /\ valued.op # "Phi" /\ valued.args = args
      /\ valued.dest = {target}
      /\ Instruction(void) /\ void.sources = <<>> /\ void.op # "Phi" /\ void.args = args
  <2> HIDE DEF target
  <2>1. Instruction(valued) /\ valued.sources = <<>> /\ Instruction(void) /\ void.sources = <<>>
    BY InstrFacts
  <2> QED BY <1>3, <2>1 DEF Instr
<1>5. SymOf(At(target)) = {<<"tmp", t.next>>} /\ SymsOf({target}) = {<<"tmp", t.next>>}
  BY OperandNames, RegFacts DEF SymsOf
<1>6. \/ node.op = "Literal" /\ e = [t EXCEPT !.operands = Append(@, Const(node.val))]
      \/ node.op = "Local" /\ e = [t EXCEPT !.operands = Append(@, At(Reg(node.ref, 0)))]
      \/ e = [code |-> Append(t.code, valued), operands |-> Append(t.operands, At(target)), next |-> t.next + 1]
      \/ e = [t EXCEPT !.code = Append(@, void), !.operands = Append(@, Const(0))]
  BY DEF TransformNode, given, args
<1> HIDE DEF e, target, valued, void
<1>7. DOMAIN t = {"code", "operands", "next"}
  BY DEF Computes
<1>8. CASE node.op = "Literal" /\ e = [t EXCEPT !.operands = Append(@, Const(node.val))]
  <2>1. PICK o : o = Const(node.val)
    OBVIOUS
  <2>2. DOMAIN e = DOMAIN t /\ e.code = t.code /\ e.operands = Append(t.operands, o)
    BY <1>7, <1>8, <2>1
  <2>3. SymOf(o) = {}
    BY <2>1, OperandNames
  <2>4. Computes(e, n + 1, names)
    BY <1>7, <2>2, <2>3, OperandAdded
  <2> QED BY <2>4 DEF e
<1>9. CASE node.op = "Local" /\ e = [t EXCEPT !.operands = Append(@, At(Reg(node.ref, 0)))]
  <2>1. PICK o : o = At(Reg(node.ref, 0))
    OBVIOUS
  <2>2. DOMAIN e = DOMAIN t /\ e.code = t.code /\ e.operands = Append(t.operands, o)
    BY <1>7, <1>9, <2>1
  <2>3. SymOf(o) \subseteq names
    BY <1>9, <2>1, OperandNames DEF ResolvedNode
  <2>4. Computes(e, n + 1, names)
    BY <1>7, <2>2, <2>3, OperandAdded
  <2> QED BY <2>4 DEF e
<1>10. CASE e = [code |-> Append(t.code, valued), operands |-> Append(t.operands, At(target)), next |-> t.next + 1]
  <2>1. PICK o : o = At(target)
    OBVIOUS
  <2>2. DOMAIN e = {"code", "operands", "next"} /\ e.code = Append(t.code, valued) /\ e.operands = Append(t.operands, o)
    BY <1>10, <2>1
  <2>3. Defined(e.code) = Defined(t.code) \cup SymsOf({target})
    <3>1. IsList(t.code)
      BY DEF Computes, Emitted
    <3>2. Defined(Append(t.code, valued)) = Defined(t.code) \cup SymsOf(valued.dest)
      BY <3>1, DefinedParts
    <3> QED BY <1>4, <2>2, <3>2
  <2>4. SymOf(o) \subseteq Defined(e.code)
    BY <1>5, <2>1, <2>3
  <2>5. Computes(e, n + 1, names)
    BY <1>2, <1>4, <2>2, <2>4, OperandAdded
  <2> QED BY <2>5 DEF e
<1>11. CASE e = [t EXCEPT !.code = Append(@, void), !.operands = Append(@, Const(0))]
  <2>1. PICK o : o = Const(0)
    OBVIOUS
  <2>2. DOMAIN e = {"code", "operands", "next"} /\ e.code = Append(t.code, void) /\ e.operands = Append(t.operands, o)
    BY <1>7, <1>11, <2>1
  <2>3. SymOf(o) = {}
    BY <2>1, OperandNames
  <2>4. Computes(e, n + 1, names)
    BY <1>2, <1>4, <2>2, <2>3, OperandAdded
  <2> QED BY <2>4 DEF e
<1> QED BY <1>6, <1>8, <1>9, <1>10, <1>11

(* So a resolved expression reads no other names than those in scope.       *)
LEMMA ExpressionComputes ==
    ASSUME NEW expr, IsList(expr), NEW names, \A k \in DOMAIN expr : ResolvedNode(expr[k], k, names)
    PROVE  LET t == TransformExpression(expr)
           IN  /\ Computes(t, Len(expr), names)
               /\ expr # <<>> => SymOf(Value(t)) \subseteq names \cup Defined(t.code)
<1> DEFINE m == Len(expr)
<1>1. m \in Nat /\ DOMAIN expr = 1 .. m
  BY ListBasics
<1>2. PICK f : /\ f[0] = [code |-> <<>>, operands |-> <<>>, next |-> next_temp]
               /\ TransformExpression(expr) = f[m]
               /\ \A n \in 1 .. m : f[n] = TransformNode(f[n-1], expr[n])
  BY TransformSteps
<1> DEFINE S == {k \in Nat : k <= m => Computes(f[k], k, names)}
<1> HIDE DEF m
<1>3. 0 \in S
  <2>1. Emitted(<<>>) /\ PhiFree(<<>>) /\ Covered(<<>>, names) /\ IsList(<<>>) /\ Len(<<>>) = 0
    BY EmptyList DEF PhiFree, Covered
  <2>2. DOMAIN f[0] = {"code", "operands", "next"} /\ f[0].code = <<>> /\ f[0].operands = <<>>
    BY <1>2
  <2>3. 1 .. 0 = {}
    OBVIOUS
  <2> QED BY <2>1, <2>2, <2>3 DEF Computes
<1>4. ASSUME NEW k \in Nat, k \in S PROVE k + 1 \in S
  <2> SUFFICES ASSUME k + 1 <= m PROVE Computes(f[k + 1], k + 1, names)
    OBVIOUS
  <2>1. k <= m /\ k + 1 \in 1 .. m /\ (k + 1) - 1 = k
    BY <1>1
  <2>2. Computes(f[k], k, names)
    BY <1>4, <2>1
  <2>3. f[k + 1] = TransformNode(f[k], expr[k + 1])
    BY <1>2, <2>1
  <2>4. ResolvedNode(expr[k + 1], k + 1, names)
    BY <1>1, <2>1
  <2> QED BY <2>2, <2>3, <2>4, NodeComputes
<1>5. Computes(f[m], m, names)
  <2> HIDE DEF S
  <2>1. Nat \subseteq S
    BY <1>3, <1>4, Induction
  <2>2. m \in S
    BY <1>1, <2>1
  <2> QED BY <2>2 DEF S
<1>6. ASSUME expr # <<>> PROVE SymOf(Value(f[m])) \subseteq names \cup Defined(f[m].code)
  <2>1. m >= 1
    BY <1>6, TailList DEF m
  <2>2. Value(f[m]) = f[m].operands[m]
    BY <1>5 DEF Value, Last, Computes
  <2> QED BY <1>1, <1>5, <2>1, <2>2 DEF Computes
<1> QED BY <1>2, <1>5, <1>6 DEF m

-----------------------------------------------------------------------------
(* The statements left of a block and the names in scope where they start.  *)
InScope(todo, names) ==
    \E scope \in Scopes(program) : \E k \in 1 .. Len(scope[1]) + 1 :
        todo = Dropped(scope[1], k - 1) /\ names = NamesAt(scope, k)
NewNames(s) == IF s.kind = "Declare" THEN {s.ref} ELSE {}

(* A resolved function has each of its blocks in its scope.                 *)
LEMMA BlockInScope ==
    ASSUME Resolved(program), NEW scope \in Scopes(program)
    PROVE  InScope(scope[1], scope[2])
<1>1. IsList(scope[1])
  BY DEF Resolved
<1>2. Len(scope[1]) \in Nat /\ scope[1] \in Seq(ToSet(scope[1]))
  BY <1>1, ListBasics
<1>3. Dropped(scope[1], 0) = scope[1]
  <2> DEFINE q == scope[1]
             S == ToSet(q)
  <2>1. q \in Seq(S)
    BY <1>2
  <2> HIDE DEF q, S
  <2>2. SubSeq(q, 0 + 1, Len(q)) = q
    BY <2>1
  <2> QED BY <2>2 DEF q, Dropped
<1>4. NamesAt(scope, 1) = scope[2]
  <2>1. 1 .. 1 - 1 = {}
    OBVIOUS
  <2> QED BY <2>1 DEF NamesAt, Declared
<1>5. 1 \in 1 .. Len(scope[1]) + 1 /\ 1 - 1 = 0
  BY <1>2
<1> QED BY <1>3, <1>4, <1>5 DEF InScope

(* The next statement is resolved in the names seen so far, its bodies too. *)
LEMMA ScopeReads ==
    ASSUME Resolved(program), NEW todo, NEW names, InScope(todo, names), todo # <<>>
    PROVE  LET s == Head(todo)
           IN  /\ ResolvedStatement(s, names)
               /\ InScope(Tail(todo), names \cup NewNames(s))
               /\ InScope(s.block, names) /\ InScope(s.otherwise, names)
<1>0. PICK scope \in Scopes(program) : \E k \in 1 .. Len(scope[1]) + 1 :
         todo = Dropped(scope[1], k - 1) /\ names = NamesAt(scope, k)
  BY DEF InScope
<1>1. PICK k \in 1 .. Len(scope[1]) + 1 :
         todo = Dropped(scope[1], k - 1) /\ names = NamesAt(scope, k)
  BY <1>0
<1> DEFINE q == scope[1]
           n == Len(q)
           S == ToSet(q)
<1>2. /\ q \in Seq(S) /\ n \in Nat /\ DOMAIN q = 1 .. n
      /\ \A i \in 1 .. n : Inner(scope, i) \subseteq Scopes(program) /\ ResolvedStatement(q[i], NamesAt(scope, i))
  BY ListBasics DEF Resolved
<1>3. k \in Nat /\ k >= 1 /\ k <= n + 1 /\ todo = SubSeq(q, k, n)
  <2>1. k \in Nat /\ k >= 1 /\ k <= n + 1 /\ (k - 1) + 1 = k
    BY <1>2
  <2> QED BY <1>1, <2>1 DEF Dropped
<1>4. k <= n
  <2> SUFFICES ASSUME k = n + 1 PROVE FALSE
    BY <1>2, <1>3
  <2> HIDE DEF q, S, n
  <2>1. k > n
    BY <1>2, <1>3
  <2>2. SubSeq(q, k, n) = <<>>
    BY <1>2, <1>3, <2>1
  <2> QED BY <1>3, <2>2
<1> HIDE DEF S
<1>5. Head(todo) = q[k] /\ Tail(todo) = SubSeq(q, k + 1, n)
  <2> HIDE DEF q, n
  <2>1. Head(SubSeq(q, k, n)) = q[k]
    BY <1>2, <1>3, <1>4
  <2> DEFINE r == SubSeq(q, k, n)
             t == Tail(r)
             u == SubSeq(q, k + 1, n)
  <2>2. /\ r \in Seq(S) /\ Len(r) = n - k + 1 /\ r # <<>>
        /\ \A i \in 1 .. n - k + 1 : r[i] = q[k + i - 1]
    <3>1. r \in Seq(S) /\ Len(r) = n - k + 1
      BY <1>2, <1>3, <1>4
    <3>2. \A i \in 1 .. n - k + 1 : r[i] = q[k + i - 1]
      BY <1>2, <1>3, <1>4
    <3>3. n - k + 1 # 0 /\ Len(<<>>) = 0
      BY <1>2, <1>3, <1>4
    <3> HIDE DEF r
    <3>4. r # <<>>
      BY <3>1, <3>3
    <3> QED BY <3>1, <3>2, <3>4
  <2>3. /\ t \in Seq(S) /\ Len(t) = n - k /\ \A i \in 1 .. n - k : t[i] = r[i + 1]
    <3> HIDE DEF r
    <3> QED BY <1>2, <1>3, <1>4, <2>2
  <2>4. /\ u \in Seq(S) /\ Len(u) = n - k /\ \A i \in 1 .. n - k : u[i] = q[k + i]
    BY <1>2, <1>3, <1>4
  <2> HIDE DEF r, t, u
  <2>5. ASSUME NEW i \in 1 .. n - k PROVE t[i] = u[i]
    <3>1. i + 1 \in 1 .. n - k + 1 /\ k + (i + 1) - 1 = k + i
      BY <1>2, <1>3, <1>4
    <3>2. r[i + 1] = q[k + (i + 1) - 1]
      BY <2>2, <3>1
    <3> QED BY <2>3, <2>4, <3>1, <3>2
  <2>6. t = u
    BY <2>3, <2>4, <2>5, <1>2, <1>3, <1>4
  <2> QED BY <1>3, <2>1, <2>6 DEF r, t, u
<1> DEFINE s == q[k]
<1>6. k \in 1 .. n
  BY <1>2, <1>3, <1>4
<1>7. ResolvedStatement(s, names) /\ Inner(scope, k) \subseteq Scopes(program)
  BY <1>1, <1>2, <1>6
<1>8. InScope(s.block, names) /\ InScope(s.otherwise, names)
  <2>1. \A a, b : <<a, b>>[1] = a /\ <<a, b>>[2] = b
    OBVIOUS
  <2>2. <<s.block, names>> \in Scopes(program) /\ <<s.otherwise, names>> \in Scopes(program)
    BY <1>1, <1>7 DEF Inner
  <2> HIDE DEF s
  <2> QED BY <2>1, <2>2, BlockInScope
<1>9. InScope(Tail(todo), names \cup NewNames(s))
  <2>1. k + 1 \in 1 .. Len(scope[1]) + 1 /\ (k + 1) - 1 = k
    BY <1>6, <1>2
  <2>2. Tail(todo) = Dropped(scope[1], (k + 1) - 1)
    BY <1>5, <2>1 DEF Dropped
  <2>3. NamesAt(scope, k + 1) = NamesAt(scope, k) \cup NewNames(s)
    <3>1. \A j : j \in 1 .. (k + 1) - 1 <=> j \in 1 .. k - 1 \/ j = k
      BY <1>3
    <3>2. Declared(q, k + 1) = Declared(q, k) \cup NewNames(s)
      <4> HIDE DEF q
      <4> QED BY <3>1 DEF Declared, NewNames
    <3> QED BY <3>2 DEF NamesAt
  <2> QED BY <1>1, <2>1, <2>2, <2>3 DEF InScope
<1> QED BY <1>5, <1>7, <1>8, <1>9

(* The names in scope of the statements left of a frame: those of the block *)
(* at hand, or those the exit block of the frame inside it starts with.     *)
NamesHere(q, sc, names, i) == IF i = 1 THEN names ELSE sc[q[i - 1].blocks.exit]
FrameScoped(f, sc, names) ==
    /\ InScope(f.todo, names)
    /\ f.kind # "body" => sc[f.blocks.exit] \subseteq names
    /\ f.kind = "then"  => sc[f.blocks.other] = sc[f.blocks.exit] /\ InScope(f.otherwise, sc[f.blocks.exit])
    /\ f.kind = "while" => sc[f.blocks.header] = sc[f.blocks.exit] /\ sc[f.blocks.body] = sc[f.blocks.exit]
FramesScoped(q, sc, names) == \A i \in DOMAIN q : FrameScoped(q[i], sc, NamesHere(q, sc, names, i))

(* Frames are scoped by what the graph has of scopes.                       *)
LEMMA ScopedFramesAgree ==
    ASSUME NEW g, Graph(g), NEW q, Nested(q, g), NEW sc, NEW names, FramesScoped(q, sc, names),
           NEW new, \A b \in g.blocks : new[b] = sc[b]
    PROVE  FramesScoped(q, new, names)
<1>1. Reached(g) \subseteq g.blocks
  BY ReachedFacts
<1>2. q # <<>> /\ \E S : q \in Seq(S)
  BY DEF Nested
<1>3. DOMAIN q = 1 .. Len(q) /\ Len(q) \in Nat
  BY <1>2
<1>4. \A i \in DOMAIN q : /\ FrameFits(q[i], g)
                          /\ q[i].kind = "body" <=> i = Len(q)
  BY DEF Nested
<1>5. ASSUME NEW i \in DOMAIN q PROVE FrameScoped(q[i], new, NamesHere(q, new, names, i))
  <2>1. FrameScoped(q[i], sc, NamesHere(q, sc, names, i))
    BY DEF FramesScoped
  <2>2. NamesHere(q, new, names, i) = NamesHere(q, sc, names, i)
    <3>1. CASE i = 1
      BY <3>1 DEF NamesHere
    <3>2. CASE i # 1
      <4>1. i - 1 \in DOMAIN q /\ i - 1 # Len(q)
        BY <1>3, <3>2
      <4>2. q[i - 1].blocks.exit \in g.blocks
        BY <1>4, <4>1 DEF FrameFits
      <4> QED BY <3>2, <4>2 DEF NamesHere
    <3> QED BY <3>1, <3>2
  <2>3. /\ q[i].kind # "body" => q[i].blocks.exit \in g.blocks
        /\ q[i].kind = "then" => q[i].blocks.other \in g.blocks
        /\ q[i].kind = "while" => q[i].blocks.body \in g.blocks /\ q[i].blocks.header \in g.blocks
    BY <1>1, <1>4 DEF FrameFits
  <2> QED BY <2>1, <2>2, <2>3 DEF FrameScoped
<1> QED BY <1>5 DEF FramesScoped

(* Reading a statement brings the names it declares into scope.             *)
LEMMA ScopedFramesRead ==
    ASSUME NEW q, NEW g, Nested(q, g), NEW sc, NEW names, FramesScoped(q, sc, names),
           NEW todo, NEW more, InScope(todo, more), names \subseteq more
    PROVE  FramesScoped([q EXCEPT ![1].todo = todo], sc, more)
<1> DEFINE n == Len(q)
           f == [q[1] EXCEPT !.todo = todo]
           r == [q EXCEPT ![1] = f]
<1>1. q # <<>> /\ \E S : q \in Seq(S)
  BY DEF Nested
<1>2. n \in Nat /\ n >= 1 /\ DOMAIN q = 1 .. n
  BY <1>1
<1>3. 1 \in DOMAIN q /\ DOMAIN q[1] = {"kind", "todo", "blocks", "otherwise"}
  BY <1>2 DEF Nested, FrameFits
<1>4. f.todo = todo /\ f.kind = q[1].kind /\ f.blocks = q[1].blocks /\ f.otherwise = q[1].otherwise
  BY <1>3
<1> HIDE DEF f
<1>5. DOMAIN r = DOMAIN q /\ r[1] = f /\ \A i \in DOMAIN q : i # 1 => r[i] = q[i]
  BY <1>3
<1>6. r = [q EXCEPT ![1].todo = todo]
  BY DEF f
<1> HIDE DEF r, n
<1>7. ASSUME NEW i \in DOMAIN q PROVE FrameScoped(r[i], sc, NamesHere(r, sc, more, i))
  <2>1. FrameScoped(q[i], sc, NamesHere(q, sc, names, i))
    BY DEF FramesScoped
  <2>2. CASE i = 1
    <3>1. NamesHere(q, sc, names, i) = names /\ NamesHere(r, sc, more, i) = more
      BY <2>2 DEF NamesHere
    <3> QED BY <1>4, <1>5, <2>1, <2>2, <3>1 DEF FrameScoped
  <2>3. CASE i # 1
    <3>1. i - 1 \in DOMAIN q
      BY <1>2, <2>3
    <3>2. r[i - 1].blocks = q[i - 1].blocks
      BY <1>4, <1>5, <3>1
    <3>3. NamesHere(q, sc, names, i) = NamesHere(r, sc, more, i)
      BY <2>3, <3>2 DEF NamesHere
    <3> QED BY <1>5, <2>1, <2>3, <3>3
  <2> QED BY <2>2, <2>3
<1>8. FramesScoped(r, sc, more)
  BY <1>5, <1>7 DEF FramesScoped
<1> QED BY <1>6, <1>8

(* A body is opened in the scope it stands in.                              *)
LEMMA ScopedFramesPush ==
    ASSUME NEW q, NEW S, q \in Seq(S), NEW sc, NEW f, FramesScoped(q, sc, sc[f.blocks.exit]),
           NEW names, FrameScoped(f, sc, names)
    PROVE  FramesScoped(<<f>> \o q, sc, names)
<1> DEFINE r == <<f>> \o q
           n == Len(q)
<1>1. IsList(q)
  BY ListOf
<1>2. /\ IsList(r) /\ Len(r) = n + 1 /\ r[1] = f /\ \A i \in 1 .. n : r[i + 1] = q[i]
      /\ n \in Nat /\ DOMAIN q = 1 .. n
  BY <1>1, PushFrame, ListBasics
<1>3. DOMAIN r = 1 .. n + 1
  BY <1>2, ListBasics
<1> HIDE DEF r, n
<1>4. ASSUME NEW i \in 1 .. n + 1 PROVE FrameScoped(r[i], sc, NamesHere(r, sc, names, i))
  <2>1. CASE i = 1
    BY <1>2, <2>1 DEF NamesHere
  <2>2. CASE i # 1
    <3>1. i - 1 \in 1 .. n /\ (i - 1) + 1 = i
      BY <1>2, <2>2
    <3>2. r[i] = q[i - 1]
      BY <1>2, <3>1
    <3>3. NamesHere(r, sc, names, i) = NamesHere(q, sc, sc[f.blocks.exit], i - 1)
      <4>1. CASE i - 1 = 1
        BY <1>2, <2>2, <4>1 DEF NamesHere
      <4>2. CASE i - 1 # 1
        <5>1. (i - 1) - 1 \in 1 .. n /\ ((i - 1) - 1) + 1 = i - 1
          BY <1>2, <3>1, <4>2
        <5>2. r[i - 1] = q[(i - 1) - 1]
          BY <1>2, <5>1
        <5> QED BY <2>2, <4>2, <5>2 DEF NamesHere
      <4> QED BY <4>1, <4>2
    <3> QED BY <1>2, <3>1, <3>2, <3>3 DEF FramesScoped
  <2> QED BY <2>1, <2>2
<1> QED BY <1>3, <1>4 DEF FramesScoped, r

(* Its names end with it.                                                   *)
LEMMA ScopedFramesPop ==
    ASSUME NEW q, NEW S, q \in Seq(S), q # <<>>, NEW sc, NEW names, FramesScoped(q, sc, names)
    PROVE  /\ FrameScoped(q[1], sc, names)
           /\ FramesScoped(Tail(q), sc, sc[q[1].blocks.exit])
<1> DEFINE n == Len(q)
           t == Tail(q)
<1>1. IsList(q)
  BY ListOf
<1>2. /\ n >= 1 /\ IsList(t) /\ Len(t) = n - 1 /\ n \in Nat /\ DOMAIN q = 1 .. n
      /\ \A i \in 1 .. n - 1 : t[i] = q[i + 1]
  BY <1>1, TailList, ListBasics
<1>3. DOMAIN t = 1 .. n - 1
  BY <1>2, ListBasics
<1> HIDE DEF t, n
<1>4. 1 \in DOMAIN q
  BY <1>2
<1>5. FrameScoped(q[1], sc, names)
  <2>1. NamesHere(q, sc, names, 1) = names
    BY DEF NamesHere
  <2> QED BY <1>4, <2>1 DEF FramesScoped
<1>6. ASSUME NEW i \in 1 .. n - 1 PROVE FrameScoped(t[i], sc, NamesHere(t, sc, sc[q[1].blocks.exit], i))
  <2>1. i + 1 \in 1 .. n /\ i + 1 # 1 /\ (i + 1) - 1 = i
    BY <1>2
  <2>2. FrameScoped(q[i + 1], sc, NamesHere(q, sc, names, i + 1))
    BY <1>2, <2>1 DEF FramesScoped
  <2>3. NamesHere(q, sc, names, i + 1) = sc[q[i].blocks.exit]
    BY <2>1 DEF NamesHere
  <2>4. CASE i = 1
    <3>1. NamesHere(t, sc, sc[q[1].blocks.exit], i) = sc[q[1].blocks.exit]
      BY <2>4 DEF NamesHere
    <3> QED BY <1>2, <2>2, <2>3, <2>4, <3>1
  <2>5. CASE i # 1
    <3>1. i - 1 \in 1 .. n - 1 /\ (i - 1) + 1 = i
      BY <1>2, <2>5
    <3>2. t[i - 1] = q[i]
      BY <1>2, <3>1
    <3> QED BY <1>2, <2>2, <2>3, <2>5, <3>2 DEF NamesHere
  <2> QED BY <2>4, <2>5
<1>7. FramesScoped(t, sc, sc[q[1].blocks.exit])
  BY <1>3, <1>6 DEF FramesScoped
<1> QED BY <1>5, <1>7 DEF t

-----------------------------------------------------------------------------
(* While SsaBuilder runs, the names in scope are on hand in the block at    *)
(* hand.                                                                   *)
Scoping ==
    \E sc, names : /\ Scoped(cfg, sc) /\ FramesScoped(frames, sc, names)
                   /\ names \subseteq sc[current_block] \cup Defined(cfg.code[current_block])

(* Scoping is a matter of the program.                                      *)
LEMMA SameScopes ==
    ASSUME program' = program
    PROVE  \A q, sc, names : FramesScoped(q, sc, names) => FramesScoped(q, sc, names)'
<1>1. \A todo, names : InScope(todo, names)' <=> InScope(todo, names)
  BY DEF InScope
<1>2. \A q, sc, names, i : NamesHere(q, sc, names, i)' = NamesHere(q, sc, names, i)
  BY DEF NamesHere
<1>3. \A f, sc, names : FrameScoped(f, sc, names)' <=> FrameScoped(f, sc, names)
  BY <1>1 DEF FrameScoped
<1> QED BY <1>2, <1>3 DEF FramesScoped

(* What a statement at hand reads and declares is in scope.                 *)
LEMMA StatementScoped ==
    ASSUME Building, Written, Resolved(program), NEW kinds, Reading(kinds),
           NEW sc, NEW names, FramesScoped(frames, sc, names)
    PROVE  LET t == TransformExpression(stmt.expr)
           IN  /\ Computes(t, Len(stmt.expr), names)
               /\ stmt.expr # <<>> => SymOf(Value(t)) \subseteq names \cup Defined(t.code)
               /\ ResolvedStatement(stmt, names) /\ stmt.kind \in kinds
               /\ FramesScoped(AfterStatement, sc, names \cup NewNames(stmt))
               /\ InScope(stmt.block, names) /\ InScope(stmt.otherwise, names)
<1>1. PICK S : frames \in Seq(S) /\ frames # <<>>
  BY DEF Building, Nested
<1>2. frames[1].todo # <<>> /\ stmt = Head(frames[1].todo) /\ stmt.kind \in kinds
  BY DEF Reading, stmt
<1>3. InScope(frames[1].todo, names)
  BY <1>1, ScopedFramesPop DEF FrameScoped
<1>4. /\ ResolvedStatement(stmt, names)
      /\ InScope(Tail(frames[1].todo), names \cup NewNames(stmt))
      /\ InScope(stmt.block, names) /\ InScope(stmt.otherwise, names)
  BY <1>2, <1>3, ScopeReads
<1>5. FramesScoped([frames EXCEPT ![1].todo = Tail(frames[1].todo)], sc, names \cup NewNames(stmt))
  BY <1>4, ScopedFramesRead DEF Building
<1>6. AfterStatement = [frames EXCEPT ![1].todo = Tail(frames[1].todo)]
  BY DEF AfterStatement
<1>7. IsList(stmt.expr)
  BY ReadFacts
<1>8. \A k \in DOMAIN stmt.expr : ResolvedNode(stmt.expr[k], k, names)
  BY <1>4 DEF ResolvedStatement
<1> QED BY <1>2, <1>4, <1>5, <1>6, <1>7, <1>8, ExpressionComputes

(* The names of a single value.                                             *)
LEMMA ValueNames == \A v, S : Syms(<<v>>) \subseteq S <=> SymOf(v) \subseteq S
<1> SUFFICES ASSUME NEW v, NEW S PROVE Syms(<<v>>) \subseteq S <=> SymOf(v) \subseteq S
  OBVIOUS
<1>1. DOMAIN <<v>> = {1} /\ <<v>>[1] = v
  OBVIOUS
<1> QED BY <1>1, SymsEach

(* A statement without control flow keeps the scopes.                       *)
LEMMA StraightScopes ==
    ASSUME Building, Written, Resolved(program), Scoping,
           TransformExpressionStatement \/ TransformAssignment \/ TransformReturn
    PROVE  Scoping'
<1> DEFINE t == TransformExpression(stmt.expr)
           b == current_block
<1>1. PICK sc, names : /\ Scoped(cfg, sc) /\ FramesScoped(frames, sc, names)
                       /\ names \subseteq sc[b] \cup Defined(cfg.code[b])
  BY DEF Scoping
<1>2. PICK kinds : Reading(kinds)
  BY DEF TransformExpressionStatement, TransformAssignment, TransformReturn
<1>3. /\ Computes(t, Len(stmt.expr), names)
      /\ stmt.expr # <<>> => SymOf(Value(t)) \subseteq names \cup Defined(t.code)
      /\ ResolvedStatement(stmt, names)
      /\ FramesScoped(AfterStatement, sc, names \cup NewNames(stmt))
  BY <1>1, <1>2, StatementScoped
<1>4. b \in cfg.blocks
  BY ReachedFacts DEF Building
<1>5. PICK q, more, n : q = AfterStatement /\ more = names \cup NewNames(stmt) /\ n = b
  OBVIOUS
<1>6. frames' = q /\ program' = program /\ current_block' = n
  BY <1>5 DEF TransformExpressionStatement, TransformAssignment, TransformReturn, Straight
<1>7. FramesScoped(frames, sc, more)'
  <2>1. FramesScoped(q, sc, more)'
    BY <1>3, <1>5, <1>6, SameScopes
  <2> QED BY <1>6, <2>1
<1> HIDE DEF t
<1>8. ASSUME NEW code, Emitted(code), PhiFree(code), Covered(code, names), more \subseteq names \cup Defined(code)
      PROVE  LET h == AddInstructions(cfg, n, code)
             IN  /\ Scoped(h, sc) /\ n \in h.blocks /\ more \subseteq sc[n] \cup Defined(h.code[n])
                 /\ names \cup Defined(code) \subseteq sc[n] \cup Defined(h.code[n])
  <2> DEFINE h == AddInstructions(cfg, n, code)
  <2>1. /\ Scoped(h, sc) /\ h.blocks = cfg.blocks
        /\ Defined(h.code[n]) = Defined(cfg.code[n]) \cup Defined(code)
    BY <1>1, <1>4, <1>5, <1>8, ScopedInstructions
  <2> HIDE DEF h
  <2>2. names \cup Defined(code) \subseteq sc[n] \cup Defined(h.code[n])
    BY <1>1, <1>5, <2>1
  <2>3. more \subseteq sc[n] \cup Defined(h.code[n]) /\ n \in h.blocks
    BY <1>4, <1>5, <1>8, <2>1, <2>2
  <2> QED BY <2>1, <2>2, <2>3 DEF h
<1>9. Emitted(t.code) /\ PhiFree(t.code) /\ Covered(t.code, names) /\ IsList(t.code)
  BY <1>3 DEF Computes, Emitted
<1>10. CASE TransformExpressionStatement
  <2>1. cfg' = AddInstructions(cfg, n, t.code) /\ stmt.kind # "Declare"
    BY <1>5, <1>10 DEF TransformExpressionStatement, Straight, Reading, t
  <2>2. more = names
    BY <1>5, <2>1 DEF NewNames
  <2>3. Scoped(cfg', sc) /\ more \subseteq sc[n] \cup Defined(cfg'.code[n])
    BY <1>8, <1>9, <2>1, <2>2
  <2> QED BY <1>6, <1>7, <2>3 DEF Scoping
<1>11. CASE TransformReturn
  <2> DEFINE value == IF stmt.expr = <<>> THEN <<>> ELSE <<Value(t)>>
             h == AddInstructions(cfg, n, t.code)
             end == Return(value)
  <2>1. cfg' = AddTerminator(h, n, end) /\ stmt.kind # "Declare"
    BY <1>5, <1>11 DEF TransformReturn, Straight, Reading, t
  <2>2. more = names
    BY <1>5, <2>1 DEF NewNames
  <2>3. /\ Scoped(h, sc) /\ n \in h.blocks /\ more \subseteq sc[n] \cup Defined(h.code[n])
        /\ names \cup Defined(t.code) \subseteq sc[n] \cup Defined(h.code[n])
    BY <1>8, <1>9, <2>2
  <2>4. Syms(value) \subseteq names \cup Defined(t.code)
    <3>1. Syms(<<>>) = {}
      BY EmptyList DEF Syms, SymsOf, RegsOf
    <3> QED BY <1>3, <3>1, ValueNames DEF t
  <2>5. end.args = value /\ DOMAIN end = {"kind", "args", "targets"}
    BY DEF Return
  <2> HIDE DEF value, h, end
  <2>6. /\ Scoped(AddTerminator(h, n, end), sc) /\ AddTerminator(h, n, end).code = h.code
    BY <2>3, <2>4, <2>5, ScopedTerminator
  <2>7. Scoped(cfg', sc) /\ more \subseteq sc[n] \cup Defined(cfg'.code[n])
    BY <2>1, <2>3, <2>6
  <2> QED BY <1>6, <1>7, <2>7 DEF Scoping
<1>12. CASE TransformAssignment
  <2> DEFINE store == Instr("SStore", stmt.ref, {}, <<Value(t)>>)
             copy == Instr("Copy", <<"", 0>>, {Reg(stmt.ref, 0)}, <<Value(t)>>)
             inst == IF stmt.ref \in StateVariable THEN store ELSE copy
             code == Append(t.code, inst)
  <2>1. cfg' = AddInstructions(cfg, n, code) /\ stmt.kind \in {"Assign", "Declare"}
    BY <1>5, <1>12 DEF TransformAssignment, Straight, Reading, t
  <2>2. /\ Instruction(store) /\ store.sources = <<>> /\ store.op # "Phi" /\ store.args = <<Value(t)>>
        /\ Instruction(copy) /\ copy.sources = <<>> /\ copy.op # "Phi" /\ copy.args = <<Value(t)>>
        /\ copy.dest = {Reg(stmt.ref, 0)}
    BY InstrFacts DEF Instr
  <2> HIDE DEF store, copy
  <2>3. /\ Instruction(inst) /\ inst.sources = <<>> /\ inst.op # "Phi" /\ inst.args = <<Value(t)>>
        /\ stmt.ref \notin StateVariable => inst.dest = {Reg(stmt.ref, 0)}
    BY <2>2
  <2>4. Syms(inst.args) \subseteq names \cup Defined(t.code)
    BY <1>3, <2>1, <2>3, ValueNames DEF ResolvedStatement, t
  <2> HIDE DEF inst
  <2>5. Emitted(code) /\ Covered(code, names) /\ Defined(code) = Defined(t.code) \cup SymsOf(inst.dest)
    BY <1>9, <2>3, <2>4, EmittedAppend, CoveredAppend, DefinedParts
  <2>6. PhiFree(code)
    <3> DEFINE o == Const(0)
               e == [code |-> code, operands |-> Append(t.operands, o), next |-> t.next]
    <3>1. DOMAIN e = {"code", "operands", "next"} /\ e.code = code /\ e.operands = Append(t.operands, o)
      OBVIOUS
    <3>2. SymOf(o) = {}
      BY OperandNames
    <3>3. Len(stmt.expr) \in Nat
      BY <1>2, ReadFacts, ListBasics
    <3>4. Computes(t, Len(stmt.expr), names)
      BY <1>3 DEF t
    <3> HIDE DEF e, o
    <3>5. Computes(e, Len(stmt.expr) + 1, names)
      BY <2>3, <2>4, <3>1, <3>2, <3>3, <3>4, OperandAdded
    <3> QED BY <3>1, <3>5 DEF Computes
  <2>7. more \subseteq names \cup Defined(code)
    <3>1. stmt.kind = "Declare" => stmt.ref \in SymsOf(inst.dest)
      <4> SUFFICES ASSUME stmt.kind = "Declare" PROVE stmt.ref \in SymsOf(inst.dest)
        OBVIOUS
      <4>1. inst.dest = {Reg(stmt.ref, 0)}
        BY <1>3, <2>3 DEF ResolvedStatement
      <4> QED BY <4>1, RegFacts DEF SymsOf
    <3> QED BY <1>5, <2>5, <3>1 DEF NewNames
  <2> HIDE DEF code
  <2>8. Scoped(cfg', sc) /\ more \subseteq sc[n] \cup Defined(cfg'.code[n])
    BY <1>8, <2>1, <2>5, <2>6, <2>7
  <2> QED BY <1>6, <1>7, <2>8 DEF Scoping
<1> QED BY <1>10, <1>11, <1>12

(* New blocks may be given any names to start with.                         *)
StartWith(new, g, sc, names) ==
    LET n == Cardinality(g.blocks)
        two == NewBlock(NewBlock(g))
        three == NewBlock(two)
    IN  /\ n \in Nat /\ n # 0 /\ \A b \in g.blocks : new[b] = sc[b]
        /\ new[n] = names /\ new[n + 1] = names /\ new[n + 2] = names
        /\ Scoped(two, new) /\ two.blocks = g.blocks \cup {n, n + 1}
        /\ Scoped(three, new) /\ three.blocks = g.blocks \cup {n, n + 1, n + 2}
        /\ \A b \in g.blocks : two.code[b] = g.code[b] /\ three.code[b] = g.code[b]

(* New blocks start with the names in scope at their opening.               *)
LEMMA BlocksOpen ==
    ASSUME NEW g, NEW sc, Scoped(g, sc), NEW names
    PROVE  \E new : StartWith(new, g, sc, names)
<1> DEFINE n == Cardinality(g.blocks)
           one == NewBlock(g)
           two == NewBlock(one)
           three == NewBlock(two)
           new == [b \in Nat |-> IF b \in g.blocks THEN sc[b] ELSE names]
<1>1. n \in Nat /\ g.blocks = 0 .. n - 1 /\ Graph(g)
  BY GraphFacts DEF Scoped, Graph
<1>2. n # 0
  BY <1>1, NewBlockFacts
<1> HIDE DEF n
<1>3. /\ \A b \in g.blocks : b \in Nat
      /\ n \notin g.blocks /\ n + 1 \notin g.blocks /\ n + 2 \notin g.blocks
      /\ n + 1 \in Nat /\ n + 2 \in Nat
  BY <1>1
<1>4. \A b \in Nat : new[b] = IF b \in g.blocks THEN sc[b] ELSE names
  OBVIOUS
<1> HIDE DEF new
<1>5. Scoped(g, new)
  BY <1>3, <1>4, ScopedAgree
<1>6. /\ Scoped(one, new) /\ one.blocks = g.blocks \cup {n} /\ Cardinality(one.blocks) = n + 1
      /\ \A b \in g.blocks : one.code[b] = g.code[b]
  <2>1. Cardinality(one.blocks) = n + 1
    BY <1>1, NewBlockFacts DEF n
  <2>2. Scoped(one, new) /\ one.blocks = g.blocks \cup {n} /\ \A b \in g.blocks : one.code[b] = g.code[b]
    BY <1>5, ScopedNewBlock DEF n
  <2> QED BY <2>1, <2>2
<1> HIDE DEF one
<1>7. /\ Scoped(two, new) /\ two.blocks = one.blocks \cup {n + 1} /\ Cardinality(two.blocks) = (n + 1) + 1
      /\ \A b \in one.blocks : two.code[b] = one.code[b]
  <2>1. Graph(one)
    BY <1>6 DEF Scoped
  <2>2. Cardinality(two.blocks) = (n + 1) + 1
    BY <1>6, <2>1, NewBlockFacts
  <2>3. /\ Scoped(two, new) /\ two.blocks = one.blocks \cup {n + 1}
        /\ \A b \in one.blocks : two.code[b] = one.code[b]
    BY <1>6, ScopedNewBlock
  <2> QED BY <2>2, <2>3
<1> HIDE DEF two
<1>8. /\ Scoped(three, new) /\ three.blocks = two.blocks \cup {(n + 1) + 1}
      /\ \A b \in two.blocks : three.code[b] = two.code[b]
  BY <1>7, ScopedNewBlock
<1> HIDE DEF three
<1>9. (n + 1) + 1 = n + 2
  BY <1>1
<1>10. /\ two.blocks = g.blocks \cup {n, n + 1} /\ three.blocks = g.blocks \cup {n, n + 1, n + 2}
       /\ \A b \in g.blocks : two.code[b] = g.code[b] /\ three.code[b] = g.code[b]
  BY <1>6, <1>7, <1>8, <1>9
<1>11. \A b \in g.blocks : new[b] = sc[b]
  BY <1>3, <1>4
<1>12. new[n] = names /\ new[n + 1] = names /\ new[n + 2] = names
  BY <1>1, <1>3, <1>4
<1>13. StartWith(new, g, sc, names)
  BY <1>1, <1>2, <1>7, <1>8, <1>10, <1>11, <1>12 DEF StartWith, n, one, two, three
<1> QED BY <1>13

(* A statement that opens blocks: they start with the names in scope.       *)
LEMMA BlockOpens ==
    ASSUME Building, program' = program, NEW sc, NEW names, FramesScoped(AfterStatement, sc, names),
           NEW new, \A b \in cfg.blocks : new[b] = sc[b], Scoped(cfg', new),
           NEW f, f.kind # "body", new[f.blocks.exit] = names, InScope(f.todo, names),
           f.kind = "then" => new[f.blocks.other] = names /\ InScope(f.otherwise, names),
           f.kind = "while" => new[f.blocks.header] = names /\ new[f.blocks.body] = names,
           frames' = <<f>> \o AfterStatement, new[current_block'] = names
    PROVE  Scoping'
<1> DEFINE q == [frames EXCEPT ![1].todo = Tail(frames[1].todo)]
<1>1. q = AfterStatement
  BY DEF AfterStatement
<1>2. Nested(q, cfg)
  BY NestedReads DEF Building
<1> HIDE DEF q
<1>3. FramesScoped(q, new, names)
  BY <1>1, <1>2, ScopedFramesAgree DEF Building
<1>4. FrameScoped(f, new, names)
  BY DEF FrameScoped
<1>5. PICK S : q \in Seq(S)
  BY <1>2 DEF Nested
<1>6. FramesScoped(<<f>> \o q, new, names)
  BY <1>3, <1>4, <1>5, ScopedFramesPush
<1>7. PICK r, b : r = <<f>> \o q /\ b = current_block'
  OBVIOUS
<1>8. FramesScoped(r, new, names)'
  BY <1>6, <1>7, SameScopes
<1>9. frames' = r
  BY <1>1, <1>7
<1>10. FramesScoped(frames, new, names)'
  BY <1>8, <1>9
<1>11. names \subseteq new[current_block'] \cup Defined(cfg'.code[current_block'])
  OBVIOUS
<1> QED BY <1>10, <1>11 DEF Scoping

(* Both branches of an if, and its exit, start with the names before it.    *)
LEMMA IfScopes ==
    ASSUME Building, Written, Resolved(program), Scoping, TransformIf
    PROVE  Scoping'
<1> DEFINE t     == TransformExpression(stmt.expr)
           b     == current_block
           n     == Cardinality(cfg.blocks)
           other == n + 1
           exit  == IF stmt.kind = "IfElse" THEN n + 2 ELSE n + 1
           grown == IF stmt.kind = "IfElse" THEN NewBlock(NewBlock(NewBlock(cfg)))
                    ELSE NewBlock(NewBlock(cfg))
           coded == AddInstructions(grown, b, t.code)
           branch == Branch(Value(t), n, other)
           branched == AddTerminator(coded, b, branch)
           first == AddEdge(branched, b, n)
           f == Frame(IF stmt.kind = "IfElse" THEN "then" ELSE "last", stmt.block,
                      [NoBlocks EXCEPT !.exit = exit, !.other = other], stmt.otherwise)
<1>1. /\ cfg' = AddEdge(first, b, other) /\ current_block' = n /\ program' = program
      /\ frames' = <<f>> \o AfterStatement /\ Reading({"If", "IfElse"})
  BY DEF TransformIf
<1>2. /\ f.kind = (IF stmt.kind = "IfElse" THEN "then" ELSE "last")
      /\ f.blocks.exit = exit /\ f.blocks.other = other
      /\ f.todo = stmt.block /\ f.otherwise = stmt.otherwise
  BY DEF Frame, NoBlocks
<1> HIDE DEF f
<1>3. PICK sc, names : /\ Scoped(cfg, sc) /\ FramesScoped(frames, sc, names)
                       /\ names \subseteq sc[b] \cup Defined(cfg.code[b])
  BY DEF Scoping
<1>4. /\ Computes(t, Len(stmt.expr), names)
      /\ stmt.expr # <<>> => SymOf(Value(t)) \subseteq names \cup Defined(t.code)
      /\ ResolvedStatement(stmt, names) /\ stmt.kind \in {"If", "IfElse"}
      /\ FramesScoped(AfterStatement, sc, names \cup NewNames(stmt))
      /\ InScope(stmt.block, names) /\ InScope(stmt.otherwise, names)
  BY <1>1, <1>3, StatementScoped
<1>5. FramesScoped(AfterStatement, sc, names) /\ SymOf(Value(t)) \subseteq names \cup Defined(t.code)
  <2>1. names \cup NewNames(stmt) = names
    BY <1>4 DEF NewNames
  <2>2. stmt.expr # <<>>
    BY <1>4 DEF ResolvedStatement
  <2> HIDE DEF t
  <2> QED BY <1>4, <2>1, <2>2
<1>6. b \in cfg.blocks
  BY ReachedFacts DEF Building
<1>7. PICK new :
         /\ n \in Nat /\ n # 0 /\ \A d \in cfg.blocks : new[d] = sc[d]
         /\ new[n] = names /\ new[other] = names /\ new[exit] = names
         /\ Scoped(grown, new) /\ cfg.blocks \cup {n, other} \subseteq grown.blocks
         /\ grown.code[b] = cfg.code[b]
  <2>0. PICK new : StartWith(new, cfg, sc, names)
    BY <1>3, BlocksOpen
  <2>1.   /\ n \in Nat /\ n # 0 /\ \A d \in cfg.blocks : new[d] = sc[d]
         /\ new[n] = names /\ new[n + 1] = names /\ new[n + 2] = names
         /\ Scoped(NewBlock(NewBlock(cfg)), new)
         /\ NewBlock(NewBlock(cfg)).blocks = cfg.blocks \cup {n, n + 1}
         /\ Scoped(NewBlock(NewBlock(NewBlock(cfg))), new)
         /\ NewBlock(NewBlock(NewBlock(cfg))).blocks = cfg.blocks \cup {n, n + 1, n + 2}
         /\ \A d \in cfg.blocks : /\ NewBlock(NewBlock(cfg)).code[d] = cfg.code[d]
                                  /\ NewBlock(NewBlock(NewBlock(cfg))).code[d] = cfg.code[d]
    BY <2>0 DEF StartWith, n
  <2>2. CASE stmt.kind = "IfElse"
    <3>1. grown = NewBlock(NewBlock(NewBlock(cfg))) /\ exit = n + 2
      BY <2>2
    <3> HIDE DEF grown, exit, n
    <3> QED BY <1>6, <2>1, <3>1
  <2>3. CASE stmt.kind # "IfElse"
    <3>1. grown = NewBlock(NewBlock(cfg)) /\ exit = n + 1
      BY <2>3
    <3> HIDE DEF grown, exit, n
    <3> QED BY <1>6, <2>1, <3>1
  <2> QED BY <2>2, <2>3
<1> HIDE DEF grown, t, exit
<1>8. other # 0
  <2> HIDE DEF n
  <2> QED BY <1>7
<1> HIDE DEF n, other
<1>9. Emitted(t.code) /\ PhiFree(t.code) /\ Covered(t.code, names)
  BY <1>4 DEF Computes, t
<1>10. /\ Scoped(coded, new) /\ coded.blocks = grown.blocks
       /\ names \cup Defined(t.code) \subseteq new[b] \cup Defined(coded.code[b])
  <2>1. /\ Scoped(coded, new) /\ coded.blocks = grown.blocks
        /\ Defined(coded.code[b]) = Defined(grown.code[b]) \cup Defined(t.code)
    <3>1. names \subseteq new[b] \cup Defined(grown.code[b]) /\ b \in grown.blocks
      BY <1>3, <1>6, <1>7
    <3> QED BY <1>7, <1>9, <3>1, ScopedInstructions
  <2> HIDE DEF coded
  <2> QED BY <1>3, <1>6, <1>7, <2>1
<1> HIDE DEF coded
<1>11. Scoped(branched, new) /\ branched.blocks = coded.blocks /\ branched.code = coded.code
  <2>1. branch.args = <<Value(t)>> /\ DOMAIN branch = {"kind", "args", "targets"}
    BY DEF Branch
  <2> HIDE DEF branch
  <2>2. Syms(branch.args) \subseteq new[b] \cup Defined(coded.code[b])
    <3>1. SymOf(Value(t)) \subseteq new[b] \cup Defined(coded.code[b])
      BY <1>5, <1>10 DEF t
    <3> QED BY <2>1, <3>1, ValueNames
  <2>3. b \in coded.blocks
    BY <1>6, <1>7, <1>10
  <2> QED BY <1>10, <2>1, <2>2, <2>3, ScopedTerminator
<1> HIDE DEF branched
<1>12. Scoped(first, new) /\ first.blocks = branched.blocks /\ first.code = branched.code
  <2>1. b \in branched.blocks /\ n \in branched.blocks /\ n # 0
        /\ new[n] \subseteq new[b] \cup Defined(branched.code[b])
    BY <1>6, <1>7, <1>10, <1>11
  <2> QED BY <1>11, <2>1, ScopedEdge
<1> HIDE DEF first
<1>13. Scoped(cfg', new)
  <2>1. b \in first.blocks /\ other \in first.blocks /\ other # 0
        /\ new[other] \subseteq new[b] \cup Defined(first.code[b])
    BY <1>6, <1>7, <1>8, <1>10, <1>11, <1>12
  <2> QED BY <1>1, <1>12, <2>1, ScopedEdge
<1>14. f.kind # "body" /\ f.kind # "while"
  BY <1>2
<1> QED BY <1>1, <1>2, <1>4, <1>5, <1>7, <1>13, <1>14, BlockOpens

(* So do the header, the body and the exit of a while.                      *)
LEMMA WhileScopes ==
    ASSUME Building, Written, Resolved(program), Scoping, TransformWhile
    PROVE  Scoping'
<1> DEFINE header == Cardinality(cfg.blocks)
           body   == header + 1
           exit   == header + 2
           b      == current_block
           t      == TransformExpression(stmt.expr)
           grown  == NewBlock(NewBlock(NewBlock(cfg)))
           in     == Jump(header)
           jumps  == AddTerminator(grown, b, in)
           entered == AddEdge(jumps, b, header)
           coded  == AddInstructions(entered, header, t.code)
           branch == Branch(Value(t), body, exit)
           branched == AddTerminator(coded, header, branch)
           inside == AddEdge(branched, header, body)
           f == Frame("while", stmt.block,
                      [NoBlocks EXCEPT !.header = header, !.body = body, !.exit = exit], <<>>)
<1>1. /\ cfg' = AddEdge(inside, body, header) /\ current_block' = body /\ program' = program
      /\ frames' = <<f>> \o AfterStatement /\ Reading({"While"})
  BY DEF TransformWhile
<1>2. /\ f.kind = "while" /\ f.blocks.exit = exit /\ f.blocks.body = body /\ f.blocks.header = header
      /\ f.todo = stmt.block
  BY DEF Frame, NoBlocks
<1> HIDE DEF f
<1>3. PICK sc, names : /\ Scoped(cfg, sc) /\ FramesScoped(frames, sc, names)
                       /\ names \subseteq sc[b] \cup Defined(cfg.code[b])
  BY DEF Scoping
<1>4. /\ Computes(t, Len(stmt.expr), names)
      /\ stmt.expr # <<>> => SymOf(Value(t)) \subseteq names \cup Defined(t.code)
      /\ ResolvedStatement(stmt, names) /\ stmt.kind = "While"
      /\ FramesScoped(AfterStatement, sc, names \cup NewNames(stmt))
      /\ InScope(stmt.block, names)
  <2>1. PICK kinds : kinds = {"While"} /\ Reading(kinds)
    BY <1>1
  <2> HIDE DEF t
  <2>2. stmt.kind \in kinds => stmt.kind = "While"
    BY <2>1
  <2> QED BY <1>3, <2>1, <2>2, StatementScoped DEF t
<1>5. FramesScoped(AfterStatement, sc, names) /\ SymOf(Value(t)) \subseteq names \cup Defined(t.code)
  <2>1. names \cup NewNames(stmt) = names
    BY <1>4 DEF NewNames
  <2>2. stmt.expr # <<>>
    BY <1>4 DEF ResolvedStatement
  <2> HIDE DEF t
  <2> QED BY <1>4, <2>1, <2>2
<1>6. b \in cfg.blocks
  BY ReachedFacts DEF Building
<1>7. PICK new :
         /\ header \in Nat /\ header # 0 /\ \A d \in cfg.blocks : new[d] = sc[d]
         /\ new[header] = names /\ new[body] = names /\ new[exit] = names
         /\ Scoped(grown, new) /\ grown.blocks = cfg.blocks \cup {header, body, exit}
         /\ \A d \in cfg.blocks : grown.code[d] = cfg.code[d]
  <2>1. PICK new : StartWith(new, cfg, sc, names)
    BY <1>3, BlocksOpen
  <2> QED BY <2>1 DEF StartWith
<1>8. body # 0
  <2> HIDE DEF header
  <2> QED BY <1>7
<1> HIDE DEF header, body, exit, grown, t
<1>9. Emitted(t.code) /\ PhiFree(t.code) /\ Covered(t.code, names)
  BY <1>4 DEF Computes, t
<1>10. Scoped(jumps, new) /\ jumps.blocks = grown.blocks /\ jumps.code = grown.code
  <2>1. in.args = <<>> /\ DOMAIN in = {"kind", "args", "targets"}
    BY DEF Jump
  <2>2. Syms(in.args) = {}
    BY <2>1, EmptyList DEF Syms, SymsOf, RegsOf
  <2>3. b \in grown.blocks
    BY <1>6, <1>7
  <2> HIDE DEF in
  <2> QED BY <1>7, <2>1, <2>2, <2>3, ScopedTerminator
<1> HIDE DEF jumps
<1>11. Scoped(entered, new) /\ entered.blocks = jumps.blocks /\ entered.code = jumps.code
  <2>1. b \in jumps.blocks /\ header \in jumps.blocks /\ header # 0
        /\ new[header] \subseteq new[b] \cup Defined(jumps.code[b])
    BY <1>3, <1>6, <1>7, <1>10
  <2> QED BY <1>10, <2>1, ScopedEdge
<1> HIDE DEF entered
<1>12. /\ Scoped(coded, new) /\ coded.blocks = entered.blocks
       /\ names \cup Defined(t.code) \subseteq new[header] \cup Defined(coded.code[header])
  <2>1. header \in entered.blocks /\ names \subseteq new[header] \cup Defined(entered.code[header])
    BY <1>7, <1>10, <1>11
  <2>2. /\ Scoped(coded, new) /\ coded.blocks = entered.blocks
        /\ Defined(coded.code[header]) = Defined(entered.code[header]) \cup Defined(t.code)
    BY <1>9, <1>11, <2>1, ScopedInstructions
  <2> HIDE DEF coded
  <2> QED BY <1>7, <2>2
<1> HIDE DEF coded
<1>13. Scoped(branched, new) /\ branched.blocks = coded.blocks
  <2>1. branch.args = <<Value(t)>> /\ DOMAIN branch = {"kind", "args", "targets"}
    BY DEF Branch
  <2> HIDE DEF branch
  <2>2. Syms(branch.args) \subseteq new[header] \cup Defined(coded.code[header])
    <3>1. SymOf(Value(t)) \subseteq new[header] \cup Defined(coded.code[header])
      BY <1>5, <1>12 DEF t
    <3> QED BY <2>1, <3>1, ValueNames
  <2>3. header \in coded.blocks
    BY <1>7, <1>10, <1>11, <1>12
  <2> QED BY <1>12, <2>1, <2>2, <2>3, ScopedTerminator
<1> HIDE DEF branched
<1>14. Scoped(inside, new) /\ inside.blocks = branched.blocks
  <2>1. header \in branched.blocks /\ body \in branched.blocks
        /\ new[body] \subseteq new[header] \cup Defined(branched.code[header])
    BY <1>7, <1>10, <1>11, <1>12, <1>13
  <2> QED BY <1>8, <1>13, <2>1, ScopedEdge
<1> HIDE DEF inside
<1>15. Scoped(cfg', new)
  <2>1. header \in inside.blocks /\ body \in inside.blocks
        /\ new[header] \subseteq new[body] \cup Defined(inside.code[body])
    BY <1>7, <1>10, <1>11, <1>12, <1>13, <1>14
  <2> QED BY <1>1, <1>7, <1>14, <2>1, ScopedEdge
<1>16. /\ f.kind # "body" /\ f.kind # "then" /\ f.kind = "while"
       /\ new[f.blocks.exit] = names /\ new[f.blocks.header] = names /\ new[f.blocks.body] = names
       /\ InScope(f.todo, names) /\ new[current_block'] = names
  BY <1>1, <1>2, <1>4, <1>7
<1>17. \A d \in cfg.blocks : new[d] = sc[d]
  BY <1>7
<1> QED BY <1>1, <1>5, <1>15, <1>16, <1>17, BlockOpens

(* The end of a body has the names its exit counts on.                      *)
LEMMA JoinScopes ==
    ASSUME NEW sc, Scoped(cfg, sc), current_block \in cfg.blocks, NEW exit \in cfg.blocks, exit # 0,
           sc[exit] \subseteq sc[current_block] \cup Defined(cfg.code[current_block])
    PROVE  Scoped(JoinExit(cfg, exit), sc) /\ JoinExit(cfg, exit).code = cfg.code
<1> DEFINE joined == AddEdge(cfg, current_block, exit)
           out == Jump(exit)
           h == JoinExit(cfg, exit)
<1>1. Scoped(joined, sc) /\ joined.blocks = cfg.blocks /\ joined.code = cfg.code
  BY ScopedEdge
<1>2. h = joined \/ h = AddTerminator(joined, current_block, out)
  BY DEF JoinExit
<1>3. out.args = <<>> /\ DOMAIN out = {"kind", "args", "targets"} /\ Syms(<<>>) = {}
  BY EmptyList DEF Jump, Syms, SymsOf, RegsOf
<1> HIDE DEF joined, out, h
<1>4. Scoped(AddTerminator(joined, current_block, out), sc) /\ AddTerminator(joined, current_block, out).code = joined.code
  BY <1>1, <1>3, ScopedTerminator
<1> QED BY <1>1, <1>2, <1>4 DEF h

(* The innermost frame and the others, when its block has ended.            *)
LEMMA FrameEnds ==
    ASSUME Building, NEW sc, NEW names, FramesScoped(frames, sc, names)
    PROVE  /\ FrameFits(frames[1], cfg) /\ FrameScoped(frames[1], sc, names)
           /\ FramesScoped(Tail(frames), sc, sc[frames[1].blocks.exit])
           /\ \E S : Tail(frames) \in Seq(S)
<1>1. PICK S : frames \in Seq(S) /\ frames # <<>>
  BY DEF Building, Nested
<1>2. Tail(frames) \in Seq(S)
  BY <1>1
<1> QED BY <1>1, <1>2, InnermostFits, ScopedFramesPop

(* The end of a body keeps the scopes.                                      *)
LEMMA EndsScope ==
    ASSUME Building, Scoping, EndThen \/ EndIf \/ EndWhile
    PROVE  Scoping'
<1>1. PICK sc, names : /\ Scoped(cfg, sc) /\ FramesScoped(frames, sc, names)
                       /\ names \subseteq sc[current_block] \cup Defined(cfg.code[current_block])
  BY DEF Scoping
<1> DEFINE b == frames[1].blocks
           rest == Tail(frames)
<1>2. /\ FrameFits(frames[1], cfg) /\ FrameScoped(frames[1], sc, names)
      /\ FramesScoped(rest, sc, sc[b.exit])
      /\ \E S : rest \in Seq(S)
  BY <1>1, FrameEnds
<1>3. current_block \in cfg.blocks /\ Reached(cfg) \subseteq cfg.blocks
  BY ReachedFacts DEF Building
<1>4. frames[1].kind # "body" /\ program' = program
  BY DEF EndThen, EndIf, EndWhile, BlockEnds
<1>5. b.exit \in cfg.blocks /\ b.exit # 0 /\ sc[b.exit] \subseteq names
  BY <1>2, <1>4 DEF FrameFits, FrameScoped
<1> HIDE DEF b, rest
<1>6. PICK r, here : r = rest /\ here = sc[b.exit]
  OBVIOUS
<1>7. CASE EndThen \/ EndIf
  <2>1. cfg' = JoinExit(cfg, b.exit)
    BY <1>7 DEF EndThen, EndIf, b
  <2>2. Scoped(cfg', sc)
    BY <1>1, <1>3, <1>5, <2>1, JoinScopes
  <2>3. CASE EndIf
    <3>1. frames' = r /\ current_block' = b.exit
      BY <1>6, <2>3 DEF EndIf, b, rest
    <3>2. FramesScoped(r, sc, here)'
      BY <1>2, <1>4, <1>6, SameScopes
    <3>3. FramesScoped(frames, sc, here)'
      BY <3>1, <3>2
    <3> QED BY <1>6, <2>2, <3>1, <3>3 DEF Scoping
  <2>4. CASE EndThen
    <3> DEFINE f == Frame("last", frames[1].otherwise, frames[1].blocks, <<>>)
    <3>1. frames' = <<f>> \o rest /\ current_block' = b.other /\ frames[1].kind = "then"
      BY <2>4 DEF EndThen, BlockEnds, rest, b
    <3>2. f.kind = "last" /\ f.blocks = b /\ f.todo = frames[1].otherwise
      BY DEF Frame, b
    <3> HIDE DEF f
    <3>3. sc[b.other] = here /\ InScope(frames[1].otherwise, here)
      BY <1>2, <1>6, <3>1 DEF FrameScoped, b
    <3>4. FrameScoped(f, sc, here)
      BY <1>6, <3>2, <3>3 DEF FrameScoped
    <3>5. FramesScoped(<<f>> \o rest, sc, here)
      BY <1>2, <1>6, <3>2, <3>4, ScopedFramesPush
    <3>6. PICK q : q = <<f>> \o rest
      OBVIOUS
    <3>7. FramesScoped(q, sc, here)'
      BY <1>4, <3>5, <3>6, SameScopes
    <3>8. FramesScoped(frames, sc, here)'
      BY <3>1, <3>6, <3>7
    <3> QED BY <2>2, <3>1, <3>3, <3>8 DEF Scoping
  <2> QED BY <1>7, <2>3, <2>4
<1>8. CASE EndWhile
  <2> DEFINE out == Jump(b.header)
             g == AddTerminator(cfg, BackJumpFrom(b), out)
  <2>1. /\ cfg' = AddEdge(g, b.header, b.exit) /\ current_block' = b.exit /\ frames' = r
        /\ frames[1].kind = "while"
    BY <1>6, <1>8 DEF EndWhile, BlockEnds, b, rest
  <2>2. /\ b.body \in cfg.blocks /\ b.header \in cfg.blocks
        /\ sc[b.header] = sc[b.exit]
    BY <1>2, <1>3, <2>1 DEF FrameFits, FrameScoped, b
  <2>3. out.args = <<>> /\ DOMAIN out = {"kind", "args", "targets"} /\ Syms(<<>>) = {}
    BY EmptyList DEF Jump, Syms, SymsOf, RegsOf
  <2>4. BackJumpFrom(b) = b.body
    BY DEF BackJumpFrom
  <2> HIDE DEF out
  <2>5. Scoped(g, sc) /\ g.blocks = cfg.blocks
    BY <1>1, <2>2, <2>3, <2>4, ScopedTerminator
  <2> HIDE DEF g
  <2>6. Scoped(cfg', sc)
    BY <1>5, <2>1, <2>2, <2>5, ScopedEdge
  <2>7. FramesScoped(r, sc, here)'
    BY <1>2, <1>4, <1>6, SameScopes
  <2>8. FramesScoped(frames, sc, here)'
    BY <2>1, <2>7
  <2> QED BY <1>6, <2>1, <2>6, <2>8 DEF Scoping
<1> QED BY <1>7, <1>8

(* The graph SsaBuilder hands on is scoped.                                 *)
LEMMA BuildEndsScoped ==
    ASSUME Building, Scoping, FinishBuild
    PROVE  NoPhis(cfg') /\ \E sc : ScopedBy(cfg', sc)
<1>1. PICK sc : Scoped(cfg, sc)
  BY DEF Scoping
<1>2. current_block \in cfg.blocks
  BY ReachedFacts DEF Building
<1> DEFINE end == Return(<<>>)
<1>3. cfg' = cfg \/ cfg' = AddTerminator(cfg, current_block, end)
  BY DEF FinishBuild
<1>4. end.args = <<>> /\ DOMAIN end = {"kind", "args", "targets"} /\ Syms(<<>>) = {}
  BY EmptyList DEF Return, Syms, SymsOf, RegsOf
<1> HIDE DEF end
<1>5. Scoped(AddTerminator(cfg, current_block, end), sc)
  BY <1>1, <1>2, <1>4, ScopedTerminator
<1>6. Scoped(cfg', sc)
  BY <1>1, <1>3, <1>5
<1> QED BY <1>6 DEF Scoped

(* The body of a function is one of its scopes, however deep they nest.     *)
LEMMA BodyIsScope ==
    ASSUME NEW p
    PROVE  <<p.body, ToSet(p.params)>> \in Scopes(p)
<1> DEFINE body == <<p.body, ToSet(p.params)>>
           more(outer) == outer \cup UNION {UNION {Inner(s, i) : i \in DOMAIN s[1]} : s \in outer}
           rec(k, f) == [n \in 0 .. k |-> IF n = 0 THEN {body} ELSE more(f[n-1])]
           S == {k \in Nat : \E f : f = rec(k, f)}
           nested == CHOOSE f : f = rec(Depth, f)
<1>1. Scopes(p) = nested[Depth]
  BY DEF Scopes
<1>2. \A outer : body \in outer => body \in more(outer)
  OBVIOUS
<1> HIDE DEF more, body
<1>3. 0 \in S
  <2> DEFINE f == [n \in 0 .. 0 |-> {body}]
  <2>1. f = rec(0, f)
    OBVIOUS
  <2> HIDE DEF f, rec
  <2> QED BY <2>1
<1>4. ASSUME NEW k \in Nat, k \in S PROVE k + 1 \in S
  <2>1. PICK f : f = rec(k, f)
    BY <1>4
  <2> DEFINE g == [n \in 0 .. k + 1 |-> IF n = k + 1 THEN more(f[k]) ELSE f[n]]
             h == rec(k + 1, g)
  <2>2. ASSUME NEW n \in 0 .. k + 1 PROVE g[n] = h[n]
    <3>1. h[n] = IF n = 0 THEN {body} ELSE more(g[n-1])
      OBVIOUS
    <3>2. CASE n = k + 1
      <4>1. n - 1 = k /\ n # 0 /\ k \in 0 .. k + 1 /\ k # k + 1
        BY <3>2
      <4>2. g[n-1] = f[k] /\ g[n] = more(f[k])
        BY <3>2, <4>1
      <4> HIDE DEF g, h
      <4> QED BY <3>1, <4>1, <4>2
    <3>3. CASE n # k + 1
      <4>1. n \in 0 .. k /\ (n # 0 => n - 1 \in 0 .. k /\ n - 1 \in 0 .. k + 1 /\ n - 1 # k + 1)
        BY <3>3
      <4>2. g[n] = f[n] /\ (n # 0 => g[n-1] = f[n-1])
        BY <3>3, <4>1
      <4>3. f[n] = IF n = 0 THEN {body} ELSE more(f[n-1])
        BY <2>1, <4>1
      <4> HIDE DEF g, h
      <4> QED BY <3>1, <4>2, <4>3
    <3> QED BY <3>2, <3>3
  <2>3. g = h
    <3>1. g = [n \in 0 .. k + 1 |-> g[n]] /\ h = [n \in 0 .. k + 1 |-> h[n]]
      OBVIOUS
    <3> HIDE DEF g, h
    <3> QED BY <2>2, <3>1
  <2> HIDE DEF g, rec
  <2> QED BY <2>3
<1>5. Depth \in S
  <2> HIDE DEF S
  <2>1. Nat \subseteq S
    BY <1>3, <1>4, Induction
  <2> QED BY <2>1, DepthAssumption
<1>6. nested = rec(Depth, nested)
  <2>1. \E f : f = rec(Depth, f)
    BY <1>5
  <2> HIDE DEF rec
  <2> QED BY <2>1, Zenon
<1> HIDE DEF nested
<1>7. nested[0] = {body} /\ \A n \in 1 .. Depth : nested[n] = more(nested[n-1])
  <2>1. 0 \in 0 .. Depth /\ \A n \in 1 .. Depth : n \in 0 .. Depth /\ n # 0
    BY DepthAssumption
  <2> QED BY <1>6, <2>1
<1> DEFINE T == {k \in Nat : k <= Depth => body \in nested[k]}
<1>8. 0 \in T
  BY <1>7
<1>9. ASSUME NEW k \in Nat, k \in T PROVE k + 1 \in T
  <2> SUFFICES ASSUME k + 1 <= Depth PROVE body \in nested[k + 1]
    OBVIOUS
  <2>1. k <= Depth /\ k + 1 \in 1 .. Depth /\ (k + 1) - 1 = k
    BY DepthAssumption
  <2> QED BY <1>2, <1>7, <1>9, <2>1
<1>10. Depth \in T
  <2> HIDE DEF T
  <2>1. Nat \subseteq T
    BY <1>8, <1>9, Induction
  <2> QED BY <2>1, DepthAssumption
<1> QED BY <1>1, <1>10, DepthAssumption DEF body

(* The parameters are the names to start with.                              *)
LEMMA ScopesStart ==
    ASSUME Init
    PROVE  Resolved(program) /\ Scoping
<1> DEFINE params == [i \in DOMAIN program.params |-> Reg(program.params[i], 0)]
<1>1. Resolved(program)
  BY ResolvedAssumption DEF Init, InitBuilder
<1>2. PICK names : names = ToSet(program.params)
  OBVIOUS
<1>3. PICK f : f = Frame("body", program.body, NoBlocks, <<>>)
  OBVIOUS
<1>4. cfg = NewCfg(params) /\ current_block = 0 /\ frames = <<f>>
  BY <1>3 DEF Init, InitBuilder, InitPass
<1>5. f.kind = "body" /\ f.todo = program.body
  BY <1>3 DEF Frame
<1>6. InScope(program.body, names)
  <2>1. \A x, y : <<x, y>>[1] = x /\ <<x, y>>[2] = y
    OBVIOUS
  <2>2. <<program.body, names>> \in Scopes(program)
    BY <1>2, BodyIsScope
  <2> QED BY <1>1, <2>1, <2>2, BlockInScope
<1>7. PICK sc : sc = [b \in {0} |-> names]
  OBVIOUS
<1>8. sc[0] = names
  BY <1>7
<1>9. FramesScoped(frames, sc, names)
  <2>1. DOMAIN frames = {1} /\ frames[1] = f
    BY <1>4
  <2>2. FrameScoped(f, sc, names) /\ NamesHere(frames, sc, names, 1) = names
    BY <1>5, <1>6 DEF FrameScoped, NamesHere
  <2> QED BY <2>1, <2>2 DEF FramesScoped
<1>10. names \subseteq SymsOf(ToSet(params))
  <2> SUFFICES ASSUME NEW x \in names PROVE x \in SymsOf(ToSet(params))
    OBVIOUS
  <2>1. PICK i \in DOMAIN program.params : x = program.params[i]
    BY <1>2 DEF ToSet
  <2>2. i \in DOMAIN params /\ params[i] = Reg(x, 0)
    BY <2>1
  <2> HIDE DEF params
  <2>3. Reg(x, 0) \in ToSet(params) /\ Reg(x, 0).sym = x
    BY <2>2, RegFacts DEF ToSet
  <2> QED BY <2>3 DEF SymsOf
<1> HIDE DEF params
<1>11. /\ cfg.entry = 0 /\ cfg.blocks = {0} /\ cfg.params = params
       /\ cfg.code[0] = <<>> /\ cfg.term[0] = Unreachable /\ cfg.succ[0] = <<>>
  BY <1>4 DEF NewCfg
<1>12. Successors(cfg, 0) = {} /\ Covered(<<>>, sc[0]) /\ Syms(Unreachable.args) = {} /\ PhiFree(<<>>)
  BY <1>11, EmptyList DEF Successors, Covered, Unreachable, Syms, SymsOf, RegsOf, PhiFree
<1>13. ScopedBy(cfg, sc) /\ NoPhis(cfg)
  BY <1>8, <1>10, <1>11, <1>12 DEF ScopedBy, NoPhis
<1>14. Graph(cfg) /\ Plain(cfg)
  BY AnalysisStarts, CodeStarts DEF AnalysisInv
<1>15. Scoped(cfg, sc)
  BY <1>13, <1>14 DEF Scoped
<1> QED BY <1>1, <1>4, <1>8, <1>9, <1>15 DEF Scoping

-----------------------------------------------------------------------------
(* Why renaming finds a version of every name: block by block the builder   *)
(* keeps to the scopes, phis stand wherever a definition meets the lack of  *)
(* one, so a name in scope is defined in a dominator, and the stacks hold   *)
(* what the blocks on the path from the entry define.                      *)
NamesInv ==
    /\ ~ undefined
    /\ phase = "build" => Resolved(program) /\ Scoping
    /\ phase \in {"order", "dominance", "loops", "phis"} => NoPhis(cfg) /\ \E sc : ScopedBy(cfg, sc)
    /\ phase = "phis" => FrontierEnds
    /\ phase = "place" => Placing
    /\ phase = "rename" => Supplied /\ Covering /\ Fed
    /\ phase = "renamed" => Sourced

(* Every step of SsaBuilder keeps the scopes.                               *)
LEMMA BuilderScopes ==
    ASSUME NamesInv, AnalysisInv, RenamingInv, NextBuilder, UNCHANGED <<dominance, renamer, lowering>>
    PROVE  NamesInv'
<1>1. phase = "build" /\ undefined' = undefined
  BY DEF NextBuilder, TransformExpressionStatement, TransformAssignment, TransformReturn,
         TransformIf, EndThen, EndIf, TransformWhile, EndWhile, FinishBuild, Reading, BlockEnds, renamer
<1>2. Building /\ Written /\ Resolved(program) /\ Scoping
  BY <1>1 DEF AnalysisInv, RenamingInv, NamesInv
<1>3. CASE FinishBuild
  <2>1. phase' = "order"
    BY <1>3 DEF FinishBuild
  <2>2. NoPhis(cfg') /\ \E sc : ScopedBy(cfg', sc)
    BY <1>2, <1>3, BuildEndsScoped
  <2> QED BY <1>1, <2>1, <2>2 DEF NamesInv
<1>4. CASE ~ FinishBuild
  <2>1. phase' = "build" /\ program' = program
    BY <1>1, <1>4 DEF NextBuilder, TransformExpressionStatement, TransformAssignment, TransformReturn,
         TransformIf, EndThen, EndIf, TransformWhile, EndWhile, Straight
  <2>2. Scoping'
    BY <1>2, <1>4, StraightScopes, IfScopes, WhileScopes, EndsScope DEF NextBuilder
  <2>3. Resolved(program)'
    BY <1>2, <2>1
  <2> QED BY <1>1, <2>1, <2>2, <2>3 DEF NamesInv
<1> QED BY <1>3, <1>4

(* So does the analysis, and its frontiers are where dominance ends.        *)
LEMMA AnalysisKeepsScopes ==
    ASSUME NamesInv, AnalysisInv, Analyse
    PROVE  NamesInv'
<1>1. /\ phase \in {"order", "dominance", "loops"} /\ phase' \in {"order", "dominance", "loops", "phis"}
      /\ cfg' = cfg /\ undefined' = undefined
      /\ phase' = "phis" => phase = "loops" /\ frontier' = frontier /\ idom' = idom
  BY DEF Analyse, NextDominance, StartSearch, VisitSuccessor, LeaveBlock, StartDominance, ComputeIdom, NextRound,
         FinishDominance, BuildLoopForest, renamer, fixpoint
<1>2. NoPhis(cfg') /\ \E sc : ScopedBy(cfg', sc)
  BY <1>1 DEF NamesInv
<1>3. ASSUME phase' = "phis" PROVE FrontierEnds'
  <2>1. FrontierEnds
    BY <1>1, <1>3 DEF AnalysisInv, FrontiersAtDominanceEnds, FrontierEnds
  <2>2. \A b : Dominators(b)' = Dominators(b)
    BY <1>1, <1>3, SameDominators
  <2> QED BY <1>1, <1>3, <2>1, <2>2 DEF FrontierEnds
<1> QED BY <1>1, <1>2, <1>3 DEF NamesInv

(* Renaming finds a version of every name, and a source for every phi.      *)
LEMMA RenamingFindsNames ==
    ASSUME NamesInv, AnalysisInv, RenamingInv, NextRenaming
    PROVE  NamesInv'
<1>1. CASE CollectDefSites
  <2>1. phase = "phis" /\ phase' = "place" /\ undefined' = undefined
    BY <1>1 DEF CollectDefSites
  <2>2. PICK sc : ScopedBy(cfg, sc) /\ NoPhis(cfg) /\ FrontierEnds
    BY <2>1 DEF NamesInv
  <2>3. Placing'
    BY <1>1, <2>2, PlacingStarts
  <2> QED BY <2>1, <2>3 DEF NamesInv
<1>2. CASE PlacePhis
  <2>1. phase = "place" /\ phase' = "place" /\ undefined' = undefined
    BY <1>2 DEF PlacePhis
  <2>2. Graph(cfg) /\ Coded(cfg) /\ Placing
    BY <2>1 DEF NamesInv, AnalysisInv, RenamingInv, Prepared, Plain
  <2>3. Placing'
    BY <1>2, <2>2, PlacingGoesOn
  <2> QED BY <2>1, <2>3 DEF NamesInv
<1>3. CASE RenameEntry
  <2>1. phase = "place" /\ phase' = "rename" /\ symbols = {}
    BY <1>3 DEF RenameEntry
  <2>2. Analysed /\ Placing /\ Prepared /\ Coded(cfg)
    BY <2>1 DEF NamesInv, AnalysisInv, RenamingInv, Prepared, Plain, Analysed
  <2>3. Supplied
    BY <2>1, <2>2, ScopedIsSupplied DEF Placing
  <2>4. ~ undefined' /\ Supplied' /\ Covering'
    BY <1>3, <2>2, <2>3, CoveringStarts DEF Prepared
  <2>5. Fed'
    BY <1>3, <2>2, <2>3, FedStarts DEF Prepared, Placing
  <2> QED BY <2>1, <2>4, <2>5 DEF NamesInv
<1>4. CASE RenameChild \/ LeaveRenamed
  <2>1. phase = "rename" /\ ~ undefined
    BY <1>4 DEF RenameChild, LeaveRenamed
  <2>2. Analysed /\ Walk /\ Supplied /\ Covering /\ Fed
    BY <2>1 DEF NamesInv, AnalysisInv, RenamingInv, Analysed
  <2>3. CASE RenameChild
    <3>1. phase' = "rename"
      BY <2>1, <2>3 DEF RenameChild
    <3>2. ~ undefined' /\ Supplied' /\ Covering'
      BY <2>2, <2>3, CoveringGoesOn
    <3>3. Fed'
      BY <2>2, <2>3, FedGoesOn
    <3> QED BY <3>1, <3>2, <3>3 DEF NamesInv
  <2>4. CASE LeaveRenamed
    <3>1. phase' = IF Tail(renaming) = <<>> THEN "renamed" ELSE "rename"
      BY <2>4 DEF LeaveRenamed
    <3>2. ~ undefined' /\ (Tail(renaming) # <<>> => Supplied' /\ Covering')
      BY <2>2, <2>4, CoveringLeaves
    <3>3. IF Tail(renaming) = <<>> THEN Sourced' ELSE Fed'
      BY <2>2, <2>4, FedLeaves
    <3> QED BY <3>1, <3>2, <3>3 DEF NamesInv
  <2> QED BY <1>4, <2>3, <2>4
<1> QED BY <1>1, <1>2, <1>3, <1>4 DEF NextRenaming

(* The invariant is one of the state.                                       *)
LEMMA NamesStutter ==
    ASSUME NamesInv, UNCHANGED vars
    PROVE  NamesInv'
<1>1. /\ phase' = phase /\ cfg' = cfg /\ program' = program /\ frames' = frames /\ current_block' = current_block
      /\ frontier' = frontier /\ idom' = idom /\ symbols' = symbols
      /\ counters' = counters /\ stacks' = stacks /\ renaming' = renaming /\ undefined' = undefined
  BY DEF vars, builder, dominance, renamer, fixpoint
<1>2. Scoping => Scoping'
  <2> SUFFICES ASSUME NEW sc, NEW names, Scoped(cfg, sc), FramesScoped(frames, sc, names),
                      names \subseteq sc[current_block] \cup Defined(cfg.code[current_block])
               PROVE  Scoping'
    BY DEF Scoping
  <2>1. PICK q : q = frames
    OBVIOUS
  <2>2. FramesScoped(q, sc, names)'
    BY <1>1, <2>1, SameScopes
  <2>3. FramesScoped(frames, sc, names)'
    BY <1>1, <2>1, <2>2
  <2> QED BY <1>1, <2>3 DEF Scoping
<1>3. \A b : Dominators(b)' = Dominators(b)
  BY <1>1, SameDominators
<1>4. FrontierEnds => FrontierEnds'
  BY <1>1, <1>3 DEF FrontierEnds
<1>5. ParamSymbols' = ParamSymbols /\ \A b : AtEntry(b)' = AtEntry(b)
  BY <1>1, <1>3 DEF AtEntry, ParamSymbols
<1>6. Placing => Placing'
  <2>1. \A x : Placed(x) => Placed(x)'
    BY <1>1, <1>5 DEF Placed
  <2>2. Grounded => Grounded'
    BY <1>1, <1>3, SameFed
  <2> QED BY <1>1, <1>4, <2>1, <2>2 DEF Placing
<1>7. Supplied => Supplied'
  BY <1>1, <1>5 DEF Supplied
<1>8. Covering => Covering'
  <2>1. \A x : Active(Context, x)' = Active(Context, x)
    BY <1>1 DEF Active, Context
  <2>2. \A q, x, top, P : Stacked(q, x, top, P)' <=> Stacked(q, x, top, P)
    BY DEF Stacked
  <2> QED BY <1>1, <1>3, <1>5, <2>1, <2>2 DEF Covering
<1>9. Resolved(program) => Resolved(program)'
  BY <1>1
<1>10. (Fed => Fed') /\ (Sourced => Sourced')
  BY <1>1, SameFed
<1> QED BY <1>1, <1>2, <1>4, <1>6, <1>7, <1>8, <1>9, <1>10 DEF NamesInv

(* What renaming finds holds of every function.                             *)
LEMMA NamesInvariant == Spec => []NamesInv
<1>1. Init => NamesInv
  <2> SUFFICES ASSUME Init PROVE NamesInv
    OBVIOUS
  <2>1. phase = "build" /\ undefined = FALSE
    BY DEF Init, InitBuilder, InitPass, InitRenaming
  <2> QED BY <2>1, ScopesStart DEF NamesInv
<1>2. NamesInv /\ AnalysisInv /\ RenamingInv /\ [Next]_vars => NamesInv'
  <2> SUFFICES ASSUME NamesInv, AnalysisInv, RenamingInv, [Next]_vars PROVE NamesInv'
    OBVIOUS
  <2>1. CASE NextBuilder /\ UNCHANGED <<dominance, renamer, lowering>>
    BY <2>1, BuilderScopes
  <2>2. CASE Analyse
    BY <2>2, AnalysisKeepsScopes
  <2>3. CASE NextRenaming /\ UNCHANGED <<program, builder, lowering>>
    BY <2>3, RenamingFindsNames
  <2>4. CASE EliminatePhiNodes \/ LowerRegisters \/ LowerFunction \/ Optimize
    <3>1. /\ phase' \in {"eliminated", "allocated", "lowered", "refused", "optimized"}
          /\ undefined' = undefined
      BY <2>4 DEF EliminatePhiNodes, LowerRegisters, LowerFunction, Optimize, renamer
    <3> QED BY <3>1 DEF NamesInv
  <2>5. CASE UNCHANGED vars
    BY <2>5, NamesStutter
  <2> QED BY <2>1, <2>2, <2>3, <2>4, <2>5 DEF Next
<1> QED BY <1>1, <1>2, AnalysisInvariant, RenamingInvariant, PTL DEF Spec

(* Renaming finds a version of every name it meets: none is used on a path  *)
(* that has not defined it, whatever the program, as long as its locals are *)
(* used in their scope (rename_operand, ssa_ir.rs:1279).                    *)
THEOREM NeverUndefinedInvariant == Spec => []NeverUndefined
<1>1. NamesInv => NeverUndefined
  BY DEF NamesInv, NeverUndefined
<1> QED BY <1>1, NamesInvariant, PTL

-----------------------------------------------------------------------------
(* Lists put one after another hold what each of them holds.                *)
LEMMA Flattened ==
    ASSUME NEW q, IsList(q), \A i \in DOMAIN q : IsList(q[i])
    PROVE  /\ IsList(FlattenSeq(q))
           /\ ToSet(FlattenSeq(q)) = UNION {ToSet(q[i]) : i \in DOMAIN q}
<1> DEFINE n == Len(q)
           S == UNION {ToSet(q[i]) : i \in DOMAIN q}
           V == Seq(S)
           step == [p \in Nat \X V |-> IF p[1] \in DOMAIN q THEN p[2] \o q[p[1]] ELSE p[2]]
           rec(f) == [i \in 1 .. n |-> IF i = 1 THEN q[i] ELSE f[i-1] \o q[i]]
<1>1. n \in Nat /\ DOMAIN q = 1 .. n /\ \A i \in 1 .. n : q[i] \in V
  <2>1. n \in Nat /\ DOMAIN q = 1 .. n
    BY ListBasics
  <2>2. ASSUME NEW i \in 1 .. n PROVE q[i] \in V
    <3>1. IsList(q[i]) /\ ToSet(q[i]) \subseteq S
      BY <2>1
    <3> HIDE DEF S
    <3> QED BY <3>1, ListBasics
  <2> QED BY <2>1, <2>2
<1>2. CASE n = 0
  <2>1. FlattenSeq(q) = q
    BY <1>2 DEF FlattenSeq
  <2>2. DOMAIN q = {} /\ ToSet(q) = {}
    BY <1>1, <1>2 DEF ToSet
  <2> QED BY <2>1, <2>2
<1>3. CASE n # 0
  <2>1. step \in [Nat \X V -> V] /\ <<>> \in V
    <3> HIDE DEF S
    <3>1. \A p \in Nat \X V : p[2] \in V /\ (p[1] \in DOMAIN q => p[2] \o q[p[1]] \in V)
      BY <1>1
    <3> QED BY <3>1
  <2>2. PICK e : Counted(e, n, V, <<>>, step)
    <3> HIDE DEF step, n, V
    <3> QED BY <1>1, <2>1, CountedExists
  <2>3. /\ e \in [0 .. n -> V] /\ e[0] = <<>>
        /\ \A i \in 1 .. n : e[i] = step[<<i, e[i-1]>>]
    <3> HIDE DEF step, V
    <3> QED BY <1>1, <2>2 DEF Counted
  <2>4. \A i \in 1 .. n : e[i] = e[i-1] \o q[i]
    <3> SUFFICES ASSUME NEW i \in 1 .. n PROVE e[i] = e[i-1] \o q[i]
      OBVIOUS
    <3>1. i - 1 \in 0 .. n /\ i \in Nat
      BY <1>1
    <3> HIDE DEF V
    <3>2. PICK v \in V : v = e[i-1]
      BY <2>3, <3>1
    <3>3. <<i, v>> \in Nat \X V /\ <<i, v>>[1] = i /\ <<i, v>>[2] = v
      BY <3>1
    <3>4. PICK p : p = <<i, v>>
      OBVIOUS
    <3>5. step[p] = v \o q[i]
      BY <1>1, <3>3, <3>4
    <3> HIDE DEF step
    <3> QED BY <2>3, <3>2, <3>4, <3>5
  <2> DEFINE f == [i \in 1 .. n |-> e[i]]
  <2>5. f = rec(f)
    <3>1. ASSUME NEW i \in 1 .. n PROVE f[i] = IF i = 1 THEN q[i] ELSE f[i-1] \o q[i]
      <4>1. CASE i = 1
        <5>1. f[1] = <<>> \o q[1]
          <6>1. 1 \in 1 .. n /\ 1 - 1 = 0
            BY <4>1
          <6> QED BY <2>3, <2>4, <6>1
        <5>2. q[1] \in V
          BY <1>1, <4>1
        <5>3. <<>> \o q[1] = q[1]
          BY <5>2
        <5> QED BY <4>1, <5>1, <5>3
      <4>2. CASE i # 1
        <5>1. i - 1 \in 1 .. n
          BY <1>1, <4>2
        <5> QED BY <2>4, <4>2, <5>1
      <4> QED BY <4>1, <4>2
    <3> HIDE DEF n
    <3> QED BY <3>1
  <2>6. PICK g : g = rec(g) /\ FlattenSeq(q) = g[n]
    <3>1. (CHOOSE h : h = rec(h)) = rec(CHOOSE h : h = rec(h))
      <4> HIDE DEF rec, f
      <4> QED BY <2>5, Zenon
    <3>2. FlattenSeq(q) = (CHOOSE h : h = rec(h))[n]
      BY <1>3 DEF FlattenSeq
    <3> QED BY <3>1, <3>2
  <2>7. g[1] = q[1] /\ \A i \in 2 .. n : g[i] = g[i-1] \o q[i]
    <3>1. 1 \in 1 .. n /\ \A i \in 2 .. n : i \in 1 .. n /\ i # 1
      BY <1>1, <1>3
    <3> HIDE DEF n
    <3> QED BY <2>6, <3>1
  <2> HIDE DEF rec, step, f
  <2> DEFINE In(k) == UNION {ToSet(q[i]) : i \in 1 .. k}
             T == {k \in Nat : k + 1 <= n => IsList(g[k + 1]) /\ ToSet(g[k + 1]) = In(k + 1)}
  <2>8. 0 \in T
    <3>1. IsList(q[1]) /\ In(0 + 1) = ToSet(q[1])
      BY <1>1, <1>3
    <3> QED BY <2>7, <3>1
  <2>9. ASSUME NEW k \in Nat, k \in T PROVE k + 1 \in T
    <3> SUFFICES ASSUME (k + 1) + 1 <= n
                 PROVE  IsList(g[(k + 1) + 1]) /\ ToSet(g[(k + 1) + 1]) = In((k + 1) + 1)
      BY <2>9
    <3> HIDE DEF n
    <3>1. (k + 1) + 1 \in 2 .. n /\ ((k + 1) + 1) - 1 = k + 1 /\ k + 1 <= n /\ (k + 1) + 1 \in DOMAIN q
      BY <1>1
    <3>2. g[(k + 1) + 1] = g[k + 1] \o q[(k + 1) + 1]
      BY <2>7, <3>1
    <3>3. IsList(g[k + 1]) /\ ToSet(g[k + 1]) = In(k + 1) /\ IsList(q[(k + 1) + 1])
      BY <2>9, <3>1
    <3>4. IsList(g[(k + 1) + 1]) /\ ToSet(g[(k + 1) + 1]) = ToSet(g[k + 1]) \cup ToSet(q[(k + 1) + 1])
      BY <3>2, <3>3, JoinLists
    <3>5. In((k + 1) + 1) = In(k + 1) \cup ToSet(q[(k + 1) + 1])
      <4>1. \A i : i \in 1 .. (k + 1) + 1 <=> i \in 1 .. k + 1 \/ i = (k + 1) + 1
        OBVIOUS
      <4> QED BY <4>1
    <3> QED BY <3>3, <3>4, <3>5
  <2>10. Nat \subseteq T
    <3> HIDE DEF T
    <3> QED BY <2>8, <2>9, Induction
  <2>11. n - 1 \in Nat /\ (n - 1) + 1 = n
    BY <1>1, <1>3
  <2>12. IsList(g[n]) /\ ToSet(g[n]) = In(n)
    <3> HIDE DEF In, n
    <3>1. n - 1 \in T
      BY <2>10, <2>11
    <3> QED BY <2>11, <3>1
  <2> QED BY <1>1, <2>6, <2>12
<1> QED BY <1>2, <1>3

(* Each register of a list gets a number.                                   *)
LEMMA NumberedAll ==
    ASSUME NEW regs, IsList(regs)
    PROVE  ToSet(regs) \subseteq DOMAIN Numbered(regs)
<1> DEFINE n == Len(regs)
           S == ToSet(regs)
           W == {Cardinality(D) : D \in SUBSET S}
           V == UNION {[D -> W] : D \in SUBSET S}
           step == [p \in Nat \X V |-> IF p[1] \in DOMAIN regs THEN AllocateRegister(p[2], regs[p[1]]) ELSE p[2]]
           rec(f) == [i \in 0 .. n |-> IF i = 0 THEN <<>> ELSE AllocateRegister(f[i-1], regs[i])]
<1>1. n \in Nat /\ DOMAIN regs = 1 .. n /\ \A i \in 1 .. n : regs[i] \in S
  BY ListBasics DEF ToSet
<1>2. ASSUME NEW m, NEW r
      PROVE  /\ r \in DOMAIN m => AllocateRegister(m, r) = m
             /\ r \notin DOMAIN m =>
                   AllocateRegister(m, r) =
                      [x \in DOMAIN m \cup {r} |-> IF x = r THEN Cardinality(DOMAIN m) ELSE m[x]]
             /\ DOMAIN AllocateRegister(m, r) = DOMAIN m \cup {r}
  <2>1. CASE r \in DOMAIN m
    BY <2>1 DEF AllocateRegister
  <2>2. CASE r \notin DOMAIN m
    BY <2>2 DEF AllocateRegister, Put
  <2> QED BY <2>1, <2>2
<1>3. ASSUME NEW m \in V, NEW r \in S PROVE AllocateRegister(m, r) \in V
  <2>1. PICK D \in SUBSET S : m \in [D -> W]
    OBVIOUS
  <2>2. CASE r \in D
    BY <2>1, <2>2 DEF AllocateRegister
  <2>3. CASE r \notin D
    <3>1. Cardinality(D) \in W /\ D \cup {r} \in SUBSET S
      OBVIOUS
    <3> HIDE DEF W, S
    <3>2. PICK c \in W : c = Cardinality(D)
      BY <3>1
    <3>3. PICK h : h = [x \in D \cup {r} |-> IF x = r THEN c ELSE m[x]]
      OBVIOUS
    <3>4. AllocateRegister(m, r) = h
      <4>1. DOMAIN m = D
        BY <2>1
      <4>2. r \notin DOMAIN m /\ c = Cardinality(DOMAIN m) /\ h = [x \in DOMAIN m \cup {r} |-> IF x = r THEN c ELSE m[x]]
        BY <4>1, <2>3, <3>2, <3>3
      <4> HIDE DEF W
      <4> QED BY <4>2 DEF AllocateRegister, Put
    <3>5. h \in [D \cup {r} -> W]
      BY <2>1, <3>3
    <3> QED BY <3>1, <3>4, <3>5
  <2> QED BY <2>2, <2>3
<1>4. <<>> \in V
  <2>1. {} \in SUBSET S /\ <<>> \in [{} -> W]
    OBVIOUS
  <2> QED BY <2>1
<1> HIDE DEF V, S
<1>5. step \in [Nat \X V -> V]
  <2>1. \A p \in Nat \X V : p[2] \in V /\ (p[1] \in DOMAIN regs => AllocateRegister(p[2], regs[p[1]]) \in V)
    BY <1>1, <1>3
  <2> QED BY <2>1
<1>6. PICK e : Counted(e, n, V, <<>>, step)
  <2> HIDE DEF step, n
  <2> QED BY <1>1, <1>4, <1>5, CountedExists
<1>7. e = rec(e)
  <2>1. e \in [0 .. n -> V] /\ e = [i \in 0 .. n |-> IF i = 0 THEN <<>> ELSE step[<<i, e[i-1]>>]]
    <3> HIDE DEF step
    <3> QED BY <1>6 DEF Counted
  <2>2. ASSUME NEW i \in 0 .. n, i # 0 PROVE step[<<i, e[i-1]>>] = AllocateRegister(e[i-1], regs[i])
    <3>1. i - 1 \in 0 .. n /\ i \in Nat /\ i \in DOMAIN regs
      BY <1>1, <2>2
    <3>2. PICK v \in V : v = e[i-1]
      BY <2>1, <3>1
    <3>3. <<i, v>> \in Nat \X V /\ <<i, v>>[1] = i /\ <<i, v>>[2] = v
      BY <3>1
    <3>4. PICK p : p = <<i, v>>
      OBVIOUS
    <3>5. step[p] = AllocateRegister(v, regs[i])
      BY <3>1, <3>3, <3>4
    <3> HIDE DEF step
    <3> QED BY <3>2, <3>4, <3>5
  <2> HIDE DEF step, n
  <2> QED BY <2>1, <2>2
<1>8. PICK g : g = rec(g) /\ Numbered(regs) = g[n]
  <2>1. (CHOOSE h : h = rec(h)) = rec(CHOOSE h : h = rec(h))
    <3> HIDE DEF rec
    <3> QED BY <1>7, Zenon
  <2> QED BY <2>1 DEF Numbered
<1>9. g[0] = <<>> /\ \A i \in 1 .. n : g[i] = AllocateRegister(g[i-1], regs[i])
  <2>1. 0 \in 0 .. n /\ \A i \in 1 .. n : i \in 0 .. n /\ i # 0
    BY <1>1
  <2> HIDE DEF n
  <2> QED BY <1>8, <2>1
<1> HIDE DEF rec, step
<1> DEFINE T == {k \in Nat : k <= n => \A i \in 1 .. k : regs[i] \in DOMAIN g[k]}
<1>10. 0 \in T
  OBVIOUS
<1>11. ASSUME NEW k \in Nat, k \in T PROVE k + 1 \in T
  <2> SUFFICES ASSUME k + 1 <= n, NEW i \in 1 .. k + 1 PROVE regs[i] \in DOMAIN g[k + 1]
    OBVIOUS
  <2> HIDE DEF n
  <2>1. k + 1 \in 1 .. n /\ (k + 1) - 1 = k /\ (i = k + 1 \/ i \in 1 .. k)
    BY <1>1
  <2>2. g[k + 1] = AllocateRegister(g[k], regs[k + 1])
    BY <1>9, <2>1
  <2>3. DOMAIN g[k + 1] = DOMAIN g[k] \cup {regs[k + 1]}
    BY <1>2, <2>2
  <2> QED BY <1>1, <1>11, <2>1, <2>3
<1>12. Nat \subseteq T
  <2> HIDE DEF T
  <2> QED BY <1>10, <1>11, Induction
<1>13. n \in T
  <2> HIDE DEF T
  <2> QED BY <1>1, <1>12
<1> HIDE DEF n
<1> QED BY <1>1, <1>8, <1>13 DEF ToSet

(* A list of one, and of none.                                              *)
LEMMA OneElement ==
    ASSUME NEW x
    PROVE  IsList(<<x>>) /\ ToSet(<<x>>) = {x} /\ IsList(<<>>) /\ ToSet(<<>>) = {}
<1>1. ToSet(<<x>>) = {x} /\ <<x>> \in Seq({x})
  BY DEF ToSet
<1> QED BY <1>1, EmptyList DEF IsList

(* A list for each element of another, put one after another.               *)
LEMMA Gathered ==
    ASSUME NEW q, IsList(q), NEW f, f = [i \in DOMAIN q |-> f[i]], \A i \in DOMAIN q : IsList(f[i])
    PROVE  /\ IsList(FlattenSeq(f))
           /\ ToSet(FlattenSeq(f)) = UNION {ToSet(f[i]) : i \in DOMAIN q}
<1>1. Len(q) \in Nat /\ DOMAIN q = 1 .. Len(q)
  BY ListBasics
<1>2. f = [i \in 1 .. Len(q) |-> f[i]]
  BY <1>1
<1>3. IsList(f) /\ DOMAIN f = DOMAIN q
  BY <1>1, <1>2, ListByIndex
<1> QED BY <1>3, Flattened

(* The orders in which the blocks are walked.                               *)
LEMMA OrderFacts ==
    ASSUME Graph(cfg), NEW order \in BlockOrders
    PROVE  IsList(order) /\ ToSet(order) = cfg.blocks
<1> DEFINE n == Cardinality(cfg.blocks)
           up == [i \in 1 .. n |-> i - 1]
           down == [i \in 1 .. n |-> n - i]
<1>1. n \in Nat /\ cfg.blocks = 0 .. n - 1
  BY GraphFacts DEF Graph
<1> HIDE DEF n
<1>2. IsList(up) /\ DOMAIN up = 1 .. n /\ IsList(down) /\ DOMAIN down = 1 .. n
  <2>1. up = [i \in 1 .. n |-> up[i]] /\ down = [i \in 1 .. n |-> down[i]]
    OBVIOUS
  <2>2. DOMAIN up = 1 .. n /\ DOMAIN down = 1 .. n
    OBVIOUS
  <2> HIDE DEF up, down
  <2> QED BY <1>1, <2>1, <2>2, ListByIndex
<1>3. Len(up) = n
  <2> HIDE DEF up
  <2>1. Len(up) \in Nat /\ 1 .. Len(up) = 1 .. n
    BY <1>2, ListBasics
  <2> QED BY <1>1, <2>1
<1>4. Reverse(up) = down
  <2>1. Reverse(up) = [i \in 1 .. n |-> up[(n - i) + 1]]
    <3> HIDE DEF up
    <3> QED BY <1>3 DEF Reverse
  <2>2. \A i \in 1 .. n : up[(n - i) + 1] = n - i
    BY <1>1
  <2> HIDE DEF up
  <2> QED BY <2>1, <2>2
<1>5. ToSet(up) = 0 .. n - 1
  <2>1. \A b \in 0 .. n - 1 : b + 1 \in 1 .. n /\ up[b + 1] = b
    BY <1>1
  <2>2. \A i \in 1 .. n : up[i] \in 0 .. n - 1
    BY <1>1
  <2> HIDE DEF up
  <2> QED BY <1>2, <2>1, <2>2 DEF ToSet
<1>6. ToSet(down) = 0 .. n - 1
  <2>1. \A b \in 0 .. n - 1 : n - b \in 1 .. n /\ down[n - b] = b
    BY <1>1
  <2>2. \A i \in 1 .. n : down[i] \in 0 .. n - 1
    BY <1>1
  <2> HIDE DEF down
  <2> QED BY <1>2, <2>1, <2>2 DEF ToSet
<1>7. order \in {up, Reverse(up)}
  BY DEF BlockOrders, Upwards, n
<1> HIDE DEF up, down
<1> QED BY <1>1, <1>2, <1>4, <1>5, <1>6, <1>7

(* A copy, as eliminate_phi_nodes makes it of a phi and one of its sources. *)
CopyOf(inst, r) == Instr("Copy", <<"", 0>>, inst.dest, <<At(r)>>)

(* A copy defines what its phi does, and reads one register.                *)
LEMMA CopyFacts ==
    ASSUME NEW inst, NEW r
    PROVE  CopyOf(inst, r).dest = inst.dest /\ RegsOf(CopyOf(inst, r).args) = {r}
<1>1. PICK ref : CopyOf(inst, r) = Instr("Copy", ref, inst.dest, <<At(r)>>)
  BY Zenon DEF CopyOf
<1>2. PICK a : a = At(r)
  OBVIOUS
<1>3. a.kind = "reg" /\ a.val = r
  BY <1>2 DEF At
<1>4. RegsOf(<<a>>) = {r}
  <2>1. DOMAIN <<a>> = {1} /\ <<a>>[1] = a
    OBVIOUS
  <2> QED BY <1>3, <2>1 DEF RegsOf
<1>5. CopyOf(inst, r).dest = inst.dest /\ CopyOf(inst, r).args = <<a>>
  BY <1>1, <1>2 DEF Instr
<1> QED BY <1>4, <1>5

(* The copies of a phi at the end of a block are those of its sources       *)
(* there.                                                                   *)
LEMMA CopiesForFacts ==
    ASSUME NEW inst, IsList(inst.sources), NEW p
    PROVE  /\ IsList(CopiesFor(p, inst))
           /\ ToSet(CopiesFor(p, inst)) = {CopyOf(inst, s[2]) : s \in {t \in ToSet(inst.sources) : t[1] = p}}
<1> DEFINE q == inst.sources
           f == [k \in DOMAIN q |-> IF q[k][1] = p THEN <<CopyOf(inst, q[k][2])>> ELSE <<>>]
<1>1. CopiesFor(p, inst) = FlattenSeq(f)
  BY Zenon DEF CopiesFor, CopyOf
<1>2. \A k \in DOMAIN q : IsList(f[k]) /\ ToSet(f[k]) = IF q[k][1] = p THEN {CopyOf(inst, q[k][2])} ELSE {}
  BY OneElement
<1>3. f = [k \in DOMAIN q |-> f[k]]
  OBVIOUS
<1> HIDE DEF f
<1>4. IsList(FlattenSeq(f)) /\ ToSet(FlattenSeq(f)) = UNION {ToSet(f[k]) : k \in DOMAIN q}
  BY <1>2, <1>3, Gathered
<1>5. UNION {ToSet(f[k]) : k \in DOMAIN q} = {CopyOf(inst, s[2]) : s \in {t \in ToSet(q) : t[1] = p}}
  BY <1>2 DEF ToSet
<1> QED BY <1>1, <1>4, <1>5

(* The copies at the end of a block are those of all phis.                  *)
LEMMA CopiesFacts ==
    ASSUME Graph(cfg), Coded(cfg), NEW order \in BlockOrders, NEW p
    PROVE  /\ IsList(CopiesAtEnd(p, order))
           /\ ToSet(CopiesAtEnd(p, order)) =
                 UNION {UNION {ToSet(CopiesFor(p, inst)) : inst \in ToSet(cfg.code[b])} : b \in cfg.blocks}
<1> DEFINE f == [i \in DOMAIN order |-> FlattenSeq([j \in DOMAIN cfg.code[order[i]] |-> CopiesFor(p, cfg.code[order[i]][j])])]
<1>1. IsList(order) /\ ToSet(order) = cfg.blocks
  BY OrderFacts
<1>2. ASSUME NEW b \in cfg.blocks
      PROVE  LET g == [j \in DOMAIN cfg.code[b] |-> CopiesFor(p, cfg.code[b][j])]
             IN  /\ IsList(FlattenSeq(g))
                 /\ ToSet(FlattenSeq(g)) = UNION {ToSet(CopiesFor(p, inst)) : inst \in ToSet(cfg.code[b])}
  <2> DEFINE q == cfg.code[b]
             g == [j \in DOMAIN q |-> CopiesFor(p, q[j])]
  <2>1. IsList(q) /\ \A j \in DOMAIN q : IsList(q[j].sources)
    BY DEF Coded, Instruction
  <2>2. g = [j \in DOMAIN q |-> g[j]] /\ \A j \in DOMAIN q : g[j] = CopiesFor(p, q[j])
    OBVIOUS
  <2> HIDE DEF g
  <2>3. \A j \in DOMAIN q : IsList(g[j])
    BY <2>1, <2>2, CopiesForFacts
  <2>4. IsList(FlattenSeq(g)) /\ ToSet(FlattenSeq(g)) = UNION {ToSet(g[j]) : j \in DOMAIN q}
    BY <2>1, <2>2, <2>3, Gathered
  <2>5. UNION {ToSet(g[j]) : j \in DOMAIN q} = UNION {ToSet(CopiesFor(p, inst)) : inst \in ToSet(q)}
    BY <2>2 DEF ToSet
  <2> QED BY <2>4, <2>5 DEF g
<1>3. \A i \in DOMAIN order :
         /\ IsList(f[i])
         /\ ToSet(f[i]) = UNION {ToSet(CopiesFor(p, inst)) : inst \in ToSet(cfg.code[order[i]])}
  <2> SUFFICES ASSUME NEW i \in DOMAIN order
               PROVE  /\ IsList(f[i])
                      /\ ToSet(f[i]) = UNION {ToSet(CopiesFor(p, inst)) : inst \in ToSet(cfg.code[order[i]])}
    OBVIOUS
  <2>1. PICK b \in cfg.blocks : b = order[i]
    BY <1>1 DEF ToSet
  <2>2. f[i] = FlattenSeq([j \in DOMAIN cfg.code[b] |-> CopiesFor(p, cfg.code[b][j])])
    BY <2>1
  <2> HIDE DEF f
  <2> QED BY <1>2, <2>1, <2>2
<1>4. f = [i \in DOMAIN order |-> f[i]] /\ CopiesAtEnd(p, order) = FlattenSeq(f)
  BY DEF CopiesAtEnd
<1> HIDE DEF f
<1>5. IsList(FlattenSeq(f)) /\ ToSet(FlattenSeq(f)) = UNION {ToSet(f[i]) : i \in DOMAIN order}
  BY <1>1, <1>3, <1>4, Gathered
<1>6. UNION {ToSet(f[i]) : i \in DOMAIN order}
         = UNION {UNION {ToSet(CopiesFor(p, inst)) : inst \in ToSet(cfg.code[b])} : b \in cfg.blocks}
  <2> DEFINE M(b) == UNION {ToSet(CopiesFor(p, inst)) : inst \in ToSet(cfg.code[b])}
  <2>1. \A i \in DOMAIN order : ToSet(f[i]) = M(order[i])
    BY <1>3
  <2>2. cfg.blocks = {order[i] : i \in DOMAIN order}
    BY <1>1 DEF ToSet
  <2> HIDE DEF M
  <2>3. UNION {ToSet(f[i]) : i \in DOMAIN order} = UNION {M(b) : b \in cfg.blocks}
    BY <2>1, <2>2
  <2> QED BY <2>3 DEF M
<1> QED BY <1>4, <1>5, <1>6

(* The instructions eliminate_phi_nodes retains.                            *)
LEMMA WithoutPhisFacts ==
    ASSUME NEW code, IsList(code)
    PROVE  /\ IsList(WithoutPhis(code))
           /\ ToSet(WithoutPhis(code)) = {inst \in ToSet(code) : inst.op # "Phi"}
<1> DEFINE f == [j \in DOMAIN code |-> IF code[j].op = "Phi" THEN <<>> ELSE <<code[j]>>]
<1>1. WithoutPhis(code) = FlattenSeq(f)
  BY DEF WithoutPhis
<1>2. \A j \in DOMAIN code : IsList(f[j]) /\ ToSet(f[j]) = IF code[j].op = "Phi" THEN {} ELSE {code[j]}
  BY OneElement
<1>3. f = [j \in DOMAIN code |-> f[j]]
  OBVIOUS
<1> HIDE DEF f
<1>4. IsList(FlattenSeq(f)) /\ ToSet(FlattenSeq(f)) = UNION {ToSet(f[j]) : j \in DOMAIN code}
  BY <1>2, <1>3, Gathered
<1>5. UNION {ToSet(f[j]) : j \in DOMAIN code} = {inst \in ToSet(code) : inst.op # "Phi"}
  <2> DEFINE N == {inst \in ToSet(code) : inst.op # "Phi"}
  <2>1. \A j \in DOMAIN code : ToSet(f[j]) \subseteq N
    BY <1>2 DEF ToSet
  <2>2. ASSUME NEW inst \in N PROVE \E j \in DOMAIN code : inst \in ToSet(f[j])
    BY <1>2 DEF ToSet
  <2> HIDE DEF N
  <2>3. UNION {ToSet(f[j]) : j \in DOMAIN code} = N
    BY <2>1, <2>2
  <2> QED BY <2>3 DEF N
<1> QED BY <1>1, <1>4, <1>5

(* The registers a list of instructions defines.                            *)
LEMMA DestsFacts ==
    ASSUME NEW code, IsList(code), \A inst \in ToSet(code) : inst.dest = {} \/ \E r : inst.dest = {r}
    PROVE  /\ IsList(DestsOf(code))
           /\ ToSet(DestsOf(code)) = UNION {inst.dest : inst \in ToSet(code)}
<1> DEFINE f == [j \in DOMAIN code |-> DestRegister(code[j])]
<1>1. DestsOf(code) = FlattenSeq(f)
  BY DEF DestsOf
<1>2. ASSUME NEW j \in DOMAIN code PROVE IsList(f[j]) /\ ToSet(f[j]) = code[j].dest
  <2>1. CASE code[j].dest = {}
    BY <2>1, OneElement DEF DestRegister
  <2>2. ASSUME NEW r, code[j].dest = {r} PROVE IsList(f[j]) /\ ToSet(f[j]) = code[j].dest
    <3>1. (CHOOSE x \in code[j].dest : TRUE) = r /\ code[j].dest # {}
      BY <2>2
    <3>2. f[j] = <<r>>
      BY <3>1 DEF DestRegister
    <3> QED BY <2>2, <3>2, OneElement
  <2> QED BY <2>1, <2>2 DEF ToSet
<1>3. f = [j \in DOMAIN code |-> f[j]]
  OBVIOUS
<1> HIDE DEF f
<1>4. IsList(FlattenSeq(f)) /\ ToSet(FlattenSeq(f)) = UNION {ToSet(f[j]) : j \in DOMAIN code}
  BY <1>2, <1>3, Gathered
<1>5. UNION {ToSet(f[j]) : j \in DOMAIN code} = UNION {inst.dest : inst \in ToSet(code)}
  BY <1>2 DEF ToSet
<1> QED BY <1>1, <1>4, <1>5

(* The registers something gives a value to, and what lowering counts on:   *)
(* no others are mentioned.                                                 *)
Given(g) == ToSet(g.params) \cup UNION {UNION {inst.dest : inst \in ToSet(g.code[b])} : b \in g.blocks}
Lowerable ==
    /\ IsList(cfg.params)
    /\ \A b \in cfg.blocks :
          IsList(cfg.code[b]) /\ \A inst \in ToSet(cfg.code[b]) : inst.dest = {} \/ \E r : inst.dest = {r}
    /\ Mentioned \subseteq Given(cfg)

(* A function in SSA form uses no other registers either.                   *)
LEMMA UsesGiven ==
    ASSUME WellFormed(cfg), Coded(cfg), InSsaForm
    PROVE  \A b \in cfg.blocks :
              /\ RegsOf(cfg.term[b].args) \subseteq Given(cfg)
              /\ \A inst \in ToSet(cfg.code[b]) :
                    /\ RegsOf(inst.args) \subseteq Given(cfg)
                    /\ \A s \in ToSet(inst.sources) : s[1] \in cfg.blocks /\ s[2] \in Given(cfg)
<1>1. \A d \in cfg.blocks : Definitions(d) \subseteq Given(cfg)
  BY DEF Definitions, Given
<1>2. \A b \in cfg.blocks : DefinedAtEntry(b) \subseteq Given(cfg) /\ DefinedAtEnd(b) \subseteq Given(cfg)
  <2>1. \A b \in cfg.blocks : Dominators(b) \subseteq cfg.blocks
    BY DEF Dominators
  <2>2. ToSet(cfg.params) \subseteq Given(cfg)
    BY DEF Given
  <2> QED BY <1>1, <2>1, <2>2 DEF DefinedAtEntry, DefinedAtEnd
<1> SUFFICES ASSUME NEW b \in cfg.blocks
             PROVE  /\ RegsOf(cfg.term[b].args) \subseteq Given(cfg)
                    /\ \A inst \in ToSet(cfg.code[b]) :
                          /\ RegsOf(inst.args) \subseteq Given(cfg)
                          /\ \A s \in ToSet(inst.sources) : s[1] \in cfg.blocks /\ s[2] \in Given(cfg)
  OBVIOUS
<1>3. RegsOf(cfg.term[b].args) \subseteq Given(cfg)
  BY <1>2 DEF InSsaForm
<1>4. ASSUME NEW i \in DOMAIN cfg.code[b]
      PROVE  /\ RegsOf(cfg.code[b][i].args) \subseteq Given(cfg)
             /\ \A s \in ToSet(cfg.code[b][i].sources) : s[1] \in cfg.blocks /\ s[2] \in Given(cfg)
  <2>1. \A j \in 1 .. i - 1 : j \in DOMAIN cfg.code[b]
    BY ListBasics DEF Coded
  <2>2. \A j \in 1 .. i - 1 : cfg.code[b][j].dest \subseteq Given(cfg)
    BY <1>1, <2>1 DEF Definitions, ToSet
  <2>3. RegsOf(cfg.code[b][i].args) \subseteq DefinedAtEntry(b) \cup UNION {cfg.code[b][j].dest : j \in 1 .. i - 1}
    BY DEF InSsaForm
  <2>4. \A s \in ToSet(cfg.code[b][i].sources) : s[1] \in Predecessors(cfg, b) /\ s[2] \in DefinedAtEnd(s[1])
    BY DEF InSsaForm
  <2>5. Predecessors(cfg, b) \subseteq cfg.blocks
    BY DEF WellFormed
  <2> QED BY <1>2, <2>2, <2>3, <2>4, <2>5
<1> QED BY <1>3, <1>4 DEF ToSet

(* Once phis are copies every register mentioned is given a value: a phi    *)
(* has a source, and its copy stands at the end of that predecessor.        *)
LEMMA EliminationGives ==
    ASSUME Graph(cfg), Coded(cfg), InSsaForm, Sourced, EliminatePhiNodes
    PROVE  Lowerable'
<1>1. PICK order \in BlockOrders :
         cfg' = [cfg EXCEPT !.code = [b \in cfg.blocks |-> WithoutPhis(@[b]) \o CopiesAtEnd(b, order)]]
  BY DEF EliminatePhiNodes
<1>2. /\ cfg'.blocks = cfg.blocks /\ cfg'.params = cfg.params /\ cfg'.term = cfg.term
      /\ \A b \in cfg.blocks : cfg'.code[b] = WithoutPhis(cfg.code[b]) \o CopiesAtEnd(b, order)
  BY <1>1 DEF Coded
<1>3. WellFormed(cfg)
  BY GraphFacts
<1>4. IsList(cfg.params) /\ \A b \in cfg.blocks : IsList(cfg.code[b])
  BY DEF Coded, ParamList
<1>5. \A b \in cfg.blocks : \A inst \in ToSet(cfg.code[b]) :
         IsList(inst.sources) /\ (inst.dest = {} \/ \E r : inst.dest = {r})
  <2>1. ASSUME NEW b \in cfg.blocks, NEW inst \in ToSet(cfg.code[b]) PROVE Instruction(inst)
    <3>1. PICK i \in DOMAIN cfg.code[b] : inst = cfg.code[b][i]
      BY DEF ToSet
    <3> QED BY <3>1 DEF Coded
  <2> QED BY <2>1 DEF Instruction
<1> DEFINE Copied(b, c) ==
              \E d \in cfg.blocks : \E inst \in ToSet(cfg.code[d]) : \E s \in ToSet(inst.sources) :
                 s[1] = b /\ c = CopyOf(inst, s[2])
<1>6. ASSUME NEW b \in cfg.blocks
      PROVE  /\ IsList(cfg'.code[b])
             /\ \A c \in ToSet(cfg'.code[b]) : c \in ToSet(cfg.code[b]) \/ Copied(b, c)
             /\ \A c \in ToSet(cfg.code[b]) : c.op # "Phi" => c \in ToSet(cfg'.code[b])
             /\ \A c : Copied(b, c) => c \in ToSet(cfg'.code[b])
  <2>1. /\ IsList(WithoutPhis(cfg.code[b]))
        /\ ToSet(WithoutPhis(cfg.code[b])) = {inst \in ToSet(cfg.code[b]) : inst.op # "Phi"}
    BY <1>4, WithoutPhisFacts
  <2>2. /\ IsList(CopiesAtEnd(b, order))
        /\ ToSet(CopiesAtEnd(b, order)) =
              UNION {UNION {ToSet(CopiesFor(b, inst)) : inst \in ToSet(cfg.code[d])} : d \in cfg.blocks}
    BY CopiesFacts
  <2>3. \A d \in cfg.blocks : \A inst \in ToSet(cfg.code[d]) :
           ToSet(CopiesFor(b, inst)) = {CopyOf(inst, s[2]) : s \in {t \in ToSet(inst.sources) : t[1] = b}}
    BY <1>5, CopiesForFacts
  <2>4. /\ IsList(cfg'.code[b])
        /\ ToSet(cfg'.code[b]) = ToSet(WithoutPhis(cfg.code[b])) \cup ToSet(CopiesAtEnd(b, order))
    <3>1. PICK q, r : q = WithoutPhis(cfg.code[b]) /\ r = CopiesAtEnd(b, order)
      OBVIOUS
    <3>2. cfg'.code[b] = q \o r
      BY <1>2, <3>1
    <3>3. IsList(q) /\ IsList(r)
      BY <2>1, <2>2, <3>1
    <3>4. IsList(q \o r) /\ ToSet(q \o r) = ToSet(q) \cup ToSet(r)
      BY <3>3, JoinLists
    <3> QED BY <3>1, <3>2, <3>4
  <2>5. \A c : c \in ToSet(CopiesAtEnd(b, order)) <=> Copied(b, c)
    <3>1. \A c : c \in ToSet(CopiesAtEnd(b, order)) <=>
                  \E d \in cfg.blocks : \E inst \in ToSet(cfg.code[d]) : c \in ToSet(CopiesFor(b, inst))
      BY <2>2
    <3>2. \A d \in cfg.blocks : \A inst \in ToSet(cfg.code[d]) : \A c :
             c \in ToSet(CopiesFor(b, inst)) <=> \E s \in ToSet(inst.sources) : s[1] = b /\ c = CopyOf(inst, s[2])
      BY <2>3
    <3> QED BY <3>1, <3>2
  <2> HIDE DEF Copied
  <2>6. \A c \in ToSet(cfg'.code[b]) : c \in ToSet(cfg.code[b]) \/ Copied(b, c)
    BY <2>1, <2>4, <2>5
  <2>7. \A c \in ToSet(cfg.code[b]) : c.op # "Phi" => c \in ToSet(cfg'.code[b])
    BY <2>1, <2>4
  <2>8. \A c : Copied(b, c) => c \in ToSet(cfg'.code[b])
    BY <2>4, <2>5
  <2> QED BY <2>4, <2>6, <2>7, <2>8, Zenon
<1>7. Given(cfg) \subseteq Given(cfg')
  <2>1. ASSUME NEW b \in cfg.blocks, NEW inst \in ToSet(cfg.code[b]), NEW r \in inst.dest
        PROVE  \E d \in cfg.blocks : \E c \in ToSet(cfg'.code[d]) : r \in c.dest
    <3>1. CASE inst.op # "Phi"
      BY <1>6, <3>1
    <3>2. CASE inst.op = "Phi"
      <4>1. PICK i \in DOMAIN cfg.code[b] : inst = cfg.code[b][i]
        BY DEF ToSet
      <4>2. inst.sources # <<>>
        BY <3>2, <4>1 DEF Sourced
      <4>3. PICK s \in ToSet(inst.sources) : TRUE
        <5>1. IsList(inst.sources)
          BY <1>5
        <5>2. 1 \in DOMAIN inst.sources
          <6>1. Len(inst.sources) >= 1 /\ Len(inst.sources) \in Nat /\ DOMAIN inst.sources = 1 .. Len(inst.sources)
            BY <4>2, <5>1, ListBasics, TailList
          <6> QED BY <6>1
        <5> QED BY <5>2 DEF ToSet
      <4>4. s[1] \in cfg.blocks
        BY <1>3, UsesGiven
      <4>5. CopyOf(inst, s[2]) \in ToSet(cfg'.code[s[1]])
        <5>1. Copied(s[1], CopyOf(inst, s[2]))
          OBVIOUS
        <5> HIDE DEF Copied
        <5> QED BY <1>6, <4>4, <5>1
      <4>6. CopyOf(inst, s[2]).dest = inst.dest
        BY CopyFacts
      <4> QED BY <4>4, <4>5, <4>6
    <3> QED BY <3>1, <3>2
  <2> QED BY <1>2, <2>1 DEF Given
<1>8. ASSUME NEW b \in cfg.blocks
      PROVE  /\ RegsOf(cfg'.term[b].args) \subseteq Given(cfg')
             /\ \A c \in ToSet(cfg'.code[b]) : /\ c.dest \subseteq Given(cfg') /\ RegsOf(c.args) \subseteq Given(cfg')
                                               /\ c.dest = {} \/ \E r : c.dest = {r}
  <2>1. RegsOf(cfg'.term[b].args) \subseteq Given(cfg')
    BY <1>2, <1>3, <1>7, UsesGiven
  <2>2. ASSUME NEW c \in ToSet(cfg'.code[b])
        PROVE  /\ c.dest \subseteq Given(cfg') /\ RegsOf(c.args) \subseteq Given(cfg')
               /\ c.dest = {} \/ \E r : c.dest = {r}
    <3>1. c.dest \subseteq Given(cfg')
      BY <1>2 DEF Given
    <3>2. CASE c \in ToSet(cfg.code[b])
      BY <1>3, <1>5, <1>7, <3>1, <3>2, UsesGiven
    <3>3. ASSUME NEW d \in cfg.blocks, NEW inst \in ToSet(cfg.code[d]), NEW s \in ToSet(inst.sources),
                 c = CopyOf(inst, s[2])
          PROVE  RegsOf(c.args) \subseteq Given(cfg') /\ (c.dest = {} \/ \E r : c.dest = {r})
      <4>1. c.dest = inst.dest /\ RegsOf(c.args) = {s[2]}
        BY <3>3, CopyFacts
      <4>2. s[2] \in Given(cfg)
        BY <1>3, UsesGiven
      <4> QED BY <1>5, <1>7, <4>1, <4>2
    <3>4. \/ c \in ToSet(cfg.code[b])
          \/ \E d \in cfg.blocks : \E inst \in ToSet(cfg.code[d]) : \E s \in ToSet(inst.sources) : c = CopyOf(inst, s[2])
      <4>1. c \in ToSet(cfg.code[b]) \/ Copied(b, c)
        <5> HIDE DEF Copied
        <5> QED BY <1>6
      <4> QED BY <4>1
    <3> QED BY <3>1, <3>2, <3>3, <3>4, Zenon
  <2> QED BY <2>1, <2>2
<1>9. Mentioned' \subseteq Given(cfg')
  <2>1. ToSet(cfg'.params) \subseteq Given(cfg')
    BY DEF Given
  <2> QED BY <1>2, <1>8, <2>1 DEF Mentioned
<1>10. \A b \in cfg'.blocks :
          IsList(cfg'.code[b]) /\ \A inst \in ToSet(cfg'.code[b]) : inst.dest = {} \/ \E r : inst.dest = {r}
  <2>1. ASSUME NEW b \in cfg.blocks
        PROVE  IsList(cfg'.code[b]) /\ \A inst \in ToSet(cfg'.code[b]) : inst.dest = {} \/ \E r : inst.dest = {r}
    <3> HIDE DEF Copied
    <3> QED BY <1>6, <1>8, Zenon
  <2> QED BY <1>2, <2>1, Zenon
<1>11. IsList(cfg'.params)
  BY <1>2, <1>4
<1> QED BY <1>9, <1>10, <1>11 DEF Lowerable

(* And every register that is given a value gets a slot.                    *)
LEMMA EachHasSlot ==
    ASSUME Graph(cfg), Lowerable, LowerRegisters
    PROVE  (Mentioned \subseteq DOMAIN register_map)'
<1>1. PICK order \in BlockOrders :
         register_map' = Numbered(cfg.params \o FlattenSeq([i \in DOMAIN order |-> DestsOf(cfg.code[order[i]])]))
  BY DEF LowerRegisters
<1> DEFINE f == [i \in DOMAIN order |-> DestsOf(cfg.code[order[i]])]
<1>2. IsList(order) /\ ToSet(order) = cfg.blocks
  BY OrderFacts
<1>3. ASSUME NEW i \in DOMAIN order
      PROVE  /\ IsList(f[i]) /\ order[i] \in cfg.blocks
             /\ ToSet(f[i]) = UNION {inst.dest : inst \in ToSet(cfg.code[order[i]])}
  <2>1. PICK b \in cfg.blocks : b = order[i]
    BY <1>2 DEF ToSet
  <2>2. f[i] = DestsOf(cfg.code[b])
    BY <2>1
  <2>3. IsList(cfg.code[b]) /\ \A inst \in ToSet(cfg.code[b]) : inst.dest = {} \/ \E r : inst.dest = {r}
    BY DEF Lowerable
  <2> HIDE DEF f
  <2> QED BY <2>1, <2>2, <2>3, DestsFacts
<1>4. f = [i \in DOMAIN order |-> f[i]]
  OBVIOUS
<1>5. register_map' = Numbered(cfg.params \o FlattenSeq(f))
  BY <1>1
<1> HIDE DEF f
<1>6. IsList(FlattenSeq(f)) /\ ToSet(FlattenSeq(f)) = UNION {ToSet(f[i]) : i \in DOMAIN order}
  BY <1>2, <1>3, <1>4, Gathered
<1>7. IsList(cfg.params)
  BY DEF Lowerable
<1>8. /\ IsList(cfg.params \o FlattenSeq(f))
      /\ ToSet(cfg.params \o FlattenSeq(f)) = ToSet(cfg.params) \cup ToSet(FlattenSeq(f))
  BY <1>6, <1>7, JoinLists
<1>9. ToSet(cfg.params \o FlattenSeq(f)) \subseteq DOMAIN register_map'
  BY <1>5, <1>8, NumberedAll
<1>10. Given(cfg) \subseteq DOMAIN register_map'
  <2>1. cfg.blocks = {order[i] : i \in DOMAIN order}
    BY <1>2 DEF ToSet
  <2> QED BY <1>3, <1>6, <1>8, <1>9, <2>1 DEF Given
<1>11. Mentioned' = Mentioned
  BY DEF LowerRegisters, Mentioned
<1> QED BY <1>10, <1>11 DEF Lowerable

(* Temporaries are counted up.                                              *)
LEMMA TemporariesCount ==
    ASSUME next_temp \in Nat, NEW expr, IsList(expr)
    PROVE  TransformExpression(expr).next \in Nat
<1> DEFINE m == Len(expr)
           Good(t) == DOMAIN t = {"code", "operands", "next"} /\ t.next \in Nat
<1>1. m \in Nat
  BY ListBasics
<1>2. PICK f : /\ f[0] = [code |-> <<>>, operands |-> <<>>, next |-> next_temp]
               /\ TransformExpression(expr) = f[m]
               /\ \A n \in 1 .. m : f[n] = TransformNode(f[n-1], expr[n])
  BY TransformSteps
<1>3. ASSUME NEW acc, Good(acc), NEW node PROVE Good(TransformNode(acc, node))
  <2> DEFINE given == [i \in DOMAIN node.args |-> acc.operands[node.args[i]]]
             args  == IF node.op = "MemberCall" THEN Tail(given) ELSE given
             target == Reg(<<"tmp", acc.next>>, 0)
             valued == Instr(Opcode(node), node.ref, {target}, args)
             void == Instr(Opcode(node), node.ref, {}, args)
             t == TransformNode(acc, node)
  <2>1. \/ t = [acc EXCEPT !.operands = Append(@, Const(node.val))]
        \/ t = [acc EXCEPT !.operands = Append(@, At(Reg(node.ref, 0)))]
        \/ t = [code |-> Append(acc.code, valued), operands |-> Append(acc.operands, At(target)), next |-> acc.next + 1]
        \/ t = [acc EXCEPT !.code = Append(@, void), !.operands = Append(@, Const(0))]
    BY DEF TransformNode
  <2> HIDE DEF valued, void, target, t
  <2>2. \/ \E x : t = [acc EXCEPT !.operands = x]
        \/ \E x, y : t = [code |-> y, operands |-> x, next |-> acc.next + 1]
        \/ \E x, y : t = [acc EXCEPT !.code = y, !.operands = x]
    BY <2>1
  <2> HIDE DEF Good
  <2>3. ASSUME NEW x, t = [acc EXCEPT !.operands = x] PROVE Good(t)
    BY <1>3, <2>3 DEF Good
  <2>4. ASSUME NEW x, NEW y, t = [code |-> y, operands |-> x, next |-> acc.next + 1] PROVE Good(t)
    BY <1>3, <2>4 DEF Good
  <2>5. ASSUME NEW x, NEW y, t = [acc EXCEPT !.code = y, !.operands = x] PROVE Good(t)
    BY <1>3, <2>5 DEF Good
  <2>6. Good(t)
    BY <2>2, <2>3, <2>4, <2>5, Zenon
  <2> QED BY <2>6 DEF t
<1> DEFINE S == {k \in Nat : k <= m => Good(f[k])}
<1> HIDE DEF m
<1>4. 0 \in S
  BY <1>2
<1>5. ASSUME NEW k \in Nat, k \in S PROVE k + 1 \in S
  <2> SUFFICES ASSUME k + 1 <= m PROVE Good(f[k + 1])
    OBVIOUS
  <2>1. k <= m /\ k + 1 \in 1 .. m /\ (k + 1) - 1 = k
    BY <1>1
  <2>2. Good(f[k])
    BY <1>5, <2>1
  <2>3. f[k + 1] = TransformNode(f[k], expr[k + 1])
    BY <1>2, <2>1
  <2> HIDE DEF Good
  <2> QED BY <1>3, <2>2, <2>3
<1>6. m \in S
  <2> HIDE DEF S
  <2>1. Nat \subseteq S
    BY <1>4, <1>5, Induction
  <2> QED BY <1>1, <2>1
<1> QED BY <1>1, <1>2, <1>6

-----------------------------------------------------------------------------
(* What there is besides the graph and its analysis, and what each pass of  *)
(* the lowering counts on.                                                  *)
LoweringInv ==
    /\ phase \in Phases
    /\ program \in {EnsureReturn(p) : p \in Programs}
    /\ current_block \in cfg.blocks /\ next_temp \in Nat
    /\ undefined \in BOOLEAN
    /\ phase \in {"build", "order"} => rpo = <<>>
    /\ phase = "place" => symbols \subseteq AllSymbols
    /\ phase = "renamed" => Coded(cfg)
    /\ phase = "eliminated" => Lowerable
    /\ phase = "allocated" => Mentioned \subseteq DOMAIN register_map

(* At first nothing is lowered.                                             *)
LEMMA LoweringStarts ==
    ASSUME Init
    PROVE  LoweringInv
<1>1. PICK params : cfg = NewCfg(params)
  BY DEF Init, InitBuilder, InitPass
<1>2. current_block = 0 /\ next_temp = 0 /\ phase = "build" /\ rpo = <<>> /\ undefined = FALSE
      /\ program \in {EnsureReturn(p) : p \in Programs}
  BY DEF Init, InitBuilder, InitPass, InitDominance, InitRenaming
<1>3. 0 \in cfg.blocks
  BY <1>1 DEF NewCfg
<1> QED BY <1>2, <1>3 DEF LoweringInv, Phases

(* SsaBuilder keeps to the blocks of the graph, and numbers its             *)
(* temporaries.                                                             *)
LEMMA BuilderTypes ==
    ASSUME LoweringInv, AnalysisInv, AnalysisInv', RenamingInv, NextBuilder, UNCHANGED <<dominance, renamer>>
    PROVE  LoweringInv'
<1>1. /\ phase = "build" /\ program' = program /\ rpo' = rpo /\ undefined' = undefined
      /\ phase' \in {"build", "order"}
  BY DEF NextBuilder, TransformExpressionStatement, TransformAssignment, TransformReturn,
         TransformIf, EndThen, EndIf, TransformWhile, EndWhile, FinishBuild, Reading, BlockEnds, Straight,
         dominance, fixpoint, renamer
<1>2. Written /\ Graph(cfg)
  BY <1>1 DEF RenamingInv, AnalysisInv
<1>3. next_temp' \in Nat
  <2>1. \A kinds : Reading(kinds) => TransformExpression(stmt.expr).next \in Nat
    BY <1>2, ReadFacts, TemporariesCount DEF LoweringInv
  <2>2. CASE TransformExpressionStatement \/ TransformAssignment \/ TransformReturn
    BY <2>1, <2>2 DEF TransformExpressionStatement, TransformAssignment, TransformReturn, Straight
  <2>3. CASE TransformIf \/ TransformWhile
    BY <2>1, <2>3 DEF TransformIf, TransformWhile
  <2>4. CASE EndThen \/ EndIf \/ EndWhile \/ FinishBuild
    BY <2>4 DEF EndThen, EndIf, EndWhile, FinishBuild, LoweringInv
  <2> QED BY <2>2, <2>3, <2>4 DEF NextBuilder
<1>4. current_block' \in cfg'.blocks
  <2>1. CASE phase' = "build"
    <3>1. Graph(cfg') /\ current_block' \in Reached(cfg')
      BY <2>1 DEF AnalysisInv, Building
    <3> QED BY <3>1, ReachedFacts
  <2>2. CASE FinishBuild
    <3>1. \A t : AddTerminator(cfg, current_block, t).blocks = cfg.blocks
      BY <1>2, InstructionFacts
    <3> QED BY <2>2, <3>1 DEF FinishBuild, LoweringInv
  <2>3. phase' # "build" => FinishBuild
    BY <1>1 DEF NextBuilder, TransformExpressionStatement, TransformAssignment, TransformReturn,
         TransformIf, EndThen, EndIf, TransformWhile, EndWhile, Straight
  <2> QED BY <2>1, <2>2, <2>3
<1> QED BY <1>1, <1>3, <1>4 DEF LoweringInv, Phases

(* The analysis writes its own variables only.                              *)
LEMMA AnalysisTypes ==
    ASSUME LoweringInv, NextDominance, UNCHANGED <<program, builder, renamer>>
    PROVE  LoweringInv'
<1>1. /\ phase' \in {"order", "dominance", "loops", "phis"} /\ cfg' = cfg /\ undefined' = undefined
      /\ phase' = "order" => rpo' = rpo /\ phase = "order"
  BY DEF NextDominance, StartSearch, VisitSuccessor, LeaveBlock, StartDominance, ComputeIdom, NextRound,
         FinishDominance, BuildLoopForest, fixpoint, renamer
<1> QED BY <1>1 DEF LoweringInv, Phases, builder

(* Renaming handles symbols of the graph, and hands on code.                *)
LEMMA RenamingTypes ==
    ASSUME LoweringInv, AnalysisInv, RenamingInv, NextRenaming, UNCHANGED <<program, builder>>
    PROVE  LoweringInv'
<1>1. /\ phase \in {"phis", "place", "rename"} /\ phase' \in {"place", "rename", "renamed"}
      /\ cfg'.blocks = cfg.blocks
  <2>1. DOMAIN cfg = {"entry", "blocks", "params", "succ", "pred", "code", "term"}
    BY DEF AnalysisInv, Graph
  <2>2. \A code : [cfg EXCEPT !.code = code].blocks = cfg.blocks
    BY <2>1
  <2>3. ASSUME NEW b, NEW c, RenameBlock(b, c) PROVE cfg'.blocks = cfg.blocks
    <3>1. \A x, y, code : [[cfg EXCEPT !.code[b] = x, !.term[b] = y] EXCEPT !.code = code].blocks = cfg.blocks
      BY <2>1
    <3> QED BY <2>3, <3>1 DEF RenameBlock
  <2>4. CASE CollectDefSites \/ PlacePhis \/ LeaveRenamed
    BY <2>2, <2>4 DEF CollectDefSites, PlacePhis, LeaveRenamed
  <2>5. CASE RenameEntry
    BY <2>3, <2>5 DEF RenameEntry
  <2>6. CASE RenameChild
    BY <2>3, <2>6 DEF RenameChild
  <2> QED BY <2>4, <2>5, <2>6 DEF NextRenaming
<1>2. ASSUME phase' = "place" PROVE symbols' \subseteq AllSymbols'
  <2>1. CASE CollectDefSites
    BY <2>1 DEF CollectDefSites, AllSymbols, ParamSymbols
  <2>2. CASE PlacePhis
    <3>1. phase = "place" /\ symbols' \subseteq symbols
      BY <2>2 DEF PlacePhis
    <3>2. Coded(cfg) /\ symbols \subseteq AllSymbols
      BY <3>1 DEF LoweringInv, RenamingInv, Prepared, Plain
    <3>0. PICK x \in symbols :
             cfg' = [cfg EXCEPT !.code =
                       [b \in cfg.blocks |->
                          (IF b \in PhiBlocks(x) THEN <<Phi(Reg(x, 0))>> ELSE <<>>) \o cfg.code[b]]]
      BY <2>2 DEF PlacePhis
    <3>3. PICK P :
             cfg' = [cfg EXCEPT !.code =
                       [b \in cfg.blocks |->
                          (IF b \in P THEN <<Phi(Reg(x, 0))>> ELSE <<>>) \o cfg.code[b]]]
      BY <3>0
    <3>4. cfg'.params = cfg.params /\ cfg'.blocks = cfg.blocks
          /\ \A b \in cfg.blocks : \/ cfg'.code[b] = <<Phi(Reg(x, 0))>> \o cfg.code[b]
                                   \/ cfg'.code[b] = <<>> \o cfg.code[b]
      BY <3>2, <3>3 DEF Coded
    <3>5. ASSUME NEW b \in cfg.blocks PROVE Defined(cfg.code[b]) \subseteq Defined(cfg'.code[b])
      <4>1. PICK q, r : q = cfg.code[b] /\ r = cfg'.code[b]
        OBVIOUS
      <4>2. IsList(q) /\ (r = <<Phi(Reg(x, 0))>> \o q \/ r = <<>> \o q)
        BY <3>2, <3>4, <4>1 DEF Coded
      <4>3. Defined(q) \subseteq Defined(r)
        BY <4>2, PhiAdded
      <4> QED BY <4>1, <4>3
    <3>6. AllSymbols \subseteq AllSymbols'
      BY <3>4, <3>5 DEF AllSymbols, ParamSymbols
    <3> QED BY <3>1, <3>2, <3>6
  <2> QED BY <1>2, <2>1, <2>2 DEF NextRenaming, RenameEntry, RenameChild, LeaveRenamed
<1>3. ASSUME phase' = "renamed" PROVE Coded(cfg')
  <2>1. LeaveRenamed
    BY <1>3 DEF NextRenaming, CollectDefSites, PlacePhis, RenameEntry, RenameChild
  <2>2. phase = "rename" /\ ~ undefined /\ cfg' = cfg
    BY <2>1 DEF LeaveRenamed
  <2>3. Coded(cfg)
    BY <2>2 DEF RenamingInv, Walk
  <2> QED BY <2>2, <2>3
<1>4. undefined' \in BOOLEAN
  <2>1. ASSUME NEW b, NEW c, RenameBlock(b, c) PROVE undefined' \in BOOLEAN
    BY <2>1 DEF RenameBlock
  <2>2. CASE CollectDefSites \/ PlacePhis \/ LeaveRenamed
    BY <2>2 DEF CollectDefSites, PlacePhis, LeaveRenamed, LoweringInv
  <2>3. CASE RenameEntry
    BY <2>1, <2>3 DEF RenameEntry
  <2>4. CASE RenameChild
    BY <2>1, <2>4 DEF RenameChild
  <2> QED BY <2>2, <2>3, <2>4 DEF NextRenaming
<1> QED BY <1>1, <1>2, <1>3, <1>4 DEF LoweringInv, Phases, builder

(* Each pass of the lowering hands the next what it counts on.              *)
LEMMA LoweringTypes ==
    ASSUME LoweringInv, AnalysisInv, RenamingInv, NamesInv,
           EliminatePhiNodes \/ LowerRegisters \/ LowerFunction \/ Optimize
    PROVE  LoweringInv'
<1>1. /\ UNCHANGED <<program, current_block, next_temp, undefined>> /\ Graph(cfg)
      /\ phase' \in {"eliminated", "allocated", "lowered", "refused", "optimized"}
  BY DEF EliminatePhiNodes, LowerRegisters, LowerFunction, Optimize, builder, renamer, AnalysisInv
<1>2. CASE EliminatePhiNodes
  <2>1. phase = "renamed" /\ phase' = "eliminated"
    BY <1>2 DEF EliminatePhiNodes
  <2>2. Coded(cfg) /\ InSsaForm /\ Sourced
    BY <2>1 DEF LoweringInv, RenamingInv, SsaHolds, NamesInv
  <2>3. cfg'.blocks = cfg.blocks
    BY <1>2, <2>2 DEF EliminatePhiNodes, Coded
  <2>4. Lowerable'
    BY <1>1, <1>2, <2>2, EliminationGives
  <2> QED BY <1>1, <2>1, <2>3, <2>4 DEF LoweringInv, Phases
<1>3. CASE LowerRegisters
  <2>1. phase = "eliminated" /\ phase' = "allocated" /\ cfg' = cfg
    BY <1>3 DEF LowerRegisters
  <2>2. (Mentioned \subseteq DOMAIN register_map)'
    BY <1>1, <1>3, <2>1, EachHasSlot DEF LoweringInv
  <2> QED BY <1>1, <2>1, <2>2 DEF LoweringInv, Phases
<1>4. CASE LowerFunction
  <2>1. phase = "allocated" /\ Mentioned \subseteq DOMAIN register_map /\ cfg' = cfg
    BY <1>4 DEF LowerFunction, LoweringInv
  <2>2. phase' = "lowered"
    BY <1>4, <2>1 DEF LowerFunction
  <2> QED BY <1>1, <2>1, <2>2 DEF LoweringInv, Phases
<1>5. CASE Optimize
  <2>1. phase' = "optimized" /\ cfg' = cfg
    BY <1>5 DEF Optimize
  <2> QED BY <1>1, <2>1 DEF LoweringInv, Phases
<1> QED BY <1>2, <1>3, <1>4, <1>5

(* The invariant is one of the state.                                       *)
LEMMA LoweringStutters ==
    ASSUME LoweringInv, UNCHANGED vars
    PROVE  LoweringInv'
<1>1. /\ phase' = phase /\ program' = program /\ cfg' = cfg /\ current_block' = current_block
      /\ next_temp' = next_temp /\ rpo' = rpo /\ symbols' = symbols /\ register_map' = register_map /\ undefined' = undefined
  BY DEF vars, builder, dominance, fixpoint, renamer, lowering
<1>2. AllSymbols' = AllSymbols /\ Mentioned' = Mentioned
  BY <1>1 DEF AllSymbols, ParamSymbols, Mentioned
<1>3. Coded(cfg) => Coded(cfg')
  BY <1>1
<1>4. Lowerable => Lowerable'
  BY <1>1, <1>2 DEF Lowerable
<1> QED BY <1>1, <1>2, <1>3, <1>4 DEF LoweringInv

(* What the passes of the lowering count on holds of every function.        *)
LEMMA LoweringInvariant == Spec => []LoweringInv
<1>1. LoweringInv /\ AnalysisInv /\ AnalysisInv' /\ RenamingInv /\ NamesInv /\ [Next]_vars => LoweringInv'
  <2> SUFFICES ASSUME LoweringInv, AnalysisInv, AnalysisInv', RenamingInv, NamesInv, [Next]_vars
               PROVE  LoweringInv'
    OBVIOUS
  <2>1. CASE NextBuilder /\ UNCHANGED <<dominance, renamer, lowering>>
    BY <2>1, BuilderTypes
  <2>2. CASE Analyse
    BY <2>2, AnalysisTypes DEF Analyse
  <2>3. CASE NextRenaming /\ UNCHANGED <<program, builder, lowering>>
    BY <2>3, RenamingTypes
  <2>4. CASE EliminatePhiNodes \/ LowerRegisters \/ LowerFunction \/ Optimize
    BY <2>4, LoweringTypes
  <2>5. CASE UNCHANGED vars
    BY <2>5, LoweringStutters
  <2> QED BY <2>1, <2>2, <2>3, <2>4, <2>5 DEF Next
<1> QED BY <1>1, LoweringStarts, AnalysisInvariant, RenamingInvariant, NamesInvariant, PTL DEF Spec

(* Whatever the function, its compilation is in one of the phases and never *)
(* "refused": once phis are copies and registers have slots, lowering finds *)
(* a slot for every register it meets (lower_instruction,                   *)
(* codegen/src/lib.rs:604), and the analysis keeps to the graph's blocks.   *)
THEOREM CompilesAlways == Spec => []TypeOK
<1>1. AnalysisInv /\ LoweringInv => TypeOK
  <2> SUFFICES ASSUME AnalysisInv, LoweringInv PROVE TypeOK
    OBVIOUS
  <2>1. WellFormed(cfg)
    BY GraphFacts DEF AnalysisInv
  <2>2. ToSet(rpo) \subseteq cfg.blocks
    <3>1. CASE phase \in {"build", "order"}
      BY <3>1, EmptyList DEF LoweringInv
    <3>2. CASE phase \notin {"build", "order"}
      BY <3>2 DEF AnalysisInv, Ordered, ToSet
    <3> QED BY <3>1, <3>2
  <2>3. DOMAIN idom \subseteq cfg.blocks
    <3>1. CASE phase \in {"build", "order"}
      BY <3>1 DEF AnalysisInv
    <3>2. CASE phase \notin {"build", "order"}
      BY <3>2 DEF AnalysisInv, Tree
    <3> QED BY <3>1, <3>2
  <2> QED BY <2>1, <2>2, <2>3 DEF TypeOK, LoweringInv
<1> QED BY <1>1, AnalysisInvariant, LoweringInvariant, PTL
====
