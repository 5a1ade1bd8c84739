--------------------------- MODULE SsaRenamingProofs ---------------------------
(***************************************************************************)
(* Proofs about the analysis and the renaming of an SSA graph.             *)
(*                                                                         *)
(* First compute_dominance, its frontiers and natural loops, for every     *)
(* graph in which every block is reached from the entry and no block leads *)
(* back to it: reducible or not, with any number of blocks, and whatever   *)
(* the order of the edge lists.  Then the renaming of registers: what a    *)
(* block becomes, what the version stacks hold along the dominator tree,   *)
(* that every block is renamed once, that no name is read without a        *)
(* version, and that every phi is given a source.                          *)
(***************************************************************************)
EXTENDS SsaRenaming, Iteration, SequenceTheorems

-----------------------------------------------------------------------------
(* The graphs SsaBuilder hands on.                                          *)
Ready(g) ==
    /\ WellFormed(g)
    /\ \A b \in g.blocks : g.succ[b] \in Seq(g.blocks) /\ g.pred[b] \in Seq(g.blocks)
    /\ Predecessors(g, g.entry) = {}
    /\ g.blocks \subseteq {g.entry} \cup ReachableFrom(g, g.entry)

(* The order: the blocks, each once, the entry first, and every other block *)
(* after one of its predecessors.                                          *)
Ordered ==
    /\ rpo \in Seq(cfg.blocks) /\ Len(rpo) >= 1 /\ rpo[1] = cfg.entry
    /\ \A b \in cfg.blocks : \E i \in DOMAIN rpo : rpo[i] = b
    /\ \A i, j \in DOMAIN rpo : rpo[i] = rpo[j] => i = j
    /\ \A i \in 2 .. Len(rpo) : \E j \in 1 .. i - 1 : rpo[j] \in Predecessors(cfg, rpo[i])

(* The candidates form a tree that hangs from the entry.                    *)
Tree ==
    /\ DOMAIN idom \subseteq cfg.blocks /\ idom \in [DOMAIN idom -> DOMAIN idom]
    /\ cfg.entry \in DOMAIN idom /\ idom[cfg.entry] = cfg.entry
    /\ CandidatesClimb

-----------------------------------------------------------------------------
(* The place of a block in the order.                                       *)
LEMMA IndexFacts ==
    ASSUME Ordered
    PROVE  /\ Len(rpo) \in Nat /\ DOMAIN rpo = 1 .. Len(rpo)
           /\ \A b \in cfg.blocks : RpoIndex(b) \in 1 .. Len(rpo) /\ rpo[RpoIndex(b)] = b
           /\ \A i \in 1 .. Len(rpo) : rpo[i] \in cfg.blocks /\ RpoIndex(rpo[i]) = i
           /\ RpoIndex(cfg.entry) = 1
<1>1. Len(rpo) \in Nat /\ DOMAIN rpo = 1 .. Len(rpo) /\ \A i \in 1 .. Len(rpo) : rpo[i] \in cfg.blocks
  BY DEF Ordered
<1>2. ASSUME NEW b \in cfg.blocks PROVE RpoIndex(b) \in DOMAIN rpo /\ rpo[RpoIndex(b)] = b
  <2>1. \E i \in DOMAIN rpo : rpo[i] = b
    BY DEF Ordered
  <2> QED BY <2>1 DEF RpoIndex
<1>3. ASSUME NEW i \in 1 .. Len(rpo) PROVE RpoIndex(rpo[i]) = i
  BY <1>1, <1>2 DEF Ordered
<1>4. RpoIndex(cfg.entry) = 1
  <2>1. 1 \in 1 .. Len(rpo) /\ rpo[1] = cfg.entry
    BY <1>1 DEF Ordered
  <2> QED BY <1>3, <2>1
<1> QED BY <1>1, <1>2, <1>3, <1>4

LEMMA LaterFacts ==
    ASSUME Ordered, NEW b \in cfg.blocks, NEW c \in cfg.blocks
    PROVE  /\ Later(b, c) <=> RpoIndex(b) > RpoIndex(c)
           /\ RpoIndex(b) \in Nat /\ RpoIndex(b) >= 1 /\ RpoIndex(b) <= Len(rpo)
           /\ RpoIndex(b) = RpoIndex(c) => b = c
           /\ RpoIndex(b) = 1 <=> b = cfg.entry
<1>1. cfg.entry \in cfg.blocks
  <2>1. 1 \in DOMAIN rpo
    BY IndexFacts DEF Ordered
  <2> QED BY <2>1, IndexFacts DEF Ordered
<1> QED BY <1>1, IndexFacts DEF Later

(* What is reached when one block may not be entered.                       *)
LEMMA AvoidingFacts ==
    ASSUME WellFormed(cfg), NEW d \in cfg.blocks, d # cfg.entry
    PROVE  LET R == ReachedAvoiding(d)
           IN  /\ R \subseteq cfg.blocks /\ cfg.entry \in R /\ d \notin R
               /\ \A b \in R : Successors(cfg, b) \ {d} \subseteq R
               /\ \A C : cfg.entry \in C /\ (\A b \in C \cap cfg.blocks : Successors(cfg, b) \ {d} \subseteq C)
                         => R \subseteq C
<1> DEFINE next == [b \in cfg.blocks |-> Successors(cfg, b) \ {d}]
           T == Reach(cfg.blocks, next, cfg.entry)
           R == {cfg.entry} \cup T
<1>1. /\ IsFiniteSet(cfg.blocks) /\ cfg.entry \in cfg.blocks
      /\ \A b \in cfg.blocks : Successors(cfg, b) \subseteq cfg.blocks
  BY DEF WellFormed
<1>2. next \in [cfg.blocks -> SUBSET cfg.blocks]
  BY <1>1
<1>3. ReachedAvoiding(d) = R
  BY DEF ReachedAvoiding
<1>4. \A b \in cfg.blocks : next[b] = Successors(cfg, b) \ {d}
  OBVIOUS
<1> HIDE DEF next
<1>5. /\ T \in SUBSET cfg.blocks
      /\ next[cfg.entry] \subseteq T
      /\ \A y \in T : next[y] \subseteq T
      /\ \A C : next[cfg.entry] \subseteq C /\ (\A y \in C \cap cfg.blocks : next[y] \subseteq C) => T \subseteq C
  BY <1>1, <1>2, ReachFacts
<1> HIDE DEF T
<1>6. \A C : cfg.entry \in C /\ (\A b \in C \cap cfg.blocks : Successors(cfg, b) \ {d} \subseteq C) => R \subseteq C
  BY <1>1, <1>4, <1>5
<1>7. R \subseteq cfg.blocks \ {d}
  BY <1>1, <1>6
<1>8. \A b \in R : Successors(cfg, b) \ {d} \subseteq R
  BY <1>1, <1>4, <1>5
<1> QED BY <1>3, <1>6, <1>7, <1>8

(* A dominator of a block other than the block itself dominates all its     *)
(* predecessors.                                                           *)
LEMMA PredecessorsDominated ==
    ASSUME WellFormed(cfg), NEW b \in cfg.blocks, NEW p \in Predecessors(cfg, b),
           NEW d \in Dominators(b), d # b
    PROVE  p \in cfg.blocks /\ d \in Dominators(p)
<1>1. p \in cfg.blocks /\ b \in Successors(cfg, p) /\ d \in cfg.blocks /\ b \notin ReachedAvoiding(d)
  BY DEF WellFormed, Dominators
<1>2. CASE d = cfg.entry
  BY <1>1, <1>2 DEF Dominators, ReachedAvoiding
<1>3. CASE d # cfg.entry
  <2>1. p \notin ReachedAvoiding(d)
    BY <1>1, <1>3, AvoidingFacts
  <2> QED BY <1>1, <2>1 DEF Dominators
<1> QED BY <1>2, <1>3

(* A dominator comes earlier in the order.                                  *)
LEMMA DominatorsEarlier ==
    ASSUME WellFormed(cfg), Ordered, NEW b \in cfg.blocks, NEW d \in Dominators(b), d # b
    PROVE  d \in cfg.blocks /\ RpoIndex(d) < RpoIndex(b)
<1>1. d \in cfg.blocks /\ b \notin ReachedAvoiding(d) /\ cfg.entry \in cfg.blocks
  BY DEF Dominators, WellFormed
<1>2. CASE d = cfg.entry
  <2>1. RpoIndex(d) = 1 /\ RpoIndex(b) \in Nat /\ RpoIndex(b) # 1 /\ RpoIndex(b) >= 1
    BY <1>1, <1>2, LaterFacts
  <2> QED BY <1>1, <2>1
<1>3. CASE d # cfg.entry
  <2> DEFINE R == ReachedAvoiding(d)
             S == {i \in Nat : i \in 1 .. Len(rpo) /\ i < RpoIndex(d) => rpo[i] \in R}
  <2>1. cfg.entry \in R /\ \A c \in R : Successors(cfg, c) \ {d} \subseteq R
    BY <1>1, <1>3, AvoidingFacts
  <2> HIDE DEF R
  <2>2. ASSUME NEW i \in Nat, \A m \in Nat : m < i => m \in S
        PROVE  i \in S
    <3> SUFFICES ASSUME i \in 1 .. Len(rpo), i < RpoIndex(d) PROVE rpo[i] \in R
      OBVIOUS
    <3>1. CASE i = 1
      BY <2>1, <3>1 DEF Ordered
    <3>2. CASE i # 1
      <4>1. i \in 2 .. Len(rpo)
        BY <3>2
      <4>2. PICK j \in 1 .. i - 1 : rpo[j] \in Predecessors(cfg, rpo[i])
        BY <4>1 DEF Ordered
      <4>3. j \in Nat /\ j < i /\ j \in 1 .. Len(rpo) /\ RpoIndex(d) \in Nat
        BY <1>1, IndexFacts
      <4>4. j < RpoIndex(d)
        BY <4>3
      <4>5. rpo[j] \in R
        BY <2>2, <4>3, <4>4
      <4>6. rpo[i] \in cfg.blocks /\ RpoIndex(rpo[i]) = i
        BY IndexFacts
      <4>7. rpo[i] # d /\ rpo[i] \in Successors(cfg, rpo[j])
        <5>1. rpo[j] \in cfg.blocks
          BY <4>3, IndexFacts
        <5> QED BY <4>2, <4>3, <4>6, <5>1 DEF WellFormed
      <4> QED BY <2>1, <4>5, <4>7
    <3> QED BY <3>1, <3>2
  <2>3. Nat \subseteq S
    <3> HIDE DEF S
    <3> QED BY <2>2, StrongInduction
  <2>4. RpoIndex(b) \in Nat /\ RpoIndex(b) \in 1 .. Len(rpo) /\ rpo[RpoIndex(b)] = b /\ RpoIndex(d) \in Nat
    BY <1>1, IndexFacts
  <2>5. ~ (RpoIndex(b) < RpoIndex(d))
    BY <1>1, <2>3, <2>4 DEF R
  <2>6. RpoIndex(b) # RpoIndex(d)
    BY <1>1, LaterFacts
  <2> QED BY <1>1, <2>4, <2>5, <2>6
<1> QED BY <1>2, <1>3

-----------------------------------------------------------------------------
(* The blocks above b in the tree, b included: what Dominates walks.        *)
Ancestors(b) == {b} \cup Reach(DOMAIN idom, [c \in DOMAIN idom |-> {idom[c]}], b)

LEMMA AncestorFacts ==
    ASSUME WellFormed(cfg), Tree, NEW b \in DOMAIN idom
    PROVE  /\ b \in Ancestors(b) /\ Ancestors(b) \subseteq DOMAIN idom
           /\ \A c \in Ancestors(b) : idom[c] \in Ancestors(b)
           /\ \A C : b \in C /\ (\A c \in C \cap DOMAIN idom : idom[c] \in C) => Ancestors(b) \subseteq C
<1> DEFINE D == DOMAIN idom
           next == [c \in D |-> {idom[c]}]
           T == Reach(D, next, b)
<1>1. IsFiniteSet(D) /\ next \in [D -> SUBSET D]
  <2>1. D \subseteq cfg.blocks /\ idom \in [D -> D]
    BY DEF Tree
  <2> QED BY <2>1, FS_Subset DEF WellFormed
<1>2. Ancestors(b) = {b} \cup T
  BY DEF Ancestors
<1>3. \A c \in D : next[c] = {idom[c]}
  OBVIOUS
<1>4. idom \in [D -> D]
  BY DEF Tree
<1> HIDE DEF next, D
<1>5. /\ T \in SUBSET D /\ next[b] \subseteq T
      /\ \A y \in T : next[y] \subseteq T
      /\ \A C : next[b] \subseteq C /\ (\A y \in C \cap D : next[y] \subseteq C) => T \subseteq C
  BY <1>1, ReachFacts DEF D
<1> HIDE DEF T
<1>6. b \in D
  BY DEF D
<1>7. \A C : b \in C /\ (\A c \in C \cap D : idom[c] \in C) => T \subseteq C
  BY <1>3, <1>5, <1>6
<1> QED BY <1>2, <1>3, <1>4, <1>5, <1>6, <1>7 DEF D

(* Going up the tree is going down the order.                               *)
LEMMA AncestorsEarlier ==
    ASSUME WellFormed(cfg), Ordered, Tree, NEW b \in DOMAIN idom
    PROVE  /\ \A c \in Ancestors(b) : Ancestors(c) \subseteq Ancestors(b)
           /\ Ancestors(b) = {b} \cup Ancestors(idom[b])
           /\ \A c \in Ancestors(b) : c # b => RpoIndex(c) < RpoIndex(b)
           /\ b # cfg.entry => idom[b] # b /\ b \notin Ancestors(idom[b])
           /\ Ancestors(cfg.entry) = {cfg.entry}
<1> DEFINE D == DOMAIN idom
<1>1. D \subseteq cfg.blocks /\ idom \in [D -> D] /\ cfg.entry \in D /\ idom[cfg.entry] = cfg.entry
  BY DEF Tree
<1>2. \A c \in D \ {cfg.entry} : RpoIndex(idom[c]) < RpoIndex(c)
  BY <1>1, LaterFacts DEF Tree, CandidatesClimb, Later
<1>3. \A c \in D : RpoIndex(c) \in Nat
  BY <1>1, LaterFacts
<1> HIDE DEF D
<1>4. ASSUME NEW c \in D, NEW a \in Ancestors(c)
      PROVE  Ancestors(a) \subseteq Ancestors(c)
  <2>1. a \in D
    BY <1>4, AncestorFacts DEF D
  <2> QED BY <1>4, <2>1, AncestorFacts DEF D
<1>5. ASSUME NEW c \in D PROVE \A a \in Ancestors(c) : a # c => RpoIndex(a) < RpoIndex(c)
  <2> DEFINE C == {a \in D : a = c \/ RpoIndex(a) < RpoIndex(c)}
  <2>1. c \in C
    OBVIOUS
  <2>2. ASSUME NEW a \in C \cap D PROVE idom[a] \in C
    <3>1. idom[a] \in D
      BY <1>1
    <3>2. CASE a = cfg.entry
      BY <1>1, <3>2
    <3>3. CASE a # cfg.entry
      <4>1. RpoIndex(idom[a]) < RpoIndex(a)
        BY <1>2, <3>3
      <4> QED BY <1>3, <3>1, <4>1
    <3> QED BY <3>2, <3>3
  <2> HIDE DEF C
  <2>3. Ancestors(c) \subseteq C
    BY <2>1, <2>2, AncestorFacts DEF D
  <2> QED BY <2>3 DEF C
<1>6. ASSUME NEW c \in D PROVE Ancestors(c) = {c} \cup Ancestors(idom[c])
  <2>1. idom[c] \in Ancestors(c) /\ c \in Ancestors(c) /\ idom[c] \in D
    BY <1>1, <1>6, AncestorFacts DEF D
  <2>2. Ancestors(idom[c]) \subseteq Ancestors(c)
    BY <1>4, <2>1
  <2>3. idom[c] \in Ancestors(idom[c]) /\ \A a \in Ancestors(idom[c]) : idom[a] \in Ancestors(idom[c])
    BY <2>1, AncestorFacts DEF D
  <2> DEFINE C == {c} \cup Ancestors(idom[c])
  <2>4. c \in C /\ \A a \in C \cap D : idom[a] \in C
    BY <2>3
  <2> HIDE DEF C
  <2>5. Ancestors(c) \subseteq C
    BY <2>4, <1>6, AncestorFacts DEF D
  <2> QED BY <2>1, <2>2, <2>5 DEF C
<1>7. b # cfg.entry => idom[b] # b /\ b \notin Ancestors(idom[b])
  <2> SUFFICES ASSUME b # cfg.entry PROVE idom[b] # b /\ b \notin Ancestors(idom[b])
    OBVIOUS
  <2>1. b \in D /\ idom[b] \in D
    BY <1>1 DEF D
  <2>2. RpoIndex(idom[b]) < RpoIndex(b)
    BY <1>2, <2>1
  <2>3. RpoIndex(b) \in Nat /\ RpoIndex(idom[b]) \in Nat
    BY <1>3, <2>1
  <2> QED BY <1>5, <2>1, <2>2, <2>3
<1>8. Ancestors(cfg.entry) = {cfg.entry}
  <2> DEFINE C == {cfg.entry}
  <2>1. cfg.entry \in C /\ \A a \in C \cap D : idom[a] \in C
    BY <1>1
  <2> HIDE DEF C
  <2>2. Ancestors(cfg.entry) \subseteq C /\ cfg.entry \in Ancestors(cfg.entry)
    BY <1>1, <2>1, AncestorFacts DEF D
  <2> QED BY <2>2 DEF C
<1>9. b \in D
  BY DEF D
<1>10. \A c \in Ancestors(b) : Ancestors(c) \subseteq Ancestors(b)
  BY <1>4, <1>9
<1>11. Ancestors(b) = {b} \cup Ancestors(idom[b])
  BY <1>6, <1>9
<1>12. \A c \in Ancestors(b) : c # b => RpoIndex(c) < RpoIndex(b)
  BY <1>5, <1>9
<1> QED BY <1>7, <1>8, <1>10, <1>11, <1>12

(* One step of intersect: nearer to the entry, along the tree, and no       *)
(* common dominator is passed by.                                          *)
LEMMA ClimbStep ==
    ASSUME WellFormed(cfg), Ordered, Tree,
           NEW x \in DOMAIN idom, NEW y \in DOMAIN idom
    PROVE  LET q == ClimbLater[<<x, y>>]
           IN  /\ q \in (DOMAIN idom) \X (DOMAIN idom)
               /\ q[1] \in Ancestors(x) /\ q[2] \in Ancestors(y)
               /\ Dominators(x) \cap Dominators(y) \subseteq Dominators(q[1]) \cap Dominators(q[2])
               /\ x # y => RpoIndex(q[1]) + RpoIndex(q[2]) < RpoIndex(x) + RpoIndex(y)
               /\ x = y => q = <<x, y>>
<1> DEFINE D == DOMAIN idom
           q == ClimbLater[<<x, y>>]
<1>1. D \subseteq cfg.blocks /\ idom \in [D -> D] /\ cfg.entry \in cfg.blocks
  BY DEF Tree, WellFormed
<1>2. \A c \in D : /\ RpoIndex(c) \in Nat /\ RpoIndex(c) >= 1
                   /\ idom[c] \in Ancestors(c) /\ c \in Ancestors(c)
  BY <1>1, LaterFacts, AncestorFacts
<1>3. \A c \in D \ {cfg.entry} : /\ RpoIndex(idom[c]) < RpoIndex(c)
                                 /\ Dominators(c) \ {c} \subseteq Dominators(idom[c])
  BY <1>1, LaterFacts DEF Tree, CandidatesClimb, Later
<1>4. q = IF Later(x, y) THEN <<idom[x], y>> ELSE IF Later(y, x) THEN <<x, idom[y]>> ELSE <<x, y>>
  <2>1. <<x, y>> \in (DOMAIN idom) \X (DOMAIN idom)
    OBVIOUS
  <2> QED BY <2>1 DEF ClimbLater
<1>5. ASSUME NEW v \in D, NEW w \in D, RpoIndex(v) > RpoIndex(w)
      PROVE  /\ v # cfg.entry
             /\ Dominators(v) \cap Dominators(w) \subseteq Dominators(idom[v])
  <2>1. v # cfg.entry
    BY <1>1, <1>2, <1>5, IndexFacts, SMTT(30)
  <2>2. v \notin Dominators(w)
    <3> SUFFICES ASSUME v \in Dominators(w) PROVE FALSE
      OBVIOUS
    <3>1. v # w
      BY <1>2, <1>5
    <3>2. RpoIndex(v) < RpoIndex(w)
      BY <1>1, <3>1, DominatorsEarlier
    <3> QED BY <1>2, <1>5, <3>2
  <2> QED BY <1>3, <2>1, <2>2
<1>6. x \in D /\ y \in D /\ (Later(x, y) <=> RpoIndex(x) > RpoIndex(y))
      /\ (Later(y, x) <=> RpoIndex(y) > RpoIndex(x)) /\ (RpoIndex(x) = RpoIndex(y) => x = y)
  BY <1>1, LaterFacts
<1> HIDE DEF q, D
<1>7. CASE RpoIndex(x) > RpoIndex(y)
  <2>1. q = <<idom[x], y>> /\ q[1] = idom[x] /\ q[2] = y /\ x # y
    BY <1>2, <1>4, <1>6, <1>7
  <2>2. RpoIndex(idom[x]) < RpoIndex(x) /\ RpoIndex(idom[x]) \in Nat /\ idom[x] \in D
    BY <1>1, <1>2, <1>3, <1>5, <1>6, <1>7
  <2>3. RpoIndex(q[1]) + RpoIndex(q[2]) < RpoIndex(x) + RpoIndex(y)
    BY <1>2, <1>6, <2>1, <2>2
  <2>4. Dominators(x) \cap Dominators(y) \subseteq Dominators(idom[x])
    BY <1>5, <1>6, <1>7
  <2> QED BY <1>2, <1>6, <2>1, <2>2, <2>3, <2>4 DEF q, D
<1>8. CASE RpoIndex(y) > RpoIndex(x)
  <2>1. q = <<x, idom[y]>> /\ q[1] = x /\ q[2] = idom[y] /\ x # y
    BY <1>2, <1>4, <1>6, <1>8
  <2>2. RpoIndex(idom[y]) < RpoIndex(y) /\ RpoIndex(idom[y]) \in Nat /\ idom[y] \in D
    BY <1>1, <1>2, <1>3, <1>5, <1>6, <1>8
  <2>3. RpoIndex(q[1]) + RpoIndex(q[2]) < RpoIndex(x) + RpoIndex(y)
    BY <1>2, <1>6, <2>1, <2>2
  <2>4. Dominators(x) \cap Dominators(y) \subseteq Dominators(idom[y])
    BY <1>5, <1>6, <1>8
  <2> QED BY <1>2, <1>6, <2>1, <2>2, <2>3, <2>4 DEF q, D
<1>9. CASE RpoIndex(x) = RpoIndex(y)
  <2>1. q = <<x, y>> /\ x = y /\ q[1] = x /\ q[2] = y
    BY <1>2, <1>4, <1>6, <1>9
  <2> QED BY <1>2, <1>6, <2>1 DEF q, D
<1> QED BY <1>2, <1>6, <1>7, <1>8, <1>9

(* intersect returns a common ancestor in the tree, and every common        *)
(* dominator dominates it.                                                 *)
LEMMA IntersectFacts ==
    ASSUME WellFormed(cfg), Ordered, Tree,
           NEW b1 \in DOMAIN idom, NEW b2 \in DOMAIN idom
    PROVE  /\ Intersect(b1, b2) \in DOMAIN idom
           /\ Intersect(b1, b2) \in Ancestors(b1) \cap Ancestors(b2)
           /\ Dominators(b1) \cap Dominators(b2) \subseteq Dominators(Intersect(b1, b2))
<1> DEFINE D == DOMAIN idom
           V == D \X D
           m == 2 * Len(rpo)
           start == <<b1, b2>>
           rec(h) == [n \in 0 .. m |-> IF n = 0 THEN start ELSE ClimbLater[h[n-1]]]
           X == Dominators(b1) \cap Dominators(b2)
           top == RpoIndex(b1) + RpoIndex(b2)
<1>1. D \subseteq cfg.blocks /\ \A c \in D : RpoIndex(c) \in Nat /\ RpoIndex(c) >= 1 /\ RpoIndex(c) <= Len(rpo)
  BY LaterFacts DEF Tree
<1>2. m \in Nat /\ start \in V /\ Len(rpo) \in Nat
  BY IndexFacts
<1>3. ASSUME NEW p \in V
      PROVE  /\ ClimbLater[p] \in V
             /\ ClimbLater[p][1] \in Ancestors(p[1]) /\ ClimbLater[p][2] \in Ancestors(p[2])
             /\ Dominators(p[1]) \cap Dominators(p[2])
                   \subseteq Dominators(ClimbLater[p][1]) \cap Dominators(ClimbLater[p][2])
             /\ p[1] # p[2] => RpoIndex(ClimbLater[p][1]) + RpoIndex(ClimbLater[p][2])
                                  < RpoIndex(p[1]) + RpoIndex(p[2])
             /\ p[1] = p[2] => ClimbLater[p] = p
  <2> DEFINE q == ClimbLater[<<p[1], p[2]>>]
  <2>1. p[1] \in D /\ p[2] \in D /\ p = <<p[1], p[2]>>
    OBVIOUS
  <2>2. /\ q \in (DOMAIN idom) \X (DOMAIN idom)
        /\ q[1] \in Ancestors(p[1]) /\ q[2] \in Ancestors(p[2])
        /\ Dominators(p[1]) \cap Dominators(p[2]) \subseteq Dominators(q[1]) \cap Dominators(q[2])
        /\ p[1] # p[2] => RpoIndex(q[1]) + RpoIndex(q[2]) < RpoIndex(p[1]) + RpoIndex(p[2])
        /\ p[1] = p[2] => q = <<p[1], p[2]>>
    BY <2>1, ClimbStep
  <2>3. ClimbLater[p] = q
    BY <2>1
  <2> HIDE DEF q
  <2> QED BY <2>1, <2>2, <2>3
<1>4. ClimbLater \in [V -> V]
  <2>1. DOMAIN ClimbLater = V /\ ClimbLater = [p \in V |-> ClimbLater[p]]
    BY DEF ClimbLater
  <2> HIDE DEF V
  <2> QED BY <1>3, <2>1
<1>5. PICK e : Stepped(e, 0, m, V, start, ClimbLater)
  <2> HIDE DEF V, m, start
  <2> QED BY <1>2, <1>4, SteppedExists
<1>6. e = rec(e)
  <2> HIDE DEF m, start
  <2> QED BY <1>5 DEF Stepped
<1>7. PICK h : h = rec(h) /\ Intersect(b1, b2) = h[m][1]
  <2>1. (CHOOSE h : h = rec(h)) = rec(CHOOSE h : h = rec(h))
    <3> HIDE DEF rec
    <3> QED BY <1>6, Zenon
  <2> QED BY <2>1 DEF Intersect
<1>8. h[0] = start /\ \A n \in Nat : n + 1 <= m => h[n + 1] = ClimbLater[h[n]]
  <2>1. h = rec(h)
    BY <1>7
  <2> HIDE DEF start, m
  <2>2. \A n \in 0 .. m : h[n] = IF n = 0 THEN start ELSE ClimbLater[h[n-1]]
    BY <2>1, Zenon
  <2>3. \A n \in Nat : n + 1 <= m => (n + 1 \in 0 .. m /\ n + 1 # 0 /\ (n + 1) - 1 = n)
    BY <1>2
  <2>4. 0 \in 0 .. m
    BY <1>2
  <2> QED BY <2>2, <2>3, <2>4
<1> DEFINE Good(p, n) ==
              /\ p \in V /\ p[1] \in Ancestors(b1) /\ p[2] \in Ancestors(b2)
              /\ X \subseteq Dominators(p[1]) \cap Dominators(p[2])
              /\ p[1] = p[2] \/ RpoIndex(p[1]) + RpoIndex(p[2]) + n <= top
           S == {n \in Nat : n <= m => Good(h[n], n)}
<1>9. 0 \in S
  <2>1. start \in V /\ start[1] = b1 /\ start[2] = b2 /\ top \in Nat
    BY <1>1
  <2>2. b1 \in Ancestors(b1) /\ b2 \in Ancestors(b2)
    BY AncestorFacts
  <2> HIDE DEF start, m, top, V, X
  <2>3. X \subseteq Dominators(start[1]) \cap Dominators(start[2])
    BY <2>1 DEF X
  <2>4. RpoIndex(start[1]) + RpoIndex(start[2]) + 0 <= top
    BY <1>1, <2>1 DEF top
  <2> QED BY <1>8, <2>1, <2>2, <2>3, <2>4
<1>10. ASSUME NEW n \in Nat, n \in S PROVE n + 1 \in S
  <2> SUFFICES ASSUME n + 1 <= m PROVE Good(h[n + 1], n + 1)
    OBVIOUS
  <2> DEFINE p == h[n]
             q == h[n + 1]
  <2>1. p \in V /\ Good(p, n) /\ q = ClimbLater[p]
    BY <1>2, <1>8, <1>10
  <2> HIDE DEF p, q, V, X, top, m
  <2>2. /\ q \in V
        /\ q[1] \in Ancestors(p[1]) /\ q[2] \in Ancestors(p[2])
        /\ Dominators(p[1]) \cap Dominators(p[2]) \subseteq Dominators(q[1]) \cap Dominators(q[2])
        /\ p[1] # p[2] => RpoIndex(q[1]) + RpoIndex(q[2]) < RpoIndex(p[1]) + RpoIndex(p[2])
        /\ p[1] = p[2] => q = p
    BY <1>3, <2>1
  <2>3. q[1] \in Ancestors(b1) /\ q[2] \in Ancestors(b2)
    BY <2>1, <2>2, AncestorsEarlier
  <2>4. p[1] \in D /\ p[2] \in D /\ q[1] \in D /\ q[2] \in D
    BY <2>1, <2>2 DEF V
  <2>5. q[1] = q[2] \/ RpoIndex(q[1]) + RpoIndex(q[2]) + (n + 1) <= top
    <3>1. CASE p[1] = p[2]
      BY <2>2, <3>1
    <3>2. CASE p[1] # p[2]
      <4>1. top \in Nat /\ RpoIndex(p[1]) \in Nat /\ RpoIndex(p[2]) \in Nat
            /\ RpoIndex(q[1]) \in Nat /\ RpoIndex(q[2]) \in Nat
        BY <1>1, <2>4 DEF top
      <4> QED BY <2>1, <2>2, <3>2, <4>1
    <3> QED BY <3>1, <3>2
  <2>6. X \subseteq Dominators(q[1]) \cap Dominators(q[2])
    BY <2>1, <2>2
  <2> QED BY <2>2, <2>3, <2>5, <2>6 DEF q
<1>11. Nat \subseteq S
  <2> HIDE DEF S
  <2> QED BY <1>9, <1>10, Induction
<1>12. Good(h[m], m)
  <2> HIDE DEF Good, m
  <2> QED BY <1>2, <1>11
<1>13. h[m][1] = h[m][2]
  <2>1. h[m][1] \in D /\ h[m][2] \in D
    BY <1>12
  <2>2. top <= m /\ top \in Nat
    BY <1>1, <1>2
  <2>3. h[m][1] = h[m][2] \/ RpoIndex(h[m][1]) + RpoIndex(h[m][2]) + m <= top
    BY <1>12
  <2> HIDE DEF m, top
  <2> QED BY <1>1, <1>2, <2>1, <2>2, <2>3
<1>14. h[m] \in V /\ h[m][1] \in Ancestors(b1) /\ h[m][2] \in Ancestors(b2)
       /\ X \subseteq Dominators(h[m][1])
  BY <1>12
<1> HIDE DEF m, X
<1> QED BY <1>7, <1>13, <1>14 DEF X

(* compute_idom_for_block finds a candidate if a predecessor has one; it is *)
(* above every predecessor that has one, and below the block's dominators. *)
LEMMA IdomForBlockFacts ==
    ASSUME Ready(cfg), Ordered, Tree, NEW b \in cfg.blocks
    PROVE  /\ Predecessors(cfg, b) \cap DOMAIN idom = {} => IdomForBlock(b) = {}
           /\ Predecessors(cfg, b) \cap DOMAIN idom # {} =>
                 \E d \in DOMAIN idom :
                    /\ IdomForBlock(b) = {d}
                    /\ \A p \in Predecessors(cfg, b) \cap DOMAIN idom : d \in Ancestors(p)
                    /\ Dominators(b) \ {b} \subseteq Dominators(d)
<1> DEFINE D == DOMAIN idom
           V == SUBSET D
           q == cfg.pred[b]
           m == Len(q)
           none == {}
           step == [x \in Nat \X V |-> IF x[1] \in 1 .. m THEN IntersectWith(x[2], q[x[1]]) ELSE x[2]]
           rec(h) == [n \in 0 .. m |-> IF n = 0 THEN {} ELSE IntersectWith(h[n-1], cfg.pred[b][n])]
<1>1. /\ WellFormed(cfg) /\ q \in Seq(cfg.blocks) /\ m \in Nat /\ DOMAIN q = 1 .. m
      /\ D \subseteq cfg.blocks
  BY DEF Ready, Tree
<1>2. \A p : p \in Predecessors(cfg, b) <=> \E n \in 1 .. m : p = q[n]
  BY <1>1 DEF Predecessors
<1>3. ASSUME NEW Y \in V, NEW p PROVE IntersectWith(Y, p) \in V
  <2>1. CASE p \notin D
    BY <2>1 DEF IntersectWith
  <2>2. CASE p \in D
    <3>1. \A d \in Y : Intersect(d, p) \in D
      BY <1>1, <2>2, IntersectFacts
    <3> QED BY <2>2, <3>1 DEF IntersectWith
  <2> QED BY <2>1, <2>2
<1>4. step \in [Nat \X V -> V]
  <2> HIDE DEF V, m, q
  <2> QED BY <1>3
<1>5. \A n \in 1 .. m : \A v \in V : step[<<n, v>>] = IntersectWith(v, q[n])
  <2>1. \A n \in 1 .. m : n \in Nat
    OBVIOUS
  <2> HIDE DEF V, m, q
  <2> QED BY <2>1
<1>6. PICK e : Counted(e, m, V, none, step)
  <2>1. none \in V
    OBVIOUS
  <2> HIDE DEF V, m, step, none
  <2> QED BY <1>1, <1>4, <2>1, CountedExists
<1>7. e = rec(e)
  <2>1. \A n \in 0 .. m : n # 0 => n - 1 \in 0 .. m /\ n \in 1 .. m
    BY <1>1
  <2>2. \A n \in 0 .. m : n # 0 => e[n-1] \in V
    BY <1>6, <2>1 DEF Counted
  <2>3. \A n \in 0 .. m : n # 0 => step[<<n, e[n-1]>>] = IntersectWith(e[n-1], q[n])
    BY <1>5, <2>1, <2>2
  <2> HIDE DEF V, m, step, q
  <2> QED BY <1>6, <2>3 DEF Counted, q
<1>8. PICK h : h = rec(h) /\ IdomForBlock(b) = h[m]
  <2>1. (CHOOSE h : h = rec(h)) = rec(CHOOSE h : h = rec(h))
    <3> HIDE DEF rec
    <3> QED BY <1>7, Zenon
  <2> QED BY <2>1 DEF IdomForBlock
<1>9. h[0] = {} /\ \A n \in Nat : n + 1 <= m => h[n + 1] = IntersectWith(h[n], q[n + 1])
  <2>1. h = rec(h)
    BY <1>8
  <2> HIDE DEF m
  <2>2. \A n \in 0 .. m : h[n] = IF n = 0 THEN {} ELSE IntersectWith(h[n-1], q[n])
    BY <2>1, Zenon
  <2>3. \A n \in Nat : n + 1 <= m => (n + 1 \in 0 .. m /\ n + 1 # 0 /\ (n + 1) - 1 = n)
    BY <1>1
  <2>4. 0 \in 0 .. m
    BY <1>1
  <2> HIDE DEF q
  <2> QED BY <2>2, <2>3, <2>4
<1> DEFINE Seen(n) == {q[k] : k \in 1 .. n} \cap D
           Found(Y, n) ==
              \/ Y = {} /\ Seen(n) = {}
              \/ Seen(n) # {} /\ \E d \in D :
                    /\ Y = {d}
                    /\ \A p \in Seen(n) : d \in Ancestors(p)
                    /\ Dominators(b) \ {b} \subseteq Dominators(d)
           S == {n \in Nat : n <= m => Found(h[n], n)}
<1>10. 0 \in S
  <2>1. Seen(0) = {}
    OBVIOUS
  <2> HIDE DEF Seen
  <2> QED BY <1>9, <2>1
<1>11. ASSUME NEW n \in Nat, n \in S PROVE n + 1 \in S
  <2> SUFFICES ASSUME n + 1 <= m PROVE Found(h[n + 1], n + 1)
    OBVIOUS
  <2> DEFINE p == q[n + 1]
             Y == h[n]
  <2>1. Found(Y, n) /\ h[n + 1] = IntersectWith(Y, p)
    BY <1>1, <1>9, <1>11
  <2>2. p \in Predecessors(cfg, b)
    BY <1>1, <1>2
  <2>3. \A x : x \in Seen(n + 1) <=> x \in Seen(n) \/ (x = p /\ p \in D)
    <3>1. \A k : k \in 1 .. n + 1 <=> k \in 1 .. n \/ k = n + 1
      OBVIOUS
    <3> HIDE DEF D, q
    <3> QED BY <3>1
  <2>4. Dominators(b) \ {b} \subseteq Dominators(p)
    BY <1>1, <2>2, PredecessorsDominated
  <2> HIDE DEF Seen, p, Y
  <2>5. CASE p \notin D
    <3>1. h[n + 1] = Y /\ Seen(n + 1) = Seen(n)
      BY <2>1, <2>3, <2>5 DEF IntersectWith
    <3> HIDE DEF D
    <3> QED BY <2>1, <3>1
  <2>6. CASE p \in D /\ Y = {}
    <3>1. h[n + 1] = {p} /\ Seen(n) = {} /\ p \in Ancestors(p)
      BY <1>1, <2>1, <2>6, AncestorFacts DEF IntersectWith
    <3>2. Seen(n + 1) = {p}
      BY <2>3, <2>6, <3>1
    <3> QED BY <2>4, <2>6, <3>1, <3>2
  <2>7. CASE p \in D /\ Y # {}
    <3>1. PICK d \in D : /\ Y = {d}
                         /\ \A x \in Seen(n) : d \in Ancestors(x)
                         /\ Dominators(b) \ {b} \subseteq Dominators(d)
      BY <2>1, <2>7
    <3>2. h[n + 1] = {Intersect(d, p)}
      BY <2>1, <2>7, <3>1 DEF IntersectWith
    <3>3. /\ Intersect(d, p) \in D /\ Intersect(d, p) \in Ancestors(d) /\ Intersect(d, p) \in Ancestors(p)
          /\ Dominators(d) \cap Dominators(p) \subseteq Dominators(Intersect(d, p))
      BY <1>1, <2>7, IntersectFacts
    <3>4. \A x \in Seen(n) : Ancestors(d) \subseteq Ancestors(x)
      BY <1>1, <3>1, AncestorsEarlier DEF Seen
    <3>5. \A x \in Seen(n + 1) : Intersect(d, p) \in Ancestors(x)
      BY <2>3, <3>3, <3>4
    <3>6. Seen(n + 1) # {}
      BY <2>3, <2>7
    <3>7. Dominators(b) \ {b} \subseteq Dominators(Intersect(d, p))
      BY <2>4, <3>1, <3>3
    <3> QED BY <3>2, <3>3, <3>5, <3>6, <3>7
  <2> QED BY <2>5, <2>6, <2>7
<1>12. Nat \subseteq S
  <2> HIDE DEF S
  <2> QED BY <1>10, <1>11, Induction
<1>13. Found(h[m], m)
  <2> HIDE DEF Found, m
  <2> QED BY <1>1, <1>12
<1>14. Seen(m) = Predecessors(cfg, b) \cap D
  <2> HIDE DEF m, D
  <2> QED BY <1>2
<1> HIDE DEF m, Seen
<1> QED BY <1>8, <1>13, <1>14

-----------------------------------------------------------------------------
(* A block hangs from a block above all its predecessors in the tree.       *)
Hangs(b) == \A p \in Predecessors(cfg, b) \cap DOMAIN idom : idom[b] \in Ancestors(p)
(* No round changes anything any more.                                      *)
Fixed ==
    /\ DOMAIN idom = cfg.blocks
    /\ \A b \in cfg.blocks \ {cfg.entry} : Hangs(b)

(* An earlier predecessor, and it is in the tree if the earlier blocks are. *)
LEMMA EarlierPredecessor ==
    ASSUME Ready(cfg), Ordered, NEW b \in cfg.blocks, b # cfg.entry
    PROVE  \E p \in Predecessors(cfg, b) : p \in cfg.blocks /\ RpoIndex(p) < RpoIndex(b)
<1>1. RpoIndex(b) \in 2 .. Len(rpo) /\ rpo[RpoIndex(b)] = b /\ Len(rpo) \in Nat
  <2>1. RpoIndex(b) \in 1 .. Len(rpo) /\ rpo[RpoIndex(b)] = b /\ RpoIndex(b) # 1 /\ Len(rpo) \in Nat
    BY IndexFacts, LaterFacts
  <2> QED BY <2>1
<1>2. PICK j \in 1 .. RpoIndex(b) - 1 : rpo[j] \in Predecessors(cfg, b)
  BY <1>1 DEF Ordered
<1>3. j \in 1 .. Len(rpo) /\ j < RpoIndex(b)
  BY <1>1
<1> QED BY <1>2, <1>3, IndexFacts

LEMMA SettledFacts ==
    ASSUME Ready(cfg), Ordered, Tree, NEW b \in cfg.blocks, Settled(b)
    PROVE  Hangs(b)
<1>1. CASE Predecessors(cfg, b) \cap DOMAIN idom = {}
  BY <1>1 DEF Hangs
<1>2. CASE Predecessors(cfg, b) \cap DOMAIN idom # {}
  <2>1. PICK d \in DOMAIN idom : /\ IdomForBlock(b) = {d}
                                 /\ \A p \in Predecessors(cfg, b) \cap DOMAIN idom : d \in Ancestors(p)
    BY <1>2, IdomForBlockFacts
  <2> QED BY <2>1 DEF Settled, Hangs
<1> QED BY <1>1, <1>2

LEMMA HangsFacts ==
    ASSUME Ready(cfg), Ordered, Fixed, NEW b \in cfg.blocks, b # cfg.entry
    PROVE  /\ Predecessors(cfg, b) # {}
           /\ \A p \in Predecessors(cfg, b) : p \in cfg.blocks /\ idom[b] \in Ancestors(p)
<1>1. Predecessors(cfg, b) \subseteq cfg.blocks /\ DOMAIN idom = cfg.blocks /\ Hangs(b)
  BY DEF Ready, WellFormed, Fixed
<1>2. Predecessors(cfg, b) # {}
  BY EarlierPredecessor
<1> QED BY <1>1, <1>2 DEF Hangs

(* The fixed point: what is above a block in the tree is what dominates it. *)
LEMMA FixedPoint ==
    ASSUME Ready(cfg), Ordered, Tree, Fixed
    PROVE  \A b \in cfg.blocks : Ancestors(b) = Dominators(b)
<1>1. /\ WellFormed(cfg) /\ DOMAIN idom = cfg.blocks /\ cfg.entry \in cfg.blocks
      /\ idom \in [cfg.blocks -> cfg.blocks]
  BY DEF Ready, WellFormed, Fixed, Tree
<1>2. ASSUME NEW b \in cfg.blocks PROVE Dominators(b) \subseteq Ancestors(b)
  <2> DEFINE S == {i \in Nat : i \in 1 .. Len(rpo) => Dominators(rpo[i]) \subseteq Ancestors(rpo[i])}
  <2>1. ASSUME NEW i \in Nat, \A m \in Nat : m < i => m \in S PROVE i \in S
    <3> SUFFICES ASSUME i \in 1 .. Len(rpo), NEW d \in Dominators(rpo[i]) PROVE d \in Ancestors(rpo[i])
      OBVIOUS
    <3> DEFINE c == rpo[i]
    <3>1. c \in cfg.blocks /\ RpoIndex(c) = i /\ d \in cfg.blocks
      BY IndexFacts DEF Dominators
    <3> HIDE DEF c
    <3>2. CASE d = c
      BY <1>1, <3>1, <3>2, AncestorFacts DEF c
    <3>3. CASE d # c
      <4>1. c # cfg.entry
        <5> SUFFICES ASSUME c = cfg.entry PROVE FALSE
          OBVIOUS
        <5>1. RpoIndex(d) < 1
          BY <1>1, <3>1, <3>3, DominatorsEarlier, IndexFacts DEF c
        <5> QED BY <1>1, <3>1, <5>1, LaterFacts
      <4>2. d \in Dominators(idom[c]) /\ Later(c, idom[c]) /\ idom[c] \in cfg.blocks
        BY <1>1, <3>1, <3>3, <4>1 DEF Tree, CandidatesClimb, c
      <4>3. RpoIndex(idom[c]) \in 1 .. Len(rpo) /\ rpo[RpoIndex(idom[c])] = idom[c]
        BY <4>2, IndexFacts
      <4>4. RpoIndex(idom[c]) \in Nat /\ RpoIndex(idom[c]) < i
        BY <3>1, <4>2, <4>3 DEF Later
      <4>5. d \in Ancestors(idom[c])
        BY <2>1, <4>2, <4>3, <4>4
      <4>6. d \in Ancestors(c)
        BY <1>1, <3>1, <4>5, AncestorsEarlier
      <4> QED BY <4>6 DEF c
    <3> QED BY <3>2, <3>3
  <2>2. Nat \subseteq S
    <3> HIDE DEF S
    <3> QED BY <2>1, StrongInduction
  <2>3. RpoIndex(b) \in Nat /\ RpoIndex(b) \in 1 .. Len(rpo) /\ rpo[RpoIndex(b)] = b
    BY IndexFacts
  <2> QED BY <2>2, <2>3
<1>3. ASSUME NEW b \in cfg.blocks, NEW d \in Ancestors(b) PROVE d \in Dominators(b)
  <2>1. d \in cfg.blocks /\ Ancestors(cfg.entry) = {cfg.entry}
    BY <1>1, AncestorFacts, AncestorsEarlier
  <2>2. CASE d = cfg.entry \/ d = b
    BY <2>1, <2>2 DEF Dominators, ReachedAvoiding
  <2>3. CASE d # cfg.entry /\ d # b
    <3> DEFINE C == {c \in cfg.blocks : d \notin Ancestors(c)}
    <3>1. cfg.entry \in C
      BY <1>1, <2>1, <2>3
    <3>2. ASSUME NEW c \in C, NEW e \in Successors(cfg, c) \ {d} PROVE e \in C
      <4>1. e \in cfg.blocks /\ c \in Predecessors(cfg, e) /\ c \in cfg.blocks
        BY <1>1, <3>2 DEF WellFormed
      <4>2. CASE e = cfg.entry
        BY <3>1, <4>2
      <4>3. CASE e # cfg.entry
        <5>1. idom[e] \in Ancestors(c) /\ idom[e] \in cfg.blocks
          BY <1>1, <4>1, <4>3, HangsFacts
        <5>2. Ancestors(idom[e]) \subseteq Ancestors(c)
          BY <1>1, <4>1, <5>1, AncestorsEarlier
        <5>3. Ancestors(e) = {e} \cup Ancestors(idom[e])
          BY <1>1, <4>1, AncestorsEarlier
        <5> QED BY <3>2, <4>1, <5>2, <5>3
      <4> QED BY <4>2, <4>3
    <3> HIDE DEF C
    <3>3. ReachedAvoiding(d) \subseteq C
      BY <1>1, <2>1, <2>3, <3>1, <3>2, AvoidingFacts
    <3>4. b \notin C
      BY <1>3 DEF C
    <3> QED BY <2>1, <3>3, <3>4 DEF Dominators
  <2> QED BY <2>2, <2>3
<1> QED BY <1>2, <1>3

-----------------------------------------------------------------------------
(* The way up from a block, short of a block above it.                      *)
LEMMA WayUpFacts ==
    ASSUME WellFormed(cfg), Ordered, Tree, NEW p \in DOMAIN idom, NEW top \in Ancestors(p)
    PROVE  WayUp(p, top) = Ancestors(p) \ Ancestors(top)
<1> DEFINE D == DOMAIN idom
           B == D \ {top}
           next == [c \in B |-> {idom[c]} \ {top}]
           T == Reach(B, next, p)
<1>1. D \subseteq cfg.blocks /\ idom \in [D -> D] /\ top \in D /\ p \in D
  BY AncestorFacts DEF Tree
<1>2. CASE p = top
  BY <1>2 DEF WayUp
<1>3. CASE p # top
  <2>1. WayUp(p, top) = {p} \cup T
    BY <1>3 DEF WayUp
  <2>2. IsFiniteSet(B) /\ next \in [B -> SUBSET B] /\ p \in B
    BY <1>1, <1>3, FS_Subset DEF WellFormed
  <2>3. \A c \in B : next[c] = {idom[c]} \ {top}
    OBVIOUS
  <2> HIDE DEF next
  <2>4. /\ T \in SUBSET B /\ next[p] \subseteq T
        /\ \A y \in T : next[y] \subseteq T
        /\ \A C : next[p] \subseteq C /\ (\A y \in C \cap B : next[y] \subseteq C) => T \subseteq C
    <3> HIDE DEF B
    <3> QED BY <2>2, ReachFacts
  <2> HIDE DEF T
  <2> DEFINE W == {p} \cup T
  <2>5. W \subseteq B /\ \A c \in W : idom[c] # top => idom[c] \in W
    BY <2>2, <2>3, <2>4
  <2>6. Ancestors(p) \ Ancestors(top) \subseteq W
    <3> DEFINE C == W \cup Ancestors(top)
    <3>1. p \in C /\ \A c \in C \cap D : idom[c] \in C
      <4>1. top \in Ancestors(top) /\ \A c \in Ancestors(top) : idom[c] \in Ancestors(top)
        BY <1>1, AncestorFacts
      <4> QED BY <2>5, <4>1
    <3> HIDE DEF C
    <3>2. Ancestors(p) \subseteq C
      BY <1>1, <3>1, AncestorFacts
    <3> QED BY <3>2 DEF C
  <2>7. W \subseteq Ancestors(p) \ Ancestors(top)
    <3> DEFINE C == {c \in Ancestors(p) : top \in Ancestors(c) /\ c # top}
    <3>1. ASSUME NEW c \in C PROVE {idom[c]} \ {top} \subseteq C
      <4>1. c \in D /\ c \in Ancestors(p) /\ idom[c] \in Ancestors(p)
        BY <1>1, <3>1, AncestorFacts
      <4>2. Ancestors(c) = {c} \cup Ancestors(idom[c])
        BY <4>1, AncestorsEarlier
      <4> QED BY <3>1, <4>1, <4>2
    <3>2. p \in C
      BY <1>1, <1>3, AncestorFacts
    <3> HIDE DEF C
    <3>3. T \subseteq C
      BY <2>2, <2>3, <2>4, <3>1, <3>2
    <3>4. ASSUME NEW c \in C PROVE c \in Ancestors(p) \ Ancestors(top)
      <4>1. c \in Ancestors(p) /\ top \in Ancestors(c) /\ c # top /\ c \in D
        BY <3>4, AncestorFacts DEF C
      <4>2. RpoIndex(top) < RpoIndex(c)
        BY <4>1, AncestorsEarlier
      <4>3. c \in Ancestors(top) => RpoIndex(c) < RpoIndex(top)
        BY <1>1, <4>1, AncestorsEarlier
      <4>4. RpoIndex(c) \in Nat /\ RpoIndex(top) \in Nat
        BY <1>1, <4>1, LaterFacts
      <4> QED BY <4>1, <4>2, <4>3, <4>4
    <3> QED BY <3>2, <3>3, <3>4
  <2> HIDE DEF W
  <2> QED BY <2>1, <2>6, <2>7 DEF W
<1> QED BY <1>2, <1>3

(* A block's only predecessor is its dominator.                             *)
LEMMA OnlyPredecessor ==
    ASSUME Ready(cfg), Ordered, Tree, Fixed,
           NEW n \in cfg.blocks, n # cfg.entry, NEW p \in cfg.blocks, Predecessors(cfg, n) = {p}
    PROVE  idom[n] = p
<1>1. /\ WellFormed(cfg) /\ cfg.entry \in cfg.blocks /\ DOMAIN idom = cfg.blocks
      /\ idom \in [cfg.blocks -> cfg.blocks]
  BY DEF Ready, WellFormed, Fixed, Tree
<1>2. p # n
  <2>1. RpoIndex(n) \in 2 .. Len(rpo) /\ rpo[RpoIndex(n)] = n
    <3>1. RpoIndex(n) \in 1 .. Len(rpo) /\ rpo[RpoIndex(n)] = n /\ RpoIndex(n) # 1
      BY IndexFacts, LaterFacts
    <3> QED BY <3>1
  <2>2. PICK j \in 1 .. RpoIndex(n) - 1 : rpo[j] = p
    BY <2>1 DEF Ordered
  <2>3. j \in 1 .. Len(rpo) /\ j < RpoIndex(n) /\ RpoIndex(rpo[j]) = j
    BY <2>1, <2>2, IndexFacts
  <2> QED BY <2>1, <2>2, <2>3
<1>3. p \in Dominators(n)
  <2>1. CASE p = cfg.entry
    BY <2>1 DEF Dominators, ReachedAvoiding
  <2>2. CASE p # cfg.entry
    <3> DEFINE C == cfg.blocks \ {n, p}
    <3>1. ASSUME NEW b \in C, NEW e \in Successors(cfg, b) \ {p} PROVE e \in C
      BY <1>1, <3>1 DEF WellFormed
    <3>2. cfg.entry \in C
      BY <1>1, <2>2
    <3> HIDE DEF C
    <3>3. ReachedAvoiding(p) \subseteq C
      BY <1>1, <2>2, <3>1, <3>2, AvoidingFacts
    <3> QED BY <3>3 DEF Dominators, C
  <2> QED BY <2>1, <2>2
<1>4. p \in Ancestors(idom[n])
  <2>1. p \in Ancestors(n)
    BY <1>3, FixedPoint
  <2> QED BY <1>1, <1>2, <2>1, AncestorsEarlier
<1>5. idom[n] \in Ancestors(p) /\ idom[n] \in cfg.blocks
  BY <1>1, HangsFacts
<1>6. idom[n] # p => RpoIndex(idom[n]) < RpoIndex(p) /\ RpoIndex(p) < RpoIndex(idom[n])
  BY <1>1, <1>4, <1>5, AncestorsEarlier
<1>7. RpoIndex(p) \in Nat /\ RpoIndex(idom[n]) \in Nat
  BY <1>5, LaterFacts
<1> QED BY <1>6, <1>7

(* The frontier of a block is where its dominance ends.                     *)
LEMMA FrontierFacts ==
    ASSUME Ready(cfg), Ordered, Tree, Fixed, NEW b \in cfg.blocks
    PROVE  FrontierOf(b) = {n \in cfg.blocks : /\ \E p \in Predecessors(cfg, n) : b \in Dominators(p)
                                               /\ b \notin Dominators(n) \ {n}}
<1>1. /\ WellFormed(cfg) /\ DOMAIN idom = cfg.blocks /\ Predecessors(cfg, cfg.entry) = {}
      /\ idom \in [cfg.blocks -> cfg.blocks]
  BY DEF Ready, Fixed, Tree
<1>2. \A c \in cfg.blocks : Ancestors(c) = Dominators(c)
  BY FixedPoint
<1> SUFFICES ASSUME NEW n \in cfg.blocks
             PROVE  (IsJoin(n) /\ \E p \in Predecessors(cfg, n) : b \in Runners(p, n))
                    <=> ((\E p \in Predecessors(cfg, n) : b \in Dominators(p)) /\ b \notin Dominators(n) \ {n})
  BY DEF FrontierOf
<1>3. CASE n = cfg.entry
  BY <1>1, <1>3
<1>4. CASE n # cfg.entry
  <2>1. \A p \in Predecessors(cfg, n) : p \in cfg.blocks /\ idom[n] \in Ancestors(p)
    BY <1>4, HangsFacts
  <2>2. \A p \in Predecessors(cfg, n) : Runners(p, n) = Dominators(p) \ Dominators(idom[n])
    <3>1. ASSUME NEW p \in Predecessors(cfg, n) PROVE Runners(p, n) = Ancestors(p) \ Ancestors(idom[n])
      BY <1>1, <2>1, WayUpFacts DEF Runners
    <3>2. idom[n] \in cfg.blocks
      BY <1>1
    <3> QED BY <1>2, <2>1, <3>1, <3>2
  <2>3. Dominators(n) \ {n} = Dominators(idom[n])
    <3>1. Ancestors(n) = {n} \cup Ancestors(idom[n]) /\ n \notin Ancestors(idom[n]) /\ idom[n] \in cfg.blocks
      BY <1>1, <1>4, AncestorsEarlier
    <3> QED BY <1>2, <3>1
  <2>4. CASE IsJoin(n)
    BY <2>2, <2>3, <2>4
  <2>5. CASE ~ IsJoin(n)
    <3>1. ASSUME NEW p \in Predecessors(cfg, n) PROVE Predecessors(cfg, n) = {p}
      <4>1. cfg.pred[n] \in Seq(cfg.blocks) /\ ~ (Len(cfg.pred[n]) >= 2)
        BY <2>5 DEF Ready, IsJoin
      <4>2. Len(cfg.pred[n]) \in Nat /\ DOMAIN cfg.pred[n] = 1 .. Len(cfg.pred[n])
        BY <4>1
      <4>3. \A i, j \in DOMAIN cfg.pred[n] : i = j
        BY <4>1, <4>2
      <4> QED BY <3>1, <4>3 DEF Predecessors
    <3>2. \A p \in Predecessors(cfg, n) : idom[n] = p
      BY <1>4, <2>1, <3>1, OnlyPredecessor
    <3> QED BY <2>3, <2>5, <3>2
  <2> QED BY <2>4, <2>5
<1> QED BY <1>3, <1>4

-----------------------------------------------------------------------------
(* The loop of a back edge: what its header dominates and leads back to it, *)
(* and every predecessor of that but for the header's own.                  *)
LEMMA LoopFacts ==
    ASSUME Ready(cfg), NEW t \in cfg.blocks, NEW h \in Successors(cfg, t), h \in Dominators(t)
    PROVE  LET L == NaturalLoop(t, h)
           IN  /\ L \subseteq cfg.blocks
               /\ \A b \in L :
                     /\ h \in Dominators(b)
                     /\ h \in Reach(L, [c \in L |-> Successors(cfg, c) \cap L], b)
               /\ \A b \in L \ {h} : Predecessors(cfg, b) \subseteq L
<1> DEFINE B == cfg.blocks
           L == NaturalLoop(t, h)
           next == [c \in L |-> Successors(cfg, c) \cap L]
<1>1. /\ WellFormed(cfg) /\ IsFiniteSet(B) /\ cfg.entry \in B
      /\ t \in B /\ h \in B
      /\ \A b \in B : Predecessors(cfg, b) \subseteq B /\ Successors(cfg, b) \subseteq B
  BY DEF Ready, WellFormed
<1>2. \A c \in L : next[c] = Successors(cfg, c) \cap L
  OBVIOUS
<1>3. ASSUME IsFiniteSet(L), NEW b \in L
      PROVE  /\ Successors(cfg, b) \cap L \subseteq Reach(L, next, b)
             /\ \A s \in Successors(cfg, b) \cap L : Reach(L, next, s) \subseteq Reach(L, next, b)
  <2>1. next \in [L -> SUBSET L]
    OBVIOUS
  <2> HIDE DEF next, L
  <2>2. /\ Reach(L, next, b) \in SUBSET L /\ next[b] \subseteq Reach(L, next, b)
        /\ \A y \in Reach(L, next, b) : next[y] \subseteq Reach(L, next, b)
    BY <1>3, <2>1, ReachFacts
  <2>3. ASSUME NEW s \in next[b] PROVE Reach(L, next, s) \subseteq Reach(L, next, b)
    <3> DEFINE C == Reach(L, next, b)
    <3>1. s \in L /\ next[s] \subseteq C /\ \A y \in C \cap L : next[y] \subseteq C
      BY <2>2
    <3> HIDE DEF C
    <3>2. Reach(L, next, s) \subseteq C
      BY <1>3, <2>1, <3>1, ReachFacts
    <3> QED BY <3>2 DEF C
  <2> QED BY <1>2, <2>2, <2>3
<1>4. CASE t = h
  <2>1. L = {h}
    BY <1>4 DEF NaturalLoop
  <2>2. IsFiniteSet(L) /\ h \in L
    BY <2>1, FS_Singleton
  <2>3. h \in Successors(cfg, h) \cap L
    BY <1>4, <2>2
  <2>4. h \in Reach(L, next, h)
    BY <1>3, <2>2, <2>3
  <2> HIDE DEF L
  <2> QED BY <1>1, <1>4, <2>1, <2>4 DEF L
<1>5. CASE t # h
  <2> DEFINE m == Cardinality(B)
             V == SUBSET B
             start == {h, t}
             step == [X \in V |-> X \cup UNION {Predecessors(cfg, b) : b \in X \ {h}}]
             rec(f) == [n \in 0 .. m |->
                          IF n = 0 THEN {h, t}
                          ELSE LET inner == f[n-1]
                               IN  inner \cup UNION {Predecessors(cfg, b) : b \in inner \ {h}}]
  <2>1. m \in Nat
    BY <1>1, FS_CardinalityType
  <2>2. step \in [V -> V] /\ start \in V /\ \A X \in V : X \subseteq step[X]
    BY <1>1
  <2>3. PICK e : Stepped(e, 0, m, V, start, step)
    <3> HIDE DEF V, step, start, m
    <3> QED BY <2>1, <2>2, SteppedExists
  <2>4. e = rec(e)
    <3>1. \A k \in 0 .. m : k # 0 => k - 1 \in 0 .. m
      BY <2>1
    <3>2. \A k \in 0 .. m : k # 0 => step[e[k-1]] = e[k-1] \cup UNION {Predecessors(cfg, b) : b \in e[k-1] \ {h}}
      BY <2>3, <3>1 DEF Stepped
    <3> QED BY <2>3, <3>2 DEF Stepped
  <2>5. PICK f : f = rec(f) /\ L = f[m]
    <3>1. (CHOOSE f : f = rec(f)) = rec(CHOOSE f : f = rec(f))
      <4> HIDE DEF rec
      <4> QED BY <2>4, Zenon
    <3> QED BY <1>5, <3>1 DEF NaturalLoop
  <2>6. Stepped(f, 0, m, V, start, step)
    <3> DEFINE body == rec(f)
    <3>1. f = body
      BY <2>5
    <3>2. DOMAIN f = 0 .. m /\ f = [k \in 0 .. m |-> f[k]]
      BY <3>1
    <3>3. f[0] = start
      BY <3>1, <2>1
    <3>4. ASSUME NEW k \in 0 + 1 .. m, f[k-1] \in V PROVE f[k] = step[f[k-1]]
      <4>1. k \in 0 .. m /\ k # 0
        BY <2>1
      <4>2. f[k] = f[k-1] \cup UNION {Predecessors(cfg, b) : b \in f[k-1] \ {h}}
        BY <3>1, <4>1
      <4> QED BY <3>4, <4>2
    <3> HIDE DEF V, step, start, body, m
    <3> QED BY <3>2, <3>3, <3>4, <2>1, <2>2, SolutionStepped
  <2>7. Growing(f, 0, m, B, start, step)
    <3>1. IsFiniteSet(start) /\ Cardinality(start) \in Nat
      BY <1>1, <2>2, FS_Subset, FS_CardinalityType
    <3>2. Cardinality(start) + (m - 0) >= m
      BY <2>1, <3>1
    <3> HIDE DEF step, start
    <3> QED BY <1>1, <2>1, <2>2, <2>6, <3>2 DEF Growing
  <2>8. L \in V /\ start \subseteq L /\ step[L] = L
    <3> HIDE DEF step, start, L
    <3>1. f[m] \in SUBSET B /\ start \subseteq f[m] /\ step[f[m]] = f[m]
      <4> HIDE DEF m
      <4> QED BY <2>7, Saturation
    <3> QED BY <2>5, <3>1
  <2>9. ASSUME NEW C, start \subseteq C, \A X \in V : X \subseteq C => step[X] \subseteq C
        PROVE  L \subseteq C
    <3>1. start \subseteq C /\ \A X \in SUBSET B : X \subseteq C => step[X] \subseteq C
      BY <2>9
    <3> HIDE DEF step, start, m, L
    <3>2. f[m] \subseteq C
      BY <2>7, <3>1, GrowsInside
    <3> QED BY <2>5, <3>2
  <2>10. \A b \in L \ {h} : Predecessors(cfg, b) \subseteq L
    BY <2>8
  <2>11. h \in L /\ t \in L /\ L \subseteq B /\ IsFiniteSet(L)
    BY <1>1, <2>8, FS_Subset
  <2> HIDE DEF L, next
  <2>12. \A b \in L : h \in Dominators(b)
    <3> DEFINE C == {b \in B : h \in Dominators(b)}
    <3>1. start \subseteq C
      BY <1>1 DEF Dominators
    <3>2. ASSUME NEW X \in V, X \subseteq C PROVE step[X] \subseteq C
      <4>1. ASSUME NEW b \in X \ {h}, NEW p \in Predecessors(cfg, b) PROVE p \in C
        BY <1>1, <3>2, <4>1, PredecessorsDominated
      <4> QED BY <3>2, <4>1
    <3> HIDE DEF C, step, start
    <3>3. L \subseteq C
      BY <2>9, <3>1, <3>2
    <3> QED BY <3>3 DEF C
  <2>13. \A b \in L \ {h} : h \in Reach(L, next, b)
    <3> DEFINE C == {b \in L : b = h \/ h \in Reach(L, next, b)}
    <3>1. start \subseteq C
      BY <1>3, <2>11
    <3>2. ASSUME NEW X \in V, X \subseteq C PROVE step[X] \subseteq C
      <4>1. ASSUME NEW b \in X \ {h}, NEW p \in Predecessors(cfg, b) PROVE p \in C
        <5>1. b \in L /\ b \in B /\ h \in Reach(L, next, b)
          BY <2>11, <3>2
        <5>2. p \in L /\ p \in B /\ b \in Successors(cfg, p) \cap L
          BY <1>1, <2>10, <4>1, <5>1 DEF WellFormed
        <5>3. Reach(L, next, b) \subseteq Reach(L, next, p)
          BY <1>3, <2>11, <5>2
        <5> QED BY <5>1, <5>2, <5>3
      <4> QED BY <3>2, <4>1
    <3> HIDE DEF C, step, start
    <3>3. L \subseteq C
      BY <2>9, <3>1, <3>2
    <3> QED BY <3>3 DEF C
  <2>14. \E s \in Successors(cfg, h) : s \in L \ {h}
    <3> SUFFICES ASSUME \A s \in Successors(cfg, h) : s \notin L \ {h} PROVE FALSE
      OBVIOUS
    <3> DEFINE U == B \ (L \ {h})
    <3>1. \A u \in U : Successors(cfg, u) \subseteq U
      <4> SUFFICES ASSUME NEW u \in U, NEW s \in Successors(cfg, u), s \in L \ {h} PROVE FALSE
        BY <1>1
      <4>1. u \in Predecessors(cfg, s)
        BY <1>1, <2>11 DEF WellFormed
      <4> QED BY <2>10, <4>1
    <3>2. cfg.entry \in U
      <4> SUFFICES ASSUME cfg.entry \in L \ {h} PROVE FALSE
        BY <1>1
      <4>1. cfg.entry \notin ReachedAvoiding(h) /\ h # cfg.entry
        BY <2>12 DEF Dominators
      <4> QED BY <1>1, <4>1, AvoidingFacts
    <3> HIDE DEF U
    <3>3. ReachableFrom(cfg, cfg.entry) \subseteq U
      BY <1>1, <3>1, <3>2, ReachableFacts
    <3>4. t \in U
      BY <1>1, <3>2, <3>3 DEF Ready
    <3> QED BY <1>5, <2>11, <3>4 DEF U
  <2>15. h \in Reach(L, next, h)
    BY <1>3, <2>11, <2>13, <2>14
  <2> QED BY <2>10, <2>11, <2>12, <2>13, <2>15 DEF L, next
<1> QED BY <1>4, <1>5

-----------------------------------------------------------------------------
(* The depth-first search: a block is on the path or in the postorder or    *)
(* still to be met, each once; what a block on the path has left are        *)
(* successors, the others were visited; the path is one of edges, from the  *)
(* entry; and a block that was left has a predecessor that is left later.   *)
OnceEach ==
    /\ path \in Seq([block : cfg.blocks, left : Seq(cfg.blocks)])
    /\ postorder \in Seq(cfg.blocks)
    /\ \A i, j \in DOMAIN path : path[i].block = path[j].block => i = j
    /\ \A i, j \in DOMAIN postorder : postorder[i] = postorder[j] => i = j
    /\ \A i \in DOMAIN path, k \in DOMAIN postorder : path[i].block # postorder[k]
AlongPath ==
    \A i \in DOMAIN path :
        /\ ToSet(path[i].left) \subseteq Successors(cfg, path[i].block)
        /\ Successors(cfg, path[i].block) \subseteq Visited \cup ToSet(path[i].left)
        /\ IF i = Len(path) THEN path[i].block = cfg.entry
           ELSE path[i].block \in Successors(cfg, path[i+1].block)
LeftBefore ==
    \A k \in DOMAIN postorder :
        /\ Successors(cfg, postorder[k]) \subseteq Visited
        /\ \/ postorder[k] = cfg.entry /\ path = <<>> /\ k = Len(postorder)
           \/ \E m \in k + 1 .. Len(postorder) : postorder[k] \in Successors(cfg, postorder[m])
           \/ \E i \in DOMAIN path : postorder[k] \in Successors(cfg, path[i].block)
Searching == OnceEach /\ AlongPath /\ LeftBefore

LEMMA ListFacts ==
    ASSUME Ready(cfg), NEW b \in cfg.blocks
    PROVE  /\ cfg.succ[b] \in Seq(cfg.blocks) /\ ToSet(cfg.succ[b]) = Successors(cfg, b)
           /\ Successors(cfg, b) \subseteq cfg.blocks
  BY DEF Ready, WellFormed, ToSet, Successors

LEMMA SearchStarts ==
    ASSUME Ready(cfg), StartSearch
    PROVE  Searching'
<1> DEFINE e == [block |-> cfg.entry, left |-> cfg.succ[cfg.entry]]
<1>1. /\ cfg.entry \in cfg.blocks /\ cfg' = cfg
      /\ path' = <<e>> /\ postorder' = <<>>
  BY DEF Ready, WellFormed, StartSearch
<1>2. cfg.succ[cfg.entry] \in Seq(cfg.blocks) /\ ToSet(cfg.succ[cfg.entry]) = Successors(cfg, cfg.entry)
  BY <1>1, ListFacts
<1>3. /\ e \in [block : cfg.blocks, left : Seq(cfg.blocks)]
      /\ e.block = cfg.entry /\ ToSet(e.left) = Successors(cfg, cfg.entry)
  BY <1>1, <1>2
<1> HIDE DEF e
<1>4. Len(path') = 1 /\ DOMAIN path' = {1} /\ path'[1] = e /\ DOMAIN postorder' = {}
  BY <1>1
<1>5. OnceEach'
  BY <1>1, <1>3, <1>4 DEF OnceEach
<1>6. AlongPath'
  BY <1>1, <1>3, <1>4 DEF AlongPath
<1>7. LeftBefore'
  BY <1>1, <1>4 DEF LeftBefore
<1> QED BY <1>5, <1>6, <1>7 DEF Searching

LEMMA VisitKeepsSearching ==
    ASSUME Ready(cfg), Searching, VisitSuccessor
    PROVE  Searching'
<1> DEFINE n == Len(path)
           E == [block : cfg.blocks, left : Seq(cfg.blocks)]
           s == Head(path[1].left)
           rest == [path EXCEPT ![1].left = Tail(@)]
           e == [block |-> s, left |-> cfg.succ[s]]
<1>1. /\ path \in Seq(E) /\ n \in Nat /\ n >= 1 /\ DOMAIN path = 1 .. n
      /\ postorder \in Seq(cfg.blocks) /\ Len(postorder) \in Nat /\ DOMAIN postorder = 1 .. Len(postorder)
      /\ path[1] \in E /\ path[1].left \in Seq(cfg.blocks) /\ path[1].left # <<>>
  <2>1. path \in Seq(E) /\ postorder \in Seq(cfg.blocks) /\ path # <<>> /\ path[1].left # <<>>
    BY DEF Searching, OnceEach, VisitSuccessor
  <2>2. \A x \in E : x.left \in Seq(cfg.blocks)
    OBVIOUS
  <2> HIDE DEF E
  <2>3. n \in Nat /\ n >= 1 /\ DOMAIN path = 1 .. n /\ path[1] \in E
    BY <2>1
  <2> QED BY <2>1, <2>2, <2>3
<1>2. cfg' = cfg /\ postorder' = postorder
  BY DEF VisitSuccessor
<1>8. \A i \in 1 .. n : i # n => i + 1 \in 1 .. n
  <2> HIDE DEF n, E
  <2> QED BY <1>1
<1>9. /\ \A i, j \in 1 .. n : path[i].block = path[j].block => i = j
      /\ \A i, j \in DOMAIN postorder : postorder[i] = postorder[j] => i = j
      /\ \A i \in 1 .. n, k \in DOMAIN postorder : path[i].block # postorder[k]
  <2>1. DOMAIN path = 1 .. n
    BY <1>1
  <2> QED BY <2>1 DEF Searching, OnceEach
<1>10. \A i \in 1 .. n :
          /\ ToSet(path[i].left) \subseteq Successors(cfg, path[i].block)
          /\ Successors(cfg, path[i].block) \subseteq Visited \cup ToSet(path[i].left)
          /\ IF i = n THEN path[i].block = cfg.entry
             ELSE path[i].block \in Successors(cfg, path[i+1].block)
  <2>1. DOMAIN path = 1 .. n
    BY <1>1
  <2> QED BY <2>1 DEF Searching, AlongPath
<1>3. /\ s \in cfg.blocks /\ Tail(path[1].left) \in Seq(cfg.blocks)
      /\ ToSet(path[1].left) = {s} \cup ToSet(Tail(path[1].left))
  <2> DEFINE q == path[1].left
  <2>1. q \in Seq(cfg.blocks) /\ q # <<>>
    BY <1>1
  <2> HIDE DEF q
  <2>2. /\ Head(q) = q[1] /\ Head(q) \in cfg.blocks /\ Tail(q) \in Seq(cfg.blocks)
        /\ Len(q) \in Nat /\ Len(q) >= 1 /\ DOMAIN q = 1 .. Len(q)
        /\ DOMAIN Tail(q) = 1 .. Len(q) - 1 /\ \A i \in 1 .. Len(q) - 1 : Tail(q)[i] = q[i + 1]
    BY <2>1
  <2>3. ASSUME NEW x \in ToSet(q) PROVE x \in {Head(q)} \cup ToSet(Tail(q))
    <3>1. PICK i \in 1 .. Len(q) : x = q[i]
      BY <2>2 DEF ToSet
    <3>2. CASE i = 1
      BY <2>2, <3>1, <3>2
    <3>3. CASE i # 1
      <4>1. i - 1 \in 1 .. Len(q) - 1 /\ (i - 1) + 1 = i
        BY <2>2, <3>3
      <4>2. x = Tail(q)[i - 1]
        BY <2>2, <3>1, <4>1
      <4> QED BY <2>2, <4>1, <4>2 DEF ToSet
    <3> QED BY <3>2, <3>3
  <2>4. \A x \in {Head(q)} \cup ToSet(Tail(q)) : x \in ToSet(q)
    <3>1. \A i \in 1 .. Len(q) - 1 : i + 1 \in 1 .. Len(q)
      BY <2>2
    <3>2. 1 \in 1 .. Len(q)
      BY <2>2
    <3> QED BY <2>2, <3>1, <3>2 DEF ToSet
  <2> QED BY <2>2, <2>3, <2>4 DEF q
<1>4. /\ rest \in Seq(E) /\ Len(rest) = n /\ DOMAIN rest = 1 .. n
      /\ \A i \in 1 .. n : rest[i].block = path[i].block
      /\ rest[1].left = Tail(path[1].left)
      /\ \A i \in 2 .. n : rest[i].left = path[i].left
  <2> DEFINE r == [path[1] EXCEPT !.left = Tail(path[1].left)]
  <2>1. r \in E /\ r.block = path[1].block /\ r.left = Tail(path[1].left)
    BY <1>1, <1>3
  <2>2. rest = [path EXCEPT ![1] = r]
    OBVIOUS
  <2> HIDE DEF r, E, rest
  <2>3. rest \in Seq(E) /\ Len(rest) = n /\ DOMAIN rest = 1 .. n
        /\ rest[1] = r /\ \A i \in 2 .. n : rest[i] = path[i]
    <3>1. path \in Seq(E) /\ n \in Nat /\ n >= 1 /\ DOMAIN path = 1 .. n /\ r \in E
      BY <1>1, <2>1
    <3>2. DOMAIN rest = 1 .. n /\ rest[1] = r /\ \A i \in 2 .. n : rest[i] = path[i]
      BY <2>2, <3>1
    <3>3. \A i \in 1 .. n : path[i] \in E
      BY <3>1
    <3>4. \A i \in 1 .. n : i = 1 \/ i \in 2 .. n
      OBVIOUS
    <3>5. rest \in [1 .. n -> E]
      <4>1. rest = [i \in 1 .. n |-> rest[i]]
        BY <2>2, <3>1
      <4>2. \A i \in 1 .. n : rest[i] \in E
        BY <3>1, <3>2, <3>3, <3>4
      <4> HIDE DEF n
      <4> QED BY <4>1, <4>2
    <3>6. rest \in Seq(E) /\ Len(rest) = n
      <4> HIDE DEF n
      <4> QED BY <3>1, <3>5
    <3> QED BY <3>2, <3>6
  <2> QED BY <2>1, <2>3
<1>5. /\ s \in Successors(cfg, path[1].block)
      /\ \A i \in 1 .. n : ToSet(rest[i].left) \subseteq Successors(cfg, path[i].block)
      /\ \A i \in 1 .. n : Successors(cfg, path[i].block) \subseteq Visited \cup ToSet(rest[i].left) \cup {s}
  <2>1. \A i \in 1 .. n : i = 1 \/ i \in 2 .. n
    OBVIOUS
  <2>2. 1 \in 1 .. n
    <3> HIDE DEF n, E
    <3> QED BY <1>1
  <2> HIDE DEF rest, s, n
  <2> QED BY <1>3, <1>4, <1>10, <2>1, <2>2
<1> HIDE DEF rest, s, n, E
<1>6. CASE s \in Visited
  <2>1. path' = rest
    BY <1>6 DEF VisitSuccessor, rest, s
  <2>2. Visited' = Visited
    <3>1. OnPath' = {rest[i].block : i \in 1 .. n} /\ OnPath = {path[i].block : i \in 1 .. n}
      BY <1>1, <1>4, <2>1 DEF OnPath
    <3> QED BY <1>2, <1>4, <3>1 DEF Visited
  <2>3. OnceEach'
    <3>1. rest \in Seq([block : cfg.blocks, left : Seq(cfg.blocks)]) /\ DOMAIN rest = 1 .. n
      BY <1>4 DEF E
    <3>2. DOMAIN path = 1 .. n /\ postorder \in Seq(cfg.blocks)
      BY <1>1
    <3>3. path' \in Seq([block : cfg.blocks, left : Seq(cfg.blocks)]) /\ DOMAIN path' = DOMAIN path
      BY <2>1, <3>1, <3>2
    <3>4. \A i \in DOMAIN path' : path'[i].block = path[i].block
      BY <1>4, <2>1, <3>1
    <3>5. OnceEach
      BY DEF Searching
    <3> QED BY <1>2, <3>3, <3>4, <3>5 DEF OnceEach
  <2>4. AlongPath'
    <3>1. \A i \in 1 .. n : ToSet(rest[i].left) \subseteq Successors(cfg, rest[i].block)
                            /\ Successors(cfg, rest[i].block) \subseteq Visited \cup ToSet(rest[i].left)
      BY <1>4, <1>5, <1>6
    <3>2. \A i \in 1 .. n : i # n => i + 1 \in 1 .. n
      BY <1>8
    <3>3. \A i \in 1 .. n : IF i = n THEN rest[i].block = cfg.entry
                            ELSE rest[i].block \in Successors(cfg, rest[i+1].block)
      BY <1>4, <1>10, <3>2
    <3> QED BY <1>2, <1>4, <2>1, <2>2, <3>1, <3>3 DEF AlongPath
  <2>5. LeftBefore'
    <3>1. path # <<>>
      BY DEF VisitSuccessor
    <3>2. \A k \in DOMAIN postorder :
             \/ \E m \in k + 1 .. Len(postorder) : postorder[k] \in Successors(cfg, postorder[m])
             \/ \E i \in 1 .. n : postorder[k] \in Successors(cfg, rest[i].block)
      BY <1>1, <1>4, <3>1 DEF Searching, LeftBefore
    <3>3. \A k \in DOMAIN postorder : Successors(cfg, postorder[k]) \subseteq Visited
      BY DEF Searching, LeftBefore
    <3> QED BY <1>2, <1>4, <2>1, <2>2, <3>2, <3>3 DEF LeftBefore
  <2> QED BY <2>3, <2>4, <2>5 DEF Searching
<1>7. CASE s \notin Visited
  <2>1. path' = <<e>> \o rest
    BY <1>7 DEF VisitSuccessor, rest, s
  <2>2. e \in E /\ e.block = s /\ ToSet(e.left) = Successors(cfg, s)
    BY <1>3, ListFacts DEF E
  <2> HIDE DEF e
  <2>3. /\ path' \in Seq(E) /\ Len(path') = n + 1 /\ DOMAIN path' = 1 .. n + 1
        /\ path'[1] = e /\ \A i \in 1 .. n : path'[i + 1] = rest[i]
    <3> HIDE DEF E
    <3> QED BY <1>1, <1>4, <2>1, <2>2
  <2>4. \A j \in 1 .. n + 1 : j = 1 \/ (j - 1 \in 1 .. n /\ path'[j] = rest[j - 1])
    <3> SUFFICES ASSUME NEW j \in 1 .. n + 1, j # 1 PROVE j - 1 \in 1 .. n /\ path'[j] = rest[j - 1]
      OBVIOUS
    <3>1. j - 1 \in 1 .. n /\ (j - 1) + 1 = j
      BY <1>1
    <3> QED BY <2>3, <3>1
  <2>5. \A i \in 1 .. n : i + 1 \in 1 .. n + 1
    BY <1>1
  <2>6. 1 \in 1 .. n + 1
    BY <1>1
  <2>7. Visited' = Visited \cup {s}
    <3>1. \A x : x \in OnPath' <=> x = s \/ x \in OnPath
      <4>1. \A x : x \in OnPath' <=> \E j \in 1 .. n + 1 : x = path'[j].block
        BY <2>3 DEF OnPath
      <4>2. \A x : x \in OnPath <=> \E i \in 1 .. n : x = rest[i].block
        <5>1. OnPath = {path[i].block : i \in 1 .. n}
          BY <1>1 DEF OnPath
        <5> QED BY <1>4, <5>1
      <4> QED BY <2>2, <2>3, <2>4, <2>5, <2>6, <4>1, <4>2
    <3> QED BY <1>2, <3>1 DEF Visited
  <2>8. /\ \A i \in 1 .. n : rest[i].block # s
        /\ \A k \in DOMAIN postorder : postorder[k] # s
    <3>1. OnPath = {path[i].block : i \in 1 .. n}
      BY <1>1 DEF OnPath
    <3> QED BY <1>4, <1>7, <3>1 DEF Visited, ToSet
  <2>9. OnceEach'
    <3>1. \A i, j \in 1 .. n : rest[i].block = rest[j].block => i = j
      BY <1>4, <1>9
    <3>2. \A i, j \in 1 .. n + 1 : path'[i].block = path'[j].block => i = j
      <4> SUFFICES ASSUME NEW i \in 1 .. n + 1, NEW j \in 1 .. n + 1, path'[i].block = path'[j].block
                   PROVE  i = j
        OBVIOUS
      <4>1. CASE i = 1 /\ j # 1
        BY <2>2, <2>3, <2>4, <2>8, <4>1
      <4>2. CASE i # 1 /\ j = 1
        BY <2>2, <2>3, <2>4, <2>8, <4>2
      <4>3. CASE i # 1 /\ j # 1
        <5>1. i - 1 = j - 1
          BY <2>4, <3>1, <4>3
        <5> QED BY <5>1
      <4> QED BY <4>1, <4>2, <4>3
    <3>3. \A i \in 1 .. n + 1, k \in DOMAIN postorder : path'[i].block # postorder[k]
      <4>1. \A i \in 1 .. n, k \in DOMAIN postorder : rest[i].block # postorder[k]
        BY <1>4, <1>9
      <4> QED BY <2>2, <2>3, <2>4, <2>8, <4>1
    <3>4. \A i, j \in DOMAIN postorder : postorder[i] = postorder[j] => i = j
      BY DEF Searching, OnceEach
    <3> QED BY <1>1, <1>2, <2>3, <3>2, <3>3, <3>4 DEF OnceEach, E
  <2>10. AlongPath'
    <3>1. \A i \in 1 .. n : ToSet(rest[i].left) \subseteq Successors(cfg, rest[i].block)
                            /\ Successors(cfg, rest[i].block) \subseteq Visited' \cup ToSet(rest[i].left)
      BY <1>4, <1>5, <2>7
    <3>2. \A i \in 1 .. n : i # n => i + 1 \in 1 .. n
      BY <1>8
    <3>3. \A i \in 1 .. n : IF i = n THEN rest[i].block = cfg.entry
                            ELSE rest[i].block \in Successors(cfg, rest[i+1].block)
      BY <1>4, <1>10, <3>2
    <3>4. s \in Successors(cfg, rest[1].block) /\ 1 \in 1 .. n
      BY <1>1, <1>4, <1>5
    <3> SUFFICES ASSUME NEW j \in 1 .. n + 1
                 PROVE  /\ ToSet(path'[j].left) \subseteq Successors(cfg, path'[j].block)
                        /\ Successors(cfg, path'[j].block) \subseteq Visited' \cup ToSet(path'[j].left)
                        /\ IF j = n + 1 THEN path'[j].block = cfg.entry
                           ELSE path'[j].block \in Successors(cfg, path'[j+1].block)
      BY <1>2, <2>3 DEF AlongPath
    <3>5. CASE j = 1
      <4>1. path'[j] = e /\ path'[j + 1] = rest[1] /\ j # n + 1
        BY <1>1, <2>3, <3>4, <3>5
      <4> QED BY <2>2, <3>4, <4>1
    <3>6. CASE j # 1
      <4>1. PICK i \in 1 .. n : j = i + 1
        <5>1. j - 1 \in 1 .. n /\ j = (j - 1) + 1
          BY <2>4, <3>6
        <5> QED BY <5>1
      <4>2. path'[j] = rest[i] /\ (j = n + 1 <=> i = n) /\ (i # n => path'[j + 1] = rest[i + 1])
        <5>1. i # n => path'[(i + 1) + 1] = rest[i + 1]
          BY <2>3, <3>2
        <5> QED BY <1>1, <2>3, <4>1, <5>1
      <4> QED BY <3>1, <3>3, <4>2
    <3> QED BY <3>5, <3>6
  <2>11. LeftBefore'
    <3>1. path # <<>>
      BY <1>1
    <3>2. ASSUME NEW k \in DOMAIN postorder
          PROVE  /\ Successors(cfg, postorder[k]) \subseteq Visited'
                 /\ \/ \E m \in k + 1 .. Len(postorder) : postorder[k] \in Successors(cfg, postorder[m])
                    \/ \E i \in 1 .. n + 1 : postorder[k] \in Successors(cfg, path'[i].block)
      <4>1. Successors(cfg, postorder[k]) \subseteq Visited
        BY <3>2 DEF Searching, LeftBefore
      <4>2. \/ \E m \in k + 1 .. Len(postorder) : postorder[k] \in Successors(cfg, postorder[m])
            \/ \E i \in 1 .. n : postorder[k] \in Successors(cfg, rest[i].block)
        BY <1>1, <1>4, <3>1, <3>2 DEF Searching, LeftBefore
      <4> QED BY <2>3, <2>5, <2>7, <4>1, <4>2
    <3> QED BY <1>2, <2>3, <3>2 DEF LeftBefore
  <2> QED BY <2>9, <2>10, <2>11 DEF Searching
<1> QED BY <1>6, <1>7

LEMMA LeaveKeepsSearching ==
    ASSUME Ready(cfg), Searching, LeaveBlock
    PROVE  Searching'
<1> DEFINE n == Len(path)
           m == Len(postorder)
           E == [block : cfg.blocks, left : Seq(cfg.blocks)]
           b == path[1].block
<1>1. /\ path \in Seq(E) /\ n \in Nat /\ n >= 1 /\ DOMAIN path = 1 .. n /\ path[1] \in E
      /\ postorder \in Seq(cfg.blocks) /\ m \in Nat /\ DOMAIN postorder = 1 .. m
      /\ path # <<>> /\ path[1].left = <<>> /\ b \in cfg.blocks
  <2>1. path \in Seq(E) /\ postorder \in Seq(cfg.blocks) /\ path # <<>> /\ path[1].left = <<>>
    BY DEF Searching, OnceEach, LeaveBlock
  <2>2. \A x \in E : x.block \in cfg.blocks
    OBVIOUS
  <2> HIDE DEF E
  <2>3. n \in Nat /\ n >= 1 /\ DOMAIN path = 1 .. n /\ path[1] \in E
    BY <2>1
  <2> QED BY <2>1, <2>2, <2>3
<1>2. cfg' = cfg /\ postorder' = Append(postorder, b) /\ path' = Tail(path)
  BY DEF LeaveBlock
<1> HIDE DEF E, b
<1>3. /\ path' \in Seq(E) /\ Len(path') = n - 1 /\ DOMAIN path' = 1 .. n - 1
      /\ \A i \in 1 .. n - 1 : path'[i] = path[i + 1]
  BY <1>1, <1>2
<1>4. /\ postorder' \in Seq(cfg.blocks) /\ Len(postorder') = m + 1 /\ DOMAIN postorder' = 1 .. m + 1
      /\ postorder'[m + 1] = b /\ \A k \in 1 .. m : postorder'[k] = postorder[k]
  BY <1>1, <1>2
<1> HIDE DEF n, m
<1>5. /\ \A i \in 1 .. n - 1 : i + 1 \in 1 .. n /\ i + 1 # 1
      /\ \A i \in 1 .. n : i = 1 \/ (i - 1 \in 1 .. n - 1 /\ (i - 1) + 1 = i)
      /\ \A k \in 1 .. m + 1 : k = m + 1 \/ k \in 1 .. m
      /\ \A k \in 1 .. m : k \in 1 .. m + 1 /\ k # m + 1
      /\ 1 \in 1 .. n /\ m + 1 \in 1 .. m + 1
  BY <1>1
<1>6. /\ \A i, j \in 1 .. n : path[i].block = path[j].block => i = j
      /\ \A i, j \in 1 .. m : postorder[i] = postorder[j] => i = j
      /\ \A i \in 1 .. n, k \in 1 .. m : path[i].block # postorder[k]
  BY <1>1 DEF Searching, OnceEach
<1>7. \A i \in 1 .. n :
          /\ ToSet(path[i].left) \subseteq Successors(cfg, path[i].block)
          /\ Successors(cfg, path[i].block) \subseteq Visited \cup ToSet(path[i].left)
          /\ IF i = n THEN path[i].block = cfg.entry
             ELSE path[i].block \in Successors(cfg, path[i+1].block)
  BY <1>1 DEF Searching, AlongPath, n
<1>8. Visited' = Visited
  <2>1. /\ OnPath' = {path'[i].block : i \in 1 .. n - 1} /\ OnPath = {path[i].block : i \in 1 .. n}
        /\ ToSet(postorder') = {postorder'[k] : k \in 1 .. m + 1}
        /\ ToSet(postorder) = {postorder[k] : k \in 1 .. m}
    BY <1>1, <1>3, <1>4 DEF OnPath, ToSet
  <2>2. \A x : x \in OnPath <=> x = b \/ x \in OnPath'
    <3>1. \A x : x \in OnPath' => x \in OnPath
      BY <1>3, <1>5, <2>1
    <3>2. ASSUME NEW x \in OnPath PROVE x = b \/ x \in OnPath'
      <4>1. PICK i \in 1 .. n : x = path[i].block
        BY <2>1
      <4>2. CASE i = 1
        BY <4>1, <4>2 DEF b
      <4>3. CASE i # 1
        <5>1. path'[i - 1] = path[i] /\ i - 1 \in 1 .. n - 1
          BY <1>3, <1>5, <4>3
        <5> QED BY <2>1, <4>1, <5>1
      <4> QED BY <4>2, <4>3
    <3>3. b \in OnPath
      BY <1>5, <2>1 DEF b
    <3> QED BY <3>1, <3>2, <3>3
  <2>3. \A x : x \in ToSet(postorder') <=> x = b \/ x \in ToSet(postorder)
    BY <1>4, <1>5, <2>1
  <2> QED BY <2>2, <2>3 DEF Visited
<1>9. OnceEach'
  <2>1. \A i, j \in 1 .. n - 1 : path'[i].block = path'[j].block => i = j
    <3> SUFFICES ASSUME NEW i \in 1 .. n - 1, NEW j \in 1 .. n - 1, path'[i].block = path'[j].block
                 PROVE  i = j
      OBVIOUS
    <3>1. i + 1 = j + 1
      BY <1>3, <1>5, <1>6
    <3> QED BY <3>1
  <2>2. \A i, j \in 1 .. m + 1 : postorder'[i] = postorder'[j] => i = j
    BY <1>4, <1>5, <1>6 DEF b
  <2>3. \A i \in 1 .. n - 1, k \in 1 .. m + 1 : path'[i].block # postorder'[k]
    <3> SUFFICES ASSUME NEW i \in 1 .. n - 1, NEW k \in 1 .. m + 1, path'[i].block = postorder'[k]
                 PROVE  FALSE
      OBVIOUS
    <3>1. path[i + 1].block = postorder'[k] /\ i + 1 \in 1 .. n /\ i + 1 # 1
      BY <1>3, <1>5
    <3> QED BY <1>4, <1>5, <1>6, <3>1 DEF b
  <2>4. path' \in Seq([block : cfg.blocks, left : Seq(cfg.blocks)]) /\ postorder' \in Seq(cfg.blocks)
    BY <1>3, <1>4 DEF E
  <2>5. cfg' = cfg /\ DOMAIN path' = 1 .. n - 1 /\ DOMAIN postorder' = 1 .. m + 1
    BY <1>2, <1>3, <1>4
  <2> QED BY <2>1, <2>2, <2>3, <2>4, <2>5 DEF OnceEach
<1>10. AlongPath'
  <2> SUFFICES ASSUME NEW i \in 1 .. n - 1
               PROVE  /\ ToSet(path'[i].left) \subseteq Successors(cfg, path'[i].block)
                      /\ Successors(cfg, path'[i].block) \subseteq Visited \cup ToSet(path'[i].left)
                      /\ IF i = n - 1 THEN path'[i].block = cfg.entry
                         ELSE path'[i].block \in Successors(cfg, path'[i+1].block)
    BY <1>2, <1>3, <1>8 DEF AlongPath
  <2>1. path'[i] = path[i + 1] /\ i + 1 \in 1 .. n /\ (i = n - 1 <=> i + 1 = n)
    BY <1>1, <1>3, <1>5
  <2>2. i # n - 1 => path'[i + 1] = path[(i + 1) + 1]
    BY <1>1, <1>3
  <2> QED BY <1>7, <2>1, <2>2
<1>11. LeftBefore'
  <2>1. Successors(cfg, b) \subseteq Visited
    <3>1. ToSet(path[1].left) = {}
      BY <1>1 DEF ToSet
    <3> QED BY <1>5, <1>7, <3>1 DEF b
  <2>2. \A k \in 1 .. m :
           /\ Successors(cfg, postorder[k]) \subseteq Visited
           /\ \/ \E l \in k + 1 .. m : postorder[k] \in Successors(cfg, postorder[l])
              \/ \E i \in 1 .. n : postorder[k] \in Successors(cfg, path[i].block)
    BY <1>1 DEF Searching, LeftBefore, m
  <2> SUFFICES ASSUME NEW k \in 1 .. m + 1
               PROVE  /\ Successors(cfg, postorder'[k]) \subseteq Visited
                      /\ \/ postorder'[k] = cfg.entry /\ path' = <<>> /\ k = m + 1
                         \/ \E l \in k + 1 .. m + 1 : postorder'[k] \in Successors(cfg, postorder'[l])
                         \/ \E i \in 1 .. n - 1 : postorder'[k] \in Successors(cfg, path'[i].block)
    BY <1>2, <1>3, <1>4, <1>8 DEF LeftBefore
  <2>3. CASE k = m + 1
    <3>1. postorder'[k] = b
      BY <1>4, <2>3
    <3>2. CASE n = 1
      <4>1. b = cfg.entry
        BY <1>5, <1>7, <3>2 DEF b
      <4>2. path' = <<>>
        BY <1>3, <3>2
      <4> QED BY <2>1, <2>3, <3>1, <4>1, <4>2
    <3>3. CASE n # 1
      <4>1. 1 \in 1 .. n - 1 /\ path'[1] = path[1 + 1]
        BY <1>1, <1>3, <3>3
      <4>2. b \in Successors(cfg, path[1 + 1].block)
        BY <1>5, <1>7, <3>3 DEF b
      <4> QED BY <2>1, <3>1, <4>1, <4>2
    <3> QED BY <3>2, <3>3
  <2>4. CASE k \in 1 .. m
    <3>1. postorder'[k] = postorder[k] /\ Successors(cfg, postorder[k]) \subseteq Visited
      BY <1>4, <2>2, <2>4
    <3>2. CASE \E l \in k + 1 .. m : postorder[k] \in Successors(cfg, postorder[l])
      <4>1. PICK l \in k + 1 .. m : postorder[k] \in Successors(cfg, postorder[l])
        BY <3>2
      <4>2. l \in 1 .. m /\ l \in k + 1 .. m + 1
        BY <1>1, <2>4
      <4>3. postorder'[l] = postorder[l]
        BY <1>4, <4>2
      <4> QED BY <3>1, <4>1, <4>2, <4>3
    <3>3. CASE \E i \in 1 .. n : postorder[k] \in Successors(cfg, path[i].block)
      <4>1. PICK i \in 1 .. n : postorder[k] \in Successors(cfg, path[i].block)
        BY <3>3
      <4>2. CASE i = 1
        <5>1. m + 1 \in k + 1 .. m + 1 /\ postorder'[m + 1] = b
          BY <1>1, <1>4, <2>4
        <5>2. postorder[k] \in Successors(cfg, b)
          BY <4>1, <4>2 DEF b
        <5> QED BY <3>1, <5>1, <5>2
      <4>3. CASE i # 1
        <5>1. i - 1 \in 1 .. n - 1 /\ path'[i - 1] = path[i]
          BY <1>3, <1>5, <4>3
        <5> QED BY <3>1, <4>1, <5>1
      <4> QED BY <4>2, <4>3
    <3> QED BY <2>2, <2>4, <3>2, <3>3
  <2> QED BY <1>5, <2>3, <2>4
<1> QED BY <1>9, <1>10, <1>11 DEF Searching

(* The reverse of the postorder is an order the rounds can rely on.         *)
LEMMA OrderFound ==
    ASSUME Ready(cfg), Searching, StartDominance
    PROVE  Ordered'
<1> DEFINE m == Len(postorder)
<1>1. /\ cfg' = cfg /\ path = <<>> /\ postorder # <<>> /\ rpo' = Reverse(postorder)
      /\ postorder \in Seq(cfg.blocks)
      /\ WellFormed(cfg) /\ cfg.entry \in cfg.blocks
  BY DEF Searching, OnceEach, StartDominance, Ready, WellFormed
<1>2. m \in Nat /\ m >= 1 /\ DOMAIN postorder = 1 .. m /\ \A k \in 1 .. m : postorder[k] \in cfg.blocks
  BY <1>1
<1>3. rpo' = [i \in 1 .. m |-> postorder[(m - i) + 1]]
  BY <1>1 DEF Reverse
<1>5. \A k \in 1 .. m :
         /\ Successors(cfg, postorder[k]) \subseteq Visited
         /\ \/ postorder[k] = cfg.entry /\ k = m
            \/ \E l \in k + 1 .. m : postorder[k] \in Successors(cfg, postorder[l])
  BY <1>1, <1>2 DEF Searching, LeftBefore
<1>6. \A i, j \in 1 .. m : postorder[i] = postorder[j] => i = j
  BY <1>2 DEF Searching, OnceEach
<1>7. Visited = {postorder[k] : k \in 1 .. m}
  BY <1>1, <1>2 DEF Visited, OnPath, ToSet
<1> HIDE DEF m
<1>8. \A i \in 1 .. m : (m - i) + 1 \in 1 .. m
  BY <1>2
<1>9. postorder[m] = cfg.entry
  BY <1>2, <1>5
<1>10. rpo' \in Seq(cfg.blocks) /\ Len(rpo') = m /\ DOMAIN rpo' = 1 .. m
  <2>1. rpo' \in [1 .. m -> cfg.blocks]
    BY <1>2, <1>3, <1>8
  <2> QED BY <1>2, <2>1
<1>11. rpo'[1] = cfg.entry
  <2>1. 1 \in 1 .. m /\ (m - 1) + 1 = m
    BY <1>2
  <2> QED BY <1>3, <1>9, <2>1
<1>12. ASSUME NEW b \in cfg.blocks PROVE \E i \in 1 .. m : rpo'[i] = b
  <2>1. cfg.entry \in Visited /\ \A c \in Visited : Successors(cfg, c) \subseteq Visited
    BY <1>2, <1>5, <1>7, <1>9
  <2>2. ReachableFrom(cfg, cfg.entry) \subseteq Visited
    BY <1>1, <2>1, ReachableFacts
  <2>3. PICK k \in 1 .. m : b = postorder[k]
    BY <1>7, <2>1, <2>2 DEF Ready
  <2>4. (m - k) + 1 \in 1 .. m /\ (m - ((m - k) + 1)) + 1 = k
    BY <1>2
  <2> QED BY <1>3, <2>3, <2>4
<1>13. ASSUME NEW i \in 1 .. m, NEW j \in 1 .. m, rpo'[i] = rpo'[j] PROVE i = j
  <2>1. (m - i) + 1 = (m - j) + 1
    BY <1>3, <1>6, <1>8, <1>13
  <2> QED BY <1>2, <2>1
<1>14. ASSUME NEW i \in 2 .. m PROVE \E j \in 1 .. i - 1 : rpo'[j] \in Predecessors(cfg, rpo'[i])
  <2> DEFINE k == (m - i) + 1
  <2>1. k \in 1 .. m /\ k # m /\ i \in 1 .. m
    BY <1>2
  <2>2. PICK l \in k + 1 .. m : postorder[k] \in Successors(cfg, postorder[l])
    BY <1>5, <2>1
  <2>3. /\ (m - l) + 1 \in 1 .. i - 1 /\ (m - l) + 1 \in 1 .. m
        /\ (m - ((m - l) + 1)) + 1 = l /\ l \in 1 .. m
    BY <1>2, <2>1
  <2>4. rpo'[(m - l) + 1] = postorder[l] /\ rpo'[i] = postorder[k]
    BY <1>3, <2>1, <2>3
  <2>5. postorder[l] \in Predecessors(cfg, postorder[k])
    BY <1>1, <1>2, <2>1, <2>2, <2>3 DEF WellFormed
  <2> QED BY <2>3, <2>4, <2>5
<1> QED BY <1>1, <1>2, <1>10, <1>11, <1>12, <1>13, <1>14 DEF Ordered

-----------------------------------------------------------------------------
(* What a step leaves as it is when it leaves the graph, the order or the   *)
(* tree as they are.                                                       *)
LEMMA SameDominators ==
    ASSUME cfg'.entry = cfg.entry, cfg'.blocks = cfg.blocks, cfg'.succ = cfg.succ
    PROVE  \A b : Dominators(b)' = Dominators(b)
<1> DEFINE Next(B, s, d) == [b \in B |-> {s[b][i] : i \in DOMAIN s[b]} \ {d}]
           Avoiding(e, B, s, d) == IF d = e THEN {} ELSE {e} \cup Reach(B, Next(B, s, d), e)
           Of(e, B, s, b) == {d \in B : d = b \/ b \notin Avoiding(e, B, s, d)}
<1>1. \A b : Dominators(b) = Of(cfg.entry, cfg.blocks, cfg.succ, b)
  BY Zenon DEF Dominators, ReachedAvoiding, Successors
<1>2. \A b : Dominators(b)' = Of(cfg'.entry, cfg'.blocks, cfg'.succ, b)
  BY Zenon DEF Dominators, ReachedAvoiding, Successors
<1> HIDE DEF Of
<1> QED BY <1>1, <1>2

LEMMA SameOrder ==
    ASSUME rpo' = rpo
    PROVE  \A b, c : RpoIndex(b)' = RpoIndex(b) /\ (Later(b, c)' <=> Later(b, c))
<1> DEFINE Index(r, b) == CHOOSE i \in DOMAIN r : r[i] = b
<1>1. \A b : RpoIndex(b) = Index(rpo, b)
  BY DEF RpoIndex
<1>2. \A b : RpoIndex(b)' = Index(rpo', b)
  BY DEF RpoIndex
<1> HIDE DEF Index
<1>3. \A b : RpoIndex(b)' = RpoIndex(b)
  BY <1>1, <1>2
<1> QED BY <1>3 DEF Later

LEMMA SameAncestors ==
    ASSUME idom' = idom
    PROVE  \A b : Ancestors(b)' = Ancestors(b)
<1> DEFINE Of(t, b) == {b} \cup Reach(DOMAIN t, [c \in DOMAIN t |-> {t[c]}], b)
<1>1. \A b : Ancestors(b) = Of(idom, b)
  BY DEF Ancestors
<1>2. \A b : Ancestors(b)' = Of(idom', b)
  BY DEF Ancestors
<1> HIDE DEF Of
<1> QED BY <1>1, <1>2

LEMMA SameTree ==
    ASSUME cfg'.entry = cfg.entry, cfg'.blocks = cfg.blocks,
           cfg'.succ = cfg.succ, cfg'.pred = cfg.pred, rpo' = rpo, idom' = idom
    PROVE  /\ Ordered => Ordered'
           /\ Tree => Tree'
           /\ Fixed => Fixed'
           /\ \A b : Hangs(b) => Hangs(b)'
<1>1. \A b : Predecessors(cfg', b) = Predecessors(cfg, b)
  BY DEF Predecessors
<1>2. \A b : Dominators(b)' = Dominators(b)
  BY SameDominators
<1>3. \A b, c : Later(b, c)' <=> Later(b, c)
  BY SameOrder
<1>4. \A b : Ancestors(b)' = Ancestors(b)
  BY SameAncestors
<1>5. \A b : Hangs(b) => Hangs(b)'
  BY <1>1, <1>4 DEF Hangs
<1>6. Ordered => Ordered'
  BY <1>1 DEF Ordered
<1>7. Tree => Tree'
  BY <1>2, <1>3 DEF Tree, CandidatesClimb
<1>8. Fixed => Fixed'
  BY <1>5 DEF Fixed
<1> QED BY <1>5, <1>6, <1>7, <1>8

-----------------------------------------------------------------------------
(* In a round, the blocks before the one at hand are in the tree, and hang  *)
(* right as long as nothing changed.                                       *)
Rounds ==
    /\ pos \in 2 .. Len(rpo) + 1 /\ changed \in BOOLEAN
    /\ \A i \in 1 .. pos - 1 : rpo[i] \in DOMAIN idom
    /\ ~ changed => \A i \in 2 .. pos - 1 : Hangs(rpo[i])

LEMMA RoundsStart ==
    ASSUME Ready(cfg), Searching, StartDominance
    PROVE  Tree' /\ Rounds'
<1>1. /\ cfg' = cfg /\ cfg.entry \in cfg.blocks /\ idom' = [b \in {cfg.entry} |-> b]
      /\ pos' = 2 /\ changed' = FALSE
  BY DEF StartDominance, Ready, WellFormed
<1>2. DOMAIN idom' = {cfg.entry} /\ idom'[cfg.entry] = cfg.entry
  BY <1>1
<1>3. Ordered'
  BY OrderFound
<1>4. Tree'
  BY <1>1, <1>2 DEF Tree, CandidatesClimb
<1>5. Len(rpo') \in Nat /\ Len(rpo') >= 1 /\ rpo'[1] = cfg.entry
  BY <1>1, <1>3 DEF Ordered
<1>6. pos' \in 2 .. Len(rpo') + 1
  BY <1>1, <1>5
<1>7. \A i \in 1 .. pos' - 1 : rpo'[i] \in DOMAIN idom'
  BY <1>1, <1>2, <1>5
<1>8. \A i \in 2 .. pos' - 1 : FALSE
  BY <1>1
<1> QED BY <1>1, <1>4, <1>6, <1>7, <1>8 DEF Rounds

LEMMA RoundsGoOn ==
    ASSUME Ready(cfg), Ordered, Tree, Rounds, ComputeIdom
    PROVE  Ordered' /\ Tree' /\ Rounds'
<1> DEFINE b == rpo[pos]
           D == DOMAIN idom
<1>1. /\ cfg' = cfg /\ rpo' = rpo /\ pos' = pos + 1
      /\ pos \in 2 .. Len(rpo) /\ Len(rpo) \in Nat
  BY IndexFacts DEF ComputeIdom, Rounds
<1>2. /\ b \in cfg.blocks /\ RpoIndex(b) = pos /\ b # cfg.entry
      /\ D \subseteq cfg.blocks /\ cfg.entry \in D /\ idom \in [D -> D] /\ WellFormed(cfg)
  <2>1. b \in cfg.blocks /\ RpoIndex(b) = pos /\ RpoIndex(cfg.entry) = 1
    BY <1>1, IndexFacts
  <2> QED BY <1>1, <2>1 DEF Tree, Ready
<1>3. PICK p \in Predecessors(cfg, b) : p \in cfg.blocks /\ RpoIndex(p) < pos
  BY <1>2, EarlierPredecessor
<1>4. p \in D
  <2>1. RpoIndex(p) \in 1 .. pos - 1 /\ rpo[RpoIndex(p)] = p
    BY <1>1, <1>3, IndexFacts
  <2> QED BY <2>1 DEF Rounds
<1>5. PICK d \in D : /\ IdomForBlock(b) = {d} /\ d \in Ancestors(p)
                     /\ Dominators(b) \ {b} \subseteq Dominators(d)
  BY <1>2, <1>3, <1>4, IdomForBlockFacts
<1>6. RpoIndex(d) < RpoIndex(b)
  <2>1. d # p => RpoIndex(d) < RpoIndex(p)
    BY <1>2, <1>4, <1>5, AncestorsEarlier
  <2>2. RpoIndex(d) \in Nat /\ RpoIndex(p) \in Nat
    BY <1>2, <1>3, <1>5, LaterFacts
  <2> QED BY <1>1, <1>2, <1>3, <2>1, <2>2
<1> HIDE DEF b
<1>7. \A i \in 1 .. pos' - 1 : i = pos \/ i \in 1 .. pos - 1
  BY <1>1
<1>8. pos' \in 2 .. Len(rpo') + 1
  BY <1>1
<1>9. CASE Settled(b)
  <2>1. idom' = idom /\ changed' = changed
    BY <1>9 DEF ComputeIdom, b
  <2>2. Ordered' /\ Tree' /\ \A c : Hangs(c) => Hangs(c)'
    BY <1>1, <2>1, SameTree
  <2>3. b \in D /\ Hangs(b)
    BY <1>2, <1>9, SettledFacts DEF Settled
  <2>4. \A i \in 1 .. pos' - 1 : rpo'[i] \in DOMAIN idom'
    BY <1>1, <1>7, <2>1, <2>3 DEF Rounds, b
  <2>5. ASSUME ~ changed', NEW i \in 2 .. pos' - 1 PROVE Hangs(rpo[i])
    <3>1. i = pos \/ i \in 2 .. pos - 1
      BY <1>1
    <3> QED BY <2>1, <2>3, <2>5, <3>1 DEF Rounds, b
  <2>6. ~ changed' => \A i \in 2 .. pos' - 1 : \A c : c = rpo[i] => Hangs(c)'
    BY <2>2, <2>5
  <2>7. ~ changed' => \A i \in 2 .. pos' - 1 : Hangs(rpo[i])'
    BY <1>1, <2>6
  <2>8. changed' \in BOOLEAN
    BY <2>1 DEF Rounds
  <2> QED BY <1>8, <2>2, <2>4, <2>7, <2>8 DEF Rounds
<1>10. CASE ~ Settled(b)
  <2>1. changed' = TRUE /\ idom' = [c \in D \cup {b} |-> IF c = b THEN d ELSE idom[c]]
    BY <1>5, <1>10 DEF ComputeIdom, b
  <2>2. DOMAIN idom' = D \cup {b} /\ idom'[b] = d /\ \A c \in D : c # b => idom'[c] = idom[c]
    BY <2>1
  <2>3. idom' \in [D \cup {b} -> D \cup {b}]
    BY <1>2, <1>5, <2>1
  <2>4. Ordered'
    BY <1>1 DEF Ordered
  <2>5. CandidatesClimb'
    <3>1. \A c : Dominators(c)' = Dominators(c)
      BY <1>1, SameDominators
    <3>2. \A c, e : Later(c, e)' <=> Later(c, e)
      BY <1>1, SameOrder
    <3>3. Later(b, d) /\ Dominators(b) \ {b} \subseteq Dominators(d)
      BY <1>5, <1>6 DEF Later
    <3>4. \A c \in (D \cup {b}) \ {cfg.entry} :
             Later(c, idom'[c]) /\ Dominators(c) \ {c} \subseteq Dominators(idom'[c])
      BY <2>2, <3>3 DEF Tree, CandidatesClimb
    <3> QED BY <1>1, <2>2, <3>1, <3>2, <3>4 DEF CandidatesClimb
  <2>6. Tree'
    BY <1>1, <1>2, <2>2, <2>3, <2>5 DEF Tree
  <2>7. \A i \in 1 .. pos' - 1 : rpo'[i] \in DOMAIN idom'
    BY <1>1, <1>7, <2>2 DEF Rounds, b
  <2> QED BY <1>8, <2>1, <2>4, <2>6, <2>7 DEF Rounds
<1> QED BY <1>9, <1>10

LEMMA RoundsAgain ==
    ASSUME Ready(cfg), Ordered, Tree, Rounds, NextRound
    PROVE  Ordered' /\ Tree' /\ Rounds'
<1>1. cfg' = cfg /\ rpo' = rpo /\ idom' = idom /\ pos' = 2 /\ changed' = FALSE
  BY DEF NextRound
<1>2. Ordered' /\ Tree'
  BY <1>1, SameTree
<1>3. Len(rpo) \in Nat /\ Len(rpo) >= 1 /\ rpo[1] \in DOMAIN idom
  BY IndexFacts DEF Ordered, Tree
<1>4. pos' \in 2 .. Len(rpo') + 1 /\ \A i \in 1 .. pos' - 1 : rpo'[i] \in DOMAIN idom'
  BY <1>1, <1>3
<1>5. \A i \in 2 .. pos' - 1 : FALSE
  BY <1>1
<1> QED BY <1>1, <1>2, <1>4, <1>5 DEF Rounds

(* A round without a change leaves the fixed point.                         *)
LEMMA RoundsEnd ==
    ASSUME Ready(cfg), Ordered, Tree, Rounds, FinishDominance
    PROVE  Fixed
<1>1. ~ changed /\ pos = Len(rpo) + 1 /\ Len(rpo) \in Nat
  BY IndexFacts DEF FinishDominance, Rounds
<1>2. \A b \in cfg.blocks : RpoIndex(b) \in 1 .. pos - 1 /\ rpo[RpoIndex(b)] = b
  BY <1>1, IndexFacts
<1>3. DOMAIN idom = cfg.blocks
  BY <1>2 DEF Rounds, Tree
<1>4. ASSUME NEW b \in cfg.blocks \ {cfg.entry} PROVE Hangs(b)
  <2>1. RpoIndex(b) \in 2 .. pos - 1
    <3>1. RpoIndex(b) \in 1 .. pos - 1 /\ RpoIndex(b) # 1
      BY <1>2, LaterFacts
    <3> QED BY <3>1
  <2> QED BY <1>1, <1>2, <2>1 DEF Rounds
<1> QED BY <1>3, <1>4 DEF Fixed

-----------------------------------------------------------------------------
(* What the analysis leaves behind.                                         *)
LEMMA DominanceFound ==
    ASSUME Ready(cfg), Ordered, Tree, Fixed
    PROVE  IdomIsDominance
<1>1. \A b \in cfg.blocks : Ancestors(b) = Dominators(b)
  BY FixedPoint
<1>2. \A b, d : Dominates(d, b) <=> d \in Ancestors(b)
  BY DEF Dominates, Ancestors
<1> QED BY <1>1, <1>2 DEF IdomIsDominance, Fixed

LEMMA FrontiersFound ==
    ASSUME Ready(cfg), Ordered, Tree, Fixed, FinishDominance
    PROVE  FrontiersAtDominanceEnds'
<1>1. cfg' = cfg /\ frontier' = [b \in cfg.blocks |-> FrontierOf(b)]
  BY DEF FinishDominance
<1>2. \A b : Dominators(b)' = Dominators(b)
  BY <1>1, SameDominators
<1>3. \A b \in cfg.blocks :
         frontier'[b] = {n \in cfg.blocks : /\ \E p \in Predecessors(cfg, n) : b \in Dominators(p)
                                            /\ b \notin Dominators(n) \ {n}}
  BY <1>1, FrontierFacts
<1> QED BY <1>1, <1>2, <1>3 DEF FrontiersAtDominanceEnds

LEMMA LoopsFound ==
    ASSUME Ready(cfg), Ordered, Tree, Fixed, BuildLoopForest
    PROVE  LoopsTurn'
<1>1. cfg' = cfg /\ loops' = {[tail |-> e[1], header |-> e[2], body |-> NaturalLoop(e[1], e[2])] : e \in BackEdges}
  BY DEF BuildLoopForest
<1>2. \A b : Dominators(b)' = Dominators(b)
  BY <1>1, SameDominators
<1> SUFFICES ASSUME NEW l \in loops'
             PROVE  /\ \A b \in l.body :
                         /\ l.header \in Dominators(b)
                         /\ l.header \in Reach(l.body, [c \in l.body |-> Successors(cfg, c) \cap l.body], b)
                    /\ \A b \in l.body \ {l.header} : Predecessors(cfg, b) \subseteq l.body
  BY <1>1, <1>2 DEF LoopsTurn
<1>3. PICK e \in BackEdges : l = [tail |-> e[1], header |-> e[2], body |-> NaturalLoop(e[1], e[2])]
  BY <1>1
<1>4. e[1] \in cfg.blocks /\ e[2] \in Successors(cfg, e[1]) /\ e[2] \in cfg.blocks /\ Dominates(e[2], e[1])
  BY <1>3 DEF BackEdges
<1>5. e[2] \in Dominators(e[1])
  <2>1. e[2] \in Ancestors(e[1])
    BY <1>4 DEF Dominates, Ancestors
  <2> QED BY <1>4, <2>1, FixedPoint
<1>6. l.header = e[2] /\ l.body = NaturalLoop(e[1], e[2])
  BY <1>3
<1> QED BY <1>4, <1>5, <1>6, LoopFacts

(* Instructions may come and go afterwards.                                 *)
LEMMA SameCandidates ==
    ASSUME cfg'.entry = cfg.entry, cfg'.blocks = cfg.blocks, cfg'.succ = cfg.succ,
           rpo' = rpo, idom' = idom, CandidatesClimb
    PROVE  CandidatesClimb'
<1>1. \A b : Dominators(b)' = Dominators(b)
  BY SameDominators
<1>2. \A b, c : Later(b, c)' <=> Later(b, c)
  BY SameOrder
<1> QED BY <1>1, <1>2 DEF CandidatesClimb

LEMMA SameLoops ==
    ASSUME UNCHANGED <<cfg, loops, phase>>, LoopsTurn
    PROVE  LoopsTurn'
<1>1. cfg' = cfg /\ loops' = loops /\ phase' = phase
  OBVIOUS
<1> DEFINE Next(g, L) == [c \in L |-> Successors(g, c) \cap L]
<1>2. \A L : Next(cfg', L) = Next(cfg, L)
  <2> HIDE DEF Next
  <2> QED BY <1>1
<1>3. \A b : Dominators(b)' = Dominators(b)
  BY <1>1, SameDominators
<1> QED BY <1>1, <1>2, <1>3 DEF LoopsTurn

-----------------------------------------------------------------------------
(* Lists.                                                                   *)
LEMMA ListBasics ==
    ASSUME NEW q, IsList(q)
    PROVE  /\ Len(q) \in Nat /\ DOMAIN q = 1 .. Len(q)
           /\ \A S : ToSet(q) \subseteq S => q \in Seq(S)
  BY DEF IsList, ToSet

(* A sequence over a set, as a list.                                        *)
LEMMA ListOf ==
    ASSUME NEW S, NEW q \in Seq(S)
    PROVE  IsList(q) /\ ToSet(q) \subseteq S
  BY DEF IsList, ToSet

(* A function on 1 .. n is a list.                                          *)
LEMMA ListByIndex ==
    ASSUME NEW q, NEW n \in Nat, NEW f, q = [i \in 1 .. n |-> f[i]]
    PROVE  IsList(q) /\ Len(q) = n
<1>1. DOMAIN q = 1 .. n
  OBVIOUS
<1>2. q \in [1 .. n -> ToSet(q)]
  BY <1>1 DEF ToSet
<1> QED BY <1>1, <1>2 DEF IsList

(* A list with one element more.                                            *)
LEMMA AppendList ==
    ASSUME NEW q, IsList(q), NEW x
    PROVE  /\ IsList(Append(q, x)) /\ Len(Append(q, x)) = Len(q) + 1
           /\ \A i \in 1 .. Len(q) : Append(q, x)[i] = q[i]
           /\ Append(q, x)[Len(q) + 1] = x
<1> DEFINE S == ToSet(q) \cup {x}
<1>1. q \in Seq(S)
  BY ListBasics
<1>2. x \in S
  OBVIOUS
<1> HIDE DEF S
<1>3. Append(q, x) \in Seq(S) /\ Len(Append(q, x)) = Len(q) + 1
  BY <1>1, <1>2
<1>4. IsList(Append(q, x))
  BY <1>3, ListOf
<1> QED BY <1>1, <1>2, <1>3, <1>4

(* Two lists, one after the other.                                          *)
LEMMA JoinLists ==
    ASSUME NEW q, IsList(q), NEW r, IsList(r)
    PROVE  /\ IsList(q \o r) /\ Len(q \o r) = Len(q) + Len(r)
           /\ \A i \in 1 .. Len(q) : (q \o r)[i] = q[i]
           /\ \A i \in 1 .. Len(r) : (q \o r)[Len(q) + i] = r[i]
           /\ ToSet(q \o r) = ToSet(q) \cup ToSet(r)
<1> DEFINE S == ToSet(q) \cup ToSet(r)
           s == q \o r
<1>1. q \in Seq(S) /\ r \in Seq(S)
  BY ListBasics
<1> HIDE DEF S
<1>2. /\ s \in Seq(S) /\ Len(s) = Len(q) + Len(r) /\ Len(q) \in Nat /\ Len(r) \in Nat
      /\ \A i \in 1 .. Len(q) : s[i] = q[i]
      /\ \A i \in 1 .. Len(r) : s[Len(q) + i] = r[i]
  BY <1>1
<1>3. IsList(s) /\ ToSet(s) \subseteq S
  BY <1>2, ListOf
<1>4. \A i \in 1 .. Len(q) : i \in 1 .. Len(s)
  BY <1>2
<1>5. \A i \in 1 .. Len(r) : Len(q) + i \in 1 .. Len(s)
  BY <1>2
<1>6. DOMAIN q = 1 .. Len(q) /\ DOMAIN r = 1 .. Len(r) /\ DOMAIN s = 1 .. Len(s)
  BY <1>3, ListBasics
<1> HIDE DEF s
<1>7. S \subseteq ToSet(s)
  <2>1. \A x \in ToSet(q) : x \in ToSet(s)
    BY <1>2, <1>4, <1>6 DEF ToSet
  <2>2. \A x \in ToSet(r) : x \in ToSet(s)
    BY <1>2, <1>5, <1>6 DEF ToSet
  <2> QED BY <2>1, <2>2 DEF S
<1> QED BY <1>2, <1>3, <1>7 DEF s, S

(* Dropping one more from a stack with one more on top.                     *)
LEMMA DropPushed ==
    ASSUME NEW q \in Seq(Nat), NEW v \in Nat, NEW k \in Nat
    PROVE  SubSeq(<<v>> \o q, (k + 1) + 1, Len(<<v>> \o q)) = SubSeq(q, k + 1, Len(q))
<1> DEFINE s == <<v>> \o q
           n == Len(q)
           r == SubSeq(s, (k + 1) + 1, Len(s))
           t == SubSeq(q, k + 1, n)
<1>1. /\ s \in Seq(Nat) /\ Len(s) = n + 1 /\ n \in Nat
      /\ \A i \in 1 .. n : s[i + 1] = q[i]
  <2>1. <<v>> \in Seq(Nat) /\ Len(<<v>>) = 1
    OBVIOUS
  <2> QED BY <2>1
<1> HIDE DEF s, n
<1>2. /\ r = [i \in 1 .. (1 + (n + 1)) - ((k + 1) + 1) |-> s[(i + ((k + 1) + 1)) - 1]]
      /\ t = [i \in 1 .. (1 + n) - (k + 1) |-> q[(i + (k + 1)) - 1]]
  BY <1>1
<1>3. 1 .. (1 + (n + 1)) - ((k + 1) + 1) = 1 .. n - k /\ 1 .. (1 + n) - (k + 1) = 1 .. n - k
  BY <1>1
<1>4. ASSUME NEW i \in 1 .. n - k PROVE s[(i + ((k + 1) + 1)) - 1] = q[(i + (k + 1)) - 1]
  <2>1. i + k \in 1 .. n /\ (i + ((k + 1) + 1)) - 1 = (i + k) + 1 /\ (i + (k + 1)) - 1 = i + k
    BY <1>1
  <2> QED BY <1>1, <2>1
<1>5. r = t
  BY <1>2, <1>3, <1>4
<1> QED BY <1>5 DEF s, n

-----------------------------------------------------------------------------
(* Instructions of a graph with versions or without.                        *)
Instruction(q) ==
    /\ DOMAIN q = {"op", "ref", "dest", "args", "sources"}
    /\ q.dest = {} \/ \E r : q.dest = {r}
    /\ IsList(q.sources)

(* What a register is made of.                                              *)
LEMMA RegFacts ==
    ASSUME NEW x, NEW v
    PROVE  /\ Reg(x, v).sym = x /\ Reg(x, v).ver = v
           /\ \A y, w : Reg(x, v) = Reg(y, w) => x = y /\ v = w
  BY DEF Reg

(* How often a symbol is in a list.                                         *)
Count(q, x) == Cardinality({i \in DOMAIN q : q[i] = x})

(* How often a symbol has been made, after one more.                        *)
LEMMA CountAppend ==
    ASSUME NEW q, IsList(q), NEW x
    PROVE  /\ Count(<<>>, x) = 0
           /\ Count(q, x) \in Nat
           /\ Count(Append(q, x), x) = Count(q, x) + 1
           /\ \A y : y # x => Count(Append(q, x), y) = Count(q, y)
<1> DEFINE Places(s, y) == {i \in DOMAIN s : s[i] = y}
           s == Append(q, x)
           n == Len(q)
<1>1. n \in Nat /\ DOMAIN q = 1 .. n
  BY ListBasics
<1>2. DOMAIN s = 1 .. n + 1 /\ s[n + 1] = x /\ \A i \in 1 .. n : s[i] = q[i]
  BY AppendList, ListBasics
<1>3. Count(<<>>, x) = 0
  <2>1. {i \in DOMAIN <<>> : <<>>[i] = x} = {}
    OBVIOUS
  <2> QED BY <2>1, FS_EmptySet DEF Count
<1> HIDE DEF s, n
<1>4. Places(q, x) \subseteq 1 .. n /\ n + 1 \notin Places(q, x)
  BY <1>1
<1>5. IsFiniteSet(Places(q, x))
  <2>1. IsFiniteSet(1 .. n)
    BY <1>1, FS_Interval
  <2> QED BY <1>4, <2>1, FS_Subset
<1>6. \A i : i \in 1 .. n + 1 <=> i \in 1 .. n \/ i = n + 1
  BY <1>1
<1>7. Places(s, x) = Places(q, x) \cup {n + 1}
  BY <1>1, <1>2, <1>6
<1>8. \A y : y # x => Places(s, y) = Places(q, y)
  BY <1>1, <1>2, <1>6
<1>9. Cardinality(Places(q, x)) \in Nat
  BY <1>5, FS_CardinalityType
<1>10. \A t, y : Count(t, y) = Cardinality(Places(t, y))
  BY DEF Count
<1> HIDE DEF Places
<1>11. Cardinality(Places(q, x) \cup {n + 1}) = Cardinality(Places(q, x)) + 1
  BY <1>4, <1>5, FS_AddElement
<1>12. Count(s, x) = Count(q, x) + 1
  BY <1>7, <1>10, <1>11
<1>13. \A y : y # x => Count(s, y) = Count(q, y)
  BY <1>8, <1>10
<1>14. Count(q, x) \in Nat
  BY <1>9, <1>10
<1> QED BY <1>3, <1>12, <1>13, <1>14 DEF s

-----------------------------------------------------------------------------
(* The context of renaming, and the registers its stacks hold.              *)
Sound(c) ==
    /\ DOMAIN c = {"code", "counters", "stacks", "made", "undefined"}
    /\ \A x \in DOMAIN c.counters : c.counters[x] \in Nat
    /\ \A x \in DOMAIN c.stacks : c.stacks[x] \in Seq(Nat)
    /\ IsList(c.code) /\ IsList(c.made) /\ c.undefined \in BOOLEAN
Held(c) == UNION {{Reg(x, c.stacks[x][i]) : i \in DOMAIN c.stacks[x]} : x \in DOMAIN c.stacks}

(* The version stack of a symbol holds what Held says of it.                *)
LEMMA ActiveFacts ==
    ASSUME NEW c, Sound(c)
    PROVE  /\ \A x : NextVersion(c, x) \in Nat /\ Active(c, x) \in Seq(Nat)
           /\ \A r : r \in Held(c) <=> \E x : \E v \in ToSet(Active(c, x)) : r = Reg(x, v)
<1>1. \A x : NextVersion(c, x) \in Nat
  BY DEF Sound, NextVersion
<1>2. ASSUME NEW x PROVE Active(c, x) \in Seq(Nat)
  <2>1. CASE x \in DOMAIN c.stacks
    BY <2>1 DEF Sound, Active
  <2>2. CASE x \notin DOMAIN c.stacks
    BY <2>2 DEF Active
  <2> QED BY <2>1, <2>2
<1>3. ToSet(<<>>) = {}
  BY DEF ToSet
<1>4. \A x : x \notin DOMAIN c.stacks => ToSet(Active(c, x)) = {}
  BY <1>3 DEF Active
<1>5. \A x \in DOMAIN c.stacks : Active(c, x) = c.stacks[x]
  BY DEF Active
<1>6. \A r : r \in Held(c) <=> \E x \in DOMAIN c.stacks : \E v \in ToSet(c.stacks[x]) : r = Reg(x, v)
  BY DEF Held, ToSet
<1>7. \A r : r \in Held(c) <=> \E x : \E v \in ToSet(Active(c, x)) : r = Reg(x, v)
  BY <1>4, <1>5, <1>6
<1> QED BY <1>1, <1>2, <1>7

(* A version pushed is on top of its stack, which is otherwise the same.    *)
LEMMA PushedFacts ==
    ASSUME NEW q \in Seq(Nat), NEW v \in Nat
    PROVE  /\ <<v>> \o q \in Seq(Nat) /\ <<v>> \o q # <<>> /\ (<<v>> \o q)[1] = v
           /\ ToSet(<<v>> \o q) = {v} \cup ToSet(q)
<1>1. <<v>> \in Seq(Nat) /\ ToSet(<<v>>) = {v} /\ Len(<<v>>) = 1 /\ <<v>>[1] = v
  BY DEF ToSet
<1>2. IsList(<<v>>) /\ IsList(q)
  BY <1>1, ListOf
<1>3. ToSet(<<v>> \o q) = {v} \cup ToSet(q)
  BY <1>1, <1>2, JoinLists
<1>4. <<v>> \o q \in Seq(Nat) /\ Len(<<v>> \o q) = 1 + Len(q) /\ (<<v>> \o q)[1] = v /\ Len(q) \in Nat
  BY <1>1
<1> DEFINE r == <<v>> \o q
<1> HIDE DEF r
<1>5. r # <<>>
  BY <1>4 DEF r
<1> QED BY <1>3, <1>4, <1>5 DEF r

(* new_version makes a register no instruction had, on top of its stack.    *)
LEMMA DefineFacts ==
    ASSUME NEW c, Sound(c), NEW x
    PROVE  LET d == Define(c, x)
           IN  /\ Sound(d) /\ d.code = c.code /\ d.undefined = c.undefined /\ d.made = Append(c.made, x)
               /\ NextVersion(d, x) = NextVersion(c, x) + 1
               /\ Active(d, x) = <<NextVersion(c, x)>> \o Active(c, x)
               /\ \A y : y # x => NextVersion(d, y) = NextVersion(c, y) /\ Active(d, y) = Active(c, y)
               /\ Top(d, x) = Reg(x, NextVersion(c, x))
<1> DEFINE d == Define(c, x)
           v == NextVersion(c, x)
           a == Active(c, x)
           k == v + 1
           s == <<v>> \o a
<1>1. v \in Nat /\ a \in Seq(Nat) /\ k \in Nat
  BY ActiveFacts
<1>2. s \in Seq(Nat) /\ s # <<>> /\ s[1] = v
  BY <1>1, PushedFacts
<1>3. /\ DOMAIN d = DOMAIN c /\ d.code = c.code /\ d.undefined = c.undefined /\ d.made = Append(c.made, x)
      /\ d.counters = Put(c.counters, x, k) /\ d.stacks = Put(c.stacks, x, s)
  BY DEF Define, Sound
<1> HIDE DEF d, k, s
<1>4. /\ DOMAIN d.counters = DOMAIN c.counters \cup {x} /\ d.counters[x] = k
      /\ \A y \in DOMAIN c.counters : y # x => d.counters[y] = c.counters[y]
  BY <1>3 DEF Put
<1>5. /\ DOMAIN d.stacks = DOMAIN c.stacks \cup {x} /\ d.stacks[x] = s
      /\ \A y \in DOMAIN c.stacks : y # x => d.stacks[y] = c.stacks[y]
  BY <1>3 DEF Put
<1>6. Sound(d)
  <2>1. IsList(Append(c.made, x))
    BY AppendList DEF Sound
  <2> QED BY <1>1, <1>2, <1>3, <1>4, <1>5, <2>1 DEF Sound
<1>7. NextVersion(d, x) = k /\ \A y : y # x => NextVersion(d, y) = NextVersion(c, y)
  BY <1>4 DEF NextVersion
<1>8. Active(d, x) = s /\ \A y : y # x => Active(d, y) = Active(c, y)
  BY <1>5 DEF Active
<1>9. Top(d, x) = Reg(x, v)
  BY <1>2, <1>5 DEF Top
<1> QED BY <1>3, <1>6, <1>7, <1>8, <1>9 DEF d, k, s

(* The register a use is given is on a stack.                               *)
LEMMA TopHeld ==
    ASSUME NEW c, Sound(c), NEW x, HasTop(c, x)
    PROVE  Top(c, x) \in Held(c)
<1>1. x \in DOMAIN c.stacks /\ c.stacks[x] \in Seq(Nat) /\ c.stacks[x] # <<>>
  BY DEF HasTop, Active, Sound
<1>2. 1 \in DOMAIN c.stacks[x]
  BY <1>1
<1> QED BY <1>1, <1>2 DEF Held, Top

(* Operands without a version are those that dangle.                        *)
LEMMA UsesHeld ==
    ASSUME NEW c, Sound(c), NEW args, ~ Dangling(c, args)
    PROVE  RegsOf(RenameArgs(c, args)) \subseteq Held(c)
<1> DEFINE new == RenameArgs(c, args)
<1>1. DOMAIN new = DOMAIN args /\ \A i \in DOMAIN args : new[i] = RenameOperand(c, args[i])
  BY DEF RenameArgs
<1> HIDE DEF new
<1>2. ASSUME NEW i \in DOMAIN args, new[i].kind = "reg" PROVE new[i].val \in Held(c)
  <2>1. CASE args[i].kind = "reg"
    <3>1. HasTop(c, args[i].val.sym)
      BY <2>1 DEF Dangling
    <3>2. new[i] = At(Top(c, args[i].val.sym))
      BY <1>1, <2>1, <3>1 DEF RenameOperand
    <3>3. new[i].val = Top(c, args[i].val.sym)
      BY <3>2 DEF At
    <3> QED BY <3>1, <3>3, TopHeld
  <2>2. CASE args[i].kind # "reg"
    BY <1>1, <1>2, <2>2 DEF RenameOperand
  <2> QED BY <2>1, <2>2
<1>3. RegsOf(new) \subseteq Held(c)
  BY <1>1, <1>2 DEF RegsOf
<1> QED BY <1>3 DEF new

-----------------------------------------------------------------------------
(* One instruction renamed: its operands from what is held, then its own    *)
(* register with the next version of its symbol.                           *)
Renames(c, e, inst, q) ==
    /\ Instruction(q) /\ q.op = inst.op /\ q.sources = inst.sources
    /\ e.code = Append(c.code, q)
    /\ ~ e.undefined => ~ c.undefined /\ RegsOf(q.args) \subseteq Held(c)
Unversioned(c, e, q) ==
    /\ q.dest = {} /\ e.made = c.made
    /\ \A y : NextVersion(e, y) = NextVersion(c, y) /\ Active(e, y) = Active(c, y)
Versioned(c, e, q, x) ==
    /\ q.dest = {Reg(x, NextVersion(c, x))} /\ e.made = Append(c.made, x)
    /\ NextVersion(e, x) = NextVersion(c, x) + 1
    /\ Active(e, x) = <<NextVersion(c, x)>> \o Active(c, x)
    /\ \A y : y # x => NextVersion(e, y) = NextVersion(c, y) /\ Active(e, y) = Active(c, y)

(* The destination of an instruction gets a version of its own.             *)
LEMMA RenameDestFacts ==
    ASSUME NEW c, Sound(c), NEW inst, Instruction(inst)
    PROVE  LET e == RenameDest(c, inst)
           IN  /\ Sound(e) /\ e.undefined = c.undefined
               /\ \E q : /\ Instruction(q) /\ q.op = inst.op /\ q.sources = inst.sources
                         /\ q.args = inst.args /\ e.code = Append(c.code, q)
                         /\ \/ Unversioned(c, e, q)
                            \/ \E x : Versioned(c, e, q, x)
<1> DEFINE e == RenameDest(c, inst)
<1>1. CASE inst.dest = {}
  <2>1. e = [c EXCEPT !.code = Append(c.code, inst)]
    BY <1>1 DEF RenameDest
  <2>2. /\ DOMAIN e = DOMAIN c /\ e.code = Append(c.code, inst)
        /\ e.counters = c.counters /\ e.stacks = c.stacks /\ e.made = c.made /\ e.undefined = c.undefined
    BY <2>1 DEF Sound
  <2> HIDE DEF e
  <2>3. IsList(Append(c.code, inst))
    BY AppendList DEF Sound
  <2>4. Sound(e)
    BY <2>2, <2>3 DEF Sound
  <2>5. Unversioned(c, e, inst)
    BY <1>1, <2>2 DEF Unversioned, NextVersion, Active
  <2> QED BY <2>2, <2>4, <2>5 DEF e
<1>2. CASE inst.dest # {}
  <2> DEFINE x == (CHOOSE r \in inst.dest : TRUE).sym
             d == Define(c, x)
             q == [inst EXCEPT !.dest = {Top(d, x)}]
  <2>1. e = [d EXCEPT !.code = Append(d.code, q)]
    BY <1>2 DEF RenameDest
  <2>2. /\ Instruction(q) /\ q.op = inst.op /\ q.sources = inst.sources /\ q.args = inst.args
        /\ q.dest = {Top(d, x)}
    BY DEF Instruction
  <2> HIDE DEF q, x
  <2>3. /\ Sound(d) /\ d.code = c.code /\ d.undefined = c.undefined /\ d.made = Append(c.made, x)
        /\ NextVersion(d, x) = NextVersion(c, x) + 1
        /\ Active(d, x) = <<NextVersion(c, x)>> \o Active(c, x)
        /\ \A y : y # x => NextVersion(d, y) = NextVersion(c, y) /\ Active(d, y) = Active(c, y)
        /\ Top(d, x) = Reg(x, NextVersion(c, x))
    BY DefineFacts
  <2> HIDE DEF d
  <2>4. /\ DOMAIN e = DOMAIN d /\ e.code = Append(d.code, q)
        /\ e.counters = d.counters /\ e.stacks = d.stacks /\ e.made = d.made /\ e.undefined = d.undefined
    BY <2>1, <2>3 DEF Sound
  <2> HIDE DEF e
  <2>5. IsList(Append(d.code, q))
    BY <2>3, AppendList DEF Sound
  <2>6. Sound(e)
    BY <2>3, <2>4, <2>5 DEF Sound
  <2>7. \A y : NextVersion(e, y) = NextVersion(d, y) /\ Active(e, y) = Active(d, y)
    BY <2>4 DEF NextVersion, Active
  <2>8. Versioned(c, e, q, x)
    BY <2>2, <2>3, <2>4, <2>7 DEF Versioned
  <2> QED BY <2>2, <2>3, <2>4, <2>6, <2>8 DEF e
<1> QED BY <1>1, <1>2

(* An instruction renamed: its uses are on the stacks, its destination is   *)
(* new.                                                                     *)
LEMMA RenameInstructionFacts ==
    ASSUME NEW c, Sound(c), NEW inst, Instruction(inst)
    PROVE  LET e == RenameInstruction(c, inst)
           IN  /\ Sound(e)
               /\ \E q : /\ Renames(c, e, inst, q)
                         /\ \/ Unversioned(c, e, q)
                            \/ \E x : Versioned(c, e, q, x)
<1> DEFINE u == c.undefined \/ Dangling(c, inst.args)
           args == RenameArgs(c, inst.args)
           c1 == [c EXCEPT !.undefined = u]
           inst1 == [inst EXCEPT !.args = args]
           e == RenameInstruction(c, inst)
<1>1. e = RenameDest(c1, inst1)
  BY DEF RenameInstruction
<1>2. u \in BOOLEAN
  BY DEF Sound
<1>3. ~ u => ~ c.undefined /\ RegsOf(args) \subseteq Held(c)
  BY UsesHeld
<1> HIDE DEF u, args, e
<1>4. /\ DOMAIN c1 = DOMAIN c /\ c1.undefined = u /\ c1.code = c.code /\ c1.counters = c.counters
      /\ c1.stacks = c.stacks /\ c1.made = c.made
  BY DEF Sound
<1>5. /\ Instruction(inst1) /\ inst1.op = inst.op /\ inst1.sources = inst.sources /\ inst1.args = args
  BY DEF Instruction
<1> HIDE DEF c1, inst1
<1>6. Sound(c1)
  BY <1>2, <1>4 DEF Sound
<1>7. \A y : NextVersion(c1, y) = NextVersion(c, y) /\ Active(c1, y) = Active(c, y)
  BY <1>4 DEF NextVersion, Active
<1>8. /\ Sound(e) /\ e.undefined = u
      /\ \E q : /\ Instruction(q) /\ q.op = inst.op /\ q.sources = inst.sources
                /\ q.args = args /\ e.code = Append(c.code, q)
                /\ \/ Unversioned(c1, e, q)
                   \/ \E x : Versioned(c1, e, q, x)
  <2>1. LET f == RenameDest(c1, inst1)
        IN  /\ Sound(f) /\ f.undefined = c1.undefined
            /\ \E q : /\ Instruction(q) /\ q.op = inst1.op /\ q.sources = inst1.sources
                      /\ q.args = inst1.args /\ f.code = Append(c1.code, q)
                      /\ \/ Unversioned(c1, f, q)
                         \/ \E x : Versioned(c1, f, q, x)
    BY <1>5, <1>6, RenameDestFacts
  <2> QED BY <1>1, <1>4, <1>5, <2>1
<1>9. \A q : Unversioned(c1, e, q) => Unversioned(c, e, q)
  BY <1>4, <1>7 DEF Unversioned
<1>10. \A q, x : Versioned(c1, e, q, x) => Versioned(c, e, q, x)
  BY <1>4, <1>7 DEF Versioned
<1>11. ASSUME NEW q, Instruction(q), q.op = inst.op, q.sources = inst.sources,
              q.args = args, e.code = Append(c.code, q)
       PROVE  Renames(c, e, inst, q)
  BY <1>3, <1>8, <1>11 DEF Renames
<1> QED BY <1>8, <1>9, <1>10, <1>11 DEF e

-----------------------------------------------------------------------------
(* A block being renamed: c is the context after the first n instructions   *)
(* of code, c0 the one before them.                                        *)
Dests(q) == UNION {q[i].dest : i \in DOMAIN q}
Dropped(q, k) == SubSeq(q, k + 1, Len(q))
Progress(c0, code, n, c) ==
    /\ Sound(c) /\ Len(c.code) = n
    /\ \A x : NextVersion(c0, x) <= NextVersion(c, x)
    /\ \A i \in 1 .. n :
          /\ Instruction(c.code[i]) /\ c.code[i].op = code[i].op /\ c.code[i].sources = code[i].sources
          /\ c.code[i].dest # {} =>
                \E x : \E v \in Nat : /\ c.code[i].dest = {Reg(x, v)}
                                      /\ NextVersion(c0, x) <= v /\ v < NextVersion(c, x)
          /\ ~ c.undefined => RegsOf(c.code[i].args) \subseteq
                                  Held(c0) \cup UNION {c.code[j].dest : j \in 1 .. i - 1}
    /\ \A i, j \in 1 .. n : c.code[i].dest \cap c.code[j].dest # {} => i = j
    /\ Held(c) \subseteq Held(c0) \cup UNION {c.code[j].dest : j \in 1 .. n}
    /\ \A x : Dropped(Active(c, x), Count(c.made, x)) = Active(c0, x)

(* Nothing renamed yet.                                                     *)
LEMMA ProgressStarts ==
    ASSUME NEW c0, Sound(c0), c0.code = <<>>, c0.made = <<>>, NEW code
    PROVE  Progress(c0, code, 0, c0)
<1>1. Len(c0.code) = 0
  BY SMT
<1>2. \A x : NextVersion(c0, x) \in Nat /\ Active(c0, x) \in Seq(Nat)
  BY ActiveFacts
<1>3. \A x : Count(c0.made, x) = 0
  BY CountAppend DEF Sound
<1>4. \A x : Dropped(Active(c0, x), Count(c0.made, x)) = Active(c0, x)
  <2> SUFFICES ASSUME NEW x PROVE Dropped(Active(c0, x), 0) = Active(c0, x)
    BY <1>3
  <2> DEFINE q == Active(c0, x)
  <2>1. q \in Seq(Nat)
    BY <1>2
  <2> HIDE DEF q
  <2>2. SubSeq(q, 1, Len(q)) = q
    BY <2>1
  <2> QED BY <2>2 DEF q, Dropped
<1>5. \A i : i \notin 1 .. 0
  OBVIOUS
<1> QED BY <1>1, <1>2, <1>4, <1>5 DEF Progress

(* One instruction more.                                                    *)
LEMMA ProgressStep ==
    ASSUME NEW c0, Sound(c0), NEW code, NEW n \in Nat, NEW c, Progress(c0, code, n, c),
           Instruction(code[n + 1])
    PROVE  Progress(c0, code, n + 1, RenameInstruction(c, code[n + 1]))
<1> DEFINE m == n + 1
           e == RenameInstruction(c, code[m])
<1>1. Sound(c) /\ Len(c.code) = n
  BY DEF Progress
<1>2. /\ Sound(e)
      /\ \E q : /\ Renames(c, e, code[m], q)
                /\ \/ Unversioned(c, e, q)
                   \/ \E x : Versioned(c, e, q, x)
  BY <1>1, RenameInstructionFacts
<1>3. PICK q : /\ Renames(c, e, code[m], q)
               /\ \/ Unversioned(c, e, q)
                  \/ \E x : Versioned(c, e, q, x)
  BY <1>2
<1>4. m \in Nat /\ \A i : i \in 1 .. m <=> i \in 1 .. n \/ i = m
  OBVIOUS
<1> HIDE DEF e, m
<1>5. /\ e.code = Append(c.code, q) /\ Len(e.code) = m
      /\ \A i \in 1 .. n : e.code[i] = c.code[i]
      /\ e.code[m] = q
  <2>1. e.code = Append(c.code, q) /\ IsList(c.code)
    BY <1>1, <1>3 DEF Renames, Sound
  <2> QED BY <1>1, <2>1, AppendList DEF m
<1>6. \A x : /\ NextVersion(c0, x) \in Nat /\ NextVersion(c, x) \in Nat /\ NextVersion(e, x) \in Nat
             /\ Active(c, x) \in Seq(Nat)
             /\ NextVersion(c0, x) <= NextVersion(c, x)
  BY <1>1, <1>2, ActiveFacts DEF Progress
<1>7. \A x : NextVersion(c, x) <= NextVersion(e, x)
  <2> SUFFICES ASSUME NEW x PROVE NextVersion(c, x) <= NextVersion(e, x)
    OBVIOUS
  <2>1. NextVersion(e, x) = NextVersion(c, x) \/ NextVersion(e, x) = NextVersion(c, x) + 1
    BY <1>3 DEF Unversioned, Versioned
  <2> QED BY <1>6, <2>1
<1>8. \A x : NextVersion(c0, x) <= NextVersion(e, x)
  BY <1>6, <1>7
<1>9. q.dest # {} => \E x : /\ q.dest = {Reg(x, NextVersion(c, x))}
                            /\ NextVersion(e, x) = NextVersion(c, x) + 1
  BY <1>3 DEF Unversioned, Versioned
<1>10. ASSUME NEW i \in 1 .. n, e.code[i].dest \cap q.dest # {} PROVE FALSE
  <2>1. PICK x : q.dest = {Reg(x, NextVersion(c, x))}
    BY <1>9, <1>10
  <2>2. c.code[i].dest # {} /\ e.code[i] = c.code[i]
    BY <1>5, <1>10
  <2>7. PICK y : \E v \in Nat : c.code[i].dest = {Reg(y, v)} /\ v < NextVersion(c, y)
    BY <2>2 DEF Progress
  <2>3. PICK v \in Nat : c.code[i].dest = {Reg(y, v)} /\ v < NextVersion(c, y)
    BY <2>7
  <2>4. Reg(y, v) = Reg(x, NextVersion(c, x))
    BY <1>10, <2>1, <2>2, <2>3
  <2>5. y = x /\ v = NextVersion(c, x)
    BY <2>4, RegFacts
  <2> QED BY <1>6, <2>3, <2>5
<1>11. \A i, j \in 1 .. m : e.code[i].dest \cap e.code[j].dest # {} => i = j
  <2>1. \A i, j \in 1 .. n : e.code[i].dest \cap e.code[j].dest # {} => i = j
    BY <1>5 DEF Progress
  <2>2. \A i \in 1 .. n : e.code[i].dest \cap e.code[m].dest = {}
    BY <1>5, <1>10
  <2> QED BY <1>4, <2>1, <2>2
<1>12. ASSUME NEW i \in 1 .. m
       PROVE  /\ Instruction(e.code[i]) /\ e.code[i].op = code[i].op /\ e.code[i].sources = code[i].sources
              /\ e.code[i].dest # {} =>
                    \E x : \E v \in Nat : /\ e.code[i].dest = {Reg(x, v)}
                                          /\ NextVersion(c0, x) <= v /\ v < NextVersion(e, x)
  <2>1. CASE i \in 1 .. n
    <3>1. /\ Instruction(c.code[i]) /\ c.code[i].op = code[i].op /\ c.code[i].sources = code[i].sources
          /\ c.code[i].dest # {} =>
                \E x : \E v \in Nat : /\ c.code[i].dest = {Reg(x, v)}
                                      /\ NextVersion(c0, x) <= v /\ v < NextVersion(c, x)
      BY <2>1 DEF Progress
    <3>2. \A x : \A v \in Nat : v < NextVersion(c, x) => v < NextVersion(e, x)
      BY <1>6, <1>7
    <3> QED BY <1>5, <2>1, <3>1, <3>2
  <2>2. CASE i = m
    <3>1. Instruction(q) /\ q.op = code[m].op /\ q.sources = code[m].sources
      BY <1>3 DEF Renames
    <3>2. \A x : NextVersion(c, x) < NextVersion(c, x) + 1
      BY <1>6
    <3>3. q.dest # {} =>
             \E x : \E v \in Nat : /\ q.dest = {Reg(x, v)}
                                   /\ NextVersion(c0, x) <= v /\ v < NextVersion(e, x)
      BY <1>6, <1>9, <3>2
    <3> QED BY <1>5, <2>2, <3>1, <3>3
  <2> QED BY <1>4, <2>1, <2>2
<1>13. Held(c) \subseteq Held(c0) \cup UNION {e.code[j].dest : j \in 1 .. n}
  BY <1>5 DEF Progress
<1>14. ASSUME ~ e.undefined, NEW i \in 1 .. m
       PROVE  RegsOf(e.code[i].args) \subseteq Held(c0) \cup UNION {e.code[j].dest : j \in 1 .. i - 1}
  <2>1. ~ c.undefined /\ RegsOf(q.args) \subseteq Held(c)
    BY <1>3, <1>14 DEF Renames
  <2>2. CASE i \in 1 .. n
    <3>1. RegsOf(c.code[i].args) \subseteq Held(c0) \cup UNION {c.code[j].dest : j \in 1 .. i - 1}
      BY <2>1, <2>2 DEF Progress
    <3>2. \A j \in 1 .. i - 1 : j \in 1 .. n
      BY <2>2
    <3>3. \A j \in 1 .. i - 1 : e.code[j] = c.code[j]
      BY <1>5, <3>2
    <3>4. UNION {c.code[j].dest : j \in 1 .. i - 1} = UNION {e.code[j].dest : j \in 1 .. i - 1}
      BY <3>3
    <3> QED BY <1>5, <2>2, <3>1, <3>4
  <2>3. CASE i = m
    <3>1. i - 1 = n
      BY <2>3 DEF m
    <3> QED BY <1>5, <1>13, <2>1, <2>3, <3>1
  <2> QED BY <1>4, <2>2, <2>3
<1>15. Held(e) \subseteq Held(c) \cup q.dest
  <2> SUFFICES ASSUME NEW r \in Held(e) PROVE r \in Held(c) \cup q.dest
    OBVIOUS
  <2>1. PICK y : \E v \in ToSet(Active(e, y)) : r = Reg(y, v)
    BY <1>2, ActiveFacts
  <2>2. PICK v \in ToSet(Active(e, y)) : r = Reg(y, v)
    BY <2>1
  <2>3. CASE v \in ToSet(Active(c, y))
    BY <1>1, <2>2, <2>3, ActiveFacts
  <2>4. CASE v \notin ToSet(Active(c, y))
    <3>1. Active(e, y) # Active(c, y)
      BY <2>4
    <3>2. Versioned(c, e, q, y)
      BY <1>3, <3>1 DEF Unversioned, Versioned
    <3>3. ToSet(Active(e, y)) = {NextVersion(c, y)} \cup ToSet(Active(c, y))
      BY <1>6, <3>2, PushedFacts DEF Versioned
    <3> QED BY <2>2, <2>4, <3>2, <3>3 DEF Versioned
  <2> QED BY <2>3, <2>4
<1>16. Held(e) \subseteq Held(c0) \cup UNION {e.code[j].dest : j \in 1 .. m}
  BY <1>4, <1>5, <1>13, <1>15
<1>17. \A x : Dropped(Active(e, x), Count(e.made, x)) = Active(c0, x)
  <2> SUFFICES ASSUME NEW x PROVE Dropped(Active(e, x), Count(e.made, x)) = Active(c0, x)
    OBVIOUS
  <2>1. Dropped(Active(c, x), Count(c.made, x)) = Active(c0, x)
    BY DEF Progress
  <2>2. IsList(c.made)
    BY <1>1 DEF Sound
  <2>3. CASE e.made = c.made /\ Active(e, x) = Active(c, x)
    BY <2>1, <2>3
  <2>4. CASE Versioned(c, e, q, x)
    <3>1. Count(e.made, x) = Count(c.made, x) + 1 /\ Count(c.made, x) \in Nat
      BY <2>2, <2>4, CountAppend DEF Versioned
    <3>2. Active(e, x) = <<NextVersion(c, x)>> \o Active(c, x)
      BY <2>4 DEF Versioned
    <3>3. Dropped(<<NextVersion(c, x)>> \o Active(c, x), Count(c.made, x) + 1) =
             Dropped(Active(c, x), Count(c.made, x))
      BY <1>6, <3>1, DropPushed DEF Dropped
    <3> QED BY <2>1, <3>1, <3>2, <3>3
  <2>5. ASSUME NEW y, y # x, Versioned(c, e, q, y)
        PROVE  Count(e.made, x) = Count(c.made, x) /\ Active(e, x) = Active(c, x)
    BY <2>2, <2>5, CountAppend DEF Versioned
  <2> QED BY <1>3, <2>1, <2>3, <2>4, <2>5 DEF Unversioned
<1> QED BY <1>2, <1>5, <1>8, <1>11, <1>12, <1>14, <1>16, <1>17 DEF Progress, m, e

(* A block is renamed instruction by instruction: there is such a function. *)
LEMMA RenameCodeSteps ==
    ASSUME NEW c0, NEW code, IsList(code)
    PROVE  \E f : /\ f[0] = c0 /\ RenameCode(c0, code) = f[Len(code)]
                  /\ \A n \in 1 .. Len(code) : f[n] = RenameInstruction(f[n-1], code[n])
<1> DEFINE m == Len(code)
           rec(k, f) == [n \in 0 .. k |-> IF n = 0 THEN c0 ELSE RenameInstruction(f[n-1], code[n])]
           S == {k \in Nat : \E f : f = rec(k, f)}
           after == CHOOSE f : f = rec(m, f)
<1>1. m \in Nat
  BY ListBasics
<1>2. RenameCode(c0, code) = after[m]
  BY DEF RenameCode
<1> HIDE DEF m
<1>3. 0 \in S
  <2> DEFINE f == [n \in 0 .. 0 |-> c0]
  <2>1. f = rec(0, f)
    OBVIOUS
  <2> HIDE DEF f, rec
  <2> QED BY <2>1
<1>4. ASSUME NEW k \in Nat, k \in S PROVE k + 1 \in S
  <2>1. PICK f : f = rec(k, f)
    BY <1>4
  <2> DEFINE g == [n \in 0 .. k + 1 |-> IF n = k + 1 THEN RenameInstruction(f[k], code[k + 1]) ELSE f[n]]
             h == rec(k + 1, g)
  <2>2. ASSUME NEW n \in 0 .. k + 1 PROVE g[n] = h[n]
    <3>1. h[n] = IF n = 0 THEN c0 ELSE RenameInstruction(g[n-1], code[n])
      OBVIOUS
    <3>2. CASE n = k + 1
      <4>1. n - 1 = k /\ n # 0 /\ k \in 0 .. k + 1 /\ k # k + 1
        BY <3>2
      <4>2. g[n-1] = f[k]
        BY <4>1
      <4>3. g[n] = RenameInstruction(f[k], code[k + 1])
        BY <3>2
      <4> HIDE DEF g, h
      <4> QED BY <3>1, <3>2, <4>1, <4>2, <4>3
    <3>3. CASE n # k + 1
      <4>1. n \in 0 .. k /\ (n # 0 => n - 1 \in 0 .. k /\ n - 1 \in 0 .. k + 1 /\ n - 1 # k + 1)
        BY <3>3
      <4>2. g[n] = f[n] /\ (n # 0 => g[n-1] = f[n-1])
        BY <3>3, <4>1
      <4>3. f[n] = IF n = 0 THEN c0 ELSE RenameInstruction(f[n-1], code[n])
        BY <2>1, <4>1
      <4> HIDE DEF g, h
      <4> QED BY <3>1, <4>2, <4>3
    <3> QED BY <3>2, <3>3
  <2>3. g = h
    <3>1. g = [n \in 0 .. k + 1 |-> g[n]] /\ h = [n \in 0 .. k + 1 |-> h[n]]
      OBVIOUS
    <3> HIDE DEF g, h
    <3> QED BY <2>2, <3>1
  <2> HIDE DEF g, rec
  <2> QED BY <2>3
<1>5. m \in S
  <2> HIDE DEF S
  <2>1. Nat \subseteq S
    BY <1>3, <1>4, Induction
  <2> QED BY <1>1, <2>1
<1>6. after = rec(m, after)
  <2>1. \E f : f = rec(m, f)
    BY <1>5
  <2> HIDE DEF rec
  <2> QED BY <2>1, Zenon
<1> HIDE DEF after
<1>7. after[0] = c0 /\ \A n \in 1 .. m : after[n] = RenameInstruction(after[n-1], code[n])
  <2>1. after = [n \in 0 .. m |-> IF n = 0 THEN c0 ELSE RenameInstruction(after[n-1], code[n])]
    BY <1>6
  <2>2. 0 \in 0 .. m /\ \A n \in 1 .. m : n \in 0 .. m /\ n # 0
    BY <1>1
  <2> QED BY <2>1, <2>2
<1> QED BY <1>2, <1>7 DEF m

(* The instructions of a block renamed, one after the other.                *)
LEMMA RenameCodeFacts ==
    ASSUME NEW c0, Sound(c0), c0.code = <<>>, c0.made = <<>>,
           NEW code, IsList(code), \A i \in DOMAIN code : Instruction(code[i])
    PROVE  Progress(c0, code, Len(code), RenameCode(c0, code))
<1> DEFINE m == Len(code)
<1>1. m \in Nat /\ DOMAIN code = 1 .. m
  BY ListBasics
<1>2. PICK f : /\ f[0] = c0 /\ RenameCode(c0, code) = f[m]
               /\ \A n \in 1 .. m : f[n] = RenameInstruction(f[n-1], code[n])
  BY RenameCodeSteps
<1> DEFINE S == {k \in Nat : k <= m => Progress(c0, code, k, f[k])}
<1>3. 0 \in S
  BY <1>2, ProgressStarts
<1>4. ASSUME NEW k \in Nat, k \in S PROVE k + 1 \in S
  <2> SUFFICES ASSUME k + 1 <= m PROVE Progress(c0, code, k + 1, f[k + 1])
    OBVIOUS
  <2> HIDE DEF m
  <2>1. k <= m /\ k + 1 \in 1 .. m /\ (k + 1) - 1 = k
    BY <1>1
  <2>2. Progress(c0, code, k, f[k])
    BY <1>4, <2>1
  <2>3. f[k + 1] = RenameInstruction(f[k], code[k + 1])
    BY <1>2, <2>1
  <2>4. Instruction(code[k + 1])
    BY <1>1, <2>1
  <2> QED BY <2>2, <2>3, <2>4, ProgressStep
<1>5. m \in S
  <2> HIDE DEF S, m
  <2>1. Nat \subseteq S
    BY <1>3, <1>4, Induction
  <2> QED BY <1>1, <2>1
<1> QED BY <1>1, <1>2, <1>5

-----------------------------------------------------------------------------
(* The versions of the parameters.                                          *)
LEMMA DefineAllSteps ==
    ASSUME NEW params, IsList(params)
    PROVE  \E f : /\ f[0] = Context /\ DefineAll(params) = f[Len(params)]
                  /\ \A n \in 1 .. Len(params) : f[n] = Define(f[n-1], params[n].sym)
<1> DEFINE m == Len(params)
           rec(k, f) == [n \in 0 .. k |-> IF n = 0 THEN Context ELSE Define(f[n-1], params[n].sym)]
           S == {k \in Nat : \E f : f = rec(k, f)}
           after == CHOOSE f : f = rec(m, f)
<1>1. m \in Nat
  BY ListBasics
<1>2. DefineAll(params) = after[m]
  BY DEF DefineAll
<1> HIDE DEF m
<1>3. 0 \in S
  <2> DEFINE f == [n \in 0 .. 0 |-> Context]
  <2>1. f = rec(0, f)
    OBVIOUS
  <2> HIDE DEF f, rec
  <2> QED BY <2>1
<1>4. ASSUME NEW k \in Nat, k \in S PROVE k + 1 \in S
  <2>1. PICK f : f = rec(k, f)
    BY <1>4
  <2> DEFINE g == [n \in 0 .. k + 1 |-> IF n = k + 1 THEN Define(f[k], params[k + 1].sym) ELSE f[n]]
             h == rec(k + 1, g)
  <2>2. ASSUME NEW n \in 0 .. k + 1 PROVE g[n] = h[n]
    <3>1. h[n] = IF n = 0 THEN Context ELSE Define(g[n-1], params[n].sym)
      OBVIOUS
    <3>2. CASE n = k + 1
      <4>1. n - 1 = k /\ n # 0 /\ k \in 0 .. k + 1 /\ k # k + 1
        BY <3>2
      <4>2. g[n-1] = f[k]
        BY <4>1
      <4>3. g[n] = Define(f[k], params[k + 1].sym)
        BY <3>2
      <4> HIDE DEF g, h
      <4> QED BY <3>1, <3>2, <4>1, <4>2, <4>3
    <3>3. CASE n # k + 1
      <4>1. n \in 0 .. k /\ (n # 0 => n - 1 \in 0 .. k /\ n - 1 \in 0 .. k + 1 /\ n - 1 # k + 1)
        BY <3>3
      <4>2. g[n] = f[n] /\ (n # 0 => g[n-1] = f[n-1])
        BY <3>3, <4>1
      <4>3. f[n] = IF n = 0 THEN Context ELSE Define(f[n-1], params[n].sym)
        BY <2>1, <4>1
      <4> HIDE DEF g, h
      <4> QED BY <3>1, <4>2, <4>3
    <3> QED BY <3>2, <3>3
  <2>3. g = h
    <3>1. g = [n \in 0 .. k + 1 |-> g[n]] /\ h = [n \in 0 .. k + 1 |-> h[n]]
      OBVIOUS
    <3> HIDE DEF g, h
    <3> QED BY <2>2, <3>1
  <2> HIDE DEF g, rec
  <2> QED BY <2>3
<1>5. m \in S
  <2> HIDE DEF S
  <2>1. Nat \subseteq S
    BY <1>3, <1>4, Induction
  <2> QED BY <1>1, <2>1
<1>6. after = rec(m, after)
  <2>1. \E f : f = rec(m, f)
    BY <1>5
  <2> HIDE DEF rec
  <2> QED BY <2>1, Zenon
<1> HIDE DEF after
<1>7. after[0] = Context /\ \A n \in 1 .. m : after[n] = Define(after[n-1], params[n].sym)
  <2>1. after = [n \in 0 .. m |-> IF n = 0 THEN Context ELSE Define(after[n-1], params[n].sym)]
    BY <1>6
  <2>2. 0 \in 0 .. m /\ \A n \in 1 .. m : n \in 0 .. m /\ n # 0
    BY <1>1
  <2> QED BY <2>1, <2>2
<1> QED BY <1>2, <1>7 DEF m

(* The parameters, each a symbol of its own and without a version.          *)
ParamList(params) ==
    /\ IsList(params)
    /\ \A i \in DOMAIN params : \E x : params[i] = Reg(x, 0)
    /\ \A i, j \in DOMAIN params : params[i] = params[j] => i = j

(* The versions the parameters get before the walk starts.                  *)
LEMMA DefineAllFacts ==
    ASSUME NEW params, ParamList(params), counters = <<>>, stacks = <<>>, undefined = FALSE
    PROVE  LET c == DefineAll(params)
           IN  /\ Sound(c) /\ c.code = <<>> /\ c.undefined = FALSE
               /\ Held(c) \subseteq ToSet(params)
               /\ \A x : Reg(x, 0) \in ToSet(params) => NextVersion(c, x) = 1 /\ HasTop(c, x)
<1> DEFINE m == Len(params)
           Past(k) == {params[i] : i \in 1 .. k}
           Good(k, c) ==
               /\ Sound(c) /\ c.code = <<>> /\ c.undefined = FALSE
               /\ \A x : /\ Reg(x, 0) \in Past(k) => NextVersion(c, x) = 1 /\ ToSet(Active(c, x)) = {0}
                         /\ Reg(x, 0) \notin Past(k) => NextVersion(c, x) = 0 /\ ToSet(Active(c, x)) = {}
<1>1. m \in Nat /\ DOMAIN params = 1 .. m
  BY ListBasics DEF ParamList
<1>2. PICK f : /\ f[0] = Context /\ DefineAll(params) = f[m]
               /\ \A n \in 1 .. m : f[n] = Define(f[n-1], params[n].sym)
  BY DefineAllSteps DEF ParamList
<1> DEFINE S == {k \in Nat : k <= m => Good(k, f[k])}
<1>3. 0 \in S
  <2>1. /\ DOMAIN Context = {"code", "counters", "stacks", "made", "undefined"}
        /\ Context.counters = <<>> /\ Context.stacks = <<>> /\ Context.code = <<>> /\ Context.made = <<>>
        /\ Context.undefined = FALSE
    BY DEF Context
  <2>2. IsList(<<>>) /\ DOMAIN <<>> = {} /\ ToSet(<<>>) = {}
    BY DEF IsList, ToSet
  <2>3. Sound(Context)
    BY <2>1, <2>2 DEF Sound
  <2>4. \A x : NextVersion(Context, x) = 0 /\ ToSet(Active(Context, x)) = {}
    BY <2>1, <2>2 DEF NextVersion, Active
  <2>5. Past(0) = {}
    OBVIOUS
  <2> HIDE DEF Past
  <2>6. Good(0, Context)
    BY <2>1, <2>3, <2>4, <2>5
  <2> HIDE DEF Good
  <2> QED BY <1>2, <2>6
<1>4. ASSUME NEW k \in Nat, k \in S PROVE k + 1 \in S
  <2> HIDE DEF Good, m
  <2> SUFFICES ASSUME k + 1 <= m PROVE Good(k + 1, f[k + 1])
    OBVIOUS
  <2> USE DEF Good
  <2>1. k <= m /\ k + 1 \in 1 .. m /\ (k + 1) - 1 = k
    BY <1>1
  <2> DEFINE c == f[k]
             d == f[k + 1]
  <2>2. Good(k, c)
    BY <1>4, <2>1
  <2>3. PICK x : params[k + 1] = Reg(x, 0)
    BY <1>1, <2>1 DEF ParamList
  <2>4. params[k + 1].sym = x
    BY <2>3, RegFacts
  <2>5. d = Define(c, x)
    BY <1>2, <2>1, <2>4
  <2>6. Past(k + 1) = Past(k) \cup {Reg(x, 0)}
    <3>1. \A i : i \in 1 .. k + 1 <=> i \in 1 .. k \/ i = k + 1
      OBVIOUS
    <3> QED BY <2>3, <3>1
  <2>7. Reg(x, 0) \notin Past(k)
    <3> SUFFICES ASSUME NEW i \in 1 .. k, params[i] = Reg(x, 0) PROVE FALSE
      OBVIOUS
    <3>1. i \in 1 .. m /\ i # k + 1
      BY <1>1, <2>1
    <3> QED BY <1>1, <2>1, <2>3, <3>1 DEF ParamList
  <2> HIDE DEF c, d, Past
  <2>8. /\ Sound(d) /\ d.code = c.code /\ d.undefined = c.undefined
        /\ NextVersion(d, x) = NextVersion(c, x) + 1
        /\ Active(d, x) = <<NextVersion(c, x)>> \o Active(c, x)
        /\ \A y : y # x => NextVersion(d, y) = NextVersion(c, y) /\ Active(d, y) = Active(c, y)
    BY <2>2, <2>5, DefineFacts
  <2>9. NextVersion(c, x) = 0 /\ ToSet(Active(c, x)) = {} /\ Active(c, x) \in Seq(Nat)
    BY <2>2, <2>7, ActiveFacts
  <2>10. ToSet(Active(d, x)) = {0}
    BY <2>8, <2>9, PushedFacts
  <2>11. \A y : y # x => (Reg(y, 0) \in Past(k + 1) <=> Reg(y, 0) \in Past(k))
    BY <2>6, RegFacts
  <2>12. Good(k + 1, d)
    <3>1. Reg(x, 0) \in Past(k + 1) /\ NextVersion(d, x) = 1
      BY <2>6, <2>8, <2>9
    <3>2. ASSUME NEW y, y # x
          PROVE  /\ Reg(y, 0) \in Past(k + 1) => NextVersion(d, y) = 1 /\ ToSet(Active(d, y)) = {0}
                 /\ Reg(y, 0) \notin Past(k + 1) => NextVersion(d, y) = 0 /\ ToSet(Active(d, y)) = {}
      BY <2>2, <2>8, <2>11, <3>2
    <3>3. d.code = <<>> /\ d.undefined = FALSE
      BY <2>2, <2>8
    <3> QED BY <2>8, <2>10, <3>1, <3>2, <3>3
  <2> QED BY <2>12 DEF d
<1>5. Good(m, f[m])
  <2> HIDE DEF Good
  <2>1. m \in S
    <3> HIDE DEF S, m
    <3>1. Nat \subseteq S
      BY <1>3, <1>4, Induction
    <3> QED BY <1>1, <3>1
  <2> QED BY <1>1, <2>1
<1>6. Past(m) = ToSet(params)
  BY <1>1 DEF ToSet
<1> DEFINE c == f[m]
<1> HIDE DEF c, Past, m
<1>7. ASSUME NEW r \in Held(c) PROVE r \in ToSet(params)
  <2>1. PICK x : \E v \in ToSet(Active(c, x)) : r = Reg(x, v)
    BY <1>5, <1>7, ActiveFacts DEF c
  <2>2. ToSet(Active(c, x)) # {} /\ (ToSet(Active(c, x)) = {0} => r = Reg(x, 0))
    BY <2>1
  <2>3. /\ Reg(x, 0) \in ToSet(params) => ToSet(Active(c, x)) = {0}
        /\ Reg(x, 0) \notin ToSet(params) => ToSet(Active(c, x)) = {}
    BY <1>5, <1>6 DEF c
  <2> QED BY <2>2, <2>3
<1>8. DefineAll(params) = c
  BY <1>2 DEF c
<1>9. /\ Sound(c) /\ c.code = <<>> /\ c.undefined = FALSE
      /\ \A x : Reg(x, 0) \in ToSet(params) => NextVersion(c, x) = 1 /\ HasTop(c, x)
  <2>1. \A x : Reg(x, 0) \in ToSet(params) => NextVersion(c, x) = 1 /\ ToSet(Active(c, x)) = {0}
    BY <1>5, <1>6 DEF c
  <2>2. ToSet(<<>>) = {}
    BY DEF ToSet
  <2> QED BY <1>5, <2>1, <2>2 DEF HasTop, c
<1> QED BY <1>7, <1>8, <1>9

-----------------------------------------------------------------------------
(* The tree the walk follows is that of the dominators, and it reaches      *)
(* every block.                                                            *)
Analysed == Ready(cfg) /\ Ordered /\ Tree /\ Fixed

(* The dominators of a block are itself and those of its parent in the      *)
(* tree.                                                                    *)
LEMMA DominatorsClimb ==
    ASSUME Analysed, NEW b \in cfg.blocks
    PROVE  /\ b \in Dominators(b) /\ Dominators(b) \subseteq cfg.blocks
           /\ Dominators(cfg.entry) = {cfg.entry}
           /\ idom[b] \in cfg.blocks
           /\ \A d \in Dominators(b) : Dominators(d) \subseteq Dominators(b)
           /\ b # cfg.entry => /\ idom[b] # b /\ b \notin Dominators(idom[b])
                               /\ Dominators(b) = {b} \cup Dominators(idom[b])
<1>1. /\ WellFormed(cfg) /\ Ordered /\ Tree /\ DOMAIN idom = cfg.blocks /\ cfg.entry \in cfg.blocks
      /\ idom[b] \in cfg.blocks
  BY DEF Analysed, Ready, WellFormed, Fixed, Tree
<1>2. \A c \in cfg.blocks : Ancestors(c) = Dominators(c)
  BY FixedPoint DEF Analysed
<1>3. /\ \A c \in Ancestors(b) : Ancestors(c) \subseteq Ancestors(b)
      /\ Ancestors(b) = {b} \cup Ancestors(idom[b])
      /\ b # cfg.entry => idom[b] # b /\ b \notin Ancestors(idom[b])
      /\ Ancestors(cfg.entry) = {cfg.entry}
  BY <1>1, AncestorsEarlier
<1>4. b \in Ancestors(b) /\ Ancestors(b) \subseteq cfg.blocks
  BY <1>1, AncestorFacts
<1> QED BY <1>1, <1>2, <1>3, <1>4

(* A set of blocks closed under children has every block in it.             *)
LEMMA TreeReachesAll ==
    ASSUME Analysed, NEW D, D \subseteq cfg.blocks, cfg.entry \in D,
           \A d \in D : DomTreeChildren(d) \subseteq D
    PROVE  D = cfg.blocks
<1> DEFINE S == {i \in Nat : i \in 1 .. Len(rpo) => rpo[i] \in D}
<1>1. WellFormed(cfg) /\ Ordered /\ Tree /\ DOMAIN idom = cfg.blocks
  BY DEF Analysed, Ready, Fixed
<1>2. ASSUME NEW i \in Nat, \A m \in Nat : m < i => m \in S PROVE i \in S
  <2> SUFFICES ASSUME i \in 1 .. Len(rpo) PROVE rpo[i] \in D
    OBVIOUS
  <2> DEFINE b == rpo[i]
             p == idom[b]
  <2>1. b \in cfg.blocks /\ RpoIndex(b) = i
    BY <1>1, IndexFacts
  <2> HIDE DEF b
  <2>2. CASE b # cfg.entry
    <3>1. p \in cfg.blocks /\ p # b /\ p \in Dominators(b)
      BY <2>1, <2>2, DominatorsClimb
    <3>2. RpoIndex(p) < i /\ RpoIndex(p) \in 1 .. Len(rpo) /\ rpo[RpoIndex(p)] = p
      BY <1>1, <2>1, <3>1, DominatorsEarlier, IndexFacts
    <3>3. p \in D
      BY <1>2, <3>2
    <3>4. b \in DomTreeChildren(p)
      BY <1>1, <2>1, <3>1 DEF DomTreeChildren
    <3> QED BY <3>3, <3>4 DEF b
  <2> QED BY <2>2 DEF b
<1>3. Nat \subseteq S
  <2> HIDE DEF S
  <2> QED BY <1>2, StrongInduction
<1>4. ASSUME NEW b \in cfg.blocks PROVE b \in D
  <2>1. RpoIndex(b) \in 1 .. Len(rpo) /\ rpo[RpoIndex(b)] = b /\ RpoIndex(b) \in Nat
    BY <1>1, IndexFacts
  <2> QED BY <1>3, <2>1
<1> QED BY <1>4

-----------------------------------------------------------------------------
(* A graph of instructions.                                                 *)
Coded(g) ==
    /\ DOMAIN g = {"entry", "blocks", "params", "succ", "pred", "code", "term"}
    /\ DOMAIN g.code = g.blocks /\ DOMAIN g.term = g.blocks
    /\ ParamList(g.params)
    /\ \A b \in g.blocks :
          /\ IsList(g.code[b]) /\ \A i \in DOMAIN g.code[b] : Instruction(g.code[b][i])
          /\ DOMAIN g.term[b] = {"kind", "args", "targets"}

(* Filling a phi adds a source for the predecessor, with a register on a    *)
(* stack.                                                                   *)
LEMMA FillPhiFacts ==
    ASSUME NEW c, Sound(c), NEW from, NEW inst, Instruction(inst)
    PROVE  LET e == FillPhi(c, from, inst)
           IN  /\ Instruction(e) /\ e.dest = inst.dest /\ e.args = inst.args
               /\ \A s \in ToSet(e.sources) :
                     s \in ToSet(inst.sources) \/ (s[1] = from /\ s[2] \in Held(c))
<1> DEFINE e == FillPhi(c, from, inst)
           x == (CHOOSE r \in inst.dest : TRUE).sym
           s == <<from, Top(c, x)>>
           t == Append(inst.sources, s)
<1>1. CASE inst.op = "Phi" /\ HasTop(c, x)
  <2>1. e = [inst EXCEPT !.sources = t]
    BY <1>1 DEF FillPhi
  <2>2. IsList(t) /\ ToSet(t) = ToSet(inst.sources) \cup {s}
    <3>1. IsList(inst.sources)
      BY DEF Instruction
    <3> HIDE DEF s
    <3>2. /\ IsList(t) /\ Len(t) = Len(inst.sources) + 1 /\ t[Len(inst.sources) + 1] = s
          /\ \A i \in 1 .. Len(inst.sources) : t[i] = inst.sources[i]
      BY <3>1, AppendList
    <3>3. /\ DOMAIN t = 1 .. Len(inst.sources) + 1 /\ DOMAIN inst.sources = 1 .. Len(inst.sources)
          /\ Len(inst.sources) \in Nat
      BY <3>1, <3>2, ListBasics
    <3> HIDE DEF t
    <3>4. \A i : i \in 1 .. Len(inst.sources) + 1 <=> i \in 1 .. Len(inst.sources) \/ i = Len(inst.sources) + 1
      BY <3>3
    <3> QED BY <3>2, <3>3, <3>4 DEF ToSet
  <2>3. s[1] = from /\ s[2] \in Held(c)
    BY <1>1, TopHeld
  <2> HIDE DEF t, s
  <2>4. Instruction(e) /\ e.dest = inst.dest /\ e.args = inst.args /\ e.sources = t
    BY <2>1, <2>2 DEF Instruction
  <2> QED BY <2>2, <2>3, <2>4
<1>2. CASE ~ (inst.op = "Phi" /\ HasTop(c, x))
  <2>1. e = inst
    BY <1>2 DEF FillPhi
  <2> QED BY <2>1
<1> QED BY <1>1, <1>2

(* What the renaming of block b does to the graph: code and terminator of b *)
(* are those of the context, and phis of its successors may get a source.  *)
RenamedInto(b, c) ==
    /\ cfg'.entry = cfg.entry /\ cfg'.blocks = cfg.blocks /\ cfg'.params = cfg.params
    /\ cfg'.succ = cfg.succ /\ cfg'.pred = cfg.pred
    /\ Coded(cfg)'
    /\ \A d \in cfg.blocks :
          LET before == IF d = b THEN c.code ELSE cfg.code[d]
          IN  /\ DOMAIN cfg'.code[d] = DOMAIN before
              /\ \A i \in DOMAIN before :
                    /\ cfg'.code[d][i].dest = before[i].dest /\ cfg'.code[d][i].args = before[i].args
                    /\ \A s \in ToSet(cfg'.code[d][i].sources) :
                          \/ s \in ToSet(before[i].sources)
                          \/ d \in Successors(cfg, b) /\ s[1] = b /\ s[2] \in Held(c)
    /\ \A d \in cfg.blocks \ {b} : cfg'.term[d] = cfg.term[d]
    /\ cfg'.term[b].args = RenameArgs(c, cfg.term[b].args)
    /\ RegsOf(cfg'.term[b].args) \subseteq Held(c)

(* What a step of the walk does to the block it enters.                     *)
LEMMA BlockRenamed ==
    ASSUME Coded(cfg), NEW b \in cfg.blocks, NEW c0, Sound(c0), c0.code = <<>>, c0.made = <<>>,
           RenameBlock(b, c0), ~ undefined', NEW c, c = RenameCode(c0, cfg.code[b])
    PROVE  /\ Progress(c0, cfg.code[b], Len(cfg.code[b]), c) /\ ~ c.undefined
           /\ RenamedInto(b, c)
<1> DEFINE q == cfg.code[b]
<1>1. IsList(q) /\ \A i \in DOMAIN q : Instruction(q[i])
  BY DEF Coded
<1>2. Progress(c0, q, Len(q), c)
  BY <1>1, RenameCodeFacts
<1>3. Sound(c) /\ Len(c.code) = Len(q) /\ IsList(c.code) /\ DOMAIN c.code = DOMAIN q
  <2>1. Sound(c) /\ Len(c.code) = Len(q) /\ IsList(c.code)
    BY <1>2 DEF Progress, Sound
  <2> QED BY <1>1, <2>1, ListBasics
<1>4. \A i \in DOMAIN c.code : Instruction(c.code[i])
  BY <1>1, <1>2, <1>3, ListBasics DEF Progress
<1> DEFINE args == RenameArgs(c, cfg.term[b].args)
           term == [cfg.term[b] EXCEPT !.args = args]
           renamed == [cfg EXCEPT !.code[b] = c.code, !.term[b] = term]
           code == [d \in cfg.blocks |->
                       IF d \in Successors(cfg, b)
                       THEN [i \in DOMAIN renamed.code[d] |-> FillPhi(c, b, renamed.code[d][i])]
                       ELSE renamed.code[d]]
<1>5. cfg' = [renamed EXCEPT !.code = code] /\ undefined' = (c.undefined \/ Dangling(c, cfg.term[b].args))
  BY DEF RenameBlock
<1>6. ~ c.undefined /\ ~ Dangling(c, cfg.term[b].args)
  BY <1>5
<1>7. RegsOf(args) \subseteq Held(c)
  BY <1>3, <1>6, UsesHeld
<1>8. DOMAIN term = {"kind", "args", "targets"} /\ term.args = args
  BY DEF Coded
<1> HIDE DEF args, term
<1>9. /\ DOMAIN renamed = DOMAIN cfg /\ renamed.entry = cfg.entry /\ renamed.blocks = cfg.blocks
      /\ renamed.params = cfg.params /\ renamed.succ = cfg.succ /\ renamed.pred = cfg.pred
      /\ renamed.code = [cfg.code EXCEPT ![b] = c.code]
      /\ renamed.term = [cfg.term EXCEPT ![b] = term]
  BY DEF Coded
<1>10. /\ DOMAIN renamed.term = cfg.blocks /\ renamed.term[b] = term
       /\ \A d \in cfg.blocks \ {b} : renamed.term[d] = cfg.term[d]
       /\ renamed.code[b] = c.code
       /\ \A d \in cfg.blocks \ {b} : renamed.code[d] = cfg.code[d]
  BY <1>9 DEF Coded
<1> DEFINE r == renamed.code
<1> HIDE DEF renamed
<1>11. DOMAIN cfg = {"entry", "blocks", "params", "succ", "pred", "code", "term"}
  BY DEF Coded
<1>12. /\ DOMAIN cfg' = DOMAIN cfg /\ cfg'.entry = cfg.entry /\ cfg'.blocks = cfg.blocks
       /\ cfg'.params = cfg.params /\ cfg'.succ = cfg.succ /\ cfg'.pred = cfg.pred
       /\ cfg'.code = code /\ cfg'.term = renamed.term
  <2> HIDE DEF code
  <2> QED BY <1>5, <1>9, <1>11
<1>13. ASSUME NEW d \in cfg.blocks
       PROVE  IsList(r[d]) /\ \A i \in DOMAIN r[d] : Instruction(r[d][i])
  BY <1>3, <1>4, <1>10 DEF Coded
<1>14. ASSUME NEW d \in cfg.blocks
       PROVE  /\ IsList(code[d]) /\ DOMAIN code[d] = DOMAIN r[d]
              /\ \A i \in DOMAIN r[d] :
                    /\ Instruction(code[d][i])
                    /\ code[d][i].dest = r[d][i].dest /\ code[d][i].args = r[d][i].args
                    /\ \A s \in ToSet(code[d][i].sources) :
                          \/ s \in ToSet(r[d][i].sources)
                          \/ d \in Successors(cfg, b) /\ s[1] = b /\ s[2] \in Held(c)
  <2> HIDE DEF r
  <2>1. CASE d \in Successors(cfg, b)
    <3> DEFINE filled == [i \in DOMAIN r[d] |-> FillPhi(c, b, r[d][i])]
    <3>1. code[d] = filled
      BY <2>1 DEF r
    <3>2. IsList(filled)
      <4>1. DOMAIN r[d] = 1 .. Len(r[d]) /\ Len(r[d]) \in Nat
        BY <1>13, ListBasics
      <4>2. filled = [i \in 1 .. Len(r[d]) |-> filled[i]]
        BY <4>1
      <4> HIDE DEF filled
      <4> QED BY <4>1, <4>2, ListByIndex
    <3>3. ASSUME NEW i \in DOMAIN r[d]
          PROVE  /\ Instruction(filled[i]) /\ filled[i].dest = r[d][i].dest /\ filled[i].args = r[d][i].args
                 /\ \A s \in ToSet(filled[i].sources) :
                       s \in ToSet(r[d][i].sources) \/ (s[1] = b /\ s[2] \in Held(c))
      <4>1. Instruction(r[d][i]) /\ filled[i] = FillPhi(c, b, r[d][i])
        BY <1>13, <3>3 DEF r
      <4> HIDE DEF filled
      <4> QED BY <1>3, <4>1, FillPhiFacts
    <3>4. DOMAIN filled = DOMAIN r[d]
      OBVIOUS
    <3> HIDE DEF filled, code
    <3> QED BY <2>1, <3>1, <3>2, <3>3, <3>4
  <2>2. CASE d \notin Successors(cfg, b)
    <3>1. code[d] = r[d]
      BY <2>2 DEF r
    <3>2. IsList(r[d]) /\ \A i \in DOMAIN r[d] : Instruction(r[d][i])
      BY <1>13 DEF r
    <3> HIDE DEF code
    <3> QED BY <3>1, <3>2
  <2> QED BY <2>1, <2>2
<1>15. DOMAIN code = cfg.blocks
  OBVIOUS
<1> HIDE DEF code
<1>16. Coded(cfg')
  <2>1. ParamList(cfg'.params)
    BY <1>12 DEF Coded
  <2>2. DOMAIN cfg'.code = cfg.blocks /\ DOMAIN cfg'.term = cfg.blocks
    BY <1>10, <1>12, <1>15
  <2>3. ASSUME NEW d \in cfg.blocks
        PROVE  /\ IsList(cfg'.code[d]) /\ \A i \in DOMAIN cfg'.code[d] : Instruction(cfg'.code[d][i])
               /\ DOMAIN cfg'.term[d] = {"kind", "args", "targets"}
    <3>1. IsList(cfg'.code[d]) /\ \A i \in DOMAIN cfg'.code[d] : Instruction(cfg'.code[d][i])
      BY <1>12, <1>14
    <3>2. DOMAIN cfg'.term[d] = {"kind", "args", "targets"}
      BY <1>8, <1>10, <1>12 DEF Coded
    <3> QED BY <3>1, <3>2
  <2> QED BY <1>11, <1>12, <2>1, <2>2, <2>3 DEF Coded
<1>17. ASSUME NEW d \in cfg.blocks
       PROVE  LET before == IF d = b THEN c.code ELSE cfg.code[d]
              IN  /\ DOMAIN cfg'.code[d] = DOMAIN before
                  /\ \A i \in DOMAIN before :
                        /\ cfg'.code[d][i].dest = before[i].dest /\ cfg'.code[d][i].args = before[i].args
                        /\ \A s \in ToSet(cfg'.code[d][i].sources) :
                              \/ s \in ToSet(before[i].sources)
                              \/ d \in Successors(cfg, b) /\ s[1] = b /\ s[2] \in Held(c)
  <2> DEFINE before == IF d = b THEN c.code ELSE cfg.code[d]
             new == code[d]
  <2>1. r[d] = before
    BY <1>10
  <2>2. cfg'.code[d] = new
    BY <1>12
  <2> HIDE DEF r, before, new
  <2>3. /\ DOMAIN new = DOMAIN before
        /\ \A i \in DOMAIN before :
              /\ new[i].dest = before[i].dest /\ new[i].args = before[i].args
              /\ \A s \in ToSet(new[i].sources) :
                    \/ s \in ToSet(before[i].sources)
                    \/ d \in Successors(cfg, b) /\ s[1] = b /\ s[2] \in Held(c)
    BY <1>14, <2>1 DEF new
  <2> QED BY <2>2, <2>3 DEF before
<1>18. \A d \in cfg.blocks \ {b} : cfg'.term[d] = cfg.term[d]
  BY <1>10, <1>12
<1>19. RegsOf(cfg'.term[b].args) \subseteq Held(c)
  BY <1>7, <1>8, <1>10, <1>12
<1>20. cfg'.term[b].args = RenameArgs(c, cfg.term[b].args)
  BY <1>8, <1>10, <1>12 DEF args
<1>21. RenamedInto(b, c)
  BY <1>12, <1>16, <1>17, <1>18, <1>19, <1>20 DEF RenamedInto
<1> QED BY <1>2, <1>6, <1>21

-----------------------------------------------------------------------------
(* What is true of the blocks D renamed so far, c being the context: their  *)
(* registers are defined once and lie below the next versions, what they    *)
(* read is defined, and only they are sources.                             *)
VersionsBelow(D, c) ==
    /\ \A x : Reg(x, 0) \in ToSet(cfg.params) => NextVersion(c, x) >= 1
    /\ \A b \in D : \A i \in DOMAIN cfg.code[b] :
          cfg.code[b][i].dest # {} =>
             \E x : \E v \in Nat : /\ cfg.code[b][i].dest = {Reg(x, v)} /\ v < NextVersion(c, x)
                                   /\ Reg(x, v) \notin ToSet(cfg.params)
DefinedOnce(D) ==
    \A b, d \in D : \A i \in DOMAIN cfg.code[b], j \in DOMAIN cfg.code[d] :
       cfg.code[b][i].dest \cap cfg.code[d][j].dest # {} => b = d /\ i = j
UsesDefined(D) ==
    \A b \in D :
       /\ RegsOf(cfg.term[b].args) \subseteq DefinedAtEnd(b)
       /\ \A i \in DOMAIN cfg.code[b] :
             RegsOf(cfg.code[b][i].args) \subseteq
                DefinedAtEntry(b) \cup UNION {cfg.code[b][j].dest : j \in 1 .. i - 1}
SourcesDefined(D) ==
    \A b \in cfg.blocks : \A i \in DOMAIN cfg.code[b] : \A s \in ToSet(cfg.code[b][i].sources) :
       s[1] \in D /\ s[1] \in Predecessors(cfg, b) /\ s[2] \in DefinedAtEnd(s[1])
CodeDone(D, c) == VersionsBelow(D, c) /\ DefinedOnce(D) /\ UsesDefined(D) /\ SourcesDefined(D)

(* A set of blocks that holds what dominates them.                          *)
Above(D) == D \subseteq cfg.blocks /\ \A d \in D : Dominators(d) \subseteq D

(* The definitions of other blocks, and what dominates what, are as before. *)
LEMMA SameDefined ==
    ASSUME Coded(cfg), NEW b \in cfg.blocks, NEW c, RenamedInto(b, c),
           NEW D, Above(D), b \notin D
    PROVE  /\ \A d : Dominators(d)' = Dominators(d)
           /\ \A d \in D : Definitions(d)' = Definitions(d)
           /\ Definitions(b)' = Dests(c.code)
           /\ \A d \in cfg.blocks : Dominators(d) \ {d} \subseteq D => DefinedAtEntry(d)' = DefinedAtEntry(d)
           /\ \A d \in D : DefinedAtEnd(d)' = DefinedAtEnd(d)
<1>1. /\ cfg'.entry = cfg.entry /\ cfg'.blocks = cfg.blocks /\ cfg'.succ = cfg.succ /\ cfg'.params = cfg.params
  BY DEF RenamedInto
<1>2. \A d : Dominators(d)' = Dominators(d)
  BY <1>1, SameDominators
<1>3. \A g, d : UNION {inst.dest : inst \in ToSet(g.code[d])} = Dests(g.code[d])
  BY DEF ToSet, Dests
<1>4. \A d : Definitions(d) = Dests(cfg.code[d])
  BY <1>3 DEF Definitions
<1>5. \A d : Definitions(d)' = Dests(cfg'.code[d])
  BY <1>3 DEF Definitions
<1>6. Dests(cfg'.code[b]) = Dests(c.code)
  BY DEF RenamedInto, Dests
<1>7. ASSUME NEW d \in cfg.blocks, d # b PROVE Dests(cfg'.code[d]) = Dests(cfg.code[d])
  BY <1>7 DEF RenamedInto, Dests
<1>8. \A d \in D : Definitions(d)' = Definitions(d)
  BY <1>4, <1>5, <1>7 DEF Above
<1>9. ASSUME NEW d \in cfg.blocks, Dominators(d) \ {d} \subseteq D
      PROVE  DefinedAtEntry(d)' = DefinedAtEntry(d)
  <2> DEFINE B == Dominators(d) \ {d}
             old == UNION {Definitions(e) : e \in B}
             new == UNION {Dests(cfg'.code[e]) : e \in B}
  <2>1. DefinedAtEntry(d) = ToSet(cfg.params) \cup old
    BY DEF DefinedAtEntry
  <2>2. DefinedAtEntry(d)' = ToSet(cfg'.params) \cup new
    <3> DEFINE F(g, e) == Dests(g.code[e])
    <3>1. DefinedAtEntry(d)' = ToSet(cfg'.params) \cup UNION {F(cfg', e) : e \in Dominators(d)' \ {d}}
      BY <1>5 DEF DefinedAtEntry
    <3> QED BY <1>2, <3>1
  <2>3. \A e \in B : Dests(cfg'.code[e]) = Definitions(e)
    BY <1>5, <1>8, <1>9
  <2>4. old = new
    <3> HIDE DEF B
    <3> QED BY <2>3
  <2> QED BY <1>1, <2>1, <2>2, <2>4
<1>10. \A d \in D : DefinedAtEnd(d)' = DefinedAtEnd(d)
  BY <1>8, <1>9 DEF DefinedAtEnd, Above
<1> QED BY <1>2, <1>5, <1>6, <1>8, <1>9, <1>10

(* Renaming one more block, below those renamed, keeps all of it.           *)
LEMMA CodeGrows ==
    ASSUME WellFormed(cfg), Coded(cfg), NEW b \in cfg.blocks, NEW D, Above(D), b \notin D,
           Dominators(b) \ {b} \subseteq D,
           NEW c0, Sound(c0), Held(c0) \subseteq DefinedAtEntry(b), CodeDone(D, c0),
           NEW c, Progress(c0, cfg.code[b], Len(cfg.code[b]), c), ~ c.undefined, RenamedInto(b, c)
    PROVE  CodeDone(D \cup {b}, c)' /\ Held(c) \subseteq DefinedAtEnd(b)'
<1> DEFINE E == D \cup {b}
           n == Len(cfg.code[b])
           new == cfg'.code[b]
<1>1. /\ \A d : Dominators(d)' = Dominators(d)
      /\ \A d \in D : Definitions(d)' = Definitions(d)
      /\ Definitions(b)' = Dests(c.code)
      /\ \A d \in cfg.blocks : Dominators(d) \ {d} \subseteq D => DefinedAtEntry(d)' = DefinedAtEntry(d)
      /\ \A d \in D : DefinedAtEnd(d)' = DefinedAtEnd(d)
  BY SameDefined
<1>2. D \subseteq cfg.blocks /\ cfg'.params = cfg.params /\ cfg'.blocks = cfg.blocks
  BY DEF RenamedInto, Above
<1>3. Sound(c) /\ IsList(c.code) /\ DOMAIN c.code = 1 .. n /\ n \in Nat /\ DOMAIN cfg.code[b] = 1 .. n
  <2>1. Sound(c) /\ Len(c.code) = n /\ IsList(c.code) /\ IsList(cfg.code[b])
    BY DEF Progress, Sound, Coded
  <2> QED BY <2>1, ListBasics
<1> HIDE DEF n
<1>4. /\ \A i \in 1 .. n :
            /\ c.code[i].sources = cfg.code[b][i].sources
            /\ c.code[i].dest # {} =>
                  \E x : \E v \in Nat : /\ c.code[i].dest = {Reg(x, v)}
                                        /\ NextVersion(c0, x) <= v /\ v < NextVersion(c, x)
            /\ RegsOf(c.code[i].args) \subseteq Held(c0) \cup UNION {c.code[j].dest : j \in 1 .. i - 1}
      /\ \A i, j \in 1 .. n : c.code[i].dest \cap c.code[j].dest # {} => i = j
      /\ Held(c) \subseteq Held(c0) \cup UNION {c.code[j].dest : j \in 1 .. n}
      /\ \A x : NextVersion(c0, x) \in Nat /\ NextVersion(c, x) \in Nat /\ NextVersion(c0, x) <= NextVersion(c, x)
  BY <1>3, ActiveFacts DEF Progress, n
<1>5. /\ DOMAIN new = 1 .. n
      /\ \A i \in 1 .. n :
            /\ new[i].dest = c.code[i].dest /\ new[i].args = c.code[i].args
            /\ \A s \in ToSet(new[i].sources) :
                  \/ s \in ToSet(cfg.code[b][i].sources)
                  \/ b \in Successors(cfg, b) /\ s[1] = b /\ s[2] \in Held(c)
  BY <1>3, <1>4 DEF RenamedInto
<1>6. \A d \in cfg.blocks \ {b} :
         /\ DOMAIN cfg'.code[d] = DOMAIN cfg.code[d] /\ cfg'.term[d] = cfg.term[d]
         /\ \A i \in DOMAIN cfg.code[d] :
               /\ cfg'.code[d][i].dest = cfg.code[d][i].dest /\ cfg'.code[d][i].args = cfg.code[d][i].args
               /\ \A s \in ToSet(cfg'.code[d][i].sources) :
                     \/ s \in ToSet(cfg.code[d][i].sources)
                     \/ d \in Successors(cfg, b) /\ s[1] = b /\ s[2] \in Held(c)
  BY DEF RenamedInto
<1>7. /\ DefinedAtEntry(b)' = DefinedAtEntry(b)
      /\ DefinedAtEnd(b)' = DefinedAtEntry(b) \cup Dests(c.code)
  BY <1>1 DEF DefinedAtEnd
<1>8. Held(c) \subseteq DefinedAtEnd(b)'
  BY <1>3, <1>4, <1>7 DEF Dests
<1> HIDE DEF new
<1>9. VersionsBelow(E, c)'
  <2>1. \A x : Reg(x, 0) \in ToSet(cfg.params) => NextVersion(c0, x) >= 1
    BY DEF CodeDone, VersionsBelow
  <2>2. \A x : Reg(x, 0) \in ToSet(cfg.params) => NextVersion(c, x) >= 1
    BY <1>4, <2>1
  <2>3. ASSUME NEW i \in 1 .. n, new[i].dest # {}
        PROVE  \E x : \E v \in Nat : /\ new[i].dest = {Reg(x, v)} /\ v < NextVersion(c, x)
                                     /\ Reg(x, v) \notin ToSet(cfg.params)
    <3>1. PICK x : \E v \in Nat : /\ c.code[i].dest = {Reg(x, v)}
                                  /\ NextVersion(c0, x) <= v /\ v < NextVersion(c, x)
      BY <1>4, <1>5, <2>3
    <3>2. PICK v \in Nat : /\ c.code[i].dest = {Reg(x, v)}
                           /\ NextVersion(c0, x) <= v /\ v < NextVersion(c, x)
      BY <3>1
    <3>3. ASSUME Reg(x, v) \in ToSet(cfg.params) PROVE FALSE
      <4>1. PICK y : Reg(x, v) = Reg(y, 0)
        BY <3>3 DEF ToSet, Coded, ParamList
      <4>2. x = y /\ v = 0
        BY <4>1, RegFacts
      <4>3. NextVersion(c0, x) >= 1
        BY <2>1, <3>3, <4>2
      <4> QED BY <1>4, <3>2, <4>2, <4>3
    <3> QED BY <1>5, <3>2, <3>3
  <2>4. ASSUME NEW d \in D, NEW i \in DOMAIN cfg'.code[d], cfg'.code[d][i].dest # {}
        PROVE  \E x : \E v \in Nat : /\ cfg'.code[d][i].dest = {Reg(x, v)} /\ v < NextVersion(c, x)
                                     /\ Reg(x, v) \notin ToSet(cfg.params)
    <3>1. i \in DOMAIN cfg.code[d] /\ cfg'.code[d][i].dest = cfg.code[d][i].dest
      BY <1>2, <1>6
    <3>2. PICK x : \E v \in Nat : /\ cfg.code[d][i].dest = {Reg(x, v)} /\ v < NextVersion(c0, x)
                                  /\ Reg(x, v) \notin ToSet(cfg.params)
      BY <2>4, <3>1 DEF CodeDone, VersionsBelow
    <3>3. \A v \in Nat : v < NextVersion(c0, x) => v < NextVersion(c, x)
      BY <1>4
    <3> QED BY <3>1, <3>2, <3>3
  <2>5. \A d \in E : \A i \in DOMAIN cfg'.code[d] :
           cfg'.code[d][i].dest # {} =>
              \E x : \E v \in Nat : /\ cfg'.code[d][i].dest = {Reg(x, v)} /\ v < NextVersion(c, x)
                                    /\ Reg(x, v) \notin ToSet(cfg.params)
    BY <1>5, <2>3, <2>4 DEF new
  <2> HIDE DEF E
  <2> QED BY <1>2, <2>2, <2>5 DEF VersionsBelow, NextVersion
<1>10. DefinedOnce(E)'
  <2>1. \A i, j \in 1 .. n : new[i].dest \cap new[j].dest # {} => i = j
    BY <1>4, <1>5
  <2>2. \A d, e \in D : \A i \in DOMAIN cfg'.code[d], j \in DOMAIN cfg'.code[e] :
           cfg'.code[d][i].dest \cap cfg'.code[e][j].dest # {} => d = e /\ i = j
    BY <1>2, <1>6 DEF CodeDone, DefinedOnce
  <2>3. ASSUME NEW d \in D, NEW i \in DOMAIN cfg'.code[d], NEW j \in 1 .. n
        PROVE  cfg'.code[d][i].dest \cap new[j].dest = {}
    <3>1. SUFFICES ASSUME cfg'.code[d][i].dest \cap new[j].dest # {} PROVE FALSE
      OBVIOUS
    <3>2. i \in DOMAIN cfg.code[d] /\ cfg'.code[d][i].dest = cfg.code[d][i].dest
      BY <1>2, <1>6
    <3>3. PICK x : \E v \in Nat : cfg.code[d][i].dest = {Reg(x, v)} /\ v < NextVersion(c0, x)
      BY <3>1, <3>2 DEF CodeDone, VersionsBelow
    <3>4. PICK v \in Nat : cfg.code[d][i].dest = {Reg(x, v)} /\ v < NextVersion(c0, x)
      BY <3>3
    <3>5. PICK y : \E w \in Nat : new[j].dest = {Reg(y, w)} /\ NextVersion(c0, y) <= w
      BY <1>4, <1>5, <3>1
    <3>6. PICK w \in Nat : new[j].dest = {Reg(y, w)} /\ NextVersion(c0, y) <= w
      BY <3>5
    <3>7. x = y /\ v = w
      BY <3>1, <3>2, <3>4, <3>6, RegFacts
    <3> QED BY <1>4, <3>4, <3>6, <3>7
  <2>4. \A d, e \in E : \A i \in DOMAIN cfg'.code[d], j \in DOMAIN cfg'.code[e] :
           cfg'.code[d][i].dest \cap cfg'.code[e][j].dest # {} => d = e /\ i = j
    <3> SUFFICES ASSUME NEW d \in E, NEW e \in E,
                        NEW i \in DOMAIN cfg'.code[d], NEW j \in DOMAIN cfg'.code[e],
                        cfg'.code[d][i].dest \cap cfg'.code[e][j].dest # {}
                 PROVE  d = e /\ i = j
      OBVIOUS
    <3>1. CASE d \in D /\ e \in D
      BY <2>2, <3>1
    <3>2. CASE d = b /\ e = b
      BY <1>5, <2>1, <3>2 DEF new
    <3>3. CASE d \in D /\ e = b
      BY <1>5, <2>3, <3>3 DEF new
    <3>4. CASE d = b /\ e \in D
      <4>1. cfg'.code[e][j].dest \cap new[i].dest = {}
        BY <1>5, <2>3, <3>4 DEF new
      <4> QED BY <3>4, <4>1 DEF new
    <3> QED BY <3>1, <3>2, <3>3, <3>4
  <2> HIDE DEF E
  <2> QED BY <2>4 DEF DefinedOnce
<1>11. UsesDefined(E)'
  <2> DEFINE Fits(d) ==
                /\ RegsOf(cfg'.term[d].args) \subseteq DefinedAtEnd(d)'
                /\ \A i \in DOMAIN cfg'.code[d] :
                      RegsOf(cfg'.code[d][i].args) \subseteq
                         DefinedAtEntry(d)' \cup UNION {cfg'.code[d][j].dest : j \in 1 .. i - 1}
  <2>1. Fits(b)
    <3>1. RegsOf(cfg'.term[b].args) \subseteq DefinedAtEnd(b)'
      BY <1>8 DEF RenamedInto
    <3>2. ASSUME NEW i \in 1 .. n
          PROVE  RegsOf(new[i].args) \subseteq DefinedAtEntry(b)' \cup UNION {new[j].dest : j \in 1 .. i - 1}
      <4>1. \A j \in 1 .. i - 1 : j \in 1 .. n
        BY <1>3
      <4>2. UNION {c.code[j].dest : j \in 1 .. i - 1} = UNION {new[j].dest : j \in 1 .. i - 1}
        BY <1>5, <4>1
      <4>3. RegsOf(new[i].args) \subseteq Held(c0) \cup UNION {c.code[j].dest : j \in 1 .. i - 1}
        BY <1>4, <1>5
      <4> QED BY <1>7, <4>2, <4>3
    <3> QED BY <1>5, <3>1, <3>2 DEF new
  <2>2. ASSUME NEW d \in D PROVE Fits(d)
    <3>1. /\ d \in cfg.blocks \ {b} /\ DefinedAtEnd(d)' = DefinedAtEnd(d)
          /\ DefinedAtEntry(d)' = DefinedAtEntry(d)
      BY <1>1, <1>2, <2>2 DEF Above
    <3>2. RegsOf(cfg'.term[d].args) \subseteq DefinedAtEnd(d)'
      BY <1>6, <2>2, <3>1 DEF CodeDone, UsesDefined
    <3>3. ASSUME NEW i \in DOMAIN cfg.code[d]
          PROVE  RegsOf(cfg'.code[d][i].args) \subseteq
                    DefinedAtEntry(d)' \cup UNION {cfg'.code[d][j].dest : j \in 1 .. i - 1}
      <4>1. DOMAIN cfg.code[d] = 1 .. Len(cfg.code[d]) /\ Len(cfg.code[d]) \in Nat
        BY <3>1, ListBasics DEF Coded
      <4>2. \A j \in 1 .. i - 1 : j \in DOMAIN cfg.code[d]
        BY <4>1
      <4>3. UNION {cfg.code[d][j].dest : j \in 1 .. i - 1} = UNION {cfg'.code[d][j].dest : j \in 1 .. i - 1}
        BY <1>6, <3>1, <4>2
      <4>4. RegsOf(cfg.code[d][i].args) \subseteq
               DefinedAtEntry(d) \cup UNION {cfg.code[d][j].dest : j \in 1 .. i - 1}
        BY <2>2 DEF CodeDone, UsesDefined
      <4> QED BY <1>6, <3>1, <4>3, <4>4
    <3> QED BY <1>6, <3>1, <3>2, <3>3
  <2> HIDE DEF E, Fits
  <2>3. \A d \in E : Fits(d)
    BY <2>1, <2>2 DEF E
  <2> QED BY <2>3 DEF UsesDefined, Fits
<1>12. SourcesDefined(E)'
  <2>1. \A d : Predecessors(cfg', d) = Predecessors(cfg, d)
    BY DEF RenamedInto, Predecessors
  <2>2. ASSUME NEW d \in cfg.blocks, NEW i \in DOMAIN cfg.code[d], NEW s \in ToSet(cfg.code[d][i].sources)
        PROVE  s[1] \in E /\ s[1] \in Predecessors(cfg, d) /\ s[2] \in DefinedAtEnd(s[1])'
    <3>1. s[1] \in D /\ s[1] \in Predecessors(cfg, d) /\ s[2] \in DefinedAtEnd(s[1])
      BY DEF CodeDone, SourcesDefined
    <3>2. \A d1 \in D : DefinedAtEnd(d1)' = DefinedAtEnd(d1)
      BY <1>1
    <3>3. ASSUME NEW p, p = s[1] PROVE s[2] \in DefinedAtEnd(p)'
      BY <3>1, <3>2, <3>3
    <3>4. \A p : p = s[1] => s[2] \in DefinedAtEnd(p)'
      BY <3>3
    <3> QED BY <3>1, <3>4
  <2>3. ASSUME NEW d \in cfg.blocks, d \in Successors(cfg, b), NEW s, s[1] = b, s[2] \in Held(c)
        PROVE  s[1] \in E /\ s[1] \in Predecessors(cfg, d) /\ s[2] \in DefinedAtEnd(s[1])'
    <3>1. b \in Predecessors(cfg, d)
      BY <2>3 DEF WellFormed
    <3> QED BY <1>8, <2>3, <3>1
  <2>4. ASSUME NEW d \in cfg.blocks, NEW i \in DOMAIN cfg'.code[d], NEW s \in ToSet(cfg'.code[d][i].sources)
        PROVE  s[1] \in E /\ s[1] \in Predecessors(cfg, d) /\ s[2] \in DefinedAtEnd(s[1])'
    <3>1. i \in DOMAIN cfg.code[d]
      BY <1>3, <1>5, <1>6 DEF new
    <3>2. \/ s \in ToSet(cfg.code[d][i].sources)
          \/ d \in Successors(cfg, b) /\ s[1] = b /\ s[2] \in Held(c)
      <4>1. CASE d = b
        BY <1>3, <1>5, <2>4, <3>1, <4>1 DEF new
      <4>2. CASE d # b
        BY <1>6, <2>4, <3>1, <4>2
      <4> QED BY <4>1, <4>2
    <3> QED BY <2>2, <2>3, <3>1, <3>2
  <2> HIDE DEF E
  <2> QED BY <1>2, <2>1, <2>4 DEF SourcesDefined
<1> QED BY <1>8, <1>9, <1>10, <1>11, <1>12 DEF CodeDone

-----------------------------------------------------------------------------
(* The frames of the walk: from the block at hand up the tree to the entry. *)
LEMMA TailList ==
    ASSUME NEW q, IsList(q), q # <<>>
    PROVE  /\ Len(q) >= 1 /\ IsList(Tail(q)) /\ Len(Tail(q)) = Len(q) - 1
           /\ \A i \in 1 .. Len(q) - 1 : Tail(q)[i] = q[i + 1]
           /\ Tail(q) = <<>> => Len(q) = 1
<1> DEFINE S == ToSet(q)
           r == Tail(q)
           n == Len(q)
<1>1. q \in Seq(S)
  BY ListBasics
<1> HIDE DEF S
<1>2. /\ r \in Seq(S) /\ Len(r) = n - 1 /\ n \in Nat /\ n >= 1
      /\ \A i \in 1 .. n - 1 : r[i] = q[i + 1]
  BY <1>1
<1>3. IsList(r)
  BY <1>2, ListOf
<1> HIDE DEF r, n
<1>4. r = <<>> => Len(r) = 0
  OBVIOUS
<1>5. r = <<>> => n = 1
  BY <1>2, <1>4
<1> QED BY <1>2, <1>3, <1>5 DEF r, n

(* A frame on top of a list of frames.                                      *)
LEMMA PushFrame ==
    ASSUME NEW q, IsList(q), NEW f
    PROVE  LET r == <<f>> \o q
           IN  /\ IsList(r) /\ Len(r) = Len(q) + 1 /\ r[1] = f
               /\ \A i \in 1 .. Len(q) : r[i + 1] = q[i]
<1> DEFINE n == Len(q)
           r == <<f>> \o q
<1>1. n \in Nat
  BY ListBasics
<1>2. IsList(<<f>>) /\ Len(<<f>>) = 1 /\ <<f>>[1] = f
  <2>1. <<f>> \in Seq({f}) /\ Len(<<f>>) = 1 /\ <<f>>[1] = f
    OBVIOUS
  <2> QED BY <2>1, ListOf
<1> HIDE DEF n
<1>3. /\ IsList(r) /\ Len(r) = 1 + n
      /\ \A i \in 1 .. 1 : r[i] = <<f>>[i]
      /\ \A i \in 1 .. n : r[1 + i] = q[i]
  BY <1>2, JoinLists DEF n
<1> HIDE DEF r
<1>4. 1 \in 1 .. 1 /\ 1 + n = n + 1 /\ \A i \in 1 .. n : 1 + i = i + 1
  BY <1>1
<1>5. IsList(r) /\ Len(r) = n + 1 /\ r[1] = f /\ \A i \in 1 .. n : r[i + 1] = q[i]
  BY <1>2, <1>3, <1>4
<1> QED BY <1>5 DEF r, n

(* The version stacks at each frame: those of the block at hand, and below  *)
(* them what is left once a block has popped what it made.                 *)
Levels(x) ==
    \E lev :
       /\ lev[1] = Active(Context, x)
       /\ \A i \in 2 .. Len(renaming) : lev[i] = Dropped(lev[i-1], Count(renaming[i-1].made, x))
       /\ \A i \in 1 .. Len(renaming) : \A v \in ToSet(lev[i]) : Reg(x, v) \in DefinedAtEnd(renaming[i].block)
Framed(D) ==
    /\ IsList(renaming) /\ renaming # <<>>
    /\ \A i \in 1 .. Len(renaming) :
          /\ DOMAIN renaming[i] = {"block", "left", "made"}
          /\ renaming[i].block \in D /\ IsList(renaming[i].made)
          /\ renaming[i].left = DomTreeChildren(renaming[i].block) \ D
    /\ \A i, j \in 1 .. Len(renaming) : i < j =>
          renaming[i].block # renaming[j].block /\ renaming[j].block \in Dominators(renaming[i].block)
    /\ \A d \in D : DomTreeChildren(d) \subseteq D \/ \E i \in 1 .. Len(renaming) : renaming[i].block = d
Walk ==
    /\ Coded(cfg) /\ Sound(Context)
    /\ \E D : /\ Above(D) /\ cfg.entry \in D
              /\ Framed(D) /\ CodeDone(D, Context) /\ \A x : Levels(x)

(* What is defined at the end of a parent is defined at the entry of a      *)
(* child.                                                                   *)
LEMMA EndBelow ==
    ASSUME Analysed, NEW b \in cfg.blocks, b # cfg.entry
    PROVE  DefinedAtEnd(idom[b]) \subseteq DefinedAtEntry(b)
<1>1. LET p == idom[b] IN p \in Dominators(p) /\ Dominators(p) \subseteq Dominators(b) \ {b}
  BY DominatorsClimb
<1> DEFINE p == idom[b]
<1>2. Definitions(p) \subseteq UNION {Definitions(d) : d \in Dominators(b) \ {b}}
  BY <1>1
<1>3. UNION {Definitions(d) : d \in Dominators(p) \ {p}} \subseteq UNION {Definitions(d) : d \in Dominators(b) \ {b}}
  BY <1>1
<1> QED BY <1>2, <1>3 DEF DefinedAtEnd, DefinedAtEntry

(* The context kept between blocks is that of the last of them.             *)
LEMMA ContextFacts ==
    ASSUME NEW c, c.counters = counters, c.stacks = stacks
    PROVE  \A x : NextVersion(Context, x) = NextVersion(c, x) /\ Active(Context, x) = Active(c, x)
<1>1. Context.counters = counters /\ Context.stacks = stacks
  BY DEF Context
<1> QED BY <1>1 DEF NextVersion, Active

(* Once every block is done, the graph is in SSA form.                      *)
LEMMA WalkEnds ==
    ASSUME NEW c, CodeDone(cfg.blocks, c)
    PROVE  InSsaForm
<1>1. ASSUME NEW b \in cfg.blocks, NEW d \in cfg.blocks,
             NEW i \in DOMAIN cfg.code[b], NEW j \in DOMAIN cfg.code[d],
             cfg.code[b][i].dest \cap (cfg.code[d][j].dest \cup ToSet(cfg.params)) # {}
      PROVE  b = d /\ i = j
  <2>1. PICK x : \E v \in Nat : cfg.code[b][i].dest = {Reg(x, v)} /\ Reg(x, v) \notin ToSet(cfg.params)
    BY <1>1 DEF CodeDone, VersionsBelow
  <2>2. cfg.code[b][i].dest \cap cfg.code[d][j].dest # {}
    BY <1>1, <2>1
  <2> QED BY <2>2 DEF CodeDone, DefinedOnce
<1>2. ASSUME NEW b \in cfg.blocks
      PROVE  /\ RegsOf(cfg.term[b].args) \subseteq DefinedAtEnd(b)
             /\ \A i \in DOMAIN cfg.code[b] :
                   /\ RegsOf(cfg.code[b][i].args) \subseteq
                         DefinedAtEntry(b) \cup UNION {cfg.code[b][j].dest : j \in 1 .. i - 1}
                   /\ \A s \in ToSet(cfg.code[b][i].sources) :
                         s[1] \in Predecessors(cfg, b) /\ s[2] \in DefinedAtEnd(s[1])
  BY DEF CodeDone, UsesDefined, SourcesDefined
<1> QED BY <1>1, <1>2 DEF InSsaForm

-----------------------------------------------------------------------------
(* One step of the walk: block b joins those renamed.                       *)
\* What renaming block b, entered in the context c0 with the blocks of D renamed
\* before it, leaves behind.
BlockOutcome(b, D, c0) ==
    /\ Coded(cfg)' /\ Sound(Context)' /\ Above(D \cup {b})' /\ CodeDone(D \cup {b}, Context)'
    /\ cfg'.entry = cfg.entry /\ cfg'.blocks = cfg.blocks
    /\ \A d : Dominators(d)' = Dominators(d)
    /\ \A d \in D : DefinedAtEnd(d)' = DefinedAtEnd(d)
    /\ \E made :
          /\ IsList(made)
          /\ renaming' = <<[block |-> b, left |-> DomTreeChildren(b), made |-> made]>> \o
                         (IF renaming = <<>> THEN <<>> ELSE [renaming EXCEPT ![1].left = @ \ {b}])
          /\ \A x : /\ \A v \in ToSet(Active(Context, x)') : Reg(x, v) \in DefinedAtEnd(b)'
                    /\ Dropped(Active(Context, x)', Count(made, x)) = Active(c0, x)

\* Renaming a block keeps what is done done and adds the block to it, with its
\* frame on top and no more versions active than there were below it.
(* The block entered joins those that are done.                             *)
LEMMA BlockDone ==
    ASSUME Analysed, Coded(cfg), NEW b \in cfg.blocks, NEW D, Above(D), b \notin D,
           Dominators(b) \ {b} \subseteq D,
           NEW c0, Sound(c0), c0.code = <<>>, c0.made = <<>>,
           Held(c0) \subseteq DefinedAtEntry(b), CodeDone(D, c0),
           RenameBlock(b, c0), ~ undefined'
    PROVE  BlockOutcome(b, D, c0)
<1>1. PICK c : c = RenameCode(c0, cfg.code[b])
  OBVIOUS
<1>2. Progress(c0, cfg.code[b], Len(cfg.code[b]), c) /\ ~ c.undefined /\ RenamedInto(b, c)
  BY <1>1, BlockRenamed
<1>3. Sound(c) /\ \A x : Dropped(Active(c, x), Count(c.made, x)) = Active(c0, x)
  BY <1>2 DEF Progress
<1>4. WellFormed(cfg)
  BY DEF Analysed, Ready
<1>5. CodeDone(D \cup {b}, c)' /\ Held(c) \subseteq DefinedAtEnd(b)'
  BY <1>2, <1>4, CodeGrows
<1>6. /\ \A d : Dominators(d)' = Dominators(d)
      /\ \A d \in D : DefinedAtEnd(d)' = DefinedAtEnd(d)
  BY <1>2, SameDefined
<1>7. /\ counters' = c.counters /\ stacks' = c.stacks /\ undefined' = (c.undefined \/ Dangling(c, cfg.term[b].args))
      /\ renaming' = <<[block |-> b, left |-> DomTreeChildren(b), made |-> c.made]>> \o
                     (IF renaming = <<>> THEN <<>> ELSE [renaming EXCEPT ![1].left = @ \ {b}])
  BY <1>1 DEF RenameBlock
<1>8. /\ DOMAIN Context' = {"code", "counters", "stacks", "made", "undefined"}
      /\ Context'.code = <<>> /\ Context'.made = <<>>
      /\ Context'.counters = c.counters /\ Context'.stacks = c.stacks /\ Context'.undefined = undefined'
  BY <1>7 DEF Context
<1>9. Sound(Context')
  <2>1. IsList(<<>>)
    BY DEF IsList, ToSet
  <2>2. undefined' \in BOOLEAN
    BY <1>7
  <2> QED BY <1>3, <1>8, <2>1, <2>2 DEF Sound
<1>10. \A x : NextVersion(Context', x) = NextVersion(c, x) /\ Active(Context', x) = Active(c, x)
  BY <1>8 DEF NextVersion, Active
<1>11. CodeDone(D \cup {b}, Context)'
  <2>1. VersionsBelow(D \cup {b}, c)' /\ DefinedOnce(D \cup {b})' /\ UsesDefined(D \cup {b})' /\ SourcesDefined(D \cup {b})'
    BY <1>5 DEF CodeDone
  <2>2. VersionsBelow(D \cup {b}, Context)'
    <3> HIDE DEF Context
    <3> QED BY <1>10, <2>1 DEF VersionsBelow
  <2> QED BY <2>1, <2>2 DEF CodeDone
<1>12. Above(D \cup {b})'
  <2>1. cfg'.blocks = cfg.blocks
    BY <1>2 DEF RenamedInto
  <2> QED BY <1>6, <2>1 DEF Above
<1>13. \A x : /\ \A v \in ToSet(Active(Context, x)') : Reg(x, v) \in DefinedAtEnd(b)'
              /\ Dropped(Active(Context, x)', Count(c.made, x)) = Active(c0, x)
  <2>1. \A x : Active(Context, x)' = Active(c, x)
    <3>1. \A x : Active(Context, x)' = Active(Context', x)
      BY DEF Active
    <3> QED BY <1>10, <3>1
  <2>2. \A x : \A v \in ToSet(Active(c, x)) : Reg(x, v) \in Held(c)
    BY <1>3, ActiveFacts
  <2> QED BY <1>3, <1>5, <2>1, <2>2
<1>14. IsList(c.made) /\ Coded(cfg)' /\ Sound(Context)' /\ cfg'.entry = cfg.entry /\ cfg'.blocks = cfg.blocks
  <2>1. Sound(Context)'
    BY <1>9 DEF Sound
  <2> QED BY <1>2, <1>3, <2>1 DEF Sound, RenamedInto
<1> QED BY <1>6, <1>7, <1>11, <1>12, <1>13, <1>14 DEF BlockOutcome

Unfilled(g) == \A b \in g.blocks : \A i \in DOMAIN g.code[b] : g.code[b][i].sources = <<>>

(* The walk starts at the entry, with the parameters versioned.             *)
LEMMA WalkStarts ==
    ASSUME Analysed, Coded(cfg), Unfilled(cfg), counters = <<>>, stacks = <<>>, undefined = FALSE,
           renaming = <<>>, RenameEntry, ~ undefined'
    PROVE  Walk'
<1>1. PICK c0, b : c0 = [DefineAll(cfg.params) EXCEPT !.made = <<>>] /\ b = cfg.entry
  OBVIOUS
<1>2. RenameBlock(b, c0)
  BY <1>1 DEF RenameEntry
<1>3. b \in cfg.blocks /\ Dominators(b) = {b}
  BY <1>1, DominatorsClimb DEF Analysed, Ready, WellFormed
<1>4. /\ Sound(c0) /\ c0.code = <<>> /\ c0.made = <<>>
      /\ Held(c0) \subseteq ToSet(cfg.params)
      /\ \A x : Reg(x, 0) \in ToSet(cfg.params) => NextVersion(c0, x) = 1
  <2> DEFINE c == DefineAll(cfg.params)
  <2>1. /\ Sound(c) /\ c.code = <<>> /\ c.undefined = FALSE
        /\ Held(c) \subseteq ToSet(cfg.params)
        /\ \A x : Reg(x, 0) \in ToSet(cfg.params) => NextVersion(c, x) = 1
    BY DefineAllFacts DEF Coded
  <2> HIDE DEF c
  <2>2. /\ DOMAIN c0 = DOMAIN c /\ c0.code = c.code /\ c0.counters = c.counters /\ c0.stacks = c.stacks
        /\ c0.made = <<>> /\ c0.undefined = c.undefined
    BY <1>1, <2>1 DEF Sound, c
  <2>3. IsList(<<>>)
    BY DEF IsList, ToSet
  <2>4. Sound(c0)
    BY <2>1, <2>2, <2>3 DEF Sound
  <2>5. Held(c0) = Held(c) /\ \A x : NextVersion(c0, x) = NextVersion(c, x)
    BY <2>2 DEF Held, NextVersion
  <2> QED BY <2>1, <2>2, <2>4, <2>5
<1>5. Held(c0) \subseteq DefinedAtEntry(b)
  BY <1>4 DEF DefinedAtEntry
<1>6. CodeDone({}, c0)
  <2>1. VersionsBelow({}, c0)
    BY <1>4 DEF VersionsBelow
  <2>2. SourcesDefined({})
    <3>1. ToSet(<<>>) = {}
      BY DEF ToSet
    <3> QED BY <3>1 DEF SourcesDefined, Unfilled
  <2>3. DefinedOnce({}) /\ UsesDefined({})
    BY DEF DefinedOnce, UsesDefined
  <2> QED BY <2>1, <2>2, <2>3 DEF CodeDone
<1>7. Above({}) /\ b \notin {} /\ Dominators(b) \ {b} \subseteq {} /\ {} \cup {b} = {b}
  BY <1>3 DEF Above
<1>8. /\ Coded(cfg)' /\ Sound(Context)' /\ Above({} \cup {b})' /\ CodeDone({} \cup {b}, Context)'
      /\ cfg'.entry = cfg.entry
      /\ \E made :
            /\ IsList(made)
            /\ renaming' = <<[block |-> b, left |-> DomTreeChildren(b), made |-> made]>> \o
                           (IF renaming = <<>> THEN <<>> ELSE [renaming EXCEPT ![1].left = @ \ {b}])
            /\ \A x : /\ \A v \in ToSet(Active(Context, x)') : Reg(x, v) \in DefinedAtEnd(b)'
                      /\ Dropped(Active(Context, x)', Count(made, x)) = Active(c0, x)
  <2>1. BlockOutcome(b, {}, c0)
    BY <1>2, <1>3, <1>4, <1>5, <1>6, <1>7, BlockDone
  <2> QED BY <2>1 DEF BlockOutcome
<1>9. PICK made :
            /\ IsList(made)
            /\ renaming' = <<[block |-> b, left |-> DomTreeChildren(b), made |-> made]>> \o
                           (IF renaming = <<>> THEN <<>> ELSE [renaming EXCEPT ![1].left = @ \ {b}])
            /\ \A x : \A v \in ToSet(Active(Context, x)') : Reg(x, v) \in DefinedAtEnd(b)'
  BY <1>8
<1>20. PICK f : f = [block |-> b, left |-> DomTreeChildren(b), made |-> made]
  OBVIOUS
<1>10. f.block = b /\ f.left = DomTreeChildren(b) /\ f.made = made /\ DOMAIN f = {"block", "left", "made"}
  BY <1>20
<1>11. renaming' = <<f>> \o <<>>
  BY <1>9, <1>20
<1>12. renaming' = <<f>> /\ Len(renaming') = 1 /\ renaming' # <<>> /\ renaming'[1] = f /\ IsList(renaming')
  <2>1. <<f>> \o <<>> = <<f>> /\ <<f>> \in Seq({f}) /\ Len(<<f>>) = 1 /\ <<f>> # <<>> /\ <<f>>[1] = f
    OBVIOUS
  <2> QED BY <1>11, <2>1, ListOf
<1>13. \A d : DomTreeChildren(d)' = DomTreeChildren(d)
  <2>1. idom' = idom
    BY DEF RenameEntry, dominance, fixpoint
  <2> QED BY <2>1 DEF DomTreeChildren
<1>14. DomTreeChildren(b) \ {b} = DomTreeChildren(b)
  BY DEF DomTreeChildren
<1>15. \A i : i \in 1 .. 1 <=> i = 1
  OBVIOUS
<1>16. Framed({b})'
  <2>1. \A i \in 1 .. Len(renaming') :
           /\ DOMAIN renaming'[i] = {"block", "left", "made"}
           /\ renaming'[i].block \in {b} /\ IsList(renaming'[i].made)
           /\ renaming'[i].left = DomTreeChildren(renaming[i].block)' \ {b}
    <3>1. \A d : d = b => f.left = DomTreeChildren(d)' \ {b}
      BY <1>10, <1>13, <1>14
    <3>2. f.left = DomTreeChildren(f.block)' \ {b}
      BY <1>10, <1>13, <1>14
    <3> QED BY <1>9, <1>10, <1>12, <1>15, <3>2
  <2>2. \A i, j \in 1 .. Len(renaming') : ~ (i < j)
    BY <1>12, <1>15
  <2>3. \A d \in {b} : \E i \in 1 .. Len(renaming') : renaming'[i].block = d
    BY <1>10, <1>12, <1>15
  <2> QED BY <1>12, <2>1, <2>2, <2>3 DEF Framed
<1>17. ASSUME NEW x PROVE Levels(x)'
  <2> DEFINE lev == [i \in 1 .. 1 |-> Active(Context, x)']
  <2>1. lev[1] = Active(Context, x)'
    OBVIOUS
  <2> HIDE DEF lev
  <2>2. \A i \in 2 .. Len(renaming') : FALSE
    BY <1>12
  <2>3. \A v \in ToSet(lev[1]) : Reg(x, v) \in DefinedAtEnd(b)'
    BY <1>9, <2>1
  <2>4. \A d : d = b => \A v \in ToSet(lev[1]) : Reg(x, v) \in DefinedAtEnd(d)'
    BY <2>3
  <2>5. \A i \in 1 .. Len(renaming') : \A v \in ToSet(lev[i]) : Reg(x, v) \in DefinedAtEnd(renaming[i].block)'
    BY <1>10, <1>12, <1>15, <2>4
  <2> QED BY <2>1, <2>2, <2>5 DEF Levels
<1>18. cfg'.entry \in {b}
  BY <1>1, <1>8
<1>19. Above({b})' /\ CodeDone({b}, Context)'
  BY <1>7, <1>8
<1> QED BY <1>8, <1>16, <1>17, <1>18, <1>19 DEF Walk

(* Entering a child of the block on top keeps the walk in order.            *)
LEMMA WalkGoesOn ==
    ASSUME Analysed, Walk, RenameChild, ~ undefined'
    PROVE  Walk'
<1>1. PICK D : /\ Above(D) /\ cfg.entry \in D
               /\ Framed(D) /\ CodeDone(D, Context) /\ \A x : Levels(x)
  BY DEF Walk
<1>2. PICK b \in renaming[1].left : RenameBlock(b, Context)
  BY DEF RenameChild
<1>3. PICK c0 : c0 = Context
  OBVIOUS
<1> DEFINE n == Len(renaming)
           p == renaming[1].block
<1>4. /\ n \in Nat /\ n >= 1 /\ DOMAIN renaming = 1 .. n /\ 1 \in 1 .. n
      /\ IsList(renaming) /\ renaming # <<>>
  <2>1. IsList(renaming) /\ renaming # <<>>
    BY <1>1 DEF Framed
  <2>2. Len(renaming) \in Nat /\ DOMAIN renaming = 1 .. Len(renaming) /\ Len(renaming) >= 1
    BY <2>1, ListBasics, TailList
  <2> HIDE DEF n
  <2> QED BY <2>1, <2>2 DEF n
<1> HIDE DEF n
<1>5. /\ DOMAIN renaming[1] = {"block", "left", "made"} /\ p \in D
      /\ renaming[1].left = DomTreeChildren(p) \ D
  BY <1>1, <1>4 DEF Framed, n
<1>6. /\ b \in DOMAIN idom /\ idom[b] = p /\ b # p /\ b \notin D
  BY <1>2, <1>5 DEF DomTreeChildren
<1>7. D \subseteq cfg.blocks /\ DOMAIN idom = cfg.blocks /\ b \in cfg.blocks /\ b # cfg.entry /\ p \in cfg.blocks
  BY <1>1, <1>5, <1>6 DEF Above, Analysed, Fixed
<1>8. /\ b \in Dominators(b) /\ b \notin Dominators(p) /\ Dominators(b) = {b} \cup Dominators(p)
      /\ Dominators(p) \subseteq D /\ p \in Dominators(p)
  BY <1>1, <1>5, <1>6, <1>7, DominatorsClimb DEF Above
<1>9. DefinedAtEnd(p) \subseteq DefinedAtEntry(b)
  BY <1>6, <1>7, EndBelow
<1>10. ASSUME NEW x
       PROVE  \E lev :
                 /\ lev[1] = Active(c0, x)
                 /\ \A i \in 2 .. n : lev[i] = Dropped(lev[i-1], Count(renaming[i-1].made, x))
                 /\ \A i \in 1 .. n : \A v \in ToSet(lev[i]) : Reg(x, v) \in DefinedAtEnd(renaming[i].block)
  BY <1>1, <1>3 DEF Levels, n
<1>11. Sound(c0) /\ c0.code = <<>> /\ c0.made = <<>> /\ CodeDone(D, c0) /\ Coded(cfg) /\ RenameBlock(b, c0)
  <2>1. Context.code = <<>> /\ Context.made = <<>> /\ Sound(Context) /\ Coded(cfg)
    BY DEF Context, Walk
  <2> QED BY <1>1, <1>2, <1>3, <2>1
<1>12. Held(c0) \subseteq DefinedAtEntry(b)
  <2> SUFFICES ASSUME NEW r \in Held(c0) PROVE r \in DefinedAtEnd(p)
    BY <1>9
  <2>1. PICK x : \E v \in ToSet(Active(c0, x)) : r = Reg(x, v)
    BY <1>11, ActiveFacts
  <2> QED BY <1>4, <1>10, <2>1
<1>13. /\ Coded(cfg)' /\ Sound(Context)' /\ Above(D \cup {b})' /\ CodeDone(D \cup {b}, Context)'
       /\ cfg'.entry = cfg.entry
       /\ \A d : Dominators(d)' = Dominators(d)
       /\ \A d \in D : DefinedAtEnd(d)' = DefinedAtEnd(d)
       /\ \E made :
             /\ IsList(made)
             /\ renaming' = <<[block |-> b, left |-> DomTreeChildren(b), made |-> made]>> \o
                            (IF renaming = <<>> THEN <<>> ELSE [renaming EXCEPT ![1].left = @ \ {b}])
             /\ \A x : /\ \A v \in ToSet(Active(Context, x)') : Reg(x, v) \in DefinedAtEnd(b)'
                       /\ Dropped(Active(Context, x)', Count(made, x)) = Active(c0, x)
  <2>1. Dominators(b) \ {b} \subseteq D
    BY <1>8
  <2>2. BlockOutcome(b, D, c0)
    BY <1>1, <1>6, <1>7, <1>11, <1>12, <2>1, BlockDone
  <2> QED BY <2>2 DEF BlockOutcome
<1>14. PICK made :
             /\ IsList(made)
             /\ renaming' = <<[block |-> b, left |-> DomTreeChildren(b), made |-> made]>> \o
                            (IF renaming = <<>> THEN <<>> ELSE [renaming EXCEPT ![1].left = @ \ {b}])
             /\ \A x : /\ \A v \in ToSet(Active(Context, x)') : Reg(x, v) \in DefinedAtEnd(b)'
                       /\ Dropped(Active(Context, x)', Count(made, x)) = Active(c0, x)
  BY <1>13
<1>15. PICK f : f = [block |-> b, left |-> DomTreeChildren(b), made |-> made]
  OBVIOUS
<1>16. PICK r : r = <<f>> \o [renaming EXCEPT ![1].left = @ \ {b}]
  OBVIOUS
<1>17. renaming' = r
  BY <1>4, <1>14, <1>15, <1>16
<1>18. f.block = b /\ f.left = DomTreeChildren(b) /\ f.made = made /\ DOMAIN f = {"block", "left", "made"}
  BY <1>15
<1>19. /\ IsList(r) /\ Len(r) = n + 1 /\ r[1] = f
       /\ DOMAIN r[2] = {"block", "left", "made"} /\ r[2].block = p /\ r[2].made = renaming[1].made
       /\ r[2].left = renaming[1].left \ {b}
       /\ \A i \in 2 .. n : r[i + 1] = renaming[i]
  <2>1. /\ IsList(r) /\ Len(r) = Len(renaming) + 1 /\ r[1] = f
        /\ r[2] = [renaming[1] EXCEPT !.left = @ \ {b}]
        /\ \A i \in 2 .. Len(renaming) : r[i + 1] = renaming[i]
    <3> DEFINE e == [renaming[1] EXCEPT !.left = @ \ {b}]
               t == [renaming EXCEPT ![1] = e]
    <3>1. r = <<f>> \o t
      BY <1>16
    <3>2. t[1] = e /\ (\A i \in 2 .. n : t[i] = renaming[i]) /\ t = [i \in 1 .. n |-> t[i]]
      <4> HIDE DEF e
      <4>1. \A i \in 2 .. n : i \in 1 .. n /\ i # 1
        BY <1>4
      <4> QED BY <1>4, <4>1
    <3> HIDE DEF t, e
    <3>3. IsList(t) /\ Len(t) = n
      BY <1>4, <3>2, ListByIndex
    <3>4. /\ IsList(r) /\ Len(r) = n + 1 /\ r[1] = f
          /\ \A i \in 1 .. n : r[i + 1] = t[i]
      BY <3>1, <3>3, PushFrame
    <3>5. 1 + 1 = 2 /\ \A i \in 2 .. n : i \in 1 .. n
      BY <1>4
    <3>6. r[2] = e /\ \A i \in 2 .. n : r[i + 1] = renaming[i]
      BY <1>4, <3>2, <3>4, <3>5
    <3> QED BY <3>4, <3>6 DEF n, e
  <2>2. LET e == [renaming[1] EXCEPT !.left = @ \ {b}]
        IN  DOMAIN e = {"block", "left", "made"} /\ e.block = p /\ e.made = renaming[1].made /\ e.left = renaming[1].left \ {b}
    BY <1>5
  <2> QED BY <2>1, <2>2 DEF n
<1>20. \A i : i \in 1 .. n + 1 <=> i = 1 \/ \E k \in 1 .. n : i = k + 1
  <2>1. ASSUME NEW i \in 1 .. n + 1, i # 1 PROVE \E k \in 1 .. n : i = k + 1
    <3>1. i - 1 \in 1 .. n /\ i = (i - 1) + 1
      BY <1>4, <2>1
    <3> QED BY <3>1
  <2>2. 1 \in 1 .. n + 1 /\ \A k \in 1 .. n : k + 1 \in 1 .. n + 1
    BY <1>4
  <2> QED BY <2>1, <2>2
<1>21. \A k \in 1 .. n : k = 1 \/ k \in 2 .. n
  BY <1>4
<1>22. ASSUME NEW k \in 1 .. n
       PROVE  /\ DOMAIN r[k + 1] = {"block", "left", "made"}
              /\ r[k + 1].block = renaming[k].block /\ r[k + 1].made = renaming[k].made
              /\ r[k + 1].block \in D /\ IsList(r[k + 1].made)
              /\ r[k + 1].left = DomTreeChildren(r[k + 1].block) \ (D \cup {b})
  <2>1. /\ DOMAIN renaming[k] = {"block", "left", "made"}
        /\ renaming[k].block \in D /\ IsList(renaming[k].made)
        /\ renaming[k].left = DomTreeChildren(renaming[k].block) \ D
    BY <1>1 DEF Framed, n
  <2>2. CASE k = 1
    <3>1. k + 1 = 2
      BY <2>2
    <3>2. r[2].left = DomTreeChildren(p) \ (D \cup {b})
      BY <1>5, <1>19
    <3> QED BY <1>19, <2>1, <2>2, <3>1, <3>2
  <2>3. CASE k \in 2 .. n
    <3>1. renaming[k].block # p
      <4>1. 1 < k
        BY <2>3
      <4> QED BY <1>1, <1>4, <4>1 DEF Framed, n
    <3>2. b \notin DomTreeChildren(renaming[k].block)
      BY <1>6, <3>1 DEF DomTreeChildren
    <3> QED BY <1>19, <2>1, <2>3, <3>2
  <2> QED BY <1>21, <2>2, <2>3
<1>23. DomTreeChildren(b) \cap (D \cup {b}) = {}
  <2>1. ASSUME NEW d \in DomTreeChildren(b), d \in D PROVE FALSE
    <3>1. d \in cfg.blocks /\ idom[d] = b /\ d # b
      BY <1>7, <2>1 DEF DomTreeChildren
    <3>2. Dominators(d) \subseteq D
      BY <1>1, <2>1 DEF Above
    <3>3. d = cfg.entry \/ b \in Dominators(d)
      <4>1. b \in Dominators(b) /\ (d # cfg.entry => Dominators(d) = {d} \cup Dominators(idom[d]))
        BY <1>8, <3>1, DominatorsClimb
      <4> QED BY <3>1, <4>1
    <3>4. d # cfg.entry
      BY <3>1 DEF Analysed, Tree
    <3> QED BY <1>6, <3>2, <3>3, <3>4
  <2> QED BY <2>1 DEF DomTreeChildren
<1>24. \A d : DomTreeChildren(d)' = DomTreeChildren(d)
  <2>1. idom' = idom
    BY DEF RenameChild, dominance, fixpoint
  <2> QED BY <2>1 DEF DomTreeChildren
<1>25. ASSUME NEW i \in 1 .. n + 1
       PROVE  /\ DOMAIN r[i] = {"block", "left", "made"}
              /\ r[i].block \in D \cup {b} /\ IsList(r[i].made)
              /\ r[i].left = DomTreeChildren(r[i].block) \ (D \cup {b})
  <2>1. CASE i = 1
    <3>1. r[1].left = DomTreeChildren(b) \ (D \cup {b})
      BY <1>18, <1>19, <1>23
    <3> QED BY <1>14, <1>18, <1>19, <2>1, <3>1
  <2>2. ASSUME NEW k \in 1 .. n, i = k + 1
        PROVE  /\ DOMAIN r[i] = {"block", "left", "made"}
               /\ r[i].block \in D \cup {b} /\ IsList(r[i].made)
               /\ r[i].left = DomTreeChildren(r[i].block) \ (D \cup {b})
    BY <1>22, <2>2
  <2> QED BY <1>20, <2>1, <2>2
<1>26. \A i, j \in 1 .. n + 1 : i < j => r[i].block # r[j].block /\ r[j].block \in Dominators(r[i].block)
  <2> SUFFICES ASSUME NEW i \in 1 .. n + 1, NEW j \in 1 .. n + 1, i < j
               PROVE  r[i].block # r[j].block /\ r[j].block \in Dominators(r[i].block)
    OBVIOUS
  <2>1. PICK k \in 1 .. n : j = k + 1
    <3>1. j # 1
      OBVIOUS
    <3> QED BY <1>20, <3>1
  <2>2. r[j].block = renaming[k].block /\ r[j].block \in D
    BY <1>22, <2>1
  <2>3. \A l, m \in 1 .. n : l < m => renaming[l].block # renaming[m].block /\ renaming[m].block \in Dominators(renaming[l].block)
    BY <1>1 DEF Framed, n
  <2>4. CASE i = 1
    <3>1. r[i].block = b
      BY <1>18, <1>19, <2>4
    <3>2. renaming[k].block \in Dominators(p)
      <4>1. k = 1 \/ 1 < k
        BY <1>4
      <4> QED BY <1>4, <1>8, <2>3, <4>1
    <3> QED BY <1>6, <1>8, <2>2, <3>1, <3>2
  <2>5. CASE i # 1
    <3>1. PICK l \in 1 .. n : i = l + 1
      BY <1>20, <2>5
    <3>2. l < k
      BY <1>4, <2>1, <3>1
    <3>3. r[i].block = renaming[l].block
      BY <1>22, <3>1
    <3> QED BY <2>2, <2>3, <3>2, <3>3
  <2> QED BY <2>4, <2>5
<1>27. \A d \in D \cup {b} : DomTreeChildren(d) \subseteq D \cup {b} \/ \E i \in 1 .. n + 1 : r[i].block = d
  <2>1. \E i \in 1 .. n + 1 : r[i].block = b
    BY <1>18, <1>19, <1>20
  <2>2. ASSUME NEW d \in D, NEW k \in 1 .. n, renaming[k].block = d PROVE \E i \in 1 .. n + 1 : r[i].block = d
    <3>1. k + 1 \in 1 .. n + 1 /\ r[k + 1].block = d
      BY <1>20, <1>22, <2>2
    <3> QED BY <3>1
  <2>3. \A d \in D : DomTreeChildren(d) \subseteq D \/ \E i \in 1 .. n : renaming[i].block = d
    BY <1>1 DEF Framed, n
  <2> QED BY <2>1, <2>2, <2>3
<1>28. Framed(D \cup {b})'
  <2>1. IsList(renaming') /\ renaming' # <<>> /\ Len(renaming') = n + 1
    <3>1. r # <<>>
      <4>1. Len(r) # 0
        BY <1>4, <1>19
      <4> QED BY <4>1
    <3> QED BY <1>17, <1>19, <3>1
  <2>2. \A i \in 1 .. n + 1 :
           /\ DOMAIN renaming'[i] = {"block", "left", "made"}
           /\ renaming'[i].block \in D \cup {b} /\ IsList(renaming'[i].made)
           /\ renaming'[i].left = DomTreeChildren(renaming[i].block)' \ (D \cup {b})
    BY <1>17, <1>24, <1>25
  <2>3. \A i, j \in 1 .. n + 1 : i < j =>
           renaming'[i].block # renaming'[j].block /\ renaming'[j].block \in Dominators(renaming[i].block)'
    BY <1>13, <1>17, <1>26
  <2>4. \A d \in D \cup {b} : DomTreeChildren(d)' \subseteq D \cup {b} \/ \E i \in 1 .. n + 1 : renaming'[i].block = d
    BY <1>17, <1>24, <1>27
  <2> QED BY <2>1, <2>2, <2>3, <2>4 DEF Framed
<1>29. ASSUME NEW x PROVE Levels(x)'
  <2>1. PICK old :
           /\ old[1] = Active(c0, x)
           /\ \A i \in 2 .. n : old[i] = Dropped(old[i-1], Count(renaming[i-1].made, x))
           /\ \A i \in 1 .. n : \A v \in ToSet(old[i]) : Reg(x, v) \in DefinedAtEnd(renaming[i].block)
    BY <1>10
  <2>2. PICK top : top = Active(Context, x)'
    OBVIOUS
  <2>3. PICK lev : lev = [i \in 1 .. n + 1 |-> IF i = 1 THEN top ELSE old[i - 1]]
    OBVIOUS
  <2>4. lev[1] = top /\ \A k \in 1 .. n : lev[k + 1] = old[k]
    <3>1. 1 \in 1 .. n + 1 /\ \A k \in 1 .. n : k + 1 \in 1 .. n + 1 /\ k + 1 # 1 /\ (k + 1) - 1 = k
      BY <1>4
    <3> QED BY <2>3, <3>1
  <2>5. ASSUME NEW i \in 2 .. n + 1 PROVE lev[i] = Dropped(lev[i-1], Count(r[i-1].made, x))
    <3>1. i - 1 \in 1 .. n /\ i = (i - 1) + 1
      BY <1>4
    <3>2. PICK k \in 1 .. n : k = i - 1 /\ i = k + 1
      BY <3>1
    <3>3. CASE k = 1
      <4>1. Dropped(top, Count(made, x)) = Active(c0, x)
        BY <1>14, <2>2
      <4>2. r[1].made = made
        BY <1>18, <1>19
      <4> QED BY <2>1, <2>4, <3>2, <3>3, <4>1, <4>2
    <3>4. CASE k \in 2 .. n
      <4>1. k - 1 \in 1 .. n /\ (k - 1) + 1 = k
        BY <1>4, <3>4
      <4>2. old[k] = Dropped(old[k-1], Count(renaming[k-1].made, x))
        BY <2>1, <3>4
      <4>3. lev[i] = old[k] /\ lev[k] = old[k-1] /\ r[k].made = renaming[k-1].made
        BY <1>22, <2>4, <3>2, <4>1
      <4> QED BY <3>2, <4>2, <4>3
    <3> QED BY <1>21, <3>3, <3>4
  <2>6. ASSUME NEW i \in 1 .. n + 1, NEW v \in ToSet(lev[i])
        PROVE  \A d : d = r[i].block => Reg(x, v) \in DefinedAtEnd(d)'
    <3>1. CASE i = 1
      <4>1. Reg(x, v) \in DefinedAtEnd(b)'
        BY <1>14, <2>2, <2>4, <2>6, <3>1
      <4> QED BY <1>18, <1>19, <3>1, <4>1
    <3>2. ASSUME NEW k \in 1 .. n, i = k + 1, NEW d, d = r[i].block PROVE Reg(x, v) \in DefinedAtEnd(d)'
      <4>1. d = renaming[k].block /\ d \in D
        BY <1>22, <3>2
      <4>2. v \in ToSet(old[k])
        BY <2>4, <2>6, <3>2
      <4>3. Reg(x, v) \in DefinedAtEnd(d)
        BY <2>1, <4>1, <4>2
      <4> QED BY <1>13, <4>1, <4>3
    <3> QED BY <1>20, <3>1, <3>2
  <2>7. Len(renaming') = n + 1
    BY <1>17, <1>19
  <2>8. /\ lev[1] = Active(Context, x)'
        /\ \A i \in 2 .. Len(renaming') : lev[i] = Dropped(lev[i-1], Count(renaming'[i-1].made, x))
    BY <1>17, <2>2, <2>4, <2>5, <2>7
  <2>9. \A i \in 1 .. Len(renaming') : \A v \in ToSet(lev[i]) : Reg(x, v) \in DefinedAtEnd(renaming[i].block)'
    BY <1>17, <2>6, <2>7
  <2> QED BY <2>8, <2>9 DEF Levels
<1>30. cfg'.entry \in D \cup {b}
  BY <1>1, <1>13
<1> QED BY <1>13, <1>28, <1>29, <1>30 DEF Walk

(* What dominates and what is defined is a matter of the graph.             *)
LEMMA SameUses ==
    ASSUME cfg' = cfg
    PROVE  \A d : /\ Dominators(d)' = Dominators(d)
                  /\ DefinedAtEnd(d)' = DefinedAtEnd(d) /\ DefinedAtEntry(d)' = DefinedAtEntry(d)
<1>1. \A d : Dominators(d)' = Dominators(d)
  BY SameDominators
<1>2. \A d : Definitions(d)' = Definitions(d)
  BY DEF Definitions
<1>3. \A d : DefinedAtEntry(d)' = DefinedAtEntry(d)
  BY <1>1, <1>2 DEF DefinedAtEntry
<1> QED BY <1>1, <1>2, <1>3 DEF DefinedAtEnd

(* Leaving a block: its parent gets its stacks back; without a parent the   *)
(* walk has been everywhere.                                               *)
LEMMA WalkLeaves ==
    ASSUME Analysed, Walk, LeaveRenamed
    PROVE  IF Tail(renaming) = <<>> THEN InSsaForm ELSE Walk'
<1>1. PICK D : /\ Above(D) /\ cfg.entry \in D
               /\ Framed(D) /\ CodeDone(D, Context) /\ \A x : Levels(x)
  BY DEF Walk
<1>2. PICK c0 : c0 = Context
  OBVIOUS
<1> DEFINE n == Len(renaming)
           p == renaming[1].block
<1>3. /\ n \in Nat /\ n >= 1 /\ 1 \in 1 .. n
      /\ IsList(Tail(renaming)) /\ Len(Tail(renaming)) = n - 1
      /\ \A i \in 1 .. n - 1 : Tail(renaming)[i] = renaming[i + 1]
      /\ Tail(renaming) = <<>> => n = 1
  <2>1. IsList(renaming) /\ renaming # <<>>
    BY <1>1 DEF Framed
  <2>2. /\ Len(renaming) \in Nat /\ Len(renaming) >= 1
        /\ IsList(Tail(renaming)) /\ Len(Tail(renaming)) = Len(renaming) - 1
        /\ \A i \in 1 .. Len(renaming) - 1 : Tail(renaming)[i] = renaming[i + 1]
        /\ Tail(renaming) = <<>> => Len(renaming) = 1
    BY <2>1, ListBasics, TailList
  <2> HIDE DEF n
  <2> QED BY <2>2 DEF n
<1>4. /\ \A i \in 1 .. n :
            /\ DOMAIN renaming[i] = {"block", "left", "made"}
            /\ renaming[i].block \in D /\ IsList(renaming[i].made)
            /\ renaming[i].left = DomTreeChildren(renaming[i].block) \ D
      /\ \A i, j \in 1 .. n : i < j =>
            renaming[i].block # renaming[j].block /\ renaming[j].block \in Dominators(renaming[i].block)
      /\ \A d \in D : DomTreeChildren(d) \subseteq D \/ \E i \in 1 .. n : renaming[i].block = d
  BY <1>1 DEF Framed
<1>5. /\ cfg' = cfg /\ counters' = counters /\ undefined' = undefined /\ idom' = idom
      /\ stacks' = Pop(renaming[1].made) /\ renaming' = Tail(renaming) /\ renaming[1].left = {}
  BY DEF LeaveRenamed, dominance, fixpoint
<1> HIDE DEF n
<1>6. DomTreeChildren(p) \subseteq D
  BY <1>3, <1>4, <1>5
<1>7. \A d \in D : DomTreeChildren(d) \subseteq D \/ \E i \in 2 .. n : renaming[i].block = d
  <2>1. \A i \in 1 .. n : i = 1 \/ i \in 2 .. n
    BY <1>3
  <2> QED BY <1>4, <1>6, <2>1
<1>8. ASSUME Tail(renaming) = <<>> PROVE InSsaForm
  <2>1. 2 .. n = {}
    BY <1>3, <1>8
  <2>2. \A d \in D : DomTreeChildren(d) \subseteq D
    BY <1>7, <2>1
  <2>3. D \subseteq cfg.blocks
    BY <1>1 DEF Above
  <2>4. D = cfg.blocks
    BY <1>1, <2>2, <2>3, TreeReachesAll
  <2>5. CodeDone(cfg.blocks, Context)
    BY <1>1, <2>4
  <2> QED BY <2>5, WalkEnds
<1>9. ASSUME Tail(renaming) # <<>> PROVE Walk'
  <2>1. Sound(c0) /\ Coded(cfg) /\ c0.counters = counters /\ c0.stacks = stacks
    BY <1>2 DEF Walk, Context
  <2>2. PICK c1 : c1 = Context'
    OBVIOUS
  <2>3. /\ DOMAIN c1 = {"code", "counters", "stacks", "made", "undefined"}
        /\ c1.code = <<>> /\ c1.made = <<>> /\ c1.counters = counters /\ c1.undefined = undefined
        /\ c1.stacks = stacks' /\ c0.undefined = undefined /\ DOMAIN c0 = DOMAIN c1
        /\ c0.code = <<>> /\ c0.made = <<>>
    BY <1>2, <1>5, <2>2 DEF Context
  <2> DEFINE k(x) == Count(renaming[1].made, x)
  <2>4. \A x : k(x) \in Nat
    BY <1>3, <1>4, CountAppend
  <2>5. /\ DOMAIN stacks' = DOMAIN stacks
        /\ \A x \in DOMAIN stacks : stacks'[x] = Dropped(stacks[x], k(x))
    BY <1>5 DEF Pop, Count, Dropped
  <2> HIDE DEF k
  <2>6. \A j \in Nat : Dropped(<<>>, j) = <<>>
    BY DEF Dropped
  <2>7. \A q \in Seq(Nat) : \A j \in Nat : Dropped(q, j) \in Seq(Nat)
    <3> SUFFICES ASSUME NEW q \in Seq(Nat), NEW j \in Nat PROVE SubSeq(q, j + 1, Len(q)) \in Seq(Nat)
      BY DEF Dropped
    <3>1. /\ SubSeq(q, j + 1, Len(q)) \in Seq(Nat)
      OBVIOUS
    <3> QED BY <3>1
  <2>8. \A x : Active(c1, x) = Dropped(Active(c0, x), k(x))
    BY <2>1, <2>3, <2>4, <2>5, <2>6 DEF Active
  <2>9. Sound(c1)
    <3>1. \A x \in DOMAIN c1.stacks : c1.stacks[x] \in Seq(Nat)
      BY <2>1, <2>3, <2>4, <2>5, <2>7 DEF Sound
    <3> QED BY <2>1, <2>3, <3>1 DEF Sound
  <2>10. \A x : NextVersion(c1, x) = NextVersion(c0, x)
    BY <2>1, <2>3 DEF NextVersion
  <2>11. \A d : /\ Dominators(d)' = Dominators(d) /\ DomTreeChildren(d)' = DomTreeChildren(d)
               /\ DefinedAtEnd(d)' = DefinedAtEnd(d) /\ DefinedAtEntry(d)' = DefinedAtEntry(d)
    BY <1>5, SameUses DEF DomTreeChildren
  <2>12. CodeDone(D, Context)'
    <3>1. VersionsBelow(D, c0) /\ DefinedOnce(D) /\ UsesDefined(D) /\ SourcesDefined(D)
      BY <1>1, <1>2 DEF CodeDone
    <3>2. VersionsBelow(D, Context)'
      <4>1. \A x : NextVersion(Context, x)' = NextVersion(c0, x)
        <5>1. \A x : NextVersion(Context, x)' = NextVersion(Context', x)
          BY DEF NextVersion
        <5> QED BY <2>2, <2>10, <5>1
      <4> HIDE DEF Context
      <4> QED BY <1>5, <3>1, <4>1 DEF VersionsBelow
    <3>3. DefinedOnce(D)'
      BY <1>5, <3>1 DEF DefinedOnce
    <3>4. UsesDefined(D)'
      BY <1>5, <2>11, <3>1 DEF UsesDefined
    <3>5. SourcesDefined(D)'
      BY <1>5, <2>11, <3>1 DEF SourcesDefined, Predecessors
    <3> QED BY <3>2, <3>3, <3>4, <3>5 DEF CodeDone
  <2>13. Above(D)' /\ cfg'.entry \in D /\ Coded(cfg)'
    BY <1>1, <1>5, <2>1, <2>11 DEF Above, Coded
  <2>14. Sound(Context)'
    BY <2>2, <2>9 DEF Sound
  <2>15. PICK r : r = Tail(renaming)
    OBVIOUS
  <2>16. /\ renaming' = r /\ IsList(r) /\ Len(r) = n - 1 /\ r # <<>>
         /\ \A i \in 1 .. n - 1 : i + 1 \in 1 .. n /\ r[i] = renaming[i + 1]
    BY <1>3, <1>5, <1>9, <2>15
  <2>17. Framed(D)'
    <3>1. \A i \in 1 .. n - 1 :
             /\ DOMAIN renaming'[i] = {"block", "left", "made"}
             /\ renaming'[i].block \in D /\ IsList(renaming'[i].made)
             /\ renaming'[i].left = DomTreeChildren(renaming[i].block)' \ D
      BY <1>4, <2>11, <2>16
    <3>2. ASSUME NEW i \in 1 .. n - 1, NEW j \in 1 .. n - 1, i < j
          PROVE  renaming'[i].block # renaming'[j].block /\ renaming'[j].block \in Dominators(renaming[i].block)'
      <4>1. i + 1 < j + 1 /\ i + 1 \in 1 .. n /\ j + 1 \in 1 .. n
        BY <1>3, <3>2
      <4>2. renaming[i+1].block # renaming[j+1].block /\ renaming[j+1].block \in Dominators(renaming[i+1].block)
        BY <1>4, <4>1
      <4> QED BY <2>11, <2>16, <4>2
    <3>3. \A d \in D : DomTreeChildren(d)' \subseteq D \/ \E i \in 1 .. n - 1 : renaming'[i].block = d
      <4>1. \A i \in 2 .. n : \E j \in 1 .. n - 1 : i = j + 1
        <5> SUFFICES ASSUME NEW i \in 2 .. n PROVE i - 1 \in 1 .. n - 1 /\ i = (i - 1) + 1
          OBVIOUS
        <5> QED BY <1>3
      <4>2. \A d \in D : (\E i \in 2 .. n : renaming[i].block = d) => \E i \in 1 .. n - 1 : r[i].block = d
        BY <2>16, <4>1
      <4> QED BY <1>7, <2>11, <2>16, <4>2
    <3> QED BY <2>16, <3>1, <3>2, <3>3 DEF Framed
  <2>18. ASSUME NEW x PROVE Levels(x)'
    <3>1. PICK old :
             /\ old[1] = Active(c0, x)
             /\ \A i \in 2 .. n : old[i] = Dropped(old[i-1], Count(renaming[i-1].made, x))
             /\ \A i \in 1 .. n : \A v \in ToSet(old[i]) : Reg(x, v) \in DefinedAtEnd(renaming[i].block)
      BY <1>1, <1>2 DEF Levels, n
    <3>2. PICK lev : lev = [i \in 1 .. n - 1 |-> old[i + 1]]
      OBVIOUS
    <3>3. \A i \in 1 .. n - 1 : lev[i] = old[i + 1]
      BY <3>2
    <3>4. n >= 2
      <4>1. n # 1
        <5>1. Len(r) # 0
          BY <2>16, ListBasics, TailList
        <5> QED BY <1>3, <2>16, <5>1
      <4> QED BY <1>3, <4>1
    <3>5. lev[1] = Active(Context, x)'
      <4>1. 1 \in 1 .. n - 1 /\ 2 \in 2 .. n /\ 2 - 1 = 1 /\ 1 + 1 = 2
        BY <1>3, <3>4
      <4>2. lev[1] = Dropped(Active(c0, x), k(x))
        BY <3>1, <3>3, <4>1 DEF k
      <4>3. Active(Context, x)' = Active(Context', x)
        BY DEF Active
      <4> QED BY <2>2, <2>8, <4>2, <4>3
    <3>6. ASSUME NEW i \in 2 .. n - 1 PROVE lev[i] = Dropped(lev[i-1], Count(renaming'[i-1].made, x))
      <4>1. i + 1 \in 2 .. n /\ i - 1 \in 1 .. n - 1 /\ (i + 1) - 1 = i /\ (i - 1) + 1 = i /\ i \in 1 .. n - 1
        BY <1>3
      <4>2. old[i+1] = Dropped(old[i], Count(renaming[i].made, x))
        BY <3>1, <4>1
      <4>3. lev[i] = old[i+1] /\ lev[i-1] = old[i] /\ r[i-1] = renaming[i]
        BY <2>16, <3>3, <4>1
      <4> QED BY <2>16, <4>2, <4>3
    <3>7. \A i \in 1 .. n - 1 : \A v \in ToSet(lev[i]) : Reg(x, v) \in DefinedAtEnd(renaming[i].block)'
      <4> SUFFICES ASSUME NEW i \in 1 .. n - 1, NEW v \in ToSet(lev[i])
                   PROVE  \A d : d = renaming'[i].block => Reg(x, v) \in DefinedAtEnd(d)'
        OBVIOUS
      <4>1. i + 1 \in 1 .. n /\ v \in ToSet(old[i + 1]) /\ r[i] = renaming[i + 1]
        BY <2>16, <3>3
      <4>2. Reg(x, v) \in DefinedAtEnd(renaming[i + 1].block)
        BY <3>1, <4>1
      <4> QED BY <2>11, <2>16, <4>1, <4>2
    <3>8. Len(renaming') = n - 1
      BY <2>16
    <3> QED BY <3>5, <3>6, <3>7, <3>8 DEF Levels
  <2> QED BY <2>12, <2>13, <2>14, <2>17, <2>18 DEF Walk
<1> QED BY <1>8, <1>9

(* Nothing of it changes while the graph, the tree and the stacks do not.   *)
LEMMA SameSsaForm ==
    ASSUME cfg' = cfg
    PROVE  InSsaForm => InSsaForm'
  BY SameUses DEF InSsaForm, Predecessors

(* The walk is a matter of the renamer, the graph and its analysis.         *)
LEMMA SameWalk ==
    ASSUME cfg' = cfg, idom' = idom, renaming' = renaming,
           counters' = counters, stacks' = stacks, undefined' = undefined
    PROVE  Walk => Walk'
<1> SUFFICES ASSUME Walk PROVE Walk'
  OBVIOUS
<1>1. PICK D : /\ Above(D) /\ cfg.entry \in D
               /\ Framed(D) /\ CodeDone(D, Context) /\ \A x : Levels(x)
  BY DEF Walk
<1>2. \A d : /\ Dominators(d)' = Dominators(d) /\ DomTreeChildren(d)' = DomTreeChildren(d)
             /\ DefinedAtEnd(d)' = DefinedAtEnd(d) /\ DefinedAtEntry(d)' = DefinedAtEntry(d)
  BY SameUses DEF DomTreeChildren
<1>3. Context' = Context
  BY DEF Context
<1>4. \A x : NextVersion(Context, x)' = NextVersion(Context, x) /\ Active(Context, x)' = Active(Context, x)
  BY <1>3 DEF NextVersion, Active
<1>5. Coded(cfg)' /\ Sound(Context)'
  BY <1>3 DEF Walk, Coded, Sound
<1>6. Above(D)' /\ cfg'.entry \in D
  BY <1>1, <1>2 DEF Above
<1>7. Framed(D)'
  BY <1>1, <1>2 DEF Framed
<1>8. CodeDone(D, Context)'
  <2>1. VersionsBelow(D, Context) /\ DefinedOnce(D) /\ UsesDefined(D) /\ SourcesDefined(D)
    BY <1>1 DEF CodeDone
  <2>2. VersionsBelow(D, Context)'
    <3> HIDE DEF Context
    <3> QED BY <1>4, <2>1 DEF VersionsBelow
  <2>3. DefinedOnce(D)' /\ UsesDefined(D)' /\ SourcesDefined(D)'
    BY <1>2, <2>1 DEF DefinedOnce, UsesDefined, SourcesDefined, Predecessors
  <2> QED BY <2>2, <2>3 DEF CodeDone
<1>9. \A x : Levels(x)'
  BY <1>1, <1>2, <1>4 DEF Levels
<1> QED BY <1>1, <1>5, <1>6, <1>7, <1>8, <1>9 DEF Walk

-----------------------------------------------------------------------------
(* The names of registers: what a block reads, and what its first n         *)
(* instructions define.                                                     *)
SymsOf(D) == {r.sym : r \in D}
Syms(args) == SymsOf(RegsOf(args))
DefinedBy(q, n) == SymsOf(UNION {q[j].dest : j \in 1 .. n})
Covered(q, S) == \A i \in DOMAIN q : Syms(q[i].args) \subseteq S \cup DefinedBy(q, i - 1)

(* The names a list defines are those its instructions define.              *)
LEMMA DefinedFacts ==
    ASSUME NEW q, IsList(q)
    PROVE  /\ Defined(q) = DefinedBy(q, Len(q))
           /\ \A i \in DOMAIN q : SymsOf(q[i].dest) \subseteq Defined(q)
           /\ \A x \in Defined(q) : \E i \in DOMAIN q : x \in SymsOf(q[i].dest)
           /\ \A i \in DOMAIN q : DefinedBy(q, i - 1) \subseteq Defined(q)
<1>1. DOMAIN q = 1 .. Len(q) /\ Len(q) \in Nat
  BY ListBasics
<1>2. \A x : x \in Defined(q) <=> \E i \in DOMAIN q : x \in SymsOf(q[i].dest)
  BY DEF Defined, SymsOf, ToSet
<1>3. \A n, x : x \in DefinedBy(q, n) <=> \E j \in 1 .. n : x \in SymsOf(q[j].dest)
  BY DEF DefinedBy, SymsOf
<1>4. \A i \in DOMAIN q : \A j \in 1 .. i - 1 : j \in DOMAIN q
  BY <1>1
<1>5. Defined(q) = DefinedBy(q, Len(q))
  BY <1>1, <1>2, <1>3
<1> QED BY <1>2, <1>3, <1>4, <1>5

(* The names the first n instructions define, one instruction after         *)
(* another.                                                                 *)
LEMMA DefinedByStep ==
    ASSUME NEW q, NEW n \in Nat
    PROVE  /\ DefinedBy(q, 0) = {}
           /\ DefinedBy(q, n + 1) = DefinedBy(q, n) \cup SymsOf(q[n + 1].dest)
<1>1. 1 .. 0 = {} /\ 1 .. (n + 1) = (1 .. n) \cup {n + 1}
  OBVIOUS
<1>2. UNION {q[j].dest : j \in 1 .. (n + 1)} = (UNION {q[j].dest : j \in 1 .. n}) \cup q[n + 1].dest
  BY <1>1
<1> QED BY <1>1, <1>2 DEF DefinedBy, SymsOf

(* They depend on the destinations only.                                    *)
LEMMA SameDefinedBy ==
    ASSUME NEW q, NEW r, NEW n, \A j \in 1 .. n : SymsOf(q[j].dest) = SymsOf(r[j].dest)
    PROVE  DefinedBy(q, n) = DefinedBy(r, n)
<1>1. \A p, x : x \in DefinedBy(p, n) <=> \E j \in 1 .. n : x \in SymsOf(p[j].dest)
  BY DEF DefinedBy, SymsOf
<1> QED BY <1>1

(* So do all the names a list defines.                                      *)
LEMMA SameDefinitions ==
    ASSUME NEW q, NEW r, IsList(q), IsList(r), DOMAIN q = DOMAIN r,
           \A j \in DOMAIN q : SymsOf(q[j].dest) = SymsOf(r[j].dest)
    PROVE  Defined(q) = Defined(r)
<1>1. \A p : IsList(p) => \A x : x \in Defined(p) <=> \E i \in DOMAIN p : x \in SymsOf(p[i].dest)
  BY DefinedFacts
<1>2. \A x : x \in Defined(q) <=> x \in Defined(r)
  BY <1>1
<1> QED BY <1>2

(* Renaming keeps the names.                                                *)
LEMMA RenameArgsNames ==
    ASSUME NEW c, NEW args
    PROVE  Syms(RenameArgs(c, args)) = Syms(args)
<1> DEFINE new == RenameArgs(c, args)
<1>1. DOMAIN new = DOMAIN args /\ \A i \in DOMAIN args : new[i] = RenameOperand(c, args[i])
  BY DEF RenameArgs
<1> HIDE DEF new
<1>2. ASSUME NEW i \in DOMAIN args
      PROVE  /\ new[i].kind = "reg" <=> args[i].kind = "reg"
             /\ args[i].kind = "reg" => new[i].val.sym = args[i].val.sym
  <2>1. CASE args[i].kind = "reg" /\ HasTop(c, args[i].val.sym)
    <3>1. new[i] = At(Top(c, args[i].val.sym))
      BY <1>1, <2>1 DEF RenameOperand
    <3> QED BY <2>1, <3>1, RegFacts DEF At, Top
  <2>2. CASE ~ (args[i].kind = "reg" /\ HasTop(c, args[i].val.sym))
    BY <1>1, <2>2 DEF RenameOperand
  <2> QED BY <2>1, <2>2
<1>3. \A q : Syms(q) = {q[i].val.sym : i \in {j \in DOMAIN q : q[j].kind = "reg"}}
  BY DEF Syms, SymsOf, RegsOf
<1>4. Syms(new) = Syms(args)
  BY <1>1, <1>2, <1>3
<1> QED BY <1>4 DEF new

(* Of one instruction.                                                      *)
LEMMA RenameDestNames ==
    ASSUME NEW c, Sound(c), NEW inst, Instruction(inst)
    PROVE  LET e == RenameDest(c, inst)
           IN  /\ \E q : /\ e.code = Append(c.code, q)
                         /\ q.args = inst.args /\ SymsOf(q.dest) = SymsOf(inst.dest)
               /\ \A x : HasTop(c, x) \/ x \in SymsOf(inst.dest) => HasTop(e, x)
               /\ ToSet(e.made) = ToSet(c.made) \cup SymsOf(inst.dest)
<1> DEFINE e == RenameDest(c, inst)
<1>1. CASE inst.dest = {}
  <2>1. e = [c EXCEPT !.code = Append(c.code, inst)]
    BY <1>1 DEF RenameDest
  <2>2. e.code = Append(c.code, inst) /\ e.stacks = c.stacks /\ e.made = c.made
    BY <2>1 DEF Sound
  <2> HIDE DEF e
  <2> QED BY <1>1, <2>2 DEF e, SymsOf, HasTop, Active
<1>2. ASSUME NEW r, inst.dest = {r}
      PROVE  /\ \E q : /\ e.code = Append(c.code, q)
                       /\ q.args = inst.args /\ SymsOf(q.dest) = SymsOf(inst.dest)
             /\ \A x : HasTop(c, x) \/ x \in SymsOf(inst.dest) => HasTop(e, x)
             /\ ToSet(e.made) = ToSet(c.made) \cup SymsOf(inst.dest)
  <2> DEFINE x == r.sym
             d == Define(c, x)
             q == [inst EXCEPT !.dest = {Top(d, x)}]
  <2>0. (CHOOSE s \in inst.dest : TRUE) = r
    BY <1>2
  <2>1. e = [d EXCEPT !.code = Append(d.code, q)]
    BY <1>2, <2>0 DEF RenameDest
  <2>2. q.args = inst.args /\ q.dest = {Top(d, x)} /\ SymsOf(inst.dest) = {x}
    BY <1>2 DEF Instruction, SymsOf
  <2> HIDE DEF q, x
  <2>3. /\ Sound(d) /\ d.code = c.code /\ d.made = Append(c.made, x)
        /\ Active(d, x) = <<NextVersion(c, x)>> \o Active(c, x)
        /\ \A y : y # x => Active(d, y) = Active(c, y)
        /\ Top(d, x) = Reg(x, NextVersion(c, x))
    BY DefineFacts
  <2> HIDE DEF d
  <2>4. e.code = Append(d.code, q) /\ e.stacks = d.stacks /\ e.made = d.made
    BY <2>1, <2>3 DEF Sound
  <2> HIDE DEF e
  <2>5. SymsOf(q.dest) = {x}
    BY <2>2, <2>3, RegFacts DEF SymsOf
  <2>6. Active(d, x) # <<>>
    BY <2>3, PushedFacts, ActiveFacts
  <2>7. \A y : HasTop(c, y) \/ y = x => HasTop(e, y)
    <3>1. \A y : Active(e, y) = Active(d, y)
      BY <2>4 DEF Active
    <3> QED BY <2>3, <2>6, <3>1 DEF HasTop
  <2>8. ToSet(Append(c.made, x)) = ToSet(c.made) \cup {x}
    <3>1. IsList(c.made)
      BY DEF Sound
    <3> DEFINE n == Len(c.made)
               a == Append(c.made, x)
    <3>2. n \in Nat /\ DOMAIN c.made = 1 .. n
      BY <3>1, ListBasics
    <3>3. IsList(a) /\ Len(a) = n + 1 /\ (\A i \in 1 .. n : a[i] = c.made[i]) /\ a[n + 1] = x
      BY <3>1, AppendList
    <3> HIDE DEF a
    <3>4. DOMAIN a = 1 .. n + 1 /\ 1 .. n + 1 = (1 .. n) \cup {n + 1}
      BY <3>2, <3>3, ListBasics
    <3> QED BY <3>2, <3>3, <3>4 DEF ToSet, a
  <2> QED BY <2>2, <2>3, <2>4, <2>5, <2>7, <2>8 DEF e
<1>3. inst.dest = {} \/ \E r : inst.dest = {r}
  BY DEF Instruction
<1> QED BY <1>1, <1>2, <1>3

(* An instruction whose names all have a version is renamed without a       *)
(* panic: it keeps its names, and its destination has a version from then   *)
(* on.                                                                      *)
LEMMA RenameInstructionNames ==
    ASSUME NEW c, Sound(c), NEW inst, Instruction(inst), \A x \in Syms(inst.args) : HasTop(c, x)
    PROVE  LET e == RenameInstruction(c, inst)
           IN  /\ e.undefined = c.undefined
               /\ \E q : /\ e.code = Append(c.code, q)
                         /\ Syms(q.args) = Syms(inst.args) /\ SymsOf(q.dest) = SymsOf(inst.dest)
               /\ \A x : HasTop(c, x) \/ x \in SymsOf(inst.dest) => HasTop(e, x)
               /\ ToSet(e.made) = ToSet(c.made) \cup SymsOf(inst.dest)
<1> DEFINE u == c.undefined \/ Dangling(c, inst.args)
           args == RenameArgs(c, inst.args)
           c1 == [c EXCEPT !.undefined = u]
           inst1 == [inst EXCEPT !.args = args]
           e == RenameInstruction(c, inst)
<1>1. e = RenameDest(c1, inst1)
  BY DEF RenameInstruction
<1>2. ~ Dangling(c, inst.args)
  BY DEF Dangling, Syms, SymsOf, RegsOf
<1>3. u = c.undefined /\ u \in BOOLEAN
  BY <1>2 DEF Sound
<1>4. Syms(args) = Syms(inst.args)
  BY RenameArgsNames
<1> HIDE DEF u, args, e
<1>5. /\ DOMAIN c1 = DOMAIN c /\ c1.undefined = u /\ c1.code = c.code /\ c1.counters = c.counters
      /\ c1.stacks = c.stacks /\ c1.made = c.made
  BY DEF Sound
<1>6. Instruction(inst1) /\ inst1.args = args /\ inst1.dest = inst.dest
  BY DEF Instruction
<1> HIDE DEF c1, inst1
<1>7. Sound(c1)
  BY <1>3, <1>5 DEF Sound
<1>8. \A x : HasTop(c1, x) <=> HasTop(c, x)
  BY <1>5 DEF HasTop, Active
<1>9. LET f == RenameDest(c1, inst1)
      IN  /\ f.undefined = c1.undefined
          /\ \E q : /\ f.code = Append(c1.code, q)
                    /\ q.args = inst1.args /\ SymsOf(q.dest) = SymsOf(inst1.dest)
          /\ \A x : HasTop(c1, x) \/ x \in SymsOf(inst1.dest) => HasTop(f, x)
          /\ ToSet(f.made) = ToSet(c1.made) \cup SymsOf(inst1.dest)
  <2>1. LET f == RenameDest(c1, inst1) IN f.undefined = c1.undefined
    BY <1>6, <1>7, RenameDestFacts
  <2>2. LET f == RenameDest(c1, inst1)
        IN  /\ \E q : /\ f.code = Append(c1.code, q)
                      /\ q.args = inst1.args /\ SymsOf(q.dest) = SymsOf(inst1.dest)
            /\ \A x : HasTop(c1, x) \/ x \in SymsOf(inst1.dest) => HasTop(f, x)
            /\ ToSet(f.made) = ToSet(c1.made) \cup SymsOf(inst1.dest)
    BY <1>6, <1>7, RenameDestNames, Zenon
  <2> QED BY <2>1, <2>2, Zenon
<1>10. /\ e.undefined = c.undefined
       /\ \E q : e.code = Append(c.code, q) /\ q.args = args /\ SymsOf(q.dest) = SymsOf(inst.dest)
  BY <1>1, <1>3, <1>5, <1>6, <1>9
<1>11. /\ \A x : HasTop(c, x) \/ x \in SymsOf(inst.dest) => HasTop(e, x)
       /\ ToSet(e.made) = ToSet(c.made) \cup SymsOf(inst.dest)
  BY <1>1, <1>5, <1>6, <1>8, <1>9
<1>12. \E q : e.code = Append(c.code, q) /\ Syms(q.args) = Syms(inst.args) /\ SymsOf(q.dest) = SymsOf(inst.dest)
  BY <1>4, <1>10
<1> QED BY <1>10, <1>11, <1>12 DEF e

(* Of a block whose every name has a version when it is used.               *)
Kept(c0, code, n, c) ==
    /\ Sound(c) /\ c.undefined = c0.undefined /\ Len(c.code) = n
    /\ \A i \in 1 .. n : Syms(c.code[i].args) = Syms(code[i].args) /\ SymsOf(c.code[i].dest) = SymsOf(code[i].dest)
    /\ \A x : HasTop(c0, x) \/ x \in DefinedBy(code, n) => HasTop(c, x)
    /\ ToSet(c.made) = DefinedBy(code, n)

(* So are the instructions of a block that reads no name without a version. *)
LEMMA RenameCodeNames ==
    ASSUME NEW c0, Sound(c0), c0.code = <<>>, c0.made = <<>>,
           NEW code, IsList(code), \A i \in DOMAIN code : Instruction(code[i]),
           NEW S, Covered(code, S), \A x \in S : HasTop(c0, x)
    PROVE  Kept(c0, code, Len(code), RenameCode(c0, code))
<1> DEFINE m == Len(code)
<1>1. m \in Nat /\ DOMAIN code = 1 .. m
  BY ListBasics
<1>2. PICK f : /\ f[0] = c0 /\ RenameCode(c0, code) = f[m]
               /\ \A n \in 1 .. m : f[n] = RenameInstruction(f[n-1], code[n])
  BY RenameCodeSteps
<1> DEFINE K == {k \in Nat : k <= m => Kept(c0, code, k, f[k])}
<1>3. 0 \in K
  <2>1. Len(<<>>) = 0 /\ ToSet(<<>>) = {} /\ 1 .. 0 = {}
    BY DEF ToSet
  <2>2. DefinedBy(code, 0) = {}
    BY DefinedByStep
  <2> QED BY <1>2, <2>1, <2>2 DEF Kept
<1>4. ASSUME NEW k \in Nat, k \in K PROVE k + 1 \in K
  <2> SUFFICES ASSUME k + 1 <= m PROVE Kept(c0, code, k + 1, f[k + 1])
    OBVIOUS
  <2> HIDE DEF m
  <2>1. k <= m /\ k + 1 \in 1 .. m /\ (k + 1) - 1 = k
    BY <1>1
  <2>2. Kept(c0, code, k, f[k])
    BY <1>4, <2>1
  <2> DEFINE inst == code[k + 1]
             c == f[k]
  <2>3. f[k + 1] = RenameInstruction(c, inst)
    BY <1>2, <2>1
  <2>4. Instruction(inst) /\ Syms(inst.args) \subseteq S \cup DefinedBy(code, k)
    BY <1>1, <2>1 DEF Covered
  <2>5. DefinedBy(code, k + 1) = DefinedBy(code, k) \cup SymsOf(inst.dest)
    BY DefinedByStep
  <2> HIDE DEF inst, c
  <2>6. \A x \in Syms(inst.args) : HasTop(c, x)
    BY <2>2, <2>4 DEF Kept, c
  <2>7. Sound(c)
    BY <2>2 DEF Kept, c
  <2> DEFINE e == RenameInstruction(c, inst)
  <2>8. /\ Sound(e) /\ e.undefined = c.undefined
        /\ \A x : HasTop(c, x) \/ x \in SymsOf(inst.dest) => HasTop(e, x)
        /\ ToSet(e.made) = ToSet(c.made) \cup SymsOf(inst.dest)
    BY <2>4, <2>6, <2>7, RenameInstructionFacts, RenameInstructionNames
  <2>9. PICK q : /\ e.code = Append(c.code, q)
                 /\ Syms(q.args) = Syms(inst.args) /\ SymsOf(q.dest) = SymsOf(inst.dest)
    BY <2>4, <2>6, <2>7, RenameInstructionNames
  <2> HIDE DEF e
  <2>10. IsList(c.code) /\ Len(c.code) = k
    BY <2>2, <2>7 DEF Kept, Sound, c
  <2>11. Len(e.code) = k + 1 /\ e.code[k + 1] = q /\ \A i \in 1 .. k : e.code[i] = c.code[i]
    BY <2>9, <2>10, AppendList
  <2>12. \A i \in 1 .. k + 1 : i \in 1 .. k \/ i = k + 1
    OBVIOUS
  <2>13. \A i \in 1 .. k + 1 : Syms(e.code[i].args) = Syms(code[i].args) /\ SymsOf(e.code[i].dest) = SymsOf(code[i].dest)
    BY <2>2, <2>9, <2>11, <2>12 DEF Kept, c, inst
  <2>14. \A x : HasTop(c0, x) \/ x \in DefinedBy(code, k + 1) => HasTop(e, x)
    BY <2>2, <2>5, <2>8 DEF Kept, c
  <2>15. e.undefined = c0.undefined /\ ToSet(e.made) = DefinedBy(code, k + 1)
    BY <2>2, <2>5, <2>8 DEF Kept, c
  <2> QED BY <2>3, <2>8, <2>11, <2>13, <2>14, <2>15 DEF Kept, e
<1>5. m \in K
  <2> HIDE DEF K, m
  <2>1. Nat \subseteq K
    BY <1>3, <1>4, Induction
  <2> QED BY <1>1, <2>1
<1> QED BY <1>1, <1>2, <1>5

-----------------------------------------------------------------------------
(* The names a block may count on: the parameters, and those defined in the *)
(* blocks that strictly dominate it.  A graph is supplied if its blocks     *)
(* read no other names before they define them.                             *)
AtEntry(b) == ParamSymbols \cup UNION {Defined(cfg.code[d]) : d \in Dominators(b) \ {b}}
Supplied ==
    \A b \in cfg.blocks :
        /\ Covered(cfg.code[b], AtEntry(b))
        /\ Syms(cfg.term[b].args) \subseteq AtEntry(b) \cup Defined(cfg.code[b])

(* It is a matter of the names, and renaming keeps them.                    *)
SameNames ==
    /\ cfg'.entry = cfg.entry /\ cfg'.blocks = cfg.blocks /\ cfg'.params = cfg.params /\ cfg'.succ = cfg.succ
    /\ \A d \in cfg.blocks :
          /\ IsList(cfg.code[d]) /\ IsList(cfg'.code[d]) /\ DOMAIN cfg'.code[d] = DOMAIN cfg.code[d]
          /\ \A i \in DOMAIN cfg.code[d] :
                /\ Syms(cfg'.code[d][i].args) = Syms(cfg.code[d][i].args)
                /\ SymsOf(cfg'.code[d][i].dest) = SymsOf(cfg.code[d][i].dest)
          /\ Syms(cfg'.term[d].args) = Syms(cfg.term[d].args)

(* The parameters, the definitions and the dominators are then as before.   *)
LEMMA SameNamesFacts ==
    ASSUME SameNames
    PROVE  /\ ParamSymbols' = ParamSymbols
           /\ \A d : Dominators(d)' = Dominators(d)
           /\ \A d \in cfg.blocks : Defined(cfg'.code[d]) = Defined(cfg.code[d])
<1>1. ParamSymbols' = ParamSymbols
  BY DEF SameNames, ParamSymbols
<1>2. \A d : Dominators(d)' = Dominators(d)
  BY SameDominators DEF SameNames
<1>3. ASSUME NEW d \in cfg.blocks PROVE Defined(cfg'.code[d]) = Defined(cfg.code[d])
  BY SameDefinitions DEF SameNames
<1> QED BY <1>1, <1>2, <1>3

(* A graph stays supplied as long as its names are the same.                *)
LEMMA SuppliedSame ==
    ASSUME SameNames, Supplied
    PROVE  Supplied'
<1>1. /\ ParamSymbols' = ParamSymbols
      /\ \A d : Dominators(d)' = Dominators(d)
      /\ \A d \in cfg.blocks : Defined(cfg'.code[d]) = Defined(cfg.code[d])
  BY SameNamesFacts
<1>2. ASSUME NEW b \in cfg.blocks PROVE AtEntry(b)' = AtEntry(b)
  <2>1. Dominators(b) \subseteq cfg.blocks
    BY DEF Dominators
  <2> QED BY <1>1, <2>1 DEF AtEntry
<1>3. ASSUME NEW b \in cfg.blocks, NEW i \in DOMAIN cfg.code[b]
      PROVE  DefinedBy(cfg'.code[b], i - 1) = DefinedBy(cfg.code[b], i - 1)
  <2>1. DOMAIN cfg.code[b] = 1 .. Len(cfg.code[b]) /\ Len(cfg.code[b]) \in Nat
    BY ListBasics DEF SameNames
  <2>2. \A j \in 1 .. i - 1 : j \in DOMAIN cfg.code[b]
    BY <2>1
  <2>3. \A j \in 1 .. i - 1 : SymsOf(cfg'.code[b][j].dest) = SymsOf(cfg.code[b][j].dest)
    BY <2>2 DEF SameNames
  <2> QED BY <2>3, SameDefinedBy
<1>4. ASSUME NEW b \in cfg.blocks
      PROVE  /\ Covered(cfg'.code[b], AtEntry(b)')
             /\ Syms(cfg'.term[b].args) \subseteq AtEntry(b)' \cup Defined(cfg'.code[b])
  <2>1. Covered(cfg.code[b], AtEntry(b)) /\ Syms(cfg.term[b].args) \subseteq AtEntry(b) \cup Defined(cfg.code[b])
    BY DEF Supplied
  <2>2. Covered(cfg'.code[b], AtEntry(b)')
    BY <1>2, <1>3, <2>1 DEF Covered, SameNames
  <2> QED BY <1>1, <1>2, <2>1, <2>2 DEF SameNames
<1>5. cfg'.blocks = cfg.blocks
  BY DEF SameNames
<1> QED BY <1>4, <1>5 DEF Supplied

(* A supplied block whose names at entry all have a version is renamed      *)
(* without a use left over, and all it defines is active after it.          *)
NamesOutcome(b, c0) ==
    /\ ~ undefined' /\ Supplied' /\ SameNames
    /\ \E made :
          /\ IsList(made) /\ ToSet(made) = Defined(cfg.code[b])
          /\ renaming' = <<[block |-> b, left |-> DomTreeChildren(b), made |-> made]>> \o
                         (IF renaming = <<>> THEN <<>> ELSE [renaming EXCEPT ![1].left = @ \ {b}])
          /\ \A x : /\ Dropped(Active(Context, x)', Count(made, x)) = Active(c0, x)
                    /\ HasTop(c0, x) \/ x \in ToSet(made) => Active(Context, x)' # <<>>

(* A block entered with a version of every name it may count on is renamed  *)
(* without a panic, and leaves a version of every name it defines.          *)
LEMMA NamesRenamed ==
    ASSUME Coded(cfg), Supplied, NEW b \in cfg.blocks,
           NEW c0, Sound(c0), c0.code = <<>>, c0.made = <<>>, ~ c0.undefined,
           \A x \in AtEntry(b) : HasTop(c0, x), RenameBlock(b, c0)
    PROVE  NamesOutcome(b, c0)
<1> DEFINE code == cfg.code[b]
<1>1. IsList(code) /\ \A i \in DOMAIN code : Instruction(code[i])
  BY DEF Coded
<1>2. PICK c : c = RenameCode(c0, code)
  OBVIOUS
<1>3. Covered(code, AtEntry(b)) /\ Syms(cfg.term[b].args) \subseteq AtEntry(b) \cup Defined(code)
  BY DEF Supplied
<1>4. Kept(c0, code, Len(code), c)
  BY <1>1, <1>2, <1>3, RenameCodeNames
<1>5. Defined(code) = DefinedBy(code, Len(code)) /\ DOMAIN code = 1 .. Len(code) /\ Len(code) \in Nat
  BY <1>1, DefinedFacts, ListBasics
<1>6. ~ Dangling(c, cfg.term[b].args)
  <2>1. \A x \in Syms(cfg.term[b].args) : HasTop(c, x)
    BY <1>3, <1>4, <1>5 DEF Kept
  <2> QED BY <2>1 DEF Dangling, Syms, SymsOf, RegsOf
<1>7. /\ counters' = c.counters /\ stacks' = c.stacks /\ undefined' = (c.undefined \/ Dangling(c, cfg.term[b].args))
      /\ renaming' = <<[block |-> b, left |-> DomTreeChildren(b), made |-> c.made]>> \o
                     (IF renaming = <<>> THEN <<>> ELSE [renaming EXCEPT ![1].left = @ \ {b}])
  BY <1>2 DEF RenameBlock
<1>8. ~ undefined'
  BY <1>4, <1>6, <1>7 DEF Kept
<1>9. Progress(c0, code, Len(code), c) /\ RenamedInto(b, c)
  BY <1>2, <1>8, BlockRenamed
<1>10. Sound(c) /\ \A x : Dropped(Active(c, x), Count(c.made, x)) = Active(c0, x)
  BY <1>9 DEF Progress
<1>11. IsList(c.made) /\ IsList(c.code) /\ DOMAIN c.code = DOMAIN code
  <2>1. IsList(c.made) /\ IsList(c.code) /\ Len(c.code) = Len(code)
    BY <1>9, <1>10 DEF Progress, Sound
  <2> QED BY <1>5, <2>1, ListBasics
<1>12. \A x : Active(Context, x)' = Active(c, x)
  <2>1. Context'.stacks = c.stacks
    BY <1>7 DEF Context
  <2> QED BY <2>1 DEF Active
<1>13. ASSUME NEW d \in cfg.blocks
       PROVE  /\ IsList(cfg.code[d]) /\ IsList(cfg'.code[d]) /\ DOMAIN cfg'.code[d] = DOMAIN cfg.code[d]
              /\ \A i \in DOMAIN cfg.code[d] :
                    /\ Syms(cfg'.code[d][i].args) = Syms(cfg.code[d][i].args)
                    /\ SymsOf(cfg'.code[d][i].dest) = SymsOf(cfg.code[d][i].dest)
              /\ Syms(cfg'.term[d].args) = Syms(cfg.term[d].args)
  <2> DEFINE before == IF d = b THEN c.code ELSE cfg.code[d]
  <2>1. /\ DOMAIN cfg'.code[d] = DOMAIN before
        /\ \A i \in DOMAIN before :
              cfg'.code[d][i].dest = before[i].dest /\ cfg'.code[d][i].args = before[i].args
    BY <1>9 DEF RenamedInto
  <2>2. /\ DOMAIN before = DOMAIN cfg.code[d]
        /\ \A i \in DOMAIN before : /\ Syms(before[i].args) = Syms(cfg.code[d][i].args)
                                    /\ SymsOf(before[i].dest) = SymsOf(cfg.code[d][i].dest)
    BY <1>4, <1>5, <1>11 DEF Kept
  <2> HIDE DEF before
  <2>3. IsList(cfg.code[d]) /\ IsList(cfg'.code[d])
    <3>1. Coded(cfg') /\ cfg'.blocks = cfg.blocks
      BY <1>9 DEF RenamedInto, Coded
    <3> QED BY <3>1 DEF Coded
  <2>4. Syms(cfg'.term[d].args) = Syms(cfg.term[d].args)
    BY <1>9, RenameArgsNames DEF RenamedInto
  <2> QED BY <2>1, <2>2, <2>3, <2>4
<1>14. SameNames
  BY <1>9, <1>13 DEF SameNames, RenamedInto
<1>15. Supplied'
  BY <1>14, SuppliedSame
<1>16. ASSUME NEW x
       PROVE  /\ Dropped(Active(Context, x)', Count(c.made, x)) = Active(c0, x)
              /\ HasTop(c0, x) \/ x \in ToSet(c.made) => Active(Context, x)' # <<>>
  BY <1>4, <1>10, <1>12 DEF Kept, HasTop
<1>17. ToSet(c.made) = Defined(code)
  BY <1>4, <1>5 DEF Kept
<1> QED BY <1>7, <1>8, <1>11, <1>14, <1>15, <1>16, <1>17 DEF NamesOutcome

-----------------------------------------------------------------------------
(* The version stack of x at each frame of q, top being the one at hand: it *)
(* is not empty as long as a frame below has made a version of x, or the    *)
(* parameters have.                                                         *)
Stacked(q, x, top, P) ==
    \E lev :
       /\ lev[1] = top
       /\ \A i \in 2 .. Len(q) : lev[i] = Dropped(lev[i-1], Count(q[i-1].made, x))
       /\ \A i \in 1 .. Len(q) : x \in P \/ (\E j \in i .. Len(q) : x \in ToSet(q[j].made)) => lev[i] # <<>>

(* Entering a block puts a frame on top of those there are.                 *)
LEMMA StackedPush ==
    ASSUME NEW q, NEW n \in Nat, n >= 1, Len(q) = n, NEW r, Len(r) = n + 1,
           \A k \in 1 .. n : r[k + 1].made = q[k].made,
           NEW x, NEW top, NEW P, Stacked(q, x, top, P),
           NEW t, Dropped(t, Count(r[1].made, x)) = top,
           top # <<>> \/ x \in ToSet(r[1].made) => t # <<>>
    PROVE  Stacked(r, x, t, P)
<1>1. PICK old :
         /\ old[1] = top
         /\ \A i \in 2 .. n : old[i] = Dropped(old[i-1], Count(q[i-1].made, x))
         /\ \A i \in 1 .. n : x \in P \/ (\E j \in i .. n : x \in ToSet(q[j].made)) => old[i] # <<>>
  BY DEF Stacked
<1>2. PICK lev : lev = [i \in 1 .. n + 1 |-> IF i = 1 THEN t ELSE old[i - 1]]
  OBVIOUS
<1>3. lev[1] = t /\ \A k \in 1 .. n : lev[k + 1] = old[k]
  <2>1. 1 \in 1 .. n + 1 /\ \A k \in 1 .. n : k + 1 \in 1 .. n + 1 /\ k + 1 # 1 /\ (k + 1) - 1 = k
    OBVIOUS
  <2> QED BY <1>2, <2>1
<1>4. ASSUME NEW i \in 2 .. n + 1 PROVE lev[i] = Dropped(lev[i-1], Count(r[i-1].made, x))
  <2>1. PICK k \in 1 .. n : k = i - 1 /\ i = k + 1
    <3>1. i - 1 \in 1 .. n /\ i = (i - 1) + 1
      OBVIOUS
    <3> QED BY <3>1
  <2>2. CASE k = 1
    BY <1>1, <1>3, <2>1, <2>2
  <2>3. CASE k # 1
    <3>1. k \in 2 .. n /\ k - 1 \in 1 .. n /\ (k - 1) + 1 = k
      BY <2>3
    <3>2. old[k] = Dropped(old[k-1], Count(q[k-1].made, x))
      BY <1>1, <3>1
    <3>3. lev[i] = old[k] /\ lev[k] = old[k-1] /\ r[k].made = q[k-1].made
      BY <1>3, <2>1, <3>1
    <3> QED BY <2>1, <3>2, <3>3
  <2> QED BY <2>2, <2>3
<1>5. ASSUME NEW i \in 1 .. n + 1, x \in P \/ \E j \in i .. n + 1 : x \in ToSet(r[j].made)
      PROVE  lev[i] # <<>>
  <2>1. ASSUME NEW k \in 1 .. n, x \in P \/ \E j \in k + 1 .. n + 1 : x \in ToSet(r[j].made)
        PROVE  old[k] # <<>>
    <3>1. ASSUME NEW j \in k + 1 .. n + 1 PROVE j - 1 \in k .. n /\ r[j].made = q[j-1].made
      <4>1. j - 1 \in k .. n /\ j - 1 \in 1 .. n /\ (j - 1) + 1 = j
        OBVIOUS
      <4> QED BY <4>1
    <3>2. x \in P \/ \E j \in k .. n : x \in ToSet(q[j].made)
      BY <2>1, <3>1
    <3> QED BY <1>1, <3>2
  <2>2. CASE i = 1
    <3>1. x \in P \/ x \in ToSet(r[1].made) \/ \E j \in 1 + 1 .. n + 1 : x \in ToSet(r[j].made)
      <4>1. \A j \in 1 .. n + 1 : j = 1 \/ j \in 1 + 1 .. n + 1
        OBVIOUS
      <4> QED BY <1>5, <2>2, <4>1
    <3>2. 1 \in 1 .. n
      OBVIOUS
    <3> QED BY <1>1, <1>3, <2>1, <2>2, <3>1, <3>2
  <2>3. CASE i # 1
    <3>1. i - 1 \in 1 .. n /\ (i - 1) + 1 = i
      BY <2>3
    <3>2. PICK k \in 1 .. n : i = k + 1
      BY <3>1
    <3>3. x \in P \/ \E j \in k + 1 .. n + 1 : x \in ToSet(r[j].made)
      BY <1>5, <3>2
    <3>4. old[k] # <<>> /\ lev[k + 1] = old[k]
      BY <1>3, <2>1, <3>3
    <3> QED BY <3>2, <3>4
  <2> QED BY <2>2, <2>3
<1> QED BY <1>3, <1>4, <1>5 DEF Stacked

(* Leaving a block drops the versions its frame has made.                   *)
LEMMA StackedPop ==
    ASSUME NEW q, NEW n \in Nat, n >= 2, Len(q) = n, NEW r, Len(r) = n - 1,
           \A k \in 1 .. n - 1 : r[k].made = q[k + 1].made,
           NEW x, NEW top, NEW P, Stacked(q, x, top, P)
    PROVE  Stacked(r, x, Dropped(top, Count(q[1].made, x)), P)
<1>1. PICK old :
         /\ old[1] = top
         /\ \A i \in 2 .. n : old[i] = Dropped(old[i-1], Count(q[i-1].made, x))
         /\ \A i \in 1 .. n : x \in P \/ (\E j \in i .. n : x \in ToSet(q[j].made)) => old[i] # <<>>
  BY DEF Stacked
<1>2. PICK lev : lev = [i \in 1 .. n - 1 |-> old[i + 1]]
  OBVIOUS
<1>3. \A i \in 1 .. n - 1 : lev[i] = old[i + 1]
  BY <1>2
<1>4. lev[1] = Dropped(top, Count(q[1].made, x))
  <2>1. 1 \in 1 .. n - 1 /\ 2 \in 2 .. n /\ 2 - 1 = 1 /\ 1 + 1 = 2
    OBVIOUS
  <2> QED BY <1>1, <1>3, <2>1
<1>5. ASSUME NEW i \in 2 .. n - 1 PROVE lev[i] = Dropped(lev[i-1], Count(r[i-1].made, x))
  <2>1. i + 1 \in 2 .. n /\ i - 1 \in 1 .. n - 1 /\ (i + 1) - 1 = i /\ (i - 1) + 1 = i /\ i \in 1 .. n - 1
    OBVIOUS
  <2>2. old[i+1] = Dropped(old[i], Count(q[i].made, x))
    BY <1>1, <2>1
  <2>3. lev[i] = old[i+1] /\ lev[i-1] = old[i] /\ r[i-1].made = q[i].made
    BY <1>3, <2>1
  <2> QED BY <2>2, <2>3
<1>6. ASSUME NEW i \in 1 .. n - 1, x \in P \/ \E j \in i .. n - 1 : x \in ToSet(r[j].made)
      PROVE  lev[i] # <<>>
  <2>1. i + 1 \in 1 .. n
    OBVIOUS
  <2>2. ASSUME NEW j \in i .. n - 1 PROVE j + 1 \in i + 1 .. n /\ r[j].made = q[j+1].made
    <3>1. j + 1 \in i + 1 .. n /\ j \in 1 .. n - 1
      OBVIOUS
    <3> QED BY <3>1
  <2>3. x \in P \/ \E j \in i + 1 .. n : x \in ToSet(q[j].made)
    BY <1>6, <2>2
  <2> QED BY <1>1, <1>3, <2>1, <2>3
<1> QED BY <1>4, <1>5, <1>6 DEF Stacked

(* The frames cover the tree above the block at hand: its dominators are on *)
(* them, each has made what its block defines, and what is made is active.  *)
Covering ==
    /\ \A x : Stacked(renaming, x, Active(Context, x), ParamSymbols)
    /\ \A i \in 1 .. Len(renaming) :
          /\ Defined(cfg.code[renaming[i].block]) \subseteq ToSet(renaming[i].made)
          /\ Dominators(renaming[i].block) \subseteq {renaming[j].block : j \in i .. Len(renaming)}

(* The frames after a block is entered.                                     *)
LEMMA PushedBlock ==
    ASSUME IsList(renaming), renaming # <<>>, DOMAIN renaming[1] = {"block", "left", "made"},
           NEW b, NEW left, NEW made,
           renaming' = <<[block |-> b, left |-> left, made |-> made]>> \o [renaming EXCEPT ![1].left = @ \ {b}]
    PROVE  /\ Len(renaming') = Len(renaming) + 1 /\ renaming'[1].block = b /\ renaming'[1].made = made
           /\ \A k \in 1 .. Len(renaming) :
                 renaming'[k + 1].block = renaming[k].block /\ renaming'[k + 1].made = renaming[k].made
           /\ renaming'[1].left = left
           /\ \A k \in 1 .. Len(renaming) : renaming[k].left \ {b} \subseteq renaming'[k + 1].left
<1> DEFINE n == Len(renaming)
           f == [block |-> b, left |-> left, made |-> made]
           e == [renaming[1] EXCEPT !.left = @ \ {b}]
           t == [renaming EXCEPT ![1] = e]
<1>1. n \in Nat /\ n >= 1 /\ DOMAIN renaming = 1 .. n
  BY ListBasics, TailList
<1>2. renaming' = <<f>> \o t
  OBVIOUS
<1>3. /\ e.block = renaming[1].block /\ e.made = renaming[1].made /\ f.block = b /\ f.made = made
      /\ e.left = renaming[1].left \ {b} /\ f.left = left
  OBVIOUS
<1> HIDE DEF n, e, f
<1>4. t[1] = e /\ (\A i \in 2 .. n : t[i] = renaming[i]) /\ t = [i \in 1 .. n |-> t[i]]
  <2>1. 1 \in 1 .. n /\ \A i \in 2 .. n : i \in 1 .. n /\ i # 1
    BY <1>1
  <2> QED BY <1>1, <2>1
<1> HIDE DEF t
<1>5. IsList(t) /\ Len(t) = n
  BY <1>1, <1>4, ListByIndex
<1>6. Len(renaming') = n + 1 /\ renaming'[1] = f /\ \A k \in 1 .. n : renaming'[k + 1] = t[k]
  BY <1>2, <1>5, PushFrame
<1>7. \A k \in 1 .. n : /\ t[k].block = renaming[k].block /\ t[k].made = renaming[k].made
                       /\ renaming[k].left \ {b} \subseteq t[k].left
  <2>1. \A k \in 1 .. n : k = 1 \/ k \in 2 .. n
    BY <1>1
  <2> QED BY <1>3, <1>4, <2>1
<1> QED BY <1>3, <1>6, <1>7 DEF n

(* Every name a child of the block at hand may count on is active.          *)
LEMMA AtEntryActive ==
    ASSUME Analysed, Walk, Covering, NEW b \in renaming[1].left
    PROVE  /\ b \in cfg.blocks /\ Dominators(b) = {b} \cup Dominators(renaming[1].block)
           /\ \A x \in AtEntry(b) : HasTop(Context, x)
<1>1. PICK D : Above(D) /\ Framed(D)
  BY DEF Walk
<1> DEFINE n == Len(renaming)
           p == renaming[1].block
<1>2. n \in Nat /\ 1 \in 1 .. n
  <2>1. IsList(renaming) /\ renaming # <<>>
    BY <1>1 DEF Framed
  <2> QED BY <2>1, ListBasics, TailList
<1>3. p \in D /\ b \in DomTreeChildren(p) /\ b \notin D
  BY <1>1, <1>2 DEF Framed
<1>4. b \in cfg.blocks /\ idom[b] = p /\ b # cfg.entry /\ b \notin Dominators(p)
  <2>1. b \in DOMAIN idom /\ idom[b] = p /\ b # p /\ DOMAIN idom = cfg.blocks /\ p \in cfg.blocks
    BY <1>1, <1>3 DEF DomTreeChildren, Above, Analysed, Fixed
  <2>2. idom[cfg.entry] = cfg.entry
    BY DEF Analysed, Tree
  <2>3. b \notin Dominators(p)
    BY <1>1, <1>3 DEF Above
  <2> QED BY <2>1, <2>2, <2>3
<1>5. Dominators(b) = {b} \cup Dominators(p)
  BY <1>4, DominatorsClimb
<1>6. ASSUME NEW x, x \in ParamSymbols \/ \E j \in 1 .. n : x \in ToSet(renaming[j].made)
      PROVE  HasTop(Context, x)
  <2>1. Stacked(renaming, x, Active(Context, x), ParamSymbols)
    BY DEF Covering
  <2>2. PICK lev : /\ lev[1] = Active(Context, x)
                   /\ \A i \in 1 .. n : x \in ParamSymbols \/ (\E j \in i .. n : x \in ToSet(renaming[j].made)) => lev[i] # <<>>
    BY <2>1 DEF Stacked
  <2>3. lev[1] # <<>>
    BY <1>2, <1>6, <2>2
  <2> QED BY <2>2, <2>3 DEF HasTop
<1>7. ASSUME NEW d \in Dominators(b) \ {b} PROVE \E j \in 1 .. n : Defined(cfg.code[d]) \subseteq ToSet(renaming[j].made)
  <2>1. Dominators(p) \subseteq {renaming[j].block : j \in 1 .. n}
    BY <1>2 DEF Covering
  <2> QED BY <1>5, <2>1 DEF Covering
<1>8. ASSUME NEW x \in AtEntry(b) PROVE HasTop(Context, x)
  <2>1. CASE x \in ParamSymbols
    BY <1>6, <2>1
  <2>2. CASE \E d \in Dominators(b) \ {b} : x \in Defined(cfg.code[d])
    BY <1>6, <1>7, <2>2
  <2> QED BY <2>1, <2>2 DEF AtEntry
<1> QED BY <1>4, <1>5, <1>8

(* The context the entry is renamed in: the parameters have a version.      *)
LEMMA EntryContext ==
    ASSUME Coded(cfg), counters = <<>>, stacks = <<>>, undefined = FALSE,
           NEW c0, c0 = [DefineAll(cfg.params) EXCEPT !.made = <<>>]
    PROVE  /\ Sound(c0) /\ c0.code = <<>> /\ c0.made = <<>> /\ ~ c0.undefined
           /\ \A x \in ParamSymbols : HasTop(c0, x)
<1> DEFINE c == DefineAll(cfg.params)
<1>1. /\ Sound(c) /\ c.code = <<>> /\ c.undefined = FALSE
      /\ \A x : Reg(x, 0) \in ToSet(cfg.params) => HasTop(c, x)
  BY DefineAllFacts DEF Coded
<1> HIDE DEF c
<1>2. /\ DOMAIN c0 = DOMAIN c /\ c0.code = c.code /\ c0.counters = c.counters /\ c0.stacks = c.stacks
      /\ c0.made = <<>> /\ c0.undefined = c.undefined
  BY <1>1 DEF Sound, c
<1>3. IsList(<<>>)
  BY DEF IsList, ToSet
<1>4. Sound(c0)
  BY <1>1, <1>2, <1>3 DEF Sound
<1>5. \A x : HasTop(c0, x) <=> HasTop(c, x)
  BY <1>2 DEF HasTop, Active
<1>6. ASSUME NEW x \in ParamSymbols PROVE Reg(x, 0) \in ToSet(cfg.params)
  <2>1. PICK r \in ToSet(cfg.params) : x = r.sym
    BY DEF ParamSymbols
  <2>2. PICK y : r = Reg(y, 0)
    BY <2>1 DEF Coded, ParamList, ToSet
  <2> QED BY <2>1, <2>2, RegFacts
<1> QED BY <1>1, <1>2, <1>4, <1>5, <1>6

(* The entry is renamed without a panic, and its frame covers its names.    *)
LEMMA CoveringStarts ==
    ASSUME Analysed, Coded(cfg), Supplied, counters = <<>>, stacks = <<>>, undefined = FALSE,
           renaming = <<>>, RenameEntry
    PROVE  ~ undefined' /\ Supplied' /\ Covering'
<1>1. PICK c0, b : c0 = [DefineAll(cfg.params) EXCEPT !.made = <<>>] /\ b = cfg.entry
  OBVIOUS
<1>2. RenameBlock(b, c0)
  BY <1>1 DEF RenameEntry
<1>3. b \in cfg.blocks /\ Dominators(b) = {b}
  BY <1>1, DominatorsClimb DEF Analysed, Ready, WellFormed
<1>4. /\ Sound(c0) /\ c0.code = <<>> /\ c0.made = <<>> /\ ~ c0.undefined
      /\ \A x \in ParamSymbols : HasTop(c0, x)
  BY <1>1, EntryContext
<1>5. \A x \in AtEntry(b) : HasTop(c0, x)
  BY <1>3, <1>4 DEF AtEntry
<1>6. NamesOutcome(b, c0)
  BY <1>2, <1>3, <1>4, <1>5, NamesRenamed
<1>7. PICK made :
         /\ IsList(made) /\ ToSet(made) = Defined(cfg.code[b])
         /\ renaming' = <<[block |-> b, left |-> DomTreeChildren(b), made |-> made]>> \o
                        (IF renaming = <<>> THEN <<>> ELSE [renaming EXCEPT ![1].left = @ \ {b}])
         /\ \A x : HasTop(c0, x) \/ x \in ToSet(made) => Active(Context, x)' # <<>>
  BY <1>6 DEF NamesOutcome
<1>8. PICK f : f = [block |-> b, left |-> DomTreeChildren(b), made |-> made]
  OBVIOUS
<1>9. f.block = b /\ f.made = made /\ renaming' = <<f>> \o <<>>
  BY <1>7, <1>8
<1>10. Len(renaming') = 1 /\ renaming'[1] = f
  BY <1>9
<1>11. \A i : i \in 1 .. 1 <=> i = 1
  OBVIOUS
<1>12. /\ SameNames /\ ParamSymbols' = ParamSymbols /\ \A d : Dominators(d)' = Dominators(d)
       /\ \A d \in cfg.blocks : Defined(cfg'.code[d]) = Defined(cfg.code[d])
  BY <1>6, SameNamesFacts DEF NamesOutcome
<1>13. ASSUME NEW x PROVE Stacked(renaming', x, Active(Context, x)', ParamSymbols)
  <2> DEFINE lev == [i \in 1 .. 1 |-> Active(Context, x)']
  <2>1. lev[1] = Active(Context, x)'
    OBVIOUS
  <2> HIDE DEF lev
  <2>2. \A i \in 2 .. Len(renaming') : FALSE
    BY <1>10
  <2>3. \A i \in 1 .. Len(renaming') :
           x \in ParamSymbols \/ (\E j \in i .. Len(renaming') : x \in ToSet(renaming'[j].made)) => lev[i] # <<>>
    BY <1>4, <1>7, <1>9, <1>10, <1>11, <2>1
  <2> QED BY <2>1, <2>2, <2>3 DEF Stacked
<1>14. ASSUME NEW i \in 1 .. Len(renaming')
       PROVE  /\ Defined(cfg'.code[renaming'[i].block]) \subseteq ToSet(renaming'[i].made)
              /\ Dominators(renaming[i].block)' \subseteq {renaming'[j].block : j \in i .. Len(renaming')}
  <2>1. i = 1 /\ renaming'[i] = f /\ Len(renaming') = 1
    BY <1>10, <1>11
  <2>2. Defined(cfg'.code[b]) = ToSet(made)
    BY <1>3, <1>7, <1>12
  <2>3. Dominators(renaming[i].block)' = {b}
    BY <1>3, <1>9, <1>12, <2>1
  <2>4. {renaming'[j].block : j \in i .. Len(renaming')} = {b}
    BY <1>9, <1>10, <1>11, <2>1
  <2> QED BY <1>9, <2>1, <2>2, <2>3, <2>4
<1>15. Covering'
  BY <1>12, <1>13, <1>14 DEF Covering
<1> QED BY <1>6, <1>15 DEF NamesOutcome

(* So is a child of the block on top.                                       *)
LEMMA CoveringGoesOn ==
    ASSUME Analysed, Walk, Supplied, Covering, RenameChild
    PROVE  ~ undefined' /\ Supplied' /\ Covering'
<1>1. PICK D : Above(D) /\ Framed(D)
  BY DEF Walk
<1>2. PICK b \in renaming[1].left : RenameBlock(b, Context)
  BY DEF RenameChild
<1>3. PICK c0 : c0 = Context
  OBVIOUS
<1> DEFINE n == Len(renaming)
           p == renaming[1].block
<1>4. /\ n \in Nat /\ n >= 1 /\ 1 \in 1 .. n /\ IsList(renaming) /\ renaming # <<>>
      /\ DOMAIN renaming[1] = {"block", "left", "made"}
  <2>1. IsList(renaming) /\ renaming # <<>>
    BY <1>1 DEF Framed
  <2>2. n \in Nat /\ n >= 1 /\ 1 \in 1 .. n
    BY <2>1, ListBasics, TailList
  <2> QED BY <1>1, <2>1, <2>2 DEF Framed
<1>5. b \in cfg.blocks /\ Dominators(b) = {b} \cup Dominators(p) /\ \A x \in AtEntry(b) : HasTop(c0, x)
  BY <1>3, AtEntryActive
<1>6. NamesOutcome(b, c0)
  <2>1. Context.code = <<>> /\ Context.made = <<>> /\ Sound(Context) /\ Coded(cfg) /\ Context.undefined = undefined
    BY DEF Context, Walk
  <2>2. ~ undefined
    BY DEF RenameChild
  <2> QED BY <1>2, <1>3, <1>5, <2>1, <2>2, NamesRenamed
<1>7. PICK made :
         /\ IsList(made) /\ ToSet(made) = Defined(cfg.code[b])
         /\ renaming' = <<[block |-> b, left |-> DomTreeChildren(b), made |-> made]>> \o
                        (IF renaming = <<>> THEN <<>> ELSE [renaming EXCEPT ![1].left = @ \ {b}])
         /\ \A x : /\ Dropped(Active(Context, x)', Count(made, x)) = Active(c0, x)
                   /\ HasTop(c0, x) \/ x \in ToSet(made) => Active(Context, x)' # <<>>
  BY <1>6 DEF NamesOutcome
<1>8. /\ Len(renaming') = n + 1 /\ renaming'[1].block = b /\ renaming'[1].made = made
      /\ \A k \in 1 .. n : renaming'[k + 1].block = renaming[k].block /\ renaming'[k + 1].made = renaming[k].made
  BY <1>4, <1>7, PushedBlock
<1> HIDE DEF n, p
<1>9. /\ SameNames /\ ParamSymbols' = ParamSymbols /\ \A d : Dominators(d)' = Dominators(d)
      /\ \A d \in cfg.blocks : Defined(cfg'.code[d]) = Defined(cfg.code[d])
  BY <1>6, SameNamesFacts DEF NamesOutcome
<1>10. ASSUME NEW x PROVE Stacked(renaming', x, Active(Context, x)', ParamSymbols)
  <2>1. Stacked(renaming, x, Active(c0, x), ParamSymbols)
    BY <1>3 DEF Covering
  <2>2. PICK t : t = Active(Context, x)'
    OBVIOUS
  <2>3. Dropped(t, Count(renaming'[1].made, x)) = Active(c0, x)
    BY <1>7, <1>8, <2>2
  <2>4. Active(c0, x) # <<>> \/ x \in ToSet(renaming'[1].made) => t # <<>>
    BY <1>7, <1>8, <2>2 DEF HasTop
  <2>5. Stacked(renaming', x, t, ParamSymbols)
    BY <1>4, <1>8, <2>1, <2>3, <2>4, StackedPush DEF n
  <2> QED BY <2>2, <2>5
<1>11. \A k \in 1 .. n : renaming[k].block \in cfg.blocks
  BY <1>1 DEF Framed, Above, n
<1>12. \A i \in 1 .. n + 1 : i = 1 \/ \E k \in 1 .. n : i = k + 1
  <2> SUFFICES ASSUME NEW i \in 1 .. n + 1, i # 1 PROVE i - 1 \in 1 .. n /\ i = (i - 1) + 1
    OBVIOUS
  <2> QED BY <1>4
<1>13. ASSUME NEW k \in 1 .. n PROVE {renaming[j].block : j \in k .. n} \subseteq {renaming'[j].block : j \in k + 1 .. n + 1}
  <2>1. \A j \in k .. n : j \in 1 .. n /\ j + 1 \in k + 1 .. n + 1
    BY <1>4
  <2> QED BY <1>8, <2>1
<1>14. ASSUME NEW i \in 1 .. n + 1
       PROVE  /\ Defined(cfg'.code[renaming'[i].block]) \subseteq ToSet(renaming'[i].made)
              /\ \A d : d = renaming'[i].block => Dominators(d) \subseteq {renaming'[j].block : j \in i .. n + 1}
  <2>1. CASE i = 1
    <3>1. Defined(cfg'.code[b]) = ToSet(made)
      BY <1>5, <1>7, <1>9
    <3>2. Dominators(p) \subseteq {renaming[j].block : j \in 1 .. n}
      BY <1>4 DEF Covering, n, p
    <3>3. \A j \in 2 .. n + 1 : j \in 1 .. n + 1
      BY <1>4
    <3>4. {renaming[j].block : j \in 1 .. n} \subseteq {renaming'[j].block : j \in 1 + 1 .. n + 1}
      BY <1>4, <1>13
    <3>5. Dominators(p) \subseteq {renaming'[j].block : j \in 1 .. n + 1} /\ b \in {renaming'[j].block : j \in 1 .. n + 1}
      <4>1. 1 \in 1 .. n + 1 /\ \A j \in 1 + 1 .. n + 1 : j \in 1 .. n + 1
        BY <1>4
      <4> QED BY <1>8, <3>2, <3>4, <4>1
    <3> QED BY <1>5, <1>8, <2>1, <3>1, <3>5
  <2>2. ASSUME NEW k \in 1 .. n, i = k + 1
        PROVE  /\ Defined(cfg'.code[renaming'[i].block]) \subseteq ToSet(renaming'[i].made)
               /\ \A d : d = renaming'[i].block => Dominators(d) \subseteq {renaming'[j].block : j \in i .. n + 1}
    <3>1. renaming'[i].block = renaming[k].block /\ renaming'[i].made = renaming[k].made
      BY <1>8, <2>2
    <3>2. /\ Defined(cfg.code[renaming[k].block]) \subseteq ToSet(renaming[k].made)
          /\ Dominators(renaming[k].block) \subseteq {renaming[j].block : j \in k .. n}
      BY DEF Covering, n
    <3> QED BY <1>9, <1>11, <1>13, <2>2, <3>1, <3>2
  <2> QED BY <1>12, <2>1, <2>2
<1>15. Covering'
  <2>1. \A i \in 1 .. Len(renaming') :
           /\ Defined(cfg'.code[renaming'[i].block]) \subseteq ToSet(renaming'[i].made)
           /\ Dominators(renaming[i].block)' \subseteq {renaming'[j].block : j \in i .. Len(renaming')}
    BY <1>8, <1>9, <1>14
  <2> QED BY <1>9, <1>10, <2>1 DEF Covering
<1> QED BY <1>6, <1>15 DEF NamesOutcome

(* Leaving a block keeps the names of the frames below.                     *)
LEMMA CoveringLeaves ==
    ASSUME Analysed, Walk, Supplied, Covering, LeaveRenamed
    PROVE  ~ undefined' /\ (Tail(renaming) # <<>> => Supplied' /\ Covering')
<1>1. PICK D : Above(D) /\ Framed(D)
  BY DEF Walk
<1> DEFINE n == Len(renaming)
<1>2. /\ n \in Nat /\ n >= 1 /\ 1 \in 1 .. n
      /\ IsList(Tail(renaming)) /\ Len(Tail(renaming)) = n - 1
      /\ \A i \in 1 .. n - 1 : Tail(renaming)[i] = renaming[i + 1]
  <2>1. IsList(renaming) /\ renaming # <<>>
    BY <1>1 DEF Framed
  <2> QED BY <2>1, ListBasics, TailList
<1>3. /\ cfg' = cfg /\ undefined' = undefined /\ ~ undefined
      /\ stacks' = Pop(renaming[1].made) /\ renaming' = Tail(renaming)
  BY DEF LeaveRenamed, dominance, fixpoint
<1> SUFFICES ASSUME Tail(renaming) # <<>> PROVE Supplied' /\ Covering'
  BY <1>3
<1>4. n >= 2
  <2>1. Len(Tail(renaming)) >= 1
    BY <1>2, TailList
  <2> QED BY <1>2, <2>1
<1>5. Supplied' /\ SameNames
  <2>1. SameNames
    BY <1>3 DEF SameNames, Walk, Coded
  <2> QED BY <2>1, SuppliedSame
<1>6. ParamSymbols' = ParamSymbols /\ \A d : Dominators(d)' = Dominators(d)
  BY <1>5, SameNamesFacts
<1>7. ASSUME NEW x PROVE Active(Context, x)' = Dropped(Active(Context, x), Count(renaming[1].made, x))
  <2>1. Count(renaming[1].made, x) \in Nat
    BY <1>1, <1>2, CountAppend DEF Framed
  <2>2. /\ DOMAIN stacks' = DOMAIN stacks
        /\ x \in DOMAIN stacks => stacks'[x] = Dropped(stacks[x], Count(renaming[1].made, x))
    BY <1>3 DEF Pop, Count, Dropped
  <2>3. \A j \in Nat : Dropped(<<>>, j) = <<>>
    BY DEF Dropped
  <2>4. Context.stacks = stacks /\ Context'.stacks = stacks'
    BY DEF Context
  <2>5. Active(Context, x)' = Active(Context', x)
    BY DEF Active
  <2> QED BY <2>1, <2>2, <2>3, <2>4, <2>5 DEF Active
<1>8. \A k \in 1 .. n - 1 : renaming'[k] = renaming[k + 1]
  BY <1>2, <1>3
<1> HIDE DEF n
<1>9. ASSUME NEW x PROVE Stacked(renaming', x, Active(Context, x)', ParamSymbols)
  <2>1. PICK top : top = Active(Context, x)
    OBVIOUS
  <2>2. Stacked(renaming, x, top, ParamSymbols)
    BY <2>1 DEF Covering
  <2>3. Len(renaming') = n - 1 /\ Len(renaming) = n
    BY <1>2, <1>3 DEF n
  <2>4. Stacked(renaming', x, Dropped(top, Count(renaming[1].made, x)), ParamSymbols)
    BY <1>2, <1>4, <1>8, <2>2, <2>3, StackedPop
  <2> QED BY <1>7, <2>1, <2>4
<1>10. ASSUME NEW k \in 1 .. n - 1
       PROVE  /\ Defined(cfg'.code[renaming'[k].block]) \subseteq ToSet(renaming'[k].made)
              /\ \A d : d = renaming'[k].block => Dominators(d) \subseteq {renaming'[j].block : j \in k .. n - 1}
  <2>1. k + 1 \in 1 .. n /\ \A i \in k + 1 .. n : i - 1 \in k .. n - 1 /\ i - 1 \in 1 .. n - 1 /\ i = (i - 1) + 1
    BY <1>2
  <2>2. /\ Defined(cfg.code[renaming[k + 1].block]) \subseteq ToSet(renaming[k + 1].made)
        /\ Dominators(renaming[k + 1].block) \subseteq {renaming[j].block : j \in k + 1 .. n}
    BY <2>1 DEF Covering, n
  <2>3. {renaming[j].block : j \in k + 1 .. n} \subseteq {renaming'[j].block : j \in k .. n - 1}
    BY <1>8, <2>1
  <2> QED BY <1>3, <1>8, <2>2, <2>3
<1>11. Covering'
  <2>1. Len(renaming') = n - 1
    BY <1>2, <1>3
  <2>2. \A i \in 1 .. Len(renaming') :
           /\ Defined(cfg'.code[renaming'[i].block]) \subseteq ToSet(renaming'[i].made)
           /\ Dominators(renaming[i].block)' \subseteq {renaming'[j].block : j \in i .. Len(renaming')}
    BY <1>6, <1>10, <2>1
  <2> QED BY <1>6, <1>9, <2>2 DEF Covering
<1> QED BY <1>5, <1>11

-----------------------------------------------------------------------------
(* The names with a version at the end of block p, and whether the walk is  *)
(* through with p: no block still to enter dominates it.  A phi is fed if   *)
(* it has a source, or will get one from a predecessor still to come.       *)
Ends(p) == AtEntry(p) \cup Defined(cfg.code[p])
Entered(p) == \A i \in 1 .. Len(renaming) : \A e \in renaming[i].left : e \notin Dominators(p)
Feeds(p, b, D) == p \in Predecessors(cfg, b) /\ SymsOf(D) \subseteq Ends(p)
Grounded ==
    \A b \in cfg.blocks : \A i \in DOMAIN cfg.code[b] : cfg.code[b][i].op = "Phi" =>
        SymsOf(cfg.code[b][i].dest) # {} /\ \E p : Feeds(p, b, cfg.code[b][i].dest)
Fed ==
    \A b \in cfg.blocks : \A i \in DOMAIN cfg.code[b] : cfg.code[b][i].op = "Phi" =>
        /\ SymsOf(cfg.code[b][i].dest) # {}
        /\ \/ cfg.code[b][i].sources # <<>>
           \/ \E p : Feeds(p, b, cfg.code[b][i].dest) /\ ~ Entered(p)

(* The instructions after block b is renamed: each as the context has it,   *)
(* or as it was, and those of its successors with their phis filled.        *)
LEMMA BlockFilled ==
    ASSUME Coded(cfg), NEW b \in cfg.blocks, NEW c0, RenameBlock(b, c0),
           NEW c, c = RenameCode(c0, cfg.code[b]), NEW d \in cfg.blocks
    PROVE  LET before == IF d = b THEN c.code ELSE cfg.code[d]
           IN  \A i \in DOMAIN before :
                  cfg'.code[d][i] = IF d \in Successors(cfg, b) THEN FillPhi(c, b, before[i]) ELSE before[i]
<1> DEFINE term == [cfg.term[b] EXCEPT !.args = RenameArgs(c, @)]
           renamed == [cfg EXCEPT !.code[b] = c.code, !.term[b] = term]
           code == [e \in cfg.blocks |->
                       IF e \in Successors(cfg, b)
                       THEN [i \in DOMAIN renamed.code[e] |-> FillPhi(c, b, renamed.code[e][i])]
                       ELSE renamed.code[e]]
<1>1. cfg' = [renamed EXCEPT !.code = code]
  BY DEF RenameBlock
<1> HIDE DEF term
<1>2. DOMAIN renamed = DOMAIN cfg /\ renamed.code = [cfg.code EXCEPT ![b] = c.code]
  BY DEF Coded
<1>3. renamed.code[d] = IF d = b THEN c.code ELSE cfg.code[d]
  BY <1>2 DEF Coded
<1>4. cfg'.code = code
  <2> HIDE DEF code, renamed
  <2> QED BY <1>1, <1>2 DEF Coded
<1>5. code[d] = IF d \in Successors(cfg, b)
                THEN [i \in DOMAIN renamed.code[d] |-> FillPhi(c, b, renamed.code[d][i])]
                ELSE renamed.code[d]
  <2> HIDE DEF renamed
  <2> QED OBVIOUS
<1> HIDE DEF code, renamed
<1> QED BY <1>3, <1>4, <1>5

(* A phi keeps the sources it has, and one in a successor gets a source if  *)
(* its symbol has a version at the end of the block.                        *)
LEMMA PhisFilled ==
    ASSUME Coded(cfg), Supplied, NEW b \in cfg.blocks,
           NEW c0, Sound(c0), c0.code = <<>>, c0.made = <<>>, ~ c0.undefined,
           \A x \in AtEntry(b) : HasTop(c0, x), RenameBlock(b, c0), ~ undefined',
           NEW d \in cfg.blocks, NEW i \in DOMAIN cfg.code[d]
    PROVE  LET old == cfg.code[d][i]  new == cfg'.code[d][i]
           IN  /\ new.op = old.op
               /\ old.sources # <<>> => new.sources # <<>>
               /\ old.op = "Phi" /\ Feeds(b, d, old.dest) /\ SymsOf(old.dest) # {} /\ WellFormed(cfg)
                     => new.sources # <<>>
<1> DEFINE code == cfg.code[b]
<1>1. IsList(code) /\ \A j \in DOMAIN code : Instruction(code[j])
  BY DEF Coded
<1>2. PICK c : c = RenameCode(c0, code)
  OBVIOUS
<1>3. Covered(code, AtEntry(b))
  BY DEF Supplied
<1>4. Kept(c0, code, Len(code), c)
  BY <1>1, <1>2, <1>3, RenameCodeNames
<1>5. Defined(code) = DefinedBy(code, Len(code)) /\ DOMAIN code = 1 .. Len(code) /\ Len(code) \in Nat
  BY <1>1, DefinedFacts, ListBasics
<1>6. Progress(c0, code, Len(code), c)
  BY <1>2, BlockRenamed
<1>7. \A x \in Ends(b) : HasTop(c, x)
  BY <1>4, <1>5 DEF Kept, Ends
<1> DEFINE before == IF d = b THEN c.code ELSE cfg.code[d]
<1>8. DOMAIN before = DOMAIN cfg.code[d]
  <2>1. IsList(c.code) /\ Len(c.code) = Len(code)
    BY <1>6 DEF Progress, Sound
  <2>2. DOMAIN c.code = DOMAIN code
    BY <1>5, <2>1, ListBasics
  <2> QED BY <2>2
<1>9. /\ before[i].op = cfg.code[d][i].op /\ before[i].sources = cfg.code[d][i].sources
      /\ SymsOf(before[i].dest) = SymsOf(cfg.code[d][i].dest) /\ Instruction(before[i])
  <2>1. CASE d = b
    <3>1. i \in 1 .. Len(code)
      BY <1>5, <2>1
    <3> QED BY <1>4, <1>6, <2>1, <3>1 DEF Kept, Progress
  <2>2. CASE d # b
    BY <2>2 DEF Coded
  <2> QED BY <2>1, <2>2
<1>10. cfg'.code[d][i] = IF d \in Successors(cfg, b) THEN FillPhi(c, b, before[i]) ELSE before[i]
  BY <1>2, <1>8, BlockFilled
<1> HIDE DEF before
<1> DEFINE old == cfg.code[d][i]
           new == cfg'.code[d][i]
           x == (CHOOSE r \in before[i].dest : TRUE).sym
           s == <<b, Top(c, x)>>
<1>11. new = IF d \in Successors(cfg, b) /\ before[i].op = "Phi" /\ HasTop(c, x)
             THEN [before[i] EXCEPT !.sources = Append(@, s)] ELSE before[i]
  BY <1>10 DEF FillPhi
<1>12. IsList(before[i].sources) /\ {"op", "sources"} \subseteq DOMAIN before[i]
  BY <1>9 DEF Instruction
<1> HIDE DEF s
<1>13. Append(before[i].sources, s) # <<>>
  <2>1. /\ IsList(Append(before[i].sources, s))
        /\ Len(Append(before[i].sources, s)) = Len(before[i].sources) + 1 /\ Len(before[i].sources) \in Nat
    BY <1>12, AppendList, ListBasics
  <2> DEFINE r == Append(before[i].sources, s)
  <2>2. Len(r) # 0
    BY <2>1
  <2>3. Len(<<>>) = 0
    OBVIOUS
  <2> HIDE DEF r
  <2>4. r # <<>>
    BY <2>2, <2>3
  <2> QED BY <2>4 DEF r
<1>14. new.op = old.op /\ (old.sources # <<>> => new.sources # <<>>)
  BY <1>9, <1>11, <1>12, <1>13
<1>15. ASSUME old.op = "Phi", Feeds(b, d, old.dest), SymsOf(old.dest) # {}, WellFormed(cfg)
       PROVE  new.sources # <<>>
  <2>1. d \in Successors(cfg, b)
    BY <1>15 DEF Feeds, WellFormed
  <2>2. x \in SymsOf(before[i].dest)
    BY <1>9, <1>15 DEF SymsOf
  <2>3. HasTop(c, x)
    BY <1>7, <1>9, <1>15, <2>2 DEF Feeds
  <2> QED BY <1>9, <1>11, <1>12, <1>13, <1>15, <2>1, <2>3
<1> QED BY <1>14, <1>15

(* A block strictly below b in the dominator tree is below a child of b.    *)
LEMMA ChildAbove ==
    ASSUME Analysed, NEW b \in cfg.blocks
    PROVE  \A p \in cfg.blocks : b \in Dominators(p) /\ b # p => \E c \in DomTreeChildren(b) : c \in Dominators(p)
<1> DEFINE P(p) == b \in Dominators(p) /\ b # p => \E c \in DomTreeChildren(b) : c \in Dominators(p)
           S == {i \in Nat : i \in 1 .. Len(rpo) => P(rpo[i])}
<1>1. WellFormed(cfg) /\ Ordered /\ Tree /\ DOMAIN idom = cfg.blocks
  BY DEF Analysed, Ready, Fixed
<1>2. ASSUME NEW i \in Nat, \A m \in Nat : m < i => m \in S PROVE i \in S
  <2> SUFFICES ASSUME i \in 1 .. Len(rpo), NEW p, p = rpo[i], b \in Dominators(p), b # p
               PROVE  \E c \in DomTreeChildren(b) : c \in Dominators(p)
    OBVIOUS
  <2>1. p \in cfg.blocks /\ RpoIndex(p) = i
    BY <1>1, IndexFacts
  <2>2. p # cfg.entry
    BY <2>1, DominatorsClimb
  <2>3. /\ idom[p] \in cfg.blocks /\ idom[p] # p /\ Dominators(p) = {p} \cup Dominators(idom[p])
        /\ p \in Dominators(p) /\ idom[p] \in Dominators(idom[p])
    BY <2>1, <2>2, DominatorsClimb
  <2>4. CASE idom[p] = b
    <3>1. p \in DomTreeChildren(b)
      BY <1>1, <2>1, <2>3, <2>4 DEF DomTreeChildren
    <3> QED BY <2>3, <3>1
  <2>5. CASE idom[p] # b
    <3>1. RpoIndex(idom[p]) < i /\ RpoIndex(idom[p]) \in 1 .. Len(rpo) /\ rpo[RpoIndex(idom[p])] = idom[p]
      BY <1>1, <2>1, <2>3, DominatorsEarlier, IndexFacts
    <3>2. P(idom[p])
      BY <1>2, <3>1
    <3> QED BY <2>3, <2>5, <3>2
  <2> QED BY <2>4, <2>5
<1>3. Nat \subseteq S
  <2> HIDE DEF S
  <2> QED BY <1>2, StrongInduction
<1>4. ASSUME NEW p \in cfg.blocks PROVE P(p)
  <2>1. RpoIndex(p) \in 1 .. Len(rpo) /\ rpo[RpoIndex(p)] = p /\ RpoIndex(p) \in Nat
    BY <1>1, IndexFacts
  <2> HIDE DEF P
  <2> QED BY <1>3, <2>1
<1> QED BY <1>4

(* Renaming block b feeds the phis that wait for it, and leaves those that  *)
(* wait for a block still to enter.                                         *)
LEMMA FedBlock ==
    ASSUME Analysed, Coded(cfg), Supplied, NEW b \in cfg.blocks,
           NEW c0, Sound(c0), c0.code = <<>>, c0.made = <<>>, ~ c0.undefined,
           \A x \in AtEntry(b) : HasTop(c0, x), RenameBlock(b, c0),
           \A d \in cfg.blocks : \A i \in DOMAIN cfg.code[d] : cfg.code[d][i].op = "Phi" =>
              /\ SymsOf(cfg.code[d][i].dest) # {}
              /\ \/ cfg.code[d][i].sources # <<>>
                 \/ \E p : Feeds(p, d, cfg.code[d][i].dest) /\ (p = b \/ ~ Entered(p)')
    PROVE  Fed'
<1>1. NamesOutcome(b, c0)
  BY NamesRenamed
<1>2. ~ undefined' /\ SameNames
  BY <1>1 DEF NamesOutcome
<1>3. /\ ParamSymbols' = ParamSymbols /\ \A d : Dominators(d)' = Dominators(d)
      /\ \A d \in cfg.blocks : Defined(cfg'.code[d]) = Defined(cfg.code[d])
  BY <1>2, SameNamesFacts
<1>4. WellFormed(cfg)
  BY DEF Analysed, Ready
<1>5. cfg'.blocks = cfg.blocks /\ cfg'.pred = cfg.pred
  <2>1. PICK c : c = RenameCode(c0, cfg.code[b])
    OBVIOUS
  <2>2. RenamedInto(b, c)
    BY <1>2, <2>1, BlockRenamed
  <2> QED BY <2>2 DEF RenamedInto
<1>6. \A p \in cfg.blocks : Ends(p)' = Ends(p)
  <2> SUFFICES ASSUME NEW p \in cfg.blocks PROVE Ends(p)' = Ends(p)
    OBVIOUS
  <2>1. Dominators(p) \subseteq cfg.blocks
    BY DEF Dominators
  <2> QED BY <1>3, <2>1 DEF Ends, AtEntry
<1>7. ASSUME NEW d \in cfg.blocks, NEW i \in DOMAIN cfg'.code[d], cfg'.code[d][i].op = "Phi",
             NEW E, E = cfg'.code[d][i].dest
      PROVE  /\ SymsOf(E) # {}
             /\ \/ cfg'.code[d][i].sources # <<>>
                \/ \E p : Feeds(p, d, E)' /\ ~ Entered(p)'
  <2>1. /\ i \in DOMAIN cfg.code[d]
        /\ SymsOf(E) = SymsOf(cfg.code[d][i].dest)
    BY <1>2, <1>7 DEF SameNames
  <2>2. PICK old : old = cfg.code[d][i]
    OBVIOUS
  <2>3. /\ cfg'.code[d][i].op = old.op
        /\ old.sources # <<>> => cfg'.code[d][i].sources # <<>>
        /\ old.op = "Phi" /\ Feeds(b, d, old.dest) /\ SymsOf(old.dest) # {} /\ WellFormed(cfg)
              => cfg'.code[d][i].sources # <<>>
    BY <1>2, <2>1, <2>2, PhisFilled
  <2>4. /\ SymsOf(old.dest) # {}
        /\ \/ old.sources # <<>>
           \/ \E p : Feeds(p, d, old.dest) /\ (p = b \/ ~ Entered(p)')
    BY <1>7, <2>1, <2>2, <2>3
  <2>5. CASE old.sources # <<>>
    BY <2>1, <2>2, <2>3, <2>4, <2>5
  <2>6. ASSUME NEW p, Feeds(p, d, old.dest), p = b \/ ~ Entered(p)'
        PROVE  cfg'.code[d][i].sources # <<>> \/ (Feeds(p, d, E)' /\ ~ Entered(p)')
    <3>1. CASE p = b
      BY <1>4, <1>7, <2>3, <2>4, <2>6, <3>1
    <3>2. CASE ~ Entered(p)'
      <4>1. p \in cfg.blocks
        BY <1>4, <2>6 DEF Feeds, WellFormed
      <4>2. Ends(p)' = Ends(p) /\ SymsOf(E) \subseteq Ends(p) /\ p \in Predecessors(cfg, d)
        BY <1>6, <2>1, <2>2, <2>6, <4>1 DEF Feeds
      <4>3. Feeds(p, d, E)'
        BY <1>5, <4>2 DEF Feeds, Predecessors
      <4> QED BY <3>2, <4>3
    <3> QED BY <2>6, <3>1, <3>2
  <2> QED BY <2>1, <2>2, <2>4, <2>5, <2>6
<1>8. ASSUME NEW d \in cfg.blocks, NEW i \in DOMAIN cfg'.code[d], cfg'.code[d][i].op = "Phi"
      PROVE  /\ SymsOf(cfg'.code[d][i].dest) # {}
             /\ \/ cfg'.code[d][i].sources # <<>>
                \/ \E p : (Feeds(p, d, cfg.code[d][i].dest) /\ ~ Entered(p))'
  <2>1. PICK E : E = cfg'.code[d][i].dest
    OBVIOUS
  <2>2. SymsOf(E) # {} /\ (cfg'.code[d][i].sources # <<>> \/ \E p : (Feeds(p, d, E)' /\ ~ Entered(p)'))
    BY <1>7, <1>8, <2>1
  <2>3. \A p : Feeds(p, d, E)' => (Feeds(p, d, cfg.code[d][i].dest))'
    BY <2>1 DEF Feeds
  <2> QED BY <2>1, <2>2, <2>3
<1> HIDE DEF Feeds, Entered
<1> QED BY <1>5, <1>8 DEF Fed

(* After the entry each phi has a source or waits for a block still to      *)
(* come.                                                                    *)
LEMMA FedStarts ==
    ASSUME Analysed, Coded(cfg), Supplied, Grounded, counters = <<>>, stacks = <<>>, undefined = FALSE,
           renaming = <<>>, RenameEntry
    PROVE  Fed'
<1>1. PICK c0, b : c0 = [DefineAll(cfg.params) EXCEPT !.made = <<>>] /\ b = cfg.entry
  OBVIOUS
<1>2. RenameBlock(b, c0)
  BY <1>1 DEF RenameEntry
<1>3. b \in cfg.blocks /\ Dominators(b) = {b} /\ WellFormed(cfg) /\ DOMAIN idom = cfg.blocks
  BY <1>1, DominatorsClimb DEF Analysed, Ready, WellFormed, Fixed
<1>4. /\ Sound(c0) /\ c0.code = <<>> /\ c0.made = <<>> /\ ~ c0.undefined
      /\ \A x \in ParamSymbols : HasTop(c0, x)
  BY <1>1, EntryContext
<1>5. \A x \in AtEntry(b) : HasTop(c0, x)
  BY <1>3, <1>4 DEF AtEntry
<1>6. PICK made : renaming' = <<[block |-> b, left |-> DomTreeChildren(b), made |-> made]>> \o <<>>
  BY <1>2 DEF RenameBlock
<1>7. Len(renaming') = 1 /\ renaming'[1].left = DomTreeChildren(b)
  <2>1. PICK f : f = [block |-> b, left |-> DomTreeChildren(b), made |-> made]
    OBVIOUS
  <2>2. f.left = DomTreeChildren(b) /\ renaming' = <<f>> \o <<>>
    BY <1>6, <2>1
  <2> QED BY <2>2
<1>8. \A d : Dominators(d)' = Dominators(d)
  <2>1. NamesOutcome(b, c0)
    BY <1>2, <1>3, <1>4, <1>5, NamesRenamed
  <2> QED BY <2>1, SameNamesFacts DEF NamesOutcome
<1>9. ASSUME NEW p \in cfg.blocks PROVE p = b \/ ~ Entered(p)'
  <2>1. b \in Dominators(p)
    BY <1>1, <1>3 DEF Dominators, ReachedAvoiding, WellFormed
  <2>2. p = b \/ \E c \in DomTreeChildren(b) : c \in Dominators(p)
    BY <1>3, <2>1, ChildAbove
  <2>3. 1 \in 1 .. 1
    OBVIOUS
  <2> QED BY <1>7, <1>8, <2>2, <2>3 DEF Entered
<1>10. \A d \in cfg.blocks : \A i \in DOMAIN cfg.code[d] : cfg.code[d][i].op = "Phi" =>
              /\ SymsOf(cfg.code[d][i].dest) # {}
              /\ \E p : Feeds(p, d, cfg.code[d][i].dest) /\ (p = b \/ ~ Entered(p)')
  BY <1>3, <1>9 DEF Grounded, Feeds, WellFormed
<1> QED BY <1>2, <1>3, <1>4, <1>5, <1>10, FedBlock

(* So it is after each child: a phi that waits for it gets a source from    *)
(* it.                                                                      *)
LEMMA FedGoesOn ==
    ASSUME Analysed, Walk, Supplied, Covering, Fed, RenameChild
    PROVE  Fed'
<1>1. PICK D : Above(D) /\ Framed(D)
  BY DEF Walk
<1>2. PICK b \in renaming[1].left : RenameBlock(b, Context)
  BY DEF RenameChild
<1>3. PICK c0 : c0 = Context
  OBVIOUS
<1> DEFINE n == Len(renaming)
<1>4. /\ n \in Nat /\ n >= 1 /\ IsList(renaming) /\ renaming # <<>>
      /\ DOMAIN renaming[1] = {"block", "left", "made"}
  <2>1. IsList(renaming) /\ renaming # <<>>
    BY <1>1 DEF Framed
  <2>2. n \in Nat /\ n >= 1 /\ 1 \in 1 .. n
    BY <2>1, ListBasics, TailList
  <2> QED BY <1>1, <2>1, <2>2 DEF Framed
<1>5. b \in cfg.blocks /\ \A x \in AtEntry(b) : HasTop(c0, x)
  BY <1>3, AtEntryActive
<1>6. /\ Sound(c0) /\ c0.code = <<>> /\ c0.made = <<>> /\ ~ c0.undefined /\ Coded(cfg)
      /\ RenameBlock(b, c0)
  <2>1. Context.code = <<>> /\ Context.made = <<>> /\ Sound(Context) /\ Coded(cfg) /\ Context.undefined = undefined
    BY DEF Context, Walk
  <2>2. ~ undefined
    BY DEF RenameChild
  <2> QED BY <1>2, <1>3, <2>1, <2>2
<1>7. PICK made :
         renaming' = <<[block |-> b, left |-> DomTreeChildren(b), made |-> made]>> \o
                     [renaming EXCEPT ![1].left = @ \ {b}]
  BY <1>4, <1>6 DEF RenameBlock
<1>8. /\ Len(renaming') = n + 1 /\ renaming'[1].left = DomTreeChildren(b)
      /\ \A k \in 1 .. n : renaming[k].left \ {b} \subseteq renaming'[k + 1].left
  BY <1>4, <1>7, PushedBlock
<1>9. \A d : Dominators(d)' = Dominators(d)
  <2>1. NamesOutcome(b, c0)
    BY <1>5, <1>6, NamesRenamed
  <2> QED BY <2>1, SameNamesFacts DEF NamesOutcome
<1>10. ASSUME NEW p \in cfg.blocks, ~ Entered(p) PROVE p = b \/ ~ Entered(p)'
  <2>1. PICK k \in 1 .. n : \E e \in renaming[k].left : e \in Dominators(p)
    BY <1>10 DEF Entered
  <2>2. PICK e \in renaming[k].left : e \in Dominators(p)
    BY <2>1
  <2> HIDE DEF n
  <2>3. 1 \in 1 .. n + 1 /\ k + 1 \in 1 .. n + 1
    BY <1>4
  <2>4. CASE e = b
    <3>1. p = b \/ \E c \in DomTreeChildren(b) : c \in Dominators(p)
      BY <1>5, <2>2, <2>4, ChildAbove
    <3> QED BY <1>8, <1>9, <2>3, <3>1 DEF Entered
  <2>5. CASE e # b
    <3>1. e \in renaming'[k + 1].left
      BY <1>8, <2>2, <2>5
    <3> QED BY <1>8, <1>9, <2>2, <2>3, <3>1 DEF Entered
  <2> QED BY <2>4, <2>5
<1>11. WellFormed(cfg)
  BY DEF Analysed, Ready
<1>12. \A d \in cfg.blocks : \A i \in DOMAIN cfg.code[d] : cfg.code[d][i].op = "Phi" =>
              /\ SymsOf(cfg.code[d][i].dest) # {}
              /\ \/ cfg.code[d][i].sources # <<>>
                 \/ \E p : Feeds(p, d, cfg.code[d][i].dest) /\ (p = b \/ ~ Entered(p)')
  BY <1>10, <1>11 DEF Fed, Feeds, WellFormed
<1> QED BY <1>5, <1>6, <1>12, FedBlock

(* When the walk is over every phi has a source.                            *)
Sourced ==
    \A b \in cfg.blocks : \A i \in DOMAIN cfg.code[b] : cfg.code[b][i].op = "Phi" =>
        SymsOf(cfg.code[b][i].dest) # {} /\ cfg.code[b][i].sources # <<>>

(* A frame is left with no child to enter; after the last no phi can wait.  *)
LEMMA FedLeaves ==
    ASSUME Walk, Fed, LeaveRenamed
    PROVE  IF Tail(renaming) = <<>> THEN Sourced' ELSE Fed'
<1>1. PICK D : Framed(D)
  BY DEF Walk
<1> DEFINE n == Len(renaming)
<1>2. /\ n \in Nat /\ n >= 1 /\ IsList(Tail(renaming)) /\ Len(Tail(renaming)) = n - 1
      /\ \A i \in 1 .. n - 1 : Tail(renaming)[i] = renaming[i + 1]
  <2>1. IsList(renaming) /\ renaming # <<>>
    BY <1>1 DEF Framed
  <2> QED BY <2>1, ListBasics, TailList
<1>3. cfg' = cfg /\ renaming' = Tail(renaming) /\ renaming[1].left = {} /\ idom' = idom
  BY DEF LeaveRenamed, dominance, fixpoint
<1>4. \A d : Dominators(d)' = Dominators(d)
  BY <1>3, SameDominators
<1>5. ASSUME NEW p, ~ Entered(p) PROVE n >= 2 /\ ~ Entered(p)'
  <2>1. PICK k \in 1 .. n : \E e \in renaming[k].left : e \in Dominators(p)
    BY <1>5 DEF Entered
  <2>2. k # 1
    BY <1>3, <2>1
  <2> HIDE DEF n
  <2>3. n >= 2 /\ k - 1 \in 1 .. n - 1 /\ (k - 1) + 1 = k
    BY <1>2, <2>2
  <2>4. renaming'[k - 1] = renaming[k] /\ Len(renaming') = n - 1
    BY <1>2, <1>3, <2>3
  <2> QED BY <1>4, <2>1, <2>3, <2>4 DEF Entered
<1>6. \A p : Ends(p)' = Ends(p)
  BY <1>3, <1>4 DEF Ends, AtEntry, ParamSymbols
<1>7. CASE Tail(renaming) = <<>>
  <2>1. n - 1 = 0
    BY <1>2, <1>7
  <2>2. ASSUME NEW p PROVE Entered(p)
    <3> SUFFICES ASSUME ~ Entered(p) PROVE FALSE
      OBVIOUS
    <3>1. n >= 2
      BY <1>5
    <3> HIDE DEF n
    <3> QED BY <1>2, <2>1, <3>1
  <2>3. Sourced
    BY <2>2 DEF Fed, Sourced
  <2>4. Sourced'
    BY <1>3, <2>3 DEF Sourced
  <2> QED BY <1>7, <2>4
<1>8. CASE Tail(renaming) # <<>>
  <2>1. \A p, b, E : Feeds(p, b, E) => Feeds(p, b, E)'
    BY <1>3, <1>6 DEF Feeds, Predecessors
  <2>2. Fed'
    BY <1>3, <1>5, <2>1 DEF Fed
  <2> QED BY <1>8, <2>2
<1> QED BY <1>7, <1>8

(* Fed is a matter of the graph and the renamer.                            *)
LEMMA SameFed ==
    ASSUME cfg' = cfg, idom' = idom
    PROVE  /\ Grounded => Grounded'
           /\ Sourced => Sourced'
           /\ renaming' = renaming => (Fed => Fed')
<1>1. \A d : Dominators(d)' = Dominators(d)
  BY SameDominators
<1>2. ParamSymbols' = ParamSymbols /\ \A p : Ends(p)' = Ends(p)
  BY <1>1 DEF Ends, AtEntry, ParamSymbols
<1>3. \A p, b, E : Feeds(p, b, E) => Feeds(p, b, E)'
  BY <1>2 DEF Feeds, Predecessors
<1>4. renaming' = renaming => \A p : Entered(p)' = Entered(p)
  BY <1>1 DEF Entered
<1>5. Grounded => Grounded'
  BY <1>3 DEF Grounded
<1>6. renaming' = renaming => (Fed => Fed')
  BY <1>3, <1>4 DEF Fed
<1> QED BY <1>5, <1>6 DEF Sourced
=============================================================================
