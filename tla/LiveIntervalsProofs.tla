-------------------------- MODULE LiveIntervalsProofs --------------------------
(***************************************************************************)
(* Proofs about the operators of LoweredCfg and LiveIntervals, for every   *)
(* function: what liveness by paths is the least set of, the numbering of  *)
(* the instructions, and the hulls compute_intervals takes.                *)
(***************************************************************************)
EXTENDS LiveIntervals, Iteration

-----------------------------------------------------------------------------
(* The blocks slot s is live into: the least set that holds the blocks that *)
(* read s and, with a block, those before it that do not write s.           *)
LEMMA LiveBlocksFacts ==
    ASSUME NEW f, WellFormed(f), NEW s
    PROVE  /\ LiveBlocks(f, s) \subseteq f.blocks
           /\ \A b \in f.blocks : s \in Gen(f, b) => b \in LiveBlocks(f, s)
           /\ \A b \in f.blocks : s \notin Kill(f, b) /\ Successors(f, b) \cap LiveBlocks(f, s) # {}
                                  => b \in LiveBlocks(f, s)
           /\ \A C : /\ \A b \in f.blocks : s \in Gen(f, b) => b \in C
                     /\ \A b \in f.blocks : s \notin Kill(f, b) /\ Successors(f, b) \cap C # {} => b \in C
                     => LiveBlocks(f, s) \subseteq C
<1> DEFINE m == Cardinality(f.blocks)
           V == SUBSET f.blocks
           readers == {b \in f.blocks : s \in Gen(f, b)}
           through == {b \in f.blocks : s \notin Kill(f, b)}
           step == [X \in V |-> X \cup {b \in through : Successors(f, b) \cap X # {}}]
<1>1. m \in Nat /\ IsFiniteSet(f.blocks)
  BY FS_CardinalityType DEF WellFormed
<1>2. step \in [V -> V] /\ readers \in V /\ \A X \in V : X \subseteq step[X]
  OBVIOUS
<1>3. PICK e : Stepped(e, 0, m, V, readers, step)
  <2> HIDE DEF V, step, readers, m
  <2> QED BY <1>1, <1>2, SteppedExists
<1> DEFINE rec(h) == [n \in 0 .. m |-> IF n = 0 THEN readers
                         ELSE LET shorter == h[n-1]
                              IN  shorter \cup {b \in through : Successors(f, b) \cap shorter # {}}]
<1>4. e = rec(e)
  <2>1. \A n \in 0 .. m : n # 0 => n - 1 \in 0 .. m
    BY <1>1
  <2>2. \A n \in 0 .. m : n # 0 => e[n-1] \in V
    BY <1>3, <2>1 DEF Stepped
  <2>3. \A n \in 0 .. m : n # 0 => step[e[n-1]] = e[n-1] \cup {b \in through : Successors(f, b) \cap e[n-1] # {}}
    BY <2>2
  <2> HIDE DEF step, m, V, readers, through
  <2> QED BY <1>3, <2>3 DEF Stepped
<1>5. PICK h : h = rec(h) /\ LiveBlocks(f, s) = h[m]
  <2>1. (CHOOSE h : h = rec(h)) = rec(CHOOSE h : h = rec(h))
    <3> HIDE DEF rec
    <3> QED BY <1>4, Zenon
  <2> QED BY <2>1 DEF LiveBlocks
<1>6. Stepped(h, 0, m, V, readers, step)
  <2> DEFINE body == rec(h)
  <2>1. h = body
    BY <1>5
  <2>2. DOMAIN h = 0 .. m /\ h = [n \in 0 .. m |-> h[n]]
    BY <2>1
  <2>3. h[0] = readers
    BY <2>1, <1>1
  <2>4. ASSUME NEW n \in 0 + 1 .. m, h[n-1] \in V PROVE h[n] = step[h[n-1]]
    <3>1. n \in 0 .. m /\ n # 0
      BY <1>1
    <3>2. h[n] = h[n-1] \cup {b \in through : Successors(f, b) \cap h[n-1] # {}}
      BY <2>1, <3>1
    <3> QED BY <2>4, <3>2
  <2> HIDE DEF V, step, readers, body, m
  <2> QED BY <2>2, <2>3, <2>4, <1>1, <1>2, SolutionStepped
<1>7. Cardinality(readers) \in Nat /\ Cardinality(readers) + (m - 0) >= m
  <2>1. IsFiniteSet(readers)
    BY <1>1, FS_Subset
  <2> HIDE DEF readers, m
  <2>2. Cardinality(readers) \in Nat
    BY <2>1, FS_CardinalityType
  <2> QED BY <1>1, <2>2
<1>8. Growing(h, 0, m, f.blocks, readers, step)
  <2> HIDE DEF step, readers
  <2> QED BY <1>1, <1>2, <1>6, <1>7 DEF Growing
<1>9. h[m] \in V /\ readers \subseteq h[m] /\ step[h[m]] = h[m]
  <2> HIDE DEF step, readers, m
  <2> QED BY <1>8, Saturation
<1>10. \A b \in through : Successors(f, b) \cap h[m] # {} => b \in h[m]
  <2> HIDE DEF m
  <2> QED BY <1>9
<1>11. ASSUME NEW C, \A b \in f.blocks : s \in Gen(f, b) => b \in C,
              \A b \in f.blocks : s \notin Kill(f, b) /\ Successors(f, b) \cap C # {} => b \in C
       PROVE  h[m] \subseteq C
  <2>1. \A X \in V : X \subseteq C => step[X] \subseteq C
    BY <1>11
  <2>2. readers \subseteq C
    BY <1>11
  <2> HIDE DEF V, step, readers, m
  <2> QED BY <1>8, <2>1, <2>2, GrowsInside DEF V
<1>12. h[m] \subseteq f.blocks /\ \A b \in f.blocks : s \in Gen(f, b) => b \in h[m]
  <2> HIDE DEF m
  <2> QED BY <1>9
<1>13. LiveBlocks(f, s) = h[m]
  BY <1>5
<1>14. \A b \in f.blocks : s \notin Kill(f, b) /\ Successors(f, b) \cap h[m] # {} => b \in h[m]
  <2> HIDE DEF m
  <2> QED BY <1>10
<1> HIDE DEF m
<1> QED BY <1>11, <1>12, <1>13, <1>14

(* Liveness by paths solves the data-flow equations.                        *)
LEMMA PathLiveEquations ==
    ASSUME NEW f, WellFormed(f), NEW b \in f.blocks
    PROVE  /\ PathLiveIn(f, b) = Gen(f, b) \cup (PathLiveOut(f, b) \ Kill(f, b))
           /\ PathLiveIn(f, b) \subseteq Slot /\ PathLiveOut(f, b) \subseteq Slot
<1>1. Successors(f, b) \subseteq f.blocks /\ Gen(f, b) \subseteq Slot
  BY DEF WellFormed, Gen
<1>2. \A s : s \in PathLiveOut(f, b) <=> s \in Slot /\ Successors(f, b) \cap LiveBlocks(f, s) # {}
  <2>1. \A s : s \in PathLiveOut(f, b) <=> \E c \in Successors(f, b) : s \in PathLiveIn(f, c)
    BY DEF PathLiveOut
  <2> QED BY <2>1 DEF PathLiveIn
<1>3. ASSUME NEW s \in PathLiveIn(f, b) PROVE s \in Gen(f, b) \/ (s \in PathLiveOut(f, b) /\ s \notin Kill(f, b))
  <2> DEFINE C == {c \in LiveBlocks(f, s) :
                     s \in Gen(f, c) \/ (s \notin Kill(f, c) /\ Successors(f, c) \cap LiveBlocks(f, s) # {})}
  <2>1. s \in Slot /\ b \in LiveBlocks(f, s)
    BY DEF PathLiveIn
  <2>2. \A c \in f.blocks : s \in Gen(f, c) => c \in C
    BY LiveBlocksFacts
  <2>3. \A c \in f.blocks : s \notin Kill(f, c) /\ Successors(f, c) \cap C # {} => c \in C
    <3>1. ASSUME NEW c \in f.blocks, s \notin Kill(f, c), Successors(f, c) \cap C # {} PROVE c \in C
      <4>1. Successors(f, c) \cap LiveBlocks(f, s) # {}
        BY <3>1
      <4>2. c \in LiveBlocks(f, s)
        BY <3>1, <4>1, LiveBlocksFacts
      <4> QED BY <3>1, <4>1, <4>2
    <3> HIDE DEF C
    <3> QED BY <3>1
  <2>4. LiveBlocks(f, s) \subseteq C
    <3> HIDE DEF C
    <3> QED BY <2>2, <2>3, LiveBlocksFacts
  <2> QED BY <1>2, <2>1, <2>4
<1>4. ASSUME NEW s \in Gen(f, b) PROVE s \in PathLiveIn(f, b)
  BY <1>1, LiveBlocksFacts DEF PathLiveIn
<1>5. ASSUME NEW s \in PathLiveOut(f, b), s \notin Kill(f, b) PROVE s \in PathLiveIn(f, b)
  BY <1>2, <1>5, LiveBlocksFacts DEF PathLiveIn
<1> QED BY <1>1, <1>2, <1>3, <1>4, <1>5 DEF PathLiveIn

-----------------------------------------------------------------------------
(* The numbering: maps from blocks to the first and last index of each, and *)
(* the states of the breadth-first search, which has numbered nothing from  *)
(* idx on.                                                                  *)
RangeMaps(f) == UNION {[D -> Nat \X Nat] : D \in SUBSET f.blocks}
Numbered(f, ranges, idx) ==
    \A b \in DOMAIN ranges : ranges[b][2] = ranges[b][1] + Len(f.code[b]) /\ ranges[b][2] < idx
BfsStates(f) ==
    {st \in [queue : Seq(f.blocks), visited : SUBSET f.blocks, ranges : RangeMaps(f), idx : Nat] :
        Numbered(f, st.ranges, st.idx)}

LEMMA RangeMapFacts ==
    ASSUME NEW f, NEW r
    PROVE  r \in RangeMaps(f) <=> r \in [DOMAIN r -> Nat \X Nat] /\ DOMAIN r \subseteq f.blocks
<1>1. r \in RangeMaps(f) <=> \E D \in SUBSET f.blocks : r \in [D -> Nat \X Nat]
  BY Zenon DEF RangeMaps
<1> QED BY <1>1

LEMMA VisitFacts ==
    ASSUME NEW f, NEW st \in BfsStates(f), NEW c \in f.blocks
    PROVE  Visit(st, c) \in BfsStates(f)
<1> DEFINE R == RangeMaps(f)
<1>1. st \in [queue : Seq(f.blocks), visited : SUBSET f.blocks, ranges : R, idx : Nat]
      /\ Numbered(f, st.ranges, st.idx)
  BY DEF BfsStates
<1>2. CASE c \in st.visited
  BY <1>2 DEF Visit
<1>3. CASE c \notin st.visited
  <2> DEFINE v == Visit(st, c)
  <2>1. v = [st EXCEPT !.visited = @ \cup {c}, !.queue = Append(@, c)]
    BY <1>3 DEF Visit
  <2>2. Append(st.queue, c) \in Seq(f.blocks) /\ st.visited \cup {c} \in SUBSET f.blocks
    BY <1>1
  <2> HIDE DEF R
  <2>3. /\ v \in [queue : Seq(f.blocks), visited : SUBSET f.blocks, ranges : R, idx : Nat]
        /\ v.ranges = st.ranges /\ v.idx = st.idx
    BY <1>1, <2>1, <2>2
  <2> HIDE DEF v
  <2>4. v \in BfsStates(f)
    BY <1>1, <2>3 DEF BfsStates, R
  <2> QED BY <2>4 DEF v
<1> QED BY <1>2, <1>3

LEMMA BfsStepFacts ==
    ASSUME NEW f, Listed(f), NEW st \in BfsStates(f), st.queue # <<>>
    PROVE  BfsStep(f, st) \in BfsStates(f)
<1> DEFINE V == BfsStates(f)
           R == RangeMaps(f)
           b == Head(st.queue)
           last == st.idx + Len(f.code[b])
           ranges == [c \in DOMAIN st.ranges \cup {b} |->
                        IF c = b THEN <<st.idx, last>> ELSE st.ranges[c]]
           numbered == [st EXCEPT
                          !.queue  = Tail(@),
                          !.ranges = [c \in DOMAIN @ \cup {b} |->
                                        IF c = b THEN <<st.idx, last>> ELSE @[c]],
                          !.idx    = last + 1]
           m == Len(f.succ[b])
<1>1. st \in [queue : Seq(f.blocks), visited : SUBSET f.blocks, ranges : R, idx : Nat]
      /\ Numbered(f, st.ranges, st.idx)
  BY DEF BfsStates
<1>2. b \in f.blocks /\ Tail(st.queue) \in Seq(f.blocks) /\ st.idx \in Nat
  BY <1>1
<1>3. f.succ[b] \in Seq(f.blocks) /\ Len(f.code[b]) \in Nat
  BY <1>2 DEF Listed
<1>4. m \in Nat /\ \A n \in 1 .. m : f.succ[b][n] \in f.blocks
  BY <1>3
<1>5. last \in Nat /\ last + 1 \in Nat /\ last >= st.idx
  <2> HIDE DEF b
  <2> QED BY <1>2, <1>3
<1>6. numbered \in V
  <2>1. st.ranges \in [DOMAIN st.ranges -> Nat \X Nat] /\ DOMAIN st.ranges \subseteq f.blocks
    BY <1>1, RangeMapFacts
  <2>2. DOMAIN ranges = DOMAIN st.ranges \cup {b}
    OBVIOUS
  <2>3. <<st.idx, last>> \in Nat \X Nat /\ <<st.idx, last>>[1] = st.idx /\ <<st.idx, last>>[2] = last
    BY <1>2, <1>5
  <2>4. ranges \in [DOMAIN ranges -> Nat \X Nat] /\ DOMAIN ranges \subseteq f.blocks
    <3> HIDE DEF last, b
    <3> QED BY <1>2, <2>1, <2>2, <2>3
  <2>5. ranges \in R
    <3> HIDE DEF ranges
    <3> QED BY <2>4, RangeMapFacts
  <2>6. Numbered(f, ranges, last + 1)
    <3> SUFFICES ASSUME NEW c \in DOMAIN ranges
                 PROVE  ranges[c][2] = ranges[c][1] + Len(f.code[c]) /\ ranges[c][2] < last + 1
      BY DEF Numbered
    <3>1. CASE c = b
      <4>1. ranges[c] = <<st.idx, last>>
        BY <3>1
      <4> QED BY <1>2, <1>3, <1>5, <2>3, <3>1, <4>1
    <3>2. CASE c # b
      <4>1. c \in DOMAIN st.ranges /\ ranges[c] = st.ranges[c]
        BY <2>2, <3>2
      <4>2. ranges[c][2] \in Nat
        BY <2>1, <4>1
      <4>3. ranges[c][2] = ranges[c][1] + Len(f.code[c]) /\ ranges[c][2] < st.idx
        BY <1>1, <4>1 DEF Numbered
      <4> HIDE DEF last, ranges
      <4> QED BY <1>2, <1>5, <4>2, <4>3
    <3> QED BY <3>1, <3>2
  <2> DEFINE v == numbered
  <2>7. v = [st EXCEPT !.queue = Tail(st.queue), !.ranges = ranges, !.idx = last + 1]
    BY <1>1
  <2> HIDE DEF numbered, ranges, R, last, b
  <2>8. /\ v \in [queue : Seq(f.blocks), visited : SUBSET f.blocks, ranges : R, idx : Nat]
        /\ v.ranges = ranges /\ v.idx = last + 1
    BY <1>1, <1>2, <1>5, <2>5, <2>7
  <2> QED BY <2>6, <2>8 DEF BfsStates, R
<1> DEFINE step == [x \in Nat \X V |-> IF x[1] \in 1 .. m THEN Visit(x[2], f.succ[b][x[1]]) ELSE x[2]]
<1>7. step \in [Nat \X V -> V]
  <2>1. \A n \in 1 .. m : \A v \in V : Visit(v, f.succ[b][n]) \in V
    BY <1>4, VisitFacts
  <2> HIDE DEF V, m, b
  <2> QED BY <2>1
<1>8. \A n \in 1 .. m : \A v \in V : step[<<n, v>>] = Visit(v, f.succ[b][n])
  <2>1. \A n \in 1 .. m : n \in Nat
    OBVIOUS
  <2> HIDE DEF V, m, b
  <2> QED BY <2>1
<1>9. PICK e : Counted(e, m, V, numbered, step)
  <2> HIDE DEF V, m, step, numbered, b
  <2>1. m \in Nat
    BY <1>4
  <2> QED BY <2>1, <1>6, <1>7, CountedExists
<1> DEFINE rec(h) == [n \in 0 .. m |-> IF n = 0 THEN numbered ELSE Visit(h[n-1], f.succ[b][n])]
<1>10. e = rec(e)
  <2>1. \A n \in 0 .. m : n # 0 => n - 1 \in 0 .. m /\ n \in 1 .. m
    BY <1>4
  <2>2. \A n \in 0 .. m : n # 0 => e[n-1] \in V
    BY <1>9, <2>1 DEF Counted
  <2>3. \A n \in 0 .. m : n # 0 => step[<<n, e[n-1]>>] = Visit(e[n-1], f.succ[b][n])
    BY <1>8, <2>1, <2>2
  <2> HIDE DEF V, m, step, numbered, b
  <2> QED BY <1>9, <2>3 DEF Counted
<1>11. PICK h : h = rec(h) /\ BfsStep(f, st) = h[m]
  <2>1. (CHOOSE h : h = rec(h)) = rec(CHOOSE h : h = rec(h))
    <3> HIDE DEF rec
    <3> QED BY <1>10, Zenon
  <2> QED BY <2>1 DEF BfsStep
<1>12. h[m] \in V
  <2> DEFINE S == {n \in Nat : n <= m => h[n] \in V}
  <2>1. h[0] = numbered /\ \A n \in 1 .. m : h[n] = Visit(h[n-1], f.succ[b][n])
    <3>1. h = rec(h) /\ m \in Nat
      BY <1>4, <1>11
    <3> HIDE DEF numbered, b, m
    <3>2. \A n \in 0 .. m : h[n] = IF n = 0 THEN numbered ELSE Visit(h[n-1], f.succ[b][n])
      BY <3>1, Zenon
    <3> QED BY <3>1, <3>2
  <2>2. 0 \in S
    BY <1>6, <2>1
  <2>3. ASSUME NEW n \in Nat, n \in S PROVE n + 1 \in S
    <3> SUFFICES ASSUME n + 1 <= m PROVE h[n + 1] \in V
      OBVIOUS
    <3>1. n + 1 \in 1 .. m /\ (n + 1) - 1 = n /\ n <= m
      BY <1>4
    <3>2. h[n + 1] = Visit(h[n], f.succ[b][n + 1])
      BY <2>1, <3>1
    <3> QED BY <1>4, <2>3, <3>1, <3>2, VisitFacts
  <2>4. Nat \subseteq S
    <3> HIDE DEF S
    <3> QED BY <2>2, <2>3, Induction
  <2> QED BY <1>4, <2>4
<1> QED BY <1>11, <1>12

LEMMA OneListed ==
    ASSUME NEW S, NEW x \in S
    PROVE  <<x>> \in Seq(S)
OBVIOUS

LEMMA BlockRangesFacts ==
    ASSUME NEW f, WellFormed(f), Listed(f)
    PROVE  \E top \in Nat : BlockRanges(f) \in RangeMaps(f) /\ Numbered(f, BlockRanges(f), top)
<1> DEFINE V == BfsStates(f)
           m == Cardinality(f.blocks)
           start == [queue |-> <<f.entry>>, visited |-> {f.entry},
                     ranges |-> [c \in {} |-> <<0, 0>>], idx |-> 0]
           step == [st \in V |-> IF st.queue = <<>> THEN st ELSE BfsStep(f, st)]
<1>1. m \in Nat /\ f.entry \in f.blocks
  BY FS_CardinalityType DEF WellFormed
<1>2. start \in V
  <2> DEFINE R == RangeMaps(f)
             none == [c \in {} |-> <<0, 0>>]
  <2>1. none \in R /\ DOMAIN none = {}
    <3>1. none \in [{} -> Nat \X Nat] /\ DOMAIN none = {}
      OBVIOUS
    <3> HIDE DEF none
    <3> QED BY <3>1, RangeMapFacts
  <2>2. <<f.entry>> \in Seq(f.blocks)
    BY <1>1, OneListed
  <2> DEFINE v == start
  <2>3. v.ranges = none /\ v.idx = 0
    OBVIOUS
  <2> HIDE DEF R, none
  <2>4. v \in [queue : Seq(f.blocks), visited : SUBSET f.blocks, ranges : R, idx : Nat]
    BY <1>1, <2>1, <2>2 DEF none
  <2>5. Numbered(f, none, 0)
    BY <2>1 DEF Numbered
  <2> HIDE DEF v
  <2> QED BY <2>3, <2>4, <2>5 DEF BfsStates, R, v
<1>3. step \in [V -> V]
  <2> HIDE DEF V
  <2>1. \A st \in V : st.queue # <<>> => BfsStep(f, st) \in V
    BY BfsStepFacts DEF V
  <2> QED BY <2>1
<1>4. PICK e : Stepped(e, 0, m, V, start, step)
  <2> HIDE DEF V, m, start, step
  <2> QED BY <1>1, <1>2, <1>3, SteppedExists
<1> DEFINE rec(h) == [n \in 0 .. m |-> IF n = 0 THEN start
                         ELSE LET st == h[n-1] IN IF st.queue = <<>> THEN st ELSE BfsStep(f, st)]
<1>5. e = rec(e)
  <2>1. \A n \in 0 .. m : n # 0 => n - 1 \in 0 .. m
    BY <1>1
  <2>2. \A n \in 0 .. m : n # 0 => e[n-1] \in V
    BY <1>4, <2>1 DEF Stepped
  <2>3. \A n \in 0 .. m : n # 0 =>
           step[e[n-1]] = IF e[n-1].queue = <<>> THEN e[n-1] ELSE BfsStep(f, e[n-1])
    BY <2>2
  <2> HIDE DEF V, m, start, step
  <2> QED BY <1>4, <2>3 DEF Stepped
<1>6. PICK h : h = rec(h) /\ BlockRanges(f) = h[m].ranges
  <2>1. (CHOOSE h : h = rec(h)) = rec(CHOOSE h : h = rec(h))
    <3> HIDE DEF rec
    <3> QED BY <1>5, Zenon
  <2> QED BY <2>1 DEF BlockRanges
<1>7. Stepped(h, 0, m, V, start, step)
  <2> DEFINE body == rec(h)
  <2>1. h = body
    BY <1>6
  <2>2. DOMAIN h = 0 .. m /\ h = [n \in 0 .. m |-> h[n]]
    BY <2>1
  <2>3. h[0] = start
    <3> HIDE DEF start, m
    <3> QED BY <2>1, <1>1
  <2>4. ASSUME NEW n \in 0 + 1 .. m, h[n-1] \in V PROVE h[n] = step[h[n-1]]
    <3>1. n \in 0 .. m /\ n # 0
      BY <1>1
    <3>2. h[n] = IF h[n-1].queue = <<>> THEN h[n-1] ELSE BfsStep(f, h[n-1])
      <4> HIDE DEF start, m
      <4> QED BY <2>1, <3>1
    <3> HIDE DEF V
    <3> QED BY <2>4, <3>2
  <2> HIDE DEF V, step, start, body, m
  <2> QED BY <2>2, <2>3, <2>4, <1>1, <1>3, <1>2, SolutionStepped
<1>8. h[m] \in V
  <2>1. m \in 0 .. m
    BY <1>1
  <2> HIDE DEF m, V, step, start
  <2> QED BY <1>7, <2>1 DEF Stepped
<1>9. /\ h[m].ranges \in RangeMaps(f) /\ h[m].idx \in Nat
      /\ Numbered(f, h[m].ranges, h[m].idx)
  <2> HIDE DEF m
  <2> QED BY <1>8 DEF BfsStates
<1> HIDE DEF m
<1> QED BY <1>6, <1>9

(* The hull of a bounded set of numbers.                                    *)
LEMMA HullFacts ==
    ASSUME NEW T \in SUBSET Nat, T # {}, NEW top \in Nat, \A i \in T : i < top
    PROVE  /\ IntervalOf(T).start \in T /\ IntervalOf(T).end \in T
           /\ \A i \in T : IntervalOf(T).start <= i /\ i <= IntervalOf(T).end
<1>1. \E n \in T : \A i \in T : n <= i
  BY LeastNumber
<1>2. \E n \in T : \A i \in T : i <= n
  <2> DEFINE U == {n \in Nat : \A i \in T : i <= n}
  <2>1. top \in U
    OBVIOUS
  <2>2. PICK n \in U : \A j \in U : n <= j
    BY <2>1, LeastNumber
  <2>3. n \in T
    <3> SUFFICES ASSUME n \notin T PROVE FALSE
      OBVIOUS
    <3>1. n # 0
      <4>1. PICK i \in T : i \in Nat
        OBVIOUS
      <4>2. i <= n /\ i # n
        BY <2>2
      <4> QED BY <4>1, <4>2
    <3>2. n - 1 \in U
      BY <2>2, <3>1
    <3> QED BY <2>2, <3>2
  <2> QED BY <2>2, <2>3
<1> DEFINE lo == CHOOSE i \in T : \A j \in T : i <= j
           hi == CHOOSE i \in T : \A j \in T : j <= i
<1>3. lo \in T /\ \A j \in T : lo <= j
  BY <1>1
<1>4. hi \in T /\ \A j \in T : j <= hi
  BY <1>2
<1>5. IntervalOf(T).start = lo /\ IntervalOf(T).end = hi
  BY DEF IntervalOf
<1> HIDE DEF lo, hi
<1> QED BY <1>3, <1>4, <1>5

(* The points of slot s, block by block.                                    *)
LEMMA PointsOfBlock ==
    ASSUME NEW f, NEW r, NEW in, NEW out, NEW s, NEW x
    PROVE  x \in IntervalPoints(f, r, in, out, s) <=>
              \E b \in DOMAIN r :
                 \/ s \in in[b] /\ x = r[b][1]
                 \/ s \in out[b] /\ x = r[b][2]
                 \/ \E i \in Points(f, b) : s \in ReadsAt(f, b, i) \cup WritesAt(f, b, i)
                                            /\ x = r[b][1] + i - 1
<1> DEFINE P(b) ==      {r[b][1] : y \in {s} \cap in[b]}
                   \cup {r[b][2] : y \in {s} \cap out[b]}
                   \cup {r[b][1] + i - 1 :
                            i \in {j \in Points(f, b) : s \in ReadsAt(f, b, j) \cup WritesAt(f, b, j)}}
<1>1. x \in IntervalPoints(f, r, in, out, s) <=> \E b \in DOMAIN r : x \in P(b)
  BY Zenon DEF IntervalPoints
<1>2. \A b : x \in P(b) <=> \/ s \in in[b] /\ x = r[b][1]
                            \/ s \in out[b] /\ x = r[b][2]
                            \/ \E i \in Points(f, b) : s \in ReadsAt(f, b, i) \cup WritesAt(f, b, i)
                                                       /\ x = r[b][1] + i - 1
  OBVIOUS
<1> HIDE DEF P
<1> QED BY <1>1, <1>2

(* The first and last index of a block, and the indices between.            *)
LEMMA RangeFacts ==
    ASSUME NEW f, WellFormed(f), Listed(f)
    PROVE  \E top \in Nat : \A b \in DOMAIN BlockRanges(f) :
              /\ b \in f.blocks /\ Len(f.code[b]) \in Nat
              /\ BlockRanges(f)[b][1] \in Nat /\ BlockRanges(f)[b][2] \in Nat
              /\ BlockRanges(f)[b][2] = BlockRanges(f)[b][1] + Len(f.code[b])
              /\ BlockRanges(f)[b][2] < top
<1>1. PICK top \in Nat : BlockRanges(f) \in RangeMaps(f) /\ Numbered(f, BlockRanges(f), top)
  BY BlockRangesFacts
<1>2. /\ BlockRanges(f) \in [DOMAIN BlockRanges(f) -> Nat \X Nat]
      /\ DOMAIN BlockRanges(f) \subseteq f.blocks
  BY <1>1, RangeMapFacts
<1>3. \A b \in f.blocks : Len(f.code[b]) \in Nat
  BY DEF Listed
<1> QED BY <1>1, <1>2, <1>3 DEF Numbered

(* The interval of a slot is the hull of its points.                        *)
LEMMA IntervalHolds ==
    ASSUME NEW f, WellFormed(f), Listed(f), NEW in, NEW out, NEW s \in Slot
    PROVE  LET r  == BlockRanges(f)
               iv == ComputeIntervals(f, in, out)
           IN  /\ DOMAIN iv \subseteq Slot
               /\ \A x \in IntervalPoints(f, r, in, out, s) :
                     s \in DOMAIN iv /\ x \in Nat /\ iv[s].start <= x /\ x <= iv[s].end
               /\ s \in DOMAIN iv => /\ iv[s].start \in Nat /\ iv[s].end \in Nat
                                     /\ iv[s].start <= iv[s].end
<1> DEFINE r == BlockRanges(f)
           iv == ComputeIntervals(f, in, out)
           T == IntervalPoints(f, r, in, out, s)
<1>1. PICK top \in Nat : \A b \in DOMAIN r :
              /\ b \in f.blocks /\ Len(f.code[b]) \in Nat
              /\ r[b][1] \in Nat /\ r[b][2] \in Nat
              /\ r[b][2] = r[b][1] + Len(f.code[b])
              /\ r[b][2] < top
  BY RangeFacts
<1>2. ASSUME NEW x \in T PROVE x \in Nat /\ x < top
  <2>1. PICK b \in DOMAIN r :
           \/ x = r[b][1]
           \/ x = r[b][2]
           \/ \E i \in Points(f, b) : x = r[b][1] + i - 1
    <3> HIDE DEF r
    <3> QED BY <1>2, PointsOfBlock
  <2> HIDE DEF r
  <2>2. /\ Len(f.code[b]) \in Nat /\ r[b][1] \in Nat /\ r[b][2] \in Nat
        /\ r[b][2] = r[b][1] + Len(f.code[b]) /\ r[b][2] < top
    BY <1>1
  <2>3. \A i \in Points(f, b) : i \in Nat /\ i >= 1 /\ i <= Len(f.code[b]) + 1
    BY <2>2 DEF Points
  <2> QED BY <2>1, <2>2, <2>3
<1>3. DOMAIN iv = {x \in Slot : IntervalPoints(f, r, in, out, x) # {}}
  BY DEF ComputeIntervals
<1>4. T # {} => s \in DOMAIN iv /\ iv[s] = IntervalOf(T)
  BY <1>3 DEF ComputeIntervals
<1>5. s \in DOMAIN iv => T # {}
  BY <1>3
<1>6. T # {} => /\ IntervalOf(T).start \in T /\ IntervalOf(T).end \in T
                /\ \A i \in T : IntervalOf(T).start <= i /\ i <= IntervalOf(T).end
  <2> HIDE DEF T
  <2>1. T \in SUBSET Nat /\ \A i \in T : i < top
    BY <1>2
  <2> QED BY <1>1, <2>1, HullFacts
<1>7. DOMAIN iv \subseteq Slot
  BY <1>3
<1> HIDE DEF T, iv, r
<1>8. \A x \in T : s \in DOMAIN iv /\ x \in Nat /\ iv[s].start <= x /\ x <= iv[s].end
  BY <1>2, <1>4, <1>6
<1>9. s \in DOMAIN iv => iv[s].start \in Nat /\ iv[s].end \in Nat /\ iv[s].start <= iv[s].end
  BY <1>2, <1>4, <1>5, <1>6
<1> QED BY <1>7, <1>8, <1>9 DEF T, iv, r

-----------------------------------------------------------------------------
(* A point of block b, as an index.                                         *)
LEMMA PointIndex ==
    ASSUME NEW f, WellFormed(f), Listed(f), NEW b \in DOMAIN BlockRanges(f), NEW i \in Points(f, b)
    PROVE  /\ i \in Nat /\ 1 <= i /\ b \in f.blocks
           /\ BlockRanges(f)[b][1] \in Nat /\ BlockRanges(f)[b][2] \in Nat
           /\ BlockRanges(f)[b][1] + i - 1 \in Nat
           /\ BlockRanges(f)[b][1] <= BlockRanges(f)[b][1] + i - 1
           /\ BlockRanges(f)[b][1] + i - 1 <= BlockRanges(f)[b][2]
<1> DEFINE r == BlockRanges(f)
<1>1. PICK top \in Nat : \A c \in DOMAIN r :
              /\ c \in f.blocks /\ Len(f.code[c]) \in Nat
              /\ r[c][1] \in Nat /\ r[c][2] \in Nat
              /\ r[c][2] = r[c][1] + Len(f.code[c])
              /\ r[c][2] < top
  BY RangeFacts
<1> HIDE DEF r
<1>2. /\ Len(f.code[b]) \in Nat /\ r[b][1] \in Nat /\ r[b][2] \in Nat /\ b \in f.blocks
      /\ r[b][2] = r[b][1] + Len(f.code[b])
  BY <1>1 DEF r
<1>3. i \in Nat /\ i >= 1 /\ i <= Len(f.code[b]) + 1
  BY <1>2 DEF Points
<1> QED BY <1>2, <1>3 DEF r

(* Where a slot is needed, it is read there or later, or leaves the block   *)
(* needed; and it was written earlier in the block, or enters it needed.    *)
LEMMA NeededFacts ==
    ASSUME NEW f, WellFormed(f), Listed(f), NEW b \in DOMAIN BlockRanges(f), NEW i \in Points(f, b),
           NEW s \in LiveBefore(f, b, i)
    PROVE  /\ s \in Slot
           /\ \/ \E j \in Points(f, b) : j >= i /\ s \in ReadsAt(f, b, j)
              \/ s \in PathLiveOut(f, b)
           /\ \/ s \in PathLiveIn(f, b)
              \/ \E j \in Points(f, b) : j < i /\ s \in WritesAt(f, b, j)
<1>1. /\ s \in Slot
      /\ \/ \E j \in Points(f, b) :
               /\ j >= i /\ s \in ReadsAt(f, b, j)
               /\ \A m \in i .. j - 1 : s \notin WritesAt(f, b, m)
         \/ /\ s \in PathLiveOut(f, b)
            /\ \A m \in Points(f, b) : m >= i => s \notin WritesAt(f, b, m)
  BY DEF LiveBefore, NeededBefore
<1>2. \A j \in Points(f, b) : j \in Nat /\ \A m \in 1 .. j - 1 : m \in Points(f, b)
  <2>1. \A j \in Points(f, b) : j \in Nat
    BY PointIndex
  <2>2. Len(f.code[b]) \in Nat
    <3>1. b \in f.blocks
      BY PointIndex
    <3> QED BY <3>1 DEF Listed
  <2> QED BY <2>1, <2>2 DEF Points
<1>3. ASSUME \A j \in Points(f, b) : j < i => s \notin WritesAt(f, b, j)
      PROVE  s \in PathLiveIn(f, b)
  <2>1. b \in f.blocks
    BY PointIndex
  <2>2. PathLiveIn(f, b) = Gen(f, b) \cup (PathLiveOut(f, b) \ Kill(f, b))
    BY <2>1, PathLiveEquations
  <2>3. CASE \E j \in Points(f, b) : /\ j >= i /\ s \in ReadsAt(f, b, j)
                                     /\ \A m \in i .. j - 1 : s \notin WritesAt(f, b, m)
    <3>1. PICK j \in Points(f, b) : /\ j >= i /\ s \in ReadsAt(f, b, j)
                                    /\ \A m \in i .. j - 1 : s \notin WritesAt(f, b, m)
      BY <2>3
    <3>2. \A m \in 1 .. j - 1 : s \notin WritesAt(f, b, m)
      <4>1. ASSUME NEW m \in 1 .. j - 1 PROVE s \notin WritesAt(f, b, m)
        <5>1. m \in Points(f, b) /\ m \in Nat /\ i \in Nat /\ j \in Nat
          BY <1>2
        <5>2. m < i \/ m \in i .. j - 1
          BY <5>1
        <5> QED BY <1>3, <3>1, <5>1, <5>2
      <4> QED BY <4>1
    <3>3. s \in Gen(f, b)
      BY <1>1, <3>1, <3>2 DEF Gen
    <3> QED BY <2>2, <3>3
  <2>4. CASE /\ s \in PathLiveOut(f, b)
             /\ \A m \in Points(f, b) : m >= i => s \notin WritesAt(f, b, m)
    <3>1. \A m \in Points(f, b) : m < i \/ m >= i
      BY <1>2
    <3>2. s \notin Kill(f, b)
      BY <1>3, <2>4, <3>1 DEF Kill
    <3> QED BY <2>2, <2>4, <3>2
  <2> QED BY <1>1, <2>3, <2>4
<1> QED BY <1>1, <1>3

(* The hull covers liveness: wherever a slot is live, and at the first and  *)
(* last index of a block it is live into or out of.                         *)
LEMMA IntervalsCover ==
    ASSUME NEW f, WellFormed(f), Listed(f), NEW in, NEW out,
           \A b \in f.blocks : in[b] = PathLiveIn(f, b) /\ out[b] = PathLiveOut(f, b),
           NEW b \in DOMAIN BlockRanges(f), NEW i \in Points(f, b), NEW s \in LiveBefore(f, b, i)
    PROVE  /\ s \in DOMAIN ComputeIntervals(f, in, out)
           /\ ComputeIntervals(f, in, out)[s].start <= BlockRanges(f)[b][1] + i - 1
           /\ BlockRanges(f)[b][1] + i - 1 <= ComputeIntervals(f, in, out)[s].end
<1> DEFINE r == BlockRanges(f)
           iv == ComputeIntervals(f, in, out)
           T == IntervalPoints(f, r, in, out, s)
           at == r[b][1] + i - 1
<1>1. /\ s \in Slot /\ i \in Nat /\ b \in f.blocks /\ r[b][1] \in Nat /\ r[b][2] \in Nat /\ at \in Nat
      /\ r[b][1] <= at /\ at <= r[b][2]
  BY NeededFacts, PointIndex
<1>2. \A x \in T : s \in DOMAIN iv /\ x \in Nat /\ iv[s].start <= x /\ x <= iv[s].end
  BY <1>1, IntervalHolds
<1>3. s \in DOMAIN iv => iv[s].start \in Nat /\ iv[s].end \in Nat
  BY <1>1, IntervalHolds
<1>4. /\ s \in in[b] => r[b][1] \in T
      /\ s \in out[b] => r[b][2] \in T
      /\ \A j \in Points(f, b) : s \in ReadsAt(f, b, j) \cup WritesAt(f, b, j) => r[b][1] + j - 1 \in T
  <2> HIDE DEF r
  <2>1. b \in DOMAIN r
    BY DEF r
  <2> QED BY <2>1, PointsOfBlock
<1>5. \E x \in T : x <= at
  <2>1. CASE s \in PathLiveIn(f, b)
    BY <1>1, <1>4, <2>1
  <2>2. CASE \E j \in Points(f, b) : j < i /\ s \in WritesAt(f, b, j)
    <3>1. PICK j \in Points(f, b) : j < i /\ s \in WritesAt(f, b, j)
      BY <2>2
    <3>2. j \in Nat
      BY PointIndex
    <3>3. r[b][1] + j - 1 \in T
      BY <1>4, <3>1
    <3> HIDE DEF T, r
    <3> QED BY <1>1, <3>1, <3>2, <3>3
  <2> QED BY <2>1, <2>2, NeededFacts
<1>6. \E x \in T : at <= x
  <2>1. CASE s \in PathLiveOut(f, b)
    BY <1>1, <1>4, <2>1
  <2>2. CASE \E j \in Points(f, b) : j >= i /\ s \in ReadsAt(f, b, j)
    <3>1. PICK j \in Points(f, b) : j >= i /\ s \in ReadsAt(f, b, j)
      BY <2>2
    <3>2. j \in Nat
      BY PointIndex
    <3>3. r[b][1] + j - 1 \in T
      BY <1>4, <3>1
    <3> HIDE DEF T, r
    <3> QED BY <1>1, <3>1, <3>2, <3>3
  <2> QED BY <2>1, <2>2, NeededFacts
<1> HIDE DEF r, iv, T, at
<1>7. s \in DOMAIN iv /\ iv[s].start <= at /\ at <= iv[s].end
  BY <1>1, <1>2, <1>3, <1>5, <1>6
<1> QED BY <1>7 DEF r, iv, at
=============================================================================
