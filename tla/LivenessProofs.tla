---------------------------- MODULE LivenessProofs ----------------------------
(***************************************************************************)
(* Proofs about the worklist of analyze_liveness, for every set of         *)
(* functions and slots: its bookkeeping (TypeOK), the invariant that makes *)
(* the worklist sound (Settled), the growth of the sets (Monotone) and     *)
(* that the result is the least solution of the equations (LeastSolution). *)
(***************************************************************************)
EXTENDS Liveness, LiveIntervalsProofs

(* An enumeration of a finite set is a sequence of its elements, each once. *)
LEMMA EnumerationFacts ==
    ASSUME NEW S, IsFiniteSet(S), NEW q \in Enumerations(S)
    PROVE  /\ q \in Seq(S)
           /\ {q[i] : i \in DOMAIN q} = S
           /\ \A i, j \in DOMAIN q : q[i] = q[j] => i = j
<1>1. Cardinality(S) \in Nat
  BY FS_CardinalityType
<1>2. q \in Seq(S)
  BY <1>1 DEF Enumerations
<1>3. QED
  BY <1>2 DEF Enumerations

(* Popping the head of a queue without duplicates removes exactly it.       *)
LEMMA TailFacts ==
    ASSUME NEW S, NEW q \in Seq(S), q # <<>>,
           \A i, j \in DOMAIN q : q[i] = q[j] => i = j
    PROVE  /\ Head(q) \in S
           /\ Head(q) \in {q[i] : i \in DOMAIN q}
           /\ Tail(q) \in Seq(S)
           /\ {Tail(q)[i] : i \in DOMAIN Tail(q)} = {q[i] : i \in DOMAIN q} \ {Head(q)}
           /\ \A i, j \in DOMAIN Tail(q) : Tail(q)[i] = Tail(q)[j] => i = j
<1>1. /\ Len(q) \in Nat /\ Len(q) >= 1 /\ DOMAIN q = 1 .. Len(q)
      /\ Head(q) = q[1]
      /\ Tail(q) \in Seq(S) /\ Len(Tail(q)) = Len(q) - 1
      /\ DOMAIN Tail(q) = 1 .. Len(q) - 1
      /\ \A i \in 1 .. Len(q) - 1 : Tail(q)[i] = q[i+1]
  OBVIOUS
<1>2. {Tail(q)[i] : i \in DOMAIN Tail(q)} \subseteq {q[i] : i \in DOMAIN q} \ {Head(q)}
  <2> SUFFICES ASSUME NEW i \in 1 .. Len(q) - 1
               PROVE  q[i+1] \in {q[k] : k \in DOMAIN q} /\ q[i+1] # q[1]
    BY <1>1
  <2>1. i + 1 \in DOMAIN q /\ 1 \in DOMAIN q /\ i + 1 # 1
    BY <1>1
  <2> QED BY <2>1
<1>3. {q[i] : i \in DOMAIN q} \ {Head(q)} \subseteq {Tail(q)[i] : i \in DOMAIN Tail(q)}
  <2> SUFFICES ASSUME NEW i \in DOMAIN q, q[i] # q[1]
               PROVE  \E k \in DOMAIN Tail(q) : Tail(q)[k] = q[i]
    BY <1>1
  <2>1. i - 1 \in DOMAIN Tail(q) /\ Tail(q)[i-1] = q[i]
    BY <1>1
  <2> QED BY <2>1
<1>4. \A i, j \in DOMAIN Tail(q) : Tail(q)[i] = Tail(q)[j] => i = j
  <2> SUFFICES ASSUME NEW i \in 1 .. Len(q) - 1, NEW j \in 1 .. Len(q) - 1, q[i+1] = q[j+1]
               PROVE  i = j
    BY <1>1
  <2>1. i + 1 \in DOMAIN q /\ j + 1 \in DOMAIN q
    BY <1>1
  <2> QED BY <2>1
<1>5. Head(q) \in S /\ Head(q) \in {q[i] : i \in DOMAIN q}
  BY <1>1
<1> QED BY <1>1, <1>2, <1>3, <1>4, <1>5

(* Appending a duplicate-free sequence of other elements keeps a queue free *)
(* of duplicates.                                                           *)
LEMMA ConcatFacts ==
    ASSUME NEW S, NEW q \in Seq(S), NEW r \in Seq(S),
           \A i, j \in DOMAIN q : q[i] = q[j] => i = j,
           \A i, j \in DOMAIN r : r[i] = r[j] => i = j,
           {q[i] : i \in DOMAIN q} \cap {r[i] : i \in DOMAIN r} = {}
    PROVE  /\ q \o r \in Seq(S)
           /\ {(q \o r)[i] : i \in DOMAIN (q \o r)}
                = {q[i] : i \in DOMAIN q} \cup {r[i] : i \in DOMAIN r}
           /\ \A i, j \in DOMAIN (q \o r) : (q \o r)[i] = (q \o r)[j] => i = j
<1> DEFINE s == q \o r
<1>1. /\ Len(q) \in Nat /\ Len(r) \in Nat
      /\ DOMAIN q = 1 .. Len(q) /\ DOMAIN r = 1 .. Len(r)
      /\ s \in Seq(S) /\ DOMAIN s = 1 .. Len(q) + Len(r)
  OBVIOUS
<1>2. \A i \in 1 .. Len(q) + Len(r) :
         s[i] = IF i <= Len(q) THEN q[i] ELSE r[i - Len(q)]
  OBVIOUS
<1>3. \A i \in DOMAIN s : IF i <= Len(q) THEN i \in DOMAIN q ELSE i - Len(q) \in DOMAIN r
  BY <1>1
<1>4. {s[i] : i \in DOMAIN s} \subseteq {q[i] : i \in DOMAIN q} \cup {r[i] : i \in DOMAIN r}
  BY <1>1, <1>2, <1>3
<1>5. \A i \in DOMAIN q : i \in DOMAIN s /\ s[i] = q[i]
  BY <1>1, <1>2
<1>6. \A i \in DOMAIN r : Len(q) + i \in DOMAIN s /\ s[Len(q) + i] = r[i]
  BY <1>1, <1>2
<1>7. {q[i] : i \in DOMAIN q} \cup {r[i] : i \in DOMAIN r} \subseteq {s[i] : i \in DOMAIN s}
  BY <1>5, <1>6, SMTT(30)
<1>8. ASSUME NEW i \in DOMAIN s, NEW j \in DOMAIN s, s[i] = s[j]
      PROVE  i = j
  <2>1. CASE i <= Len(q) /\ j <= Len(q)
    BY <2>1, <1>1, <1>2, <1>8
  <2>2. CASE i > Len(q) /\ j > Len(q)
    <3>1. r[i - Len(q)] = r[j - Len(q)] /\ i - Len(q) \in DOMAIN r /\ j - Len(q) \in DOMAIN r
      BY <2>2, <1>1, <1>2, <1>3, <1>8
    <3>2. i - Len(q) = j - Len(q)
      BY <3>1
    <3> QED BY <3>2, <1>1
  <2>3. CASE i <= Len(q) /\ j > Len(q)
    <3>1. s[i] = q[i] /\ i \in DOMAIN q
      BY <2>3, <1>1, <1>2
    <3>2. s[j] = r[j - Len(q)] /\ j - Len(q) \in DOMAIN r
      BY <2>3, <1>1, <1>2
    <3> QED BY <3>1, <3>2, <1>8
  <2>4. CASE i > Len(q) /\ j <= Len(q)
    <3>1. s[j] = q[j] /\ j \in DOMAIN q
      BY <2>4, <1>1, <1>2
    <3>2. s[i] = r[i - Len(q)] /\ i - Len(q) \in DOMAIN r
      BY <2>4, <1>1, <1>2
    <3> QED BY <3>1, <3>2, <1>8
  <2> QED BY <2>1, <2>2, <2>3, <2>4, <1>1
<1> QED BY <1>1, <1>4, <1>7, <1>8

-----------------------------------------------------------------------------
(* The set of slots live at a block's exit or entry is a set of slots.      *)
LEMMA EquationTypes ==
    ASSUME NEW f, WellFormed(f), NEW b \in f.blocks,
           NEW in \in [f.blocks -> SUBSET Slot], NEW out \in SUBSET Slot
    PROVE  NewLiveOut(f, in, b) \in SUBSET Slot /\ NewLiveIn(f, out, b) \in SUBSET Slot
<1>1. Successors(f, b) \subseteq f.blocks
  BY DEF WellFormed
<1>2. NewLiveOut(f, in, b) \in SUBSET Slot
  BY <1>1 DEF NewLiveOut
<1>3. NewLiveIn(f, out, b) \in SUBSET Slot
  BY DEF NewLiveIn, Gen
<1> QED BY <1>2, <1>3

(* What a turn of the loop does to the queue.                               *)
LEMMA QueueStep ==
    ASSUME TypeOK, NEW b, worklist # <<>>, b = Head(worklist)
    PROVE  /\ b \in g.blocks /\ b \in InQueue
           /\ Unchanging => /\ worklist' \in Seq(g.blocks)
                            /\ InQueue' = InQueue \ {b}
                            /\ in_worklist' = InQueue \ {b}
                            /\ \A i, j \in DOMAIN worklist' : worklist'[i] = worklist'[j] => i = j
           /\ Update => /\ worklist' \in Seq(g.blocks)
                        /\ InQueue' = (InQueue \ {b}) \cup Predecessors(g, b)
                        /\ in_worklist' = InQueue'
                        /\ \A i, j \in DOMAIN worklist' : worklist'[i] = worklist'[j] => i = j
<1> DEFINE t == Tail(worklist)
           P == ToRevisit(b)
<1>1. /\ b \in g.blocks /\ b \in InQueue
      /\ t \in Seq(g.blocks)
      /\ {t[i] : i \in DOMAIN t} = InQueue \ {b}
      /\ \A i, j \in DOMAIN t : t[i] = t[j] => i = j
  BY TailFacts DEF TypeOK, InQueue
<1>2. in_worklist = InQueue /\ WellFormed(g)
  BY DEF TypeOK
<1>3. P \subseteq g.blocks /\ IsFiniteSet(P) /\ P \cap (InQueue \ {b}) = {}
      /\ (InQueue \ {b}) \cup P = (InQueue \ {b}) \cup Predecessors(g, b)
  <2>1. Predecessors(g, b) \subseteq g.blocks /\ IsFiniteSet(g.blocks)
    BY <1>1, <1>2 DEF WellFormed
  <2>2. P \subseteq g.blocks
    BY <2>1 DEF ToRevisit
  <2>3. IsFiniteSet(P)
    BY <2>1, <2>2, FS_Subset
  <2> QED BY <2>2, <2>3, <1>2 DEF ToRevisit
<1>4. ASSUME Unchanging
      PROVE  /\ worklist' \in Seq(g.blocks)
             /\ InQueue' = InQueue \ {b}
             /\ in_worklist' = InQueue \ {b}
             /\ \A i, j \in DOMAIN worklist' : worklist'[i] = worklist'[j] => i = j
  <2>1. worklist' = t /\ in_worklist' = in_worklist \ {b}
    BY <1>4 DEF Unchanging
  <2> QED BY <2>1, <1>1, <1>2 DEF InQueue
<1>5. ASSUME Update
      PROVE  /\ worklist' \in Seq(g.blocks)
             /\ InQueue' = (InQueue \ {b}) \cup Predecessors(g, b)
             /\ in_worklist' = InQueue'
             /\ \A i, j \in DOMAIN worklist' : worklist'[i] = worklist'[j] => i = j
  <2>1. PICK q \in Enumerations(P) : worklist' = t \o q
    BY <1>5 DEF Update
  <2>2. /\ q \in Seq(P) /\ {q[i] : i \in DOMAIN q} = P
        /\ \A i, j \in DOMAIN q : q[i] = q[j] => i = j
    BY <1>3, EnumerationFacts
  <2>3. q \in Seq(g.blocks)
    BY <2>2, <1>3
  <2>4. {t[i] : i \in DOMAIN t} \cap {q[i] : i \in DOMAIN q} = {}
    BY <1>1, <1>3, <2>2
  <2>5. /\ t \o q \in Seq(g.blocks)
        /\ {(t \o q)[i] : i \in DOMAIN (t \o q)} = (InQueue \ {b}) \cup P
        /\ \A i, j \in DOMAIN (t \o q) : (t \o q)[i] = (t \o q)[j] => i = j
    <3> HIDE DEF t, P
    <3>1. /\ t \o q \in Seq(g.blocks)
          /\ {(t \o q)[i] : i \in DOMAIN (t \o q)}
                = {t[i] : i \in DOMAIN t} \cup {q[i] : i \in DOMAIN q}
          /\ \A i, j \in DOMAIN (t \o q) : (t \o q)[i] = (t \o q)[j] => i = j
      BY <1>1, <2>2, <2>3, <2>4, ConcatFacts
    <3> QED BY <3>1, <1>1, <2>2
  <2>6. InQueue' = (InQueue \ {b}) \cup P
    BY <2>1, <2>5 DEF InQueue
  <2>7. in_worklist' = (in_worklist \ {b}) \cup P
    BY <1>5 DEF Update
  <2> QED BY <2>1, <2>5, <2>6, <2>7, <1>2, <1>3
<1> QED BY <1>1, <1>4, <1>5

(* An update assigns slots to one block's entries and leaves the others.    *)
LEMMA UpdateStep ==
    ASSUME TypeOK, Update, NEW b, b = Head(worklist)
    PROVE  /\ g' = g /\ b \in g.blocks
           /\ live_in' \in [g.blocks -> SUBSET Slot]
           /\ live_out' \in [g.blocks -> SUBSET Slot]
           /\ live_out'[b] = NewLiveOut(g, live_in, b)
           /\ live_in'[b] = NewLiveIn(g, live_out'[b], b)
           /\ \A c \in g.blocks \ {b} : live_in'[c] = live_in[c] /\ live_out'[c] = live_out[c]
<1> DEFINE out == NewLiveOut(g, live_in, b)
<1>1. g' = g /\ live_out' = [live_out EXCEPT ![b] = out]
      /\ live_in' = [live_in EXCEPT ![b] = NewLiveIn(g, out, b)]
  BY DEF Update
<1>2. b \in g.blocks
  BY QueueStep DEF Update
<1>3. out \in SUBSET Slot /\ NewLiveIn(g, out, b) \in SUBSET Slot
  BY <1>2, EquationTypes DEF TypeOK
<1> HIDE DEF out
<1>4. /\ live_in \in [g.blocks -> SUBSET Slot]
      /\ live_out \in [g.blocks -> SUBSET Slot]
  BY DEF TypeOK
<1>5. live_out'[b] = out /\ live_in'[b] = NewLiveIn(g, out, b)
  BY <1>1, <1>2, <1>4
<1> QED BY <1>1, <1>2, <1>3, <1>4, <1>5 DEF out

(* The queue and its set agree, no block waits twice, the live sets are     *)
(* sets of slots: TypeOK is an invariant of analyze_liveness's loop.        *)
THEOREM TypeCorrect == Spec => []TypeOK
<1>1. Init => TypeOK
  <2> SUFFICES ASSUME Init PROVE TypeOK
    OBVIOUS
  <2>1. IsFiniteSet(g.blocks)
    BY CfgsAssumption DEF Init, WellFormed
  <2>2. /\ worklist \in Seq(g.blocks)
        /\ InQueue = g.blocks
        /\ \A i, j \in DOMAIN worklist : worklist[i] = worklist[j] => i = j
    BY <2>1, EnumerationFacts DEF Init, InQueue
  <2> QED BY <2>2, CfgsAssumption DEF Init, TypeOK
<1>2. TypeOK /\ [Next]_vars => TypeOK'
  <2> SUFFICES ASSUME TypeOK, [Next]_vars PROVE TypeOK'
    OBVIOUS
  <2> DEFINE b == Head(worklist)
  <2>1. CASE Unchanging
    <3>1. worklist # <<>> /\ UNCHANGED <<g, live_in, live_out>>
      BY <2>1 DEF Unchanging
    <3>2. /\ worklist' \in Seq(g.blocks)
          /\ in_worklist' = InQueue'
          /\ \A i, j \in DOMAIN worklist' : worklist'[i] = worklist'[j] => i = j
      BY <2>1, <3>1, QueueStep
    <3> QED BY <3>1, <3>2 DEF TypeOK, WellFormed
  <2>2. CASE Update
    <3>1. worklist # <<>>
      BY <2>2 DEF Update
    <3> QED BY <2>2, <3>1, QueueStep, UpdateStep DEF TypeOK
  <2>3. CASE UNCHANGED vars
    BY <2>3 DEF vars, TypeOK, InQueue, WellFormed
  <2> QED BY <2>1, <2>2, <2>3 DEF Next
<1> QED BY <1>1, <1>2, PTL DEF Spec

-----------------------------------------------------------------------------
(* No block is forgotten: a block that is not in the queue satisfies both   *)
(* equations, although the blocks after it go on changing.                  *)
THEOREM SettledInvariant == Spec => []Settled
<1>1. Init => Settled
  <2> SUFFICES ASSUME Init PROVE g.blocks \subseteq InQueue
    BY DEF Settled
  <2>1. IsFiniteSet(g.blocks)
    BY CfgsAssumption DEF Init, WellFormed
  <2> QED BY <2>1, EnumerationFacts DEF Init, InQueue
<1>2. TypeOK /\ Settled /\ [Next]_vars => Settled'
  <2> SUFFICES ASSUME TypeOK, Settled, [Next]_vars PROVE Settled'
    OBVIOUS
  <2> DEFINE b == Head(worklist)
  <2>1. CASE Unchanging
    <3>1. /\ b \in g.blocks /\ InQueue' = InQueue \ {b}
          /\ UNCHANGED <<g, live_in, live_out>> /\ ~ Changed(b)
      BY <2>1, QueueStep DEF Unchanging
    <3>2. SettledBlock(b)
      BY <3>1 DEF Changed, SettledBlock
    <3>3. \A c \in g.blocks \ InQueue' : SettledBlock(c)
      BY <3>1, <3>2 DEF Settled
    <3> QED BY <3>1, <3>3 DEF Settled, SettledBlock
  <2>2. CASE Update
    <3>1. /\ b \in g.blocks /\ g' = g /\ WellFormed(g)
          /\ InQueue' = (InQueue \ {b}) \cup Predecessors(g, b)
          /\ live_out'[b] = NewLiveOut(g, live_in, b)
          /\ live_in'[b] = NewLiveIn(g, live_out'[b], b)
          /\ \A c \in g.blocks \ {b} : live_in'[c] = live_in[c] /\ live_out'[c] = live_out[c]
      BY <2>2, QueueStep, UpdateStep DEF Update, TypeOK
    <3>2. ASSUME NEW c \in g.blocks \ InQueue'
          PROVE  NewLiveOut(g, live_in', c) = NewLiveOut(g, live_in, c)
      <4>1. b \notin Successors(g, c) /\ Successors(g, c) \subseteq g.blocks
        BY <3>1 DEF WellFormed
      <4>2. \A d \in Successors(g, c) : live_in'[d] = live_in[d]
        BY <3>1, <4>1
      <4> QED BY <4>2 DEF NewLiveOut
    <3>3. ASSUME NEW c \in g.blocks \ InQueue'
          PROVE  /\ live_out'[c] = NewLiveOut(g, live_in', c)
                 /\ live_in'[c] = NewLiveIn(g, live_out'[c], c)
      <4>1. CASE c = b
        BY <3>1, <3>2, <4>1
      <4>2. CASE c # b
        <5>1. c \notin InQueue
          BY <3>1, <4>2
        <5> QED BY <3>1, <3>2, <4>2, <5>1 DEF Settled, SettledBlock
      <4> QED BY <4>1, <4>2
    <3> QED BY <3>1, <3>3 DEF Settled, SettledBlock
  <2>3. CASE UNCHANGED vars
    BY <2>3 DEF vars, Settled, SettledBlock, InQueue
  <2> QED BY <2>1, <2>2, <2>3 DEF Next
<1> QED BY <1>1, <1>2, TypeCorrect, PTL DEF Spec

(* The sets stay below every solution of the equations.                     *)
BelowSolutions ==
    \A X \in [g.blocks -> SUBSET Slot] :
        IsSolution(g, X) => \A b \in g.blocks : live_in[b] \subseteq X[b]

LEMMA BelowSolutionsInvariant == Spec => []BelowSolutions
<1>1. Init => BelowSolutions
  BY DEF Init, BelowSolutions
<1>2. TypeOK /\ BelowSolutions /\ [Next]_vars => BelowSolutions'
  <2> SUFFICES ASSUME TypeOK, BelowSolutions, [Next]_vars PROVE BelowSolutions'
    OBVIOUS
  <2> DEFINE b == Head(worklist)
  <2>1. CASE Unchanging \/ UNCHANGED vars
    BY <2>1 DEF Unchanging, vars, BelowSolutions
  <2>2. CASE Update
    <3>1. /\ b \in g.blocks /\ g' = g /\ WellFormed(g)
          /\ live_out'[b] = NewLiveOut(g, live_in, b)
          /\ live_in'[b] = NewLiveIn(g, live_out'[b], b)
          /\ \A c \in g.blocks \ {b} : live_in'[c] = live_in[c]
      BY <2>2, UpdateStep DEF TypeOK
    <3>2. SUFFICES ASSUME NEW X \in [g.blocks -> SUBSET Slot], IsSolution(g, X)
                   PROVE  live_in'[b] \subseteq X[b]
      BY <3>1 DEF BelowSolutions
    <3>3. \A c \in g.blocks : live_in[c] \subseteq X[c]
      BY <3>2 DEF BelowSolutions
    <3>4. Successors(g, b) \subseteq g.blocks
      BY <3>1 DEF WellFormed
    <3>5. NewLiveOut(g, live_in, b) \subseteq NewLiveOut(g, X, b)
      BY <3>3, <3>4 DEF NewLiveOut
    <3>6. X[b] = NewLiveIn(g, NewLiveOut(g, X, b), b)
      BY <3>1, <3>2 DEF IsSolution
    <3> QED BY <3>1, <3>5, <3>6 DEF NewLiveIn
  <2> QED BY <2>1, <2>2 DEF Next
<1> QED BY <1>1, <1>2, TypeCorrect, PTL DEF Spec

(* When the loop of analyze_liveness ends, its result solves the data-flow  *)
(* equations and is the least solution, whatever order the hash map and the *)
(* queue imposed.                                                           *)
THEOREM LeastSolutionInvariant == Spec => []LeastSolution
<1>1. TypeOK /\ Settled /\ BelowSolutions => LeastSolution
  <2> SUFFICES ASSUME TypeOK, Settled, BelowSolutions, Done PROVE LeastSolution
    BY DEF LeastSolution
  <2>1. InQueue = {}
    BY DEF Done, InQueue
  <2>2. \A b \in g.blocks : SettledBlock(b)
    BY <2>1 DEF Settled
  <2> QED BY <2>2 DEF LeastSolution, IsSolution, SettledBlock, BelowSolutions
<1> QED BY <1>1, TypeCorrect, SettledInvariant, BelowSolutionsInvariant, PTL

(* What was computed for a block is covered by what would be computed now.  *)
Covered ==
    \A b \in g.blocks : /\ live_out[b] \subseteq NewLiveOut(g, live_in, b)
                        /\ live_in[b] \subseteq NewLiveIn(g, live_out[b], b)

LEMMA UpdateGrows ==
    ASSUME TypeOK, Covered, Update
    PROVE  g' = g /\ Grows /\ Covered'
<1> DEFINE b == Head(worklist)
<1>1. /\ b \in g.blocks /\ g' = g /\ WellFormed(g)
      /\ live_out'[b] = NewLiveOut(g, live_in, b)
      /\ live_in'[b] = NewLiveIn(g, live_out'[b], b)
      /\ \A c \in g.blocks \ {b} : live_in'[c] = live_in[c] /\ live_out'[c] = live_out[c]
  BY UpdateStep DEF TypeOK
<1>2. live_out[b] \subseteq live_out'[b]
  BY <1>1 DEF Covered
<1>3. live_in[b] \subseteq live_in'[b]
  BY <1>1, <1>2 DEF Covered, NewLiveIn
<1>4. \A c \in g.blocks : live_in[c] \subseteq live_in'[c] /\ live_out[c] \subseteq live_out'[c]
  BY <1>1, <1>2, <1>3
<1>5. ASSUME NEW c \in g.blocks
      PROVE  NewLiveOut(g, live_in, c) \subseteq NewLiveOut(g, live_in', c)
  <2>1. Successors(g, c) \subseteq g.blocks
    BY <1>1 DEF WellFormed
  <2> QED BY <1>4, <2>1 DEF NewLiveOut
<1>6. ASSUME NEW c \in g.blocks
      PROVE  /\ live_out'[c] \subseteq NewLiveOut(g, live_in', c)
             /\ live_in'[c] \subseteq NewLiveIn(g, live_out'[c], c)
  <2>1. CASE c = b
    BY <1>1, <1>5, <2>1
  <2>2. CASE c # b
    BY <1>1, <1>5, <2>2 DEF Covered
  <2> QED BY <2>1, <2>2
<1> QED BY <1>1, <1>4, <1>6 DEF Grows, Covered

(* No step of the loop withdraws a slot from a live set: the step of the    *)
(* fixpoint is monotone from the empty start.                               *)
THEOREM MonotoneTheorem == Spec => Monotone
<1>1. Init => Covered
  BY DEF Init, Covered
<1>2. TypeOK /\ Covered /\ [Next]_vars => Covered' /\ [Grows]_vars
  <2> SUFFICES ASSUME TypeOK, Covered, [Next]_vars PROVE Covered' /\ [Grows]_vars
    OBVIOUS
  <2>1. CASE Unchanging
    <3>1. UNCHANGED <<g, live_in, live_out>>
      BY <2>1 DEF Unchanging
    <3> QED BY <3>1 DEF Covered, Grows
  <2>2. CASE Update
    BY <2>2, UpdateGrows
  <2>3. CASE UNCHANGED vars
    BY <2>3 DEF vars, Covered
  <2> QED BY <2>1, <2>2, <2>3 DEF Next
<1>3. Spec => []Covered
  BY <1>1, <1>2, TypeCorrect, PTL DEF Spec
<1> QED BY <1>2, <1>3, TypeCorrect, PTL DEF Spec, Monotone

-----------------------------------------------------------------------------
(* The least solution of the equations is liveness by paths: the sets of    *)
(* PathLiveIn solve them, and what lies on a path lies in every solution.   *)
LEMMA LeastIsByPaths ==
    ASSUME TypeOK, LeastSolution, Done
    PROVE  \A b \in g.blocks : live_in[b] = PathLiveIn(g, b) /\ live_out[b] = PathLiveOut(g, b)
<1>1. WellFormed(g) /\ IsSolution(g, live_in)
  BY DEF TypeOK, LeastSolution
<1>2. \A b \in g.blocks : live_in[b] \subseteq PathLiveIn(g, b)
  <2> DEFINE X == [b \in g.blocks |-> PathLiveIn(g, b)]
  <2>1. X \in [g.blocks -> SUBSET Slot]
    BY <1>1, PathLiveEquations
  <2>2. \A b \in g.blocks : NewLiveOut(g, X, b) = PathLiveOut(g, b)
    BY <1>1 DEF NewLiveOut, PathLiveOut, WellFormed
  <2>3. \A b \in g.blocks : X[b] = NewLiveIn(g, PathLiveOut(g, b), b)
    BY <1>1, PathLiveEquations DEF NewLiveIn
  <2>4. IsSolution(g, X)
    BY <2>2, <2>3 DEF IsSolution
  <2> QED BY <2>1, <2>4 DEF LeastSolution
<1>3. ASSUME NEW s \in Slot
      PROVE  \A b \in LiveBlocks(g, s) : s \in live_in[b]
  <2> DEFINE C == {b \in g.blocks : s \in live_in[b]}
  <2>1. \A b \in g.blocks : live_in[b] = Gen(g, b) \cup (NewLiveOut(g, live_in, b) \ Kill(g, b))
    BY <1>1 DEF IsSolution, NewLiveIn
  <2>2. \A b \in g.blocks : s \in Gen(g, b) => b \in C
    BY <2>1
  <2>3. \A b \in g.blocks : s \notin Kill(g, b) /\ Successors(g, b) \cap C # {} => b \in C
    BY <2>1 DEF NewLiveOut
  <2>4. LiveBlocks(g, s) \subseteq C
    <3> HIDE DEF C
    <3> QED BY <1>1, <2>2, <2>3, LiveBlocksFacts
  <2> QED BY <2>4
<1>4. \A b \in g.blocks : live_in[b] = PathLiveIn(g, b)
  BY <1>2, <1>3 DEF PathLiveIn
<1>5. ASSUME NEW b \in g.blocks PROVE live_out[b] = PathLiveOut(g, b)
  <2>1. live_out[b] = NewLiveOut(g, live_in, b)
    BY DEF LeastSolution
  <2>2. Successors(g, b) \subseteq g.blocks
    BY <1>1 DEF WellFormed
  <2> QED BY <1>4, <2>1, <2>2 DEF NewLiveOut, PathLiveOut
<1> QED BY <1>4, <1>5

(* For every function and every order of the worklist, live_in and live_out *)
(* end as the slots read on some path before they are written: liveness as  *)
(* the doc comment of liveness.rs defines it.                               *)
THEOREM LiveOnSomePathInvariant == Spec => []LiveOnSomePath
<1>1. TypeOK /\ LeastSolution => LiveOnSomePath
  BY LeastIsByPaths DEF LiveOnSomePath
<1> QED BY <1>1, TypeCorrect, LeastSolutionInvariant, PTL

LEMMA FromCfgs == Spec => [](g \in Cfgs)
<1>1. Init => g \in Cfgs
  BY DEF Init
<1>2. g \in Cfgs /\ [Next]_vars => (g \in Cfgs)'
  BY DEF Next, Unchanging, Update, vars
<1> QED BY <1>1, <1>2, PTL DEF Spec

(* For every function: at every instruction of every block numbered, the    *)
(* interval of every live slot holds the instruction's index, although a    *)
(* back edge runs against the order of the numbers.                         *)
THEOREM IntervalsCoverInvariant == Spec => []IntervalsCoverLiveness
<1>1. TypeOK /\ LeastSolution /\ g \in Cfgs => IntervalsCoverLiveness
  <2> SUFFICES ASSUME TypeOK, LeastSolution, g \in Cfgs, Done,
                      NEW b \in DOMAIN BlockRanges(g), NEW i \in Points(g, b),
                      NEW s \in LiveBefore(g, b, i)
               PROVE  /\ s \in DOMAIN ComputeIntervals(g, live_in, live_out)
                      /\ ComputeIntervals(g, live_in, live_out)[s].start <= BlockRanges(g)[b][1] + i - 1
                      /\ BlockRanges(g)[b][1] + i - 1 <= ComputeIntervals(g, live_in, live_out)[s].end
    BY DEF IntervalsCoverLiveness
  <2>1. WellFormed(g) /\ Listed(g)
    BY CfgsAssumption
  <2>2. \A c \in g.blocks : live_in[c] = PathLiveIn(g, c) /\ live_out[c] = PathLiveOut(g, c)
    BY LeastIsByPaths
  <2> QED BY <2>1, <2>2, IntervalsCover
<1> QED BY <1>1, TypeCorrect, LeastSolutionInvariant, FromCfgs, PTL
=============================================================================
