------------------------- MODULE StackAllocatorProofs -------------------------
(***************************************************************************)
(* Proofs about color_slots, for every set of slots, every family of       *)
(* intervals and every MAX_STACK_REGS.                                     *)
(***************************************************************************)
EXTENDS StackAllocator, LiveIntervalsProofs

(* What a step of the colouring does: one more slot, the earliest of those  *)
(* that are left, with the lowest colour free around it.                    *)
LEMMA ColorSlotFacts ==
    ASSUME TypeOK, ColorSlot
    PROVE  \E s \in DOMAIN Intervals \ Colored, c \in Nat :
              /\ \A t \in DOMAIN Intervals \ Colored : Before(s, t)
              /\ LowestFree(c, UsedColors(s))
              /\ input' = input
              /\ DOMAIN color' = Colored \cup {s}
              /\ color' \in [Colored \cup {s} -> Nat]
              /\ color'[s] = c
              /\ \A t \in Colored : color'[t] = color[t]
<1>1. PICK s \in DOMAIN Intervals \ Colored :
         /\ \A t \in DOMAIN Intervals \ Colored : Before(s, t)
         /\ \E c \in 0 .. Cardinality(Colored) :
              /\ LowestFree(c, UsedColors(s))
              /\ color' = [t \in Colored \cup {s} |-> IF t = s THEN c ELSE color[t]]
         /\ input' = input
  BY DEF ColorSlot
<1>2. PICK c \in 0 .. Cardinality(Colored) :
         /\ LowestFree(c, UsedColors(s))
         /\ color' = [t \in Colored \cup {s} |-> IF t = s THEN c ELSE color[t]]
  BY <1>1
<1>3. c \in Nat /\ color \in [Colored -> Nat]
  BY DEF TypeOK
<1>4. /\ DOMAIN color' = Colored \cup {s} /\ color' \in [Colored \cup {s} -> Nat]
      /\ color'[s] = c /\ \A t \in Colored : color'[t] = color[t]
  BY <1>1, <1>2, <1>3
<1> QED BY <1>1, <1>2, <1>3, <1>4

(* Colours are natural numbers of slots that have an interval.              *)
THEOREM TypeCorrect == Spec => []TypeOK
<1>1. Init => TypeOK
  BY InputsAssumption DEF Init, TypeOK, Colored, Intervals
<1>2. TypeOK /\ [Next]_vars => TypeOK'
  <2> SUFFICES ASSUME TypeOK, [Next]_vars PROVE TypeOK'
    OBVIOUS
  <2>1. CASE ColorSlot
    BY <2>1, ColorSlotFacts DEF TypeOK, Colored, Intervals
  <2>2. CASE DeriveLayouts \/ UNCHANGED vars
    BY <2>2 DEF DeriveLayouts, vars, TypeOK, Colored, Intervals
  <2> QED BY <2>1, <2>2 DEF Next
<1> QED BY <1>1, <1>2, PTL DEF Spec

(* Overlapping slots never share a colour: the interference rule of         *)
(* color_slots holds after every step, for any intervals.                   *)
THEOREM NoSharedColorInvariant == Spec => []NoSharedColor
<1>1. Init => NoSharedColor
  BY DEF Init, NoSharedColor, Colored
<1>2. TypeOK /\ NoSharedColor /\ [Next]_vars => NoSharedColor'
  <2> SUFFICES ASSUME TypeOK, NoSharedColor, [Next]_vars PROVE NoSharedColor'
    OBVIOUS
  <2>1. CASE ColorSlot
    <3>1. PICK s \in DOMAIN Intervals \ Colored, c \in Nat :
              /\ LowestFree(c, UsedColors(s))
              /\ input' = input
              /\ DOMAIN color' = Colored \cup {s}
              /\ color'[s] = c
              /\ \A t \in Colored : color'[t] = color[t]
      BY <2>1, ColorSlotFacts
    <3>2. ASSUME NEW t \in Colored,
                 Overlaps(Intervals[t], Intervals[s]) \/ Overlaps(Intervals[s], Intervals[t])
          PROVE  color'[t] # color'[s]
      <4>1. color[t] \in UsedColors(s)
        BY <3>2 DEF UsedColors, Overlaps
      <4> QED BY <3>1, <4>1 DEF LowestFree
    <3>3. Colored' = Colored \cup {s} /\ Intervals' = Intervals
      BY <3>1 DEF Colored, Intervals
    <3>4. ASSUME NEW t \in Colored, NEW u \in Colored, t # u, Overlaps(Intervals[t], Intervals[u])
          PROVE  color'[t] # color'[u]
      BY <3>1, <3>4 DEF NoSharedColor
    <3> QED BY <3>2, <3>3, <3>4 DEF NoSharedColor
  <2>2. CASE DeriveLayouts \/ UNCHANGED vars
    BY <2>2 DEF DeriveLayouts, vars, NoSharedColor, Colored, Intervals
  <2> QED BY <2>1, <2>2 DEF Next
<1> QED BY <1>1, <1>2, TypeCorrect, PTL DEF Spec

(* The slots coloured so far start no later than those that are left.       *)
EarliestFirst ==
    \A s \in Colored : \A t \in DOMAIN Intervals \ Colored :
        Intervals[s].start <= Intervals[t].start

(* A slot gets colour c, and a place in memory, only where the lower        *)
(* colours are all taken at the instruction where the slot's interval       *)
(* starts: colouring by interval start wastes no stack position.            *)
THEOREM OnlyUnderPressureInvariant == Spec => []OnlyUnderPressure
<1>1. Init => EarliestFirst /\ OnlyUnderPressure
  BY DEF Init, EarliestFirst, OnlyUnderPressure, Colored
<1>2. TypeOK /\ EarliestFirst /\ OnlyUnderPressure /\ [Next]_vars
        => EarliestFirst' /\ OnlyUnderPressure'
  <2> SUFFICES ASSUME TypeOK, EarliestFirst, OnlyUnderPressure, [Next]_vars
               PROVE  EarliestFirst' /\ OnlyUnderPressure'
    OBVIOUS
  <2>1. CASE ColorSlot
    <3>1. PICK s \in DOMAIN Intervals \ Colored, c \in Nat :
              /\ \A t \in DOMAIN Intervals \ Colored : Before(s, t)
              /\ LowestFree(c, UsedColors(s))
              /\ input' = input
              /\ DOMAIN color' = Colored \cup {s}
              /\ color'[s] = c
              /\ \A t \in Colored : color'[t] = color[t]
      BY <2>1, ColorSlotFacts
    <3>2. /\ Colored' = Colored \cup {s} /\ Intervals' = Intervals
          /\ s \in DOMAIN Intervals /\ Colored \subseteq DOMAIN Intervals
          /\ \A t \in DOMAIN Intervals : Intervals[t].start \in Nat /\ Intervals[t].end \in Nat
      BY <3>1 DEF Colored, Intervals, TypeOK, WellFormedIntervals
    <3>3. \A t \in DOMAIN Intervals \ Colored : Intervals[s].start <= Intervals[t].start
      BY <3>1, <3>2 DEF Before
    <3>4. EarliestFirst'
      BY <3>2, <3>3 DEF EarliestFirst
    <3>5. ASSUME NEW k \in 0 .. c - 1
          PROVE  \E t \in Colored : /\ color[t] = k
                                    /\ Intervals[t].start <= Intervals[s].start
                                    /\ Intervals[s].start <= Intervals[t].end
      <4>1. PICK t \in Colored : Overlaps(Intervals[t], Intervals[s]) /\ color[t] = k
        BY <3>1 DEF LowestFree, UsedColors
      <4>2. Intervals[t].start <= Intervals[s].start
        BY <3>2 DEF EarliestFirst
      <4> QED BY <4>1, <4>2 DEF Overlaps
    <3>6. ASSUME NEW u \in Colored \cup {s}, NEW k \in 0 .. color'[u] - 1
          PROVE  \E t \in Colored : /\ color[t] = k
                                    /\ Intervals[t].start <= Intervals[u].start
                                    /\ Intervals[u].start <= Intervals[t].end
      BY <3>1, <3>5 DEF OnlyUnderPressure
    <3>7. OnlyUnderPressure'
      <4>1. ASSUME NEW u \in Colored \cup {s}, NEW k \in 0 .. color'[u] - 1
            PROVE  \E t \in Colored \cup {s} :
                      /\ color'[t] = k
                      /\ Intervals[t].start <= Intervals[u].start
                      /\ Intervals[u].start <= Intervals[t].end
        BY <3>1, <3>6
      <4> QED BY <3>2, <4>1 DEF OnlyUnderPressure
    <3> QED BY <3>4, <3>7
  <2>2. CASE DeriveLayouts \/ UNCHANGED vars
    BY <2>2 DEF DeriveLayouts, vars, EarliestFirst, OnlyUnderPressure, Colored, Intervals
  <2> QED BY <2>1, <2>2 DEF Next
<1> QED BY <1>1, <1>2, TypeCorrect, PTL DEF Spec

-----------------------------------------------------------------------------
(* Where the layouts come from: they are derived once every slot that has   *)
(* an interval is coloured, from the sets that are live at the block's ends. *)
Derived ==
    /\ input \in Inputs
    /\ IsFiniteSet(Colored)
    /\ Finished =>
          /\ DOMAIN Intervals \subseteq Colored
          /\ \A b \in input.cfg.blocks : /\ entry_layout[b] \in Layouts(input.live_in[b])
                                         /\ exit_layout[b] \in Layouts(input.live_out[b])

(* They depend on the colours alone.                                        *)
LEMMA SameLayouts ==
    ASSUME color' = color, input' = input, NEW b
    PROVE  /\ Layouts(input.live_in[b])' = Layouts(input.live_in[b])
           /\ Layouts(input.live_out[b])' = Layouts(input.live_out[b])
<1> DEFINE At(c, s) == IF s \in DOMAIN c /\ c[s] < MaxStackRegs THEN c[s] + 1 ELSE Memory
           Of(c, live) == {q \in Enumerations({s \in live : At(c, s) # Memory}) :
                             \A i, j \in DOMAIN q : i < j => At(c, q[i]) <= At(c, q[j])}
<1>1. /\ Layouts(input.live_in[b]) = Of(color, input.live_in[b])
      /\ Layouts(input.live_out[b]) = Of(color, input.live_out[b])
  BY Zenon DEF Layouts, Location, Colored
<1>2. /\ Layouts(input.live_in[b])' = Of(color', input'.live_in[b])
      /\ Layouts(input.live_out[b])' = Of(color', input'.live_out[b])
  BY Zenon DEF Layouts, Location, Colored
<1> HIDE DEF Of
<1> QED BY <1>1, <1>2

LEMMA DerivedInvariant == Spec => []Derived
<1>1. Init => Derived
  <2> SUFFICES ASSUME Init PROVE Derived
    OBVIOUS
  <2>1. Colored = {}
    BY DEF Init, Colored
  <2>2. IsFiniteSet(Colored)
    BY <2>1, FS_EmptySet
  <2> QED BY <2>2 DEF Init, Derived, Finished
<1>2. TypeOK /\ Derived /\ [Next]_vars => Derived'
  <2> SUFFICES ASSUME TypeOK, Derived, [Next]_vars PROVE Derived'
    OBVIOUS
  <2>1. CASE ColorSlot
    <3>1. PICK s \in DOMAIN Intervals \ Colored : Colored' = Colored \cup {s} /\ input' = input
      BY <2>1, ColorSlotFacts DEF Colored
    <3>2. IsFiniteSet(Colored')
      BY <3>1, FS_AddElement DEF Derived
    <3>3. ~ Finished /\ entry_layout' = entry_layout
      BY <2>1, <3>1 DEF Derived, ColorSlot
    <3> QED BY <3>1, <3>2, <3>3 DEF Derived, Finished
  <2>2. CASE DeriveLayouts
    <3>1. input' = input /\ color' = color /\ DOMAIN Intervals \subseteq Colored
      BY <2>2 DEF DeriveLayouts
    <3>2. \A b \in input.cfg.blocks : /\ entry_layout'[b] \in Layouts(input.live_in[b])
                                      /\ exit_layout'[b] \in Layouts(input.live_out[b])
      BY <2>2 DEF DeriveLayouts
    <3>3. \A b \in input.cfg.blocks : (/\ entry_layout[b] \in Layouts(input.live_in[b])
                                       /\ exit_layout[b] \in Layouts(input.live_out[b]))'
      BY <3>1, <3>2, SameLayouts
    <3>4. Colored' = Colored /\ Intervals' = Intervals
      BY <3>1 DEF Colored, Intervals
    <3> QED BY <3>1, <3>3, <3>4 DEF Derived
  <2>3. CASE UNCHANGED vars
    <3>1. input' = input /\ color' = color /\ entry_layout' = entry_layout /\ exit_layout' = exit_layout
      BY <2>3 DEF vars
    <3>2. Colored' = Colored /\ Intervals' = Intervals /\ (Finished' <=> Finished)
      BY <3>1 DEF Colored, Intervals, Finished
    <3> QED BY <3>1, <3>2, SameLayouts DEF Derived
  <2> QED BY <2>1, <2>2, <2>3 DEF Next
<1> QED BY <1>1, <1>2, TypeCorrect, PTL DEF Spec

(* Two slots whose intervals share an index have different positions.       *)
LEMMA ApartAtIndex ==
    ASSUME TypeOK, NoSharedColor, MaxStackRegs \in Nat,
           NEW at \in Nat, NEW s \in Colored, NEW t \in Colored, s # t,
           Intervals[s].start <= at, at <= Intervals[s].end,
           Intervals[t].start <= at, at <= Intervals[t].end,
           Location(s) # Memory
    PROVE  Location(s) # Location(t)
<1>1. /\ Intervals[s].start \in Nat /\ Intervals[s].end \in Nat
      /\ Intervals[t].start \in Nat /\ Intervals[t].end \in Nat
      /\ color[s] \in Nat /\ color[t] \in Nat
  BY DEF TypeOK, WellFormedIntervals
<1>2. Overlaps(Intervals[s], Intervals[t])
  BY <1>1 DEF Overlaps
<1>3. color[s] # color[t]
  BY <1>2 DEF NoSharedColor
<1> QED BY <1>1, <1>3 DEF Location, Memory

(* A layout of slots that are all live at one index.                        *)
LEMMA LayoutFits ==
    ASSUME TypeOK, NoSharedColor, IsFiniteSet(Colored), NEW live, NEW at \in Nat,
           \A s \in live \cap Colored : Intervals[s].start <= at /\ at <= Intervals[s].end,
           NEW q \in Layouts(live)
    PROVE  Ascending(q) /\ Len(q) <= MaxStackRegs
<1> DEFINE S == {s \in live : Location(s) # Memory}
           n == Cardinality(S)
<1>1. MaxStackRegs \in Nat
  BY MaxStackRegsAssumption
<1>2. S \subseteq live \cap Colored /\ \A s \in S : Location(s) \in Nat /\ Location(s) <= MaxStackRegs
  <2>1. \A s \in Colored : color[s] \in Nat
    BY DEF TypeOK
  <2> QED BY <1>1, <2>1 DEF Location, Memory
<1>3. n \in Nat
  <2>1. IsFiniteSet(S)
    BY <1>2, FS_Subset
  <2> QED BY <2>1, FS_CardinalityType
<1>4. /\ q \in [1 .. n -> S]
      /\ \A i, j \in DOMAIN q : q[i] = q[j] => i = j
      /\ \A i, j \in DOMAIN q : i < j => Location(q[i]) <= Location(q[j])
  BY DEF Layouts, Enumerations
<1> HIDE DEF S, n
<1>5. DOMAIN q = 1 .. n /\ Len(q) = n
  <2>1. q \in Seq(S)
    BY <1>3, <1>4
  <2> QED BY <1>3, <1>4, <2>1
<1>6. \A i, j \in 1 .. n : i < j => Location(q[i]) < Location(q[j])
  <2> SUFFICES ASSUME NEW i \in 1 .. n, NEW j \in 1 .. n, i < j
               PROVE  Location(q[i]) < Location(q[j])
    OBVIOUS
  <2>1. q[i] \in S /\ q[j] \in S /\ q[i] # q[j]
    BY <1>4, <1>5
  <2>2. Location(q[i]) # Memory
    BY <2>1 DEF S
  <2>3. Location(q[i]) # Location(q[j])
    BY <1>1, <1>2, <2>1, <2>2, ApartAtIndex
  <2> QED BY <1>2, <1>4, <1>5, <2>1, <2>3
<1>7. \A k \in 1 .. n : Location(q[k]) >= k
  <2> DEFINE K == {k \in Nat : k + 1 <= n => Location(q[k + 1]) >= k + 1}
  <2>1. \A k \in 1 .. n : Location(q[k]) \in Nat /\ Location(q[k]) # 0
    <3>1. \A k \in 1 .. n : q[k] \in S
      BY <1>4
    <3> QED BY <1>2, <3>1 DEF S, Memory
  <2>2. 0 \in K
    BY <1>3, <2>1
  <2>3. ASSUME NEW k \in Nat, k \in K PROVE k + 1 \in K
    <3> SUFFICES ASSUME (k + 1) + 1 <= n PROVE Location(q[(k + 1) + 1]) >= (k + 1) + 1
      OBVIOUS
    <3>1. k + 1 \in 1 .. n /\ (k + 1) + 1 \in 1 .. n /\ k + 1 < (k + 1) + 1
      BY <1>3
    <3>2. Location(q[k + 1]) < Location(q[(k + 1) + 1]) /\ Location(q[k + 1]) >= k + 1
      BY <1>6, <2>3, <3>1
    <3> QED BY <2>1, <3>1, <3>2
  <2>4. Nat \subseteq K
    <3> HIDE DEF K
    <3> QED BY <2>2, <2>3, Induction
  <2>5. \A k \in 1 .. n : k - 1 \in K /\ (k - 1) + 1 = k
    <3> HIDE DEF K
    <3> QED BY <1>3, <2>4
  <2> QED BY <1>3, <2>5
<1>8. n <= MaxStackRegs
  <2>1. CASE n = 0
    BY <1>1, <2>1
  <2>2. CASE n # 0
    <3>1. n \in 1 .. n /\ q[n] \in S
      BY <1>3, <1>4, <2>2
    <3> QED BY <1>1, <1>2, <1>3, <1>7, <3>1
  <2> QED BY <2>1, <2>2
<1> QED BY <1>5, <1>6, <1>8 DEF Ascending

(* What the intervals of a function cover.                                  *)
LEMMA CoveredPoints ==
    ASSUME input \in Inputs, NEW b \in DOMAIN BlockRanges(input.cfg)
    PROVE  LET r == BlockRanges(input.cfg)[b]
           IN  /\ b \in input.cfg.blocks /\ r[1] \in Nat /\ r[2] \in Nat
               /\ \A s \in input.live_in[b] :
                     s \in DOMAIN Intervals /\ Intervals[s].start <= r[1] /\ r[1] <= Intervals[s].end
               /\ \A s \in input.live_out[b] :
                     s \in DOMAIN Intervals /\ Intervals[s].start <= r[2] /\ r[2] <= Intervals[s].end
<1> DEFINE f == input.cfg
           r == BlockRanges(f)
           iv == ComputeIntervals(f, input.live_in, input.live_out)
<1>1. /\ WellFormed(f) /\ Listed(f)
      /\ \A c \in f.blocks : input.live_in[c] = PathLiveIn(f, c) /\ input.live_out[c] = PathLiveOut(f, c)
      /\ Intervals = iv
  BY AnalyzedAssumption DEF Analyzed, Intervals
<1>2. b \in f.blocks /\ r[b][1] \in Nat /\ r[b][2] \in Nat
  BY <1>1, RangeFacts
<1>3. input.live_in[b] \subseteq Slot /\ input.live_out[b] \subseteq Slot
  BY <1>1, <1>2, PathLiveEquations
<1>4. ASSUME NEW s \in Slot
      PROVE  \A x \in IntervalPoints(f, r, input.live_in, input.live_out, s) :
                s \in DOMAIN iv /\ iv[s].start <= x /\ x <= iv[s].end
  BY <1>1, IntervalHolds
<1>5. ASSUME NEW s PROVE /\ s \in input.live_in[b] => r[b][1] \in IntervalPoints(f, r, input.live_in, input.live_out, s)
                         /\ s \in input.live_out[b] => r[b][2] \in IntervalPoints(f, r, input.live_in, input.live_out, s)
  <2> HIDE DEF r, f
  <2>1. b \in DOMAIN r
    BY DEF r, f
  <2> QED BY <2>1, PointsOfBlock
<1>6. /\ \A s \in input.live_in[b] : s \in DOMAIN iv /\ iv[s].start <= r[b][1] /\ r[b][1] <= iv[s].end
      /\ \A s \in input.live_out[b] : s \in DOMAIN iv /\ iv[s].start <= r[b][2] /\ r[b][2] <= iv[s].end
  <2> HIDE DEF r, f, iv
  <2> QED BY <1>3, <1>4, <1>5
<1> QED BY <1>1, <1>2, <1>6

(* Two slots live before one instruction are never in the same stack        *)
(* position: what code generation takes from allocate.                      *)
THEOREM LiveSlotsApartInvariant == Spec => []LiveSlotsApart
<1>1. TypeOK /\ NoSharedColor /\ Derived => LiveSlotsApart
  <2> SUFFICES ASSUME TypeOK, NoSharedColor, Derived, Finished,
                      NEW b \in DOMAIN BlockRanges(input.cfg), NEW i \in Points(input.cfg, b),
                      NEW s \in LiveBefore(input.cfg, b, i), NEW t \in LiveBefore(input.cfg, b, i),
                      s # t, Location(s) # Memory
               PROVE  Location(s) # Location(t)
    BY DEF LiveSlotsApart
  <2> DEFINE f == input.cfg
             at == BlockRanges(f)[b][1] + i - 1
  <2>1. /\ WellFormed(f) /\ Listed(f)
        /\ \A c \in f.blocks : input.live_in[c] = PathLiveIn(f, c) /\ input.live_out[c] = PathLiveOut(f, c)
        /\ Intervals = ComputeIntervals(f, input.live_in, input.live_out)
        /\ DOMAIN Intervals \subseteq Colored
    BY AnalyzedAssumption DEF Analyzed, Intervals, Derived
  <2>2. at \in Nat
    BY <2>1, PointIndex
  <2>3. \A u \in {s, t} : u \in DOMAIN Intervals /\ Intervals[u].start <= at /\ at <= Intervals[u].end
    BY <2>1, IntervalsCover
  <2> HIDE DEF at
  <2> QED BY <2>1, <2>2, <2>3, ApartAtIndex, MaxStackRegsAssumption
<1> QED BY <1>1, TypeCorrect, NoSharedColorInvariant, DerivedInvariant, PTL

(* Every layout lists distinct positions in ascending order, no more than   *)
(* there are stack registers.                                               *)
THEOREM LayoutsFitInvariant == Spec => []LayoutsFit
<1>1. TypeOK /\ NoSharedColor /\ Derived => LayoutsFit
  <2> SUFFICES ASSUME TypeOK, NoSharedColor, Derived, Finished,
                      NEW b \in DOMAIN BlockRanges(input.cfg)
               PROVE  /\ Ascending(entry_layout[b]) /\ Len(entry_layout[b]) <= MaxStackRegs
                      /\ Ascending(exit_layout[b]) /\ Len(exit_layout[b]) <= MaxStackRegs
    BY DEF LayoutsFit
  <2> DEFINE r == BlockRanges(input.cfg)[b]
  <2>1. /\ b \in input.cfg.blocks /\ r[1] \in Nat /\ r[2] \in Nat
        /\ \A s \in input.live_in[b] : Intervals[s].start <= r[1] /\ r[1] <= Intervals[s].end
        /\ \A s \in input.live_out[b] : Intervals[s].start <= r[2] /\ r[2] <= Intervals[s].end
    BY CoveredPoints DEF Derived
  <2>2. /\ entry_layout[b] \in Layouts(input.live_in[b])
        /\ exit_layout[b] \in Layouts(input.live_out[b])
        /\ IsFiniteSet(Colored)
    BY <2>1 DEF Derived
  <2> HIDE DEF r
  <2>3. Ascending(entry_layout[b]) /\ Len(entry_layout[b]) <= MaxStackRegs
    BY <2>1, <2>2, LayoutFits
  <2>4. Ascending(exit_layout[b]) /\ Len(exit_layout[b]) <= MaxStackRegs
    BY <2>1, <2>2, LayoutFits
  <2> QED BY <2>3, <2>4
<1> QED BY <1>1, TypeCorrect, NoSharedColorInvariant, DerivedInvariant, PTL
=============================================================================
