---------------------------- MODULE StackAllocator ----------------------------
(***************************************************************************)
(* codegen/src/analysis/stack_allocator.rs: allocate.  color_slots visits  *)
(* the slots by interval start and gives each the lowest colour no         *)
(* overlapping coloured slot has; colours below MAX_STACK_REGS become      *)
(* stack positions, the others memory.  derive_layouts then lists, for     *)
(* each block, the stack slots of its live sets by position.               *)
(***************************************************************************)
EXTENDS LiveIntervals

CONSTANTS
    MaxStackRegs,      \* MAX_STACK_REGS: 15 in the code
    Inputs             \* the arguments of allocate: records [cfg, live_in, live_out, intervals]

ASSUME MaxStackRegsAssumption == MaxStackRegs \in Nat
ASSUME SlotAssumption == Slot \subseteq Nat

(* The intervals of an argument: of slots, and never empty.                 *)
WellFormedIntervals(iv) ==
    /\ DOMAIN iv \subseteq Slot
    /\ \A s \in DOMAIN iv : /\ iv[s].start \in Nat /\ iv[s].end \in Nat
                             /\ iv[s].start <= iv[s].end
ASSUME InputsAssumption == \A x \in Inputs : WellFormedIntervals(x.intervals)

(* What allocate's only caller passes on: a function, and what               *)
(* analyze_liveness returned for it.                                         *)
Analyzed(x) ==
    /\ WellFormed(x.cfg) /\ Listed(x.cfg)
    /\ \A b \in x.cfg.blocks : /\ x.live_in[b] = PathLiveIn(x.cfg, b)
                                /\ x.live_out[b] = PathLiveOut(x.cfg, b)
    /\ x.intervals = ComputeIntervals(x.cfg, x.live_in, x.live_out)
ASSUME AnalyzedAssumption == \A x \in Inputs : Analyzed(x)

VARIABLES
    input,             \* the function and its liveness, never written
    color,             \* colours of the slots visited so far
    entry_layout,      \* StackAllocation::entry_layout, <<>> until derived
    exit_layout        \* StackAllocation::exit_layout

vars == <<input, color, entry_layout, exit_layout>>

Intervals == input.intervals
Colored == DOMAIN color

Init ==
    /\ input \in Inputs
    /\ color = [s \in {} |-> 0]
    /\ entry_layout = <<>>
    /\ exit_layout = <<>>

(* Mutant of Before: by slot id alone.                                       *)
BeforeById(s, t) == s <= t

(* The order of color_slots: interval start, then slot id.                  *)
Before(s, t) ==
    \/ Intervals[s].start < Intervals[t].start
    \/ Intervals[s].start = Intervals[t].start /\ s <= t

(* Mutant of UsedColors: an interval that ends where another starts frees    *)
(* its colour.                                                               *)
ActiveColors(s) ==
    {color[t] : t \in {u \in Colored : Intervals[s].start < Intervals[u].end}}

UsedColors(s) == {color[t] : t \in {u \in Colored : Overlaps(Intervals[u], Intervals[s])}}

(* The loop body of color_slots.  (0..).find(..) is unbounded: the lowest   *)
(* free colour is at most the number of coloured slots.                     *)
LowestFree(c, used) == c \notin used /\ \A d \in 0 .. c - 1 : d \in used

(* Mutant of ColorSlot: the colour just below those in use.                  *)
ColorBelow ==
    \E s \in DOMAIN Intervals \ Colored :
        /\ \A t \in DOMAIN Intervals \ Colored : Before(s, t)
        /\ \E c \in -1 .. Cardinality(Colored) :
              /\ IF UsedColors(s) = {} THEN c = 0
                 ELSE c + 1 \in UsedColors(s) /\ \A d \in UsedColors(s) : c < d
              /\ color' = [t \in Colored \cup {s} |-> IF t = s THEN c ELSE color[t]]
        /\ UNCHANGED <<input, entry_layout, exit_layout>>

ColorSlot ==
    \E s \in DOMAIN Intervals \ Colored :
        /\ \A t \in DOMAIN Intervals \ Colored : Before(s, t)
        /\ \E c \in 0 .. Cardinality(Colored) :
              /\ LowestFree(c, UsedColors(s))
              /\ color' = [t \in Colored \cup {s} |-> IF t = s THEN c ELSE color[t]]
        /\ UNCHANGED <<input, entry_layout, exit_layout>>

(* The assignment: 1-based stack position, or 0 for Memory.  A slot without *)
(* an interval has no location either.                                      *)
Memory == 0
Location(s) == IF s \in Colored /\ color[s] < MaxStackRegs THEN color[s] + 1 ELSE Memory

(* Mutant of Layouts: the slots are not sorted.                              *)
UnsortedLayouts(live) == Enumerations({s \in live : Location(s) # Memory})

(* stack_positioned_slots: two slots of one position may come in any order. *)
Layouts(live) ==
    {q \in Enumerations({s \in live : Location(s) # Memory}) :
        \A i, j \in DOMAIN q : i < j => Location(q[i]) <= Location(q[j])}

DeriveLayouts ==
    /\ DOMAIN Intervals \subseteq Colored
    /\ entry_layout = <<>>
    /\ \E q \in [input.cfg.blocks -> UNION {Layouts(input.live_in[b]) : b \in input.cfg.blocks}] :
          /\ \A b \in input.cfg.blocks : q[b] \in Layouts(input.live_in[b])
          /\ entry_layout' = q
    /\ \E q \in [input.cfg.blocks -> UNION {Layouts(input.live_out[b]) : b \in input.cfg.blocks}] :
          /\ \A b \in input.cfg.blocks : q[b] \in Layouts(input.live_out[b])
          /\ exit_layout' = q
    /\ UNCHANGED <<input, color>>

Next == ColorSlot \/ DeriveLayouts

Spec == Init /\ [][Next]_vars

Finished == entry_layout # <<>>

-----------------------------------------------------------------------------
(* Types: the slots coloured so far, with natural colours, are slots that   *)
(* have an interval.                                                        *)
TypeOK ==
    /\ WellFormedIntervals(Intervals)
    /\ Colored \subseteq DOMAIN Intervals
    /\ color \in [Colored -> Nat]

(* The interference rule of the module's doc: two slots whose live          *)
(* intervals overlap never share a colour, at any moment of the colouring.  *)
NoSharedColor ==
    \A s, t \in Colored :
        s # t /\ Overlaps(Intervals[s], Intervals[t]) => color[s] # color[t]

(* Greedy colouring by interval start is frugal: a slot has colour c only   *)
(* if every lower colour is held by a slot whose interval contains the      *)
(* slot's start.  So a slot goes to Memory only where MAX_STACK_REGS other  *)
(* slots hold all the stack positions at one instruction.                   *)
OnlyUnderPressure ==
    \A s \in Colored : \A k \in 0 .. color[s] - 1 :
        \E t \in Colored :
            /\ color[t] = k
            /\ Intervals[t].start <= Intervals[s].start
            /\ Intervals[s].start <= Intervals[t].end

(* What code generation relies on: two slots live before the same           *)
(* instruction never have the same stack position.                          *)
LiveSlotsApart ==
    Finished => \A b \in DOMAIN BlockRanges(input.cfg) : \A i \in Points(input.cfg, b) :
        \A s, t \in LiveBefore(input.cfg, b, i) :
            s # t /\ Location(s) # Memory => Location(s) # Location(t)

(* Every layout lists its stack slots by strictly increasing position, so   *)
(* it never has more than MAX_STACK_REGS entries: with the continuation     *)
(* below, DUP16 reaches all of it.                                          *)
Ascending(q) == \A i, j \in DOMAIN q : i < j => Location(q[i]) < Location(q[j])
LayoutsFit ==
    Finished => \A b \in DOMAIN BlockRanges(input.cfg) :
        \A q \in {entry_layout[b], exit_layout[b]} : Ascending(q) /\ Len(q) <= MaxStackRegs
=============================================================================
