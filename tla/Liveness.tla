------------------------------- MODULE Liveness -------------------------------
(***************************************************************************)
(* codegen/src/analysis/liveness.rs: analyze_liveness, the worklist        *)
(* algorithm that computes the slots live at block entry and exit; the     *)
(* live intervals derived from them are in LiveIntervals.                  *)
(*                                                                         *)
(* The initial worklist is HashMap order, hence any order.  The            *)
(* predecessors of a changed block are appended in any order as well: that *)
(* covers every order a predecessor list can have.                         *)
(***************************************************************************)
EXTENDS LiveIntervals

CONSTANT Cfgs      \* the functions the analysis may be run on

ASSUME CfgsAssumption == \A f \in Cfgs : WellFormed(f) /\ Listed(f)

VARIABLES
    g,             \* the function analysed
    live_in,       \* slots live at the entry of each block
    live_out,      \* slots live at the exit of each block
    worklist,      \* queue of blocks to (re)visit
    in_worklist    \* the set kept beside the queue to avoid duplicates

vars == <<g, live_in, live_out, worklist, in_worklist>>

InQueue == {worklist[i] : i \in DOMAIN worklist}

(* Mutant of Init: every slot is assumed live until shown otherwise.         *)
InitAllLive ==
    /\ g \in Cfgs
    /\ live_in = [b \in g.blocks |-> Slot]
    /\ live_out = [b \in g.blocks |-> Slot]
    /\ worklist \in Enumerations(g.blocks)
    /\ in_worklist = g.blocks

Init ==
    /\ g \in Cfgs
    /\ live_in = [b \in g.blocks |-> {}]
    /\ live_out = [b \in g.blocks |-> {}]
    /\ worklist \in Enumerations(g.blocks)
    /\ in_worklist = g.blocks

(* The right-hand sides of the two data-flow equations. *)
NewLiveOut(f, in, b) == UNION {in[c] : c \in Successors(f, b)}
NewLiveIn(f, out, b) == Gen(f, b) \cup (out \ Kill(f, b))

(* Mutant of Changed: the new live_out is compared with the old live_in.     *)
ChangedCrosswise(b) ==
    \/ NewLiveOut(g, live_in, b) # live_in[b]
    \/ NewLiveIn(g, NewLiveOut(g, live_in, b), b) # live_in[b]

Changed(b) ==
    \/ NewLiveOut(g, live_in, b) # live_out[b]
    \/ NewLiveIn(g, NewLiveOut(g, live_in, b), b) # live_in[b]

(* Mutants of ToRevisit: no check of in_worklist; b removed from it only     *)
(* after its predecessors are pushed; successors instead of predecessors.    *)
RevisitAll(b)        == Predecessors(g, b)
RevisitOthers(b)     == Predecessors(g, b) \ in_worklist
RevisitSuccessors(b) == Successors(g, b) \ (in_worklist \ {b})

(* The predecessors pushed back when b changed: those not waiting already.  *)
ToRevisit(b) == Predecessors(g, b) \ (in_worklist \ {b})

(* One turn of the while loop, for the block at the head of the queue.      *)
Unchanging ==
    /\ worklist # <<>>
    /\ ~ Changed(Head(worklist))
    /\ worklist' = Tail(worklist)
    /\ in_worklist' = in_worklist \ {Head(worklist)}
    /\ UNCHANGED <<g, live_in, live_out>>

Update ==
    /\ worklist # <<>>
    /\ Changed(Head(worklist))
    /\ LET b   == Head(worklist)
           out == NewLiveOut(g, live_in, b)
       IN  /\ live_out' = [live_out EXCEPT ![b] = out]
           /\ live_in' = [live_in EXCEPT ![b] = NewLiveIn(g, out, b)]
           /\ \E q \in Enumerations(ToRevisit(b)) : worklist' = Tail(worklist) \o q
           /\ in_worklist' = (in_worklist \ {b}) \cup ToRevisit(b)
    /\ UNCHANGED g

Next == Unchanging \/ Update

(* The loop is the body of a sequential function: it runs as long as it is  *)
(* enabled.                                                                 *)
Spec == Init /\ [][Next]_vars /\ WF_vars(Next)

Done == worklist = <<>>

-----------------------------------------------------------------------------
(* Types, and the set kept beside the queue really is the queue's contents, *)
(* so no block waits twice (worklist and in_worklist of analyze_liveness).  *)
TypeOK ==
    /\ WellFormed(g)
    /\ live_in \in [g.blocks -> SUBSET Slot]
    /\ live_out \in [g.blocks -> SUBSET Slot]
    /\ worklist \in Seq(g.blocks)
    /\ in_worklist = InQueue
    /\ \A i, j \in DOMAIN worklist : worklist[i] = worklist[j] => i = j

(* A block that is not waiting satisfies both data-flow equations with the  *)
(* current sets: pushing only the predecessors of a changed block forgets   *)
(* no block whose equations the change broke.                               *)
SettledBlock(b) ==
    /\ live_out[b] = NewLiveOut(g, live_in, b)
    /\ live_in[b] = NewLiveIn(g, live_out[b], b)
Settled == \A b \in g.blocks \ InQueue : SettledBlock(b)

(* When the queue is empty the result solves the equations, and it is the   *)
(* least solution: whatever the order of the worklist, no slot is kept      *)
(* alive that need not be (every extra slot costs a stack position).        *)
IsSolution(f, X) ==
    \A b \in f.blocks : X[b] = NewLiveIn(f, NewLiveOut(f, X, b), b)
LeastSolution ==
    Done => /\ IsSolution(g, live_in)
            /\ \A b \in g.blocks : live_out[b] = NewLiveOut(g, live_in, b)
            /\ \A X \in [g.blocks -> SUBSET Slot] :
                  IsSolution(g, X) => \A b \in g.blocks : live_in[b] \subseteq X[b]

(* The result is liveness as its doc comment defines it: live_in[B] is the  *)
(* set of slots that will be read on some path from B (liveness.rs:6-7).    *)
LiveOnSomePath ==
    Done => \A b \in g.blocks : /\ live_in[b] = PathLiveIn(g, b)
                                /\ live_out[b] = PathLiveOut(g, b)

(* The intervals are safe for the allocator: at every instruction of a      *)
(* reachable block, every live slot's interval holds the instruction's      *)
(* index, loops included (a back edge runs against the index order).        *)
IntervalsCoverLiveness ==
    Done => LET ranges == BlockRanges(g)
                iv == ComputeIntervals(g, live_in, live_out)
            IN  \A b \in DOMAIN ranges : \A i \in Points(g, b) :
                  \A s \in LiveBefore(g, b, i) :
                     /\ s \in DOMAIN iv
                     /\ iv[s].start <= ranges[b][1] + i - 1
                     /\ ranges[b][1] + i - 1 <= iv[s].end

(* The sets only ever grow: a revisit never withdraws a slot another block  *)
(* has already been told about.                                             *)
Grows == \A b \in g.blocks : live_in[b] \subseteq live_in'[b] /\ live_out[b] \subseteq live_out'[b]
Monotone == [][Grows]_vars

(* The analysis ends, whatever the loops of the function.                   *)
Terminates == <>Done
=============================================================================
