------------------------------- MODULE Dominance -------------------------------
(***************************************************************************)
(* compute_dominance and build_loop_forest (ir/src/ssa_ir.rs): the reverse *)
(* postorder of the blocks, the immediate dominators by iteration over it, *)
(* dominance frontiers, back edges and natural loops.                      *)
(***************************************************************************)
EXTENDS ControlFlow, SequencesExt, PassState

VARIABLES
    path,           \* the recursion of postorder_dfs: blocks with the successors left
    postorder,
    rpo, pos,       \* reverse postorder, and the block of it at hand
    changed,
    idom,           \* the blocks given a dominator so far, and which
    frontier,       \* dom_frontier
    loops           \* the loop forest: [header, tail, body], one per back edge

search    == <<path, postorder>>
fixpoint  == <<rpo, pos, changed, idom>>
dominance == <<search, fixpoint, frontier, loops>>

InitDominance ==
    /\ path = <<>> /\ postorder = <<>>
    /\ rpo = <<>> /\ pos = 0 /\ changed = FALSE /\ idom = <<>>
    /\ frontier = <<>> /\ loops = {}

-----------------------------------------------------------------------------
(* reverse_post_order, by depth-first search along the successor lists.     *)
OnPath == {path[i].block : i \in DOMAIN path}
Visited == OnPath \cup ToSet(postorder)

StartSearch ==
    /\ phase = "order" /\ path = <<>> /\ postorder = <<>>
    /\ path' = <<[block |-> cfg.entry, left |-> cfg.succ[cfg.entry]]>>
    /\ UNCHANGED <<phase, cfg, postorder, fixpoint, frontier, loops>>

VisitSuccessor ==
    /\ phase = "order" /\ path # <<>> /\ path[1].left # <<>>
    /\ LET succ == Head(path[1].left)
           rest == [path EXCEPT ![1].left = Tail(@)]
       IN  path' = IF succ \in Visited THEN rest
                   ELSE <<[block |-> succ, left |-> cfg.succ[succ]]>> \o rest
    /\ UNCHANGED <<phase, cfg, postorder, fixpoint, frontier, loops>>

LeaveBlock ==
    /\ phase = "order" /\ path # <<>> /\ path[1].left = <<>>
    /\ postorder' = Append(postorder, path[1].block)
    /\ path' = Tail(path)
    /\ UNCHANGED <<phase, cfg, fixpoint, frontier, loops>>

StartDominance ==
    /\ phase = "order" /\ path = <<>> /\ postorder # <<>>
    /\ phase' = "dominance"
    /\ rpo' = Reverse(postorder) /\ pos' = 2
    /\ idom' = [b \in {cfg.entry} |-> b]
    /\ changed' = FALSE
    /\ UNCHANGED <<cfg, search, frontier, loops>>

-----------------------------------------------------------------------------
(* compute_rpo_indices, intersect: climb from the block that is later in    *)
(* the order until both are one.  Bound: each climbs at most Len(rpo) times. *)
RpoIndex(b) == CHOOSE i \in DOMAIN rpo : rpo[i] = b
Later(b, c) == RpoIndex(b) > RpoIndex(c)
ClimbLater ==
    [p \in (DOMAIN idom) \X (DOMAIN idom) |->
        IF Later(p[1], p[2]) THEN <<idom[p[1]], p[2]>>
        ELSE IF Later(p[2], p[1]) THEN <<p[1], idom[p[2]]>>
        ELSE p]
(* Mutant: one step up, not until they meet.                                *)
OneStep(b1, b2) == IF Later(b1, b2) THEN idom[b1] ELSE idom[b2]
Intersect(b1, b2) ==
    LET climb[n \in 0 .. 2 * Len(rpo)] ==
            IF n = 0 THEN <<b1, b2>> ELSE ClimbLater[climb[n-1]]
    IN  climb[2 * Len(rpo)][1]

(* compute_idom_for_block, an Option: the predecessors without a dominator  *)
(* yet do not count.                                                       *)
IntersectWith(found, p) ==
    IF p \notin DOMAIN idom THEN found
    ELSE IF found = {} THEN {p} ELSE {Intersect(d, p) : d \in found}
(* Mutant: every join hangs from the entry.                                 *)
FromEntry(b) == IF Len(cfg.pred[b]) > 1 THEN {cfg.entry} ELSE Predecessors(cfg, b)
IdomForBlock(b) ==
    LET found[n \in 0 .. Len(cfg.pred[b])] ==
            IF n = 0 THEN {} ELSE IntersectWith(found[n-1], cfg.pred[b][n])
    IN  found[Len(cfg.pred[b])]
(* Mutant: every assignment counts as a change.                             *)
NeverSettled(b) == FALSE
Settled(b) == b \in DOMAIN idom /\ IdomForBlock(b) = {idom[b]}

ComputeIdom ==
    /\ phase = "dominance" /\ pos <= Len(rpo)
    /\ LET b == rpo[pos]
       IN  IF IdomForBlock(b) = {} \/ Settled(b)
           THEN UNCHANGED <<idom, changed>>
           ELSE /\ \E d \in IdomForBlock(b) :
                      idom' = [c \in DOMAIN idom \cup {b} |-> IF c = b THEN d ELSE idom[c]]
                /\ changed' = TRUE
    /\ pos' = pos + 1
    /\ UNCHANGED <<phase, cfg, search, rpo, frontier, loops>>

NextRound ==
    /\ phase = "dominance" /\ pos > Len(rpo) /\ changed
    /\ pos' = 2 /\ changed' = FALSE
    /\ UNCHANGED <<phase, cfg, search, rpo, idom, frontier, loops>>

(* The blocks on the way up the tree from b, b included, short of top.      *)
WayUp(b, top) ==
    LET below == DOMAIN idom \ {top}
    IN  IF b = top THEN {}
        ELSE {b} \cup Reach(below, [c \in below |-> {idom[c]} \ {top}], b)

(* compute_dominance_frontiers: from each predecessor of a join, the blocks *)
(* up to the join's own dominator.                                         *)
Runners(p, n) == WayUp(p, idom[n])
(* Mutant: a join needs more than two predecessors.                         *)
WideJoin(n) == Len(cfg.pred[n]) > 2
IsJoin(n) == Len(cfg.pred[n]) >= 2
FrontierOf(b) == {n \in cfg.blocks : IsJoin(n) /\ \E p \in Predecessors(cfg, n) : b \in Runners(p, n)}

FinishDominance ==
    /\ phase = "dominance" /\ pos > Len(rpo) /\ ~ changed
    /\ frontier' = [b \in cfg.blocks |-> FrontierOf(b)]
    /\ phase' = "loops"
    /\ UNCHANGED <<cfg, search, fixpoint, loops>>

(* compute_dom_tree and DominanceInfo::dominates.                           *)
DomTreeChildren(b) == {n \in DOMAIN idom : idom[n] = b /\ n # b}
Dominates(d, b) == d \in {b} \cup Reach(DOMAIN idom, [c \in DOMAIN idom |-> {idom[c]}], b)

-----------------------------------------------------------------------------
(* Mutant: the two ends of an edge are exchanged.                           *)
UpEdges == {e \in cfg.blocks \X cfg.blocks : e[2] \in Successors(cfg, e[1]) /\ Dominates(e[1], e[2])}
(* find_back_edges, compute_natural_loop: backwards from the tail; the      *)
(* header is in the body from the start, so the walk stops there.          *)
BackEdges == {e \in cfg.blocks \X cfg.blocks : e[2] \in Successors(cfg, e[1]) /\ Dominates(e[2], e[1])}
NaturalLoop(tail, head) ==
    LET body[n \in 0 .. Cardinality(cfg.blocks)] ==
            IF n = 0 THEN {head, tail}
            ELSE LET inner == body[n-1]
                 IN  inner \cup UNION {Predecessors(cfg, b) : b \in inner \ {head}}
    IN  IF tail = head THEN {head} ELSE body[Cardinality(cfg.blocks)]

BuildLoopForest ==
    /\ phase = "loops"
    /\ loops' = {[tail |-> e[1], header |-> e[2], body |-> NaturalLoop(e[1], e[2])] : e \in BackEdges}
    /\ phase' = "phis"
    /\ UNCHANGED <<cfg, search, fixpoint, frontier>>

(* detect_loop_nesting: the smallest of the other loops that contain the    *)
(* header.                                                                 *)
Parents(l) ==
    LET outer == {o \in loops : o # l /\ l.header \in o.body}
    IN  {o \in outer : \A u \in outer : Cardinality(o.body) <= Cardinality(u.body)}
TopLevel == {l \in loops : Parents(l) = {}}

NextDominance ==
    \/ StartSearch \/ VisitSuccessor \/ LeaveBlock
    \/ StartDominance \/ ComputeIdom \/ NextRound \/ FinishDominance
    \/ BuildLoopForest

-----------------------------------------------------------------------------
(* Reference, by paths: a block dominates another if every path from the    *)
(* entry to it leads through the first.                                    *)
ReachedAvoiding(d) ==
    IF d = cfg.entry THEN {}
    ELSE {cfg.entry} \cup Reach(cfg.blocks, [b \in cfg.blocks |-> Successors(cfg, b) \ {d}], cfg.entry)
Dominators(b) == {d \in cfg.blocks : d = b \/ b \notin ReachedAvoiding(d)}

(* Whatever the round, a block's candidate comes before it in the order, so *)
(* climbing ends, and no true dominator is left out: those of the block are *)
(* among those of the candidate (intersect, ssa_ir.rs:827).                *)
CandidatesClimb ==
    \A b \in DOMAIN idom \ {cfg.entry} :
        /\ Later(b, idom[b])
        /\ Dominators(b) \ {b} \subseteq Dominators(idom[b])

(* The fixed point is dominance by paths, whatever rounds it took           *)
(* (compute_dominance, ssa_ir.rs:744).                                     *)
IdomIsDominance ==
    phase = "loops" =>
        /\ DOMAIN idom = cfg.blocks
        /\ \A b, d \in cfg.blocks : Dominates(d, b) <=> d \in Dominators(b)

(* A frontier is where dominance ends: the blocks with a predecessor the    *)
(* block dominates that it does not strictly dominate                      *)
(* (compute_dominance_frontiers, ssa_ir.rs:857).                           *)
FrontiersAtDominanceEnds ==
    phase = "loops" =>
        \A b \in cfg.blocks : frontier[b] =
            {n \in cfg.blocks : /\ \E p \in Predecessors(cfg, n) : b \in Dominators(p)
                                /\ b \notin Dominators(n) \ {n}}

(* A loop is what turns around its header: every block of it is dominated   *)
(* by the header and reaches it again inside the loop, and no block outside *)
(* does without leaving (compute_natural_loop, ssa_ir.rs:965).             *)
LoopsTurn ==
    phase = "phis" => \A l \in loops :
        /\ \A b \in l.body :
              /\ l.header \in Dominators(b)
              /\ l.header \in Reach(l.body, [c \in l.body |-> Successors(cfg, c) \cap l.body], b)
        /\ \A b \in l.body \ {l.header} : Predecessors(cfg, b) \subseteq l.body
=============================================================================
