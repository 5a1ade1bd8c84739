---------------------------- MODULE LiveIntervals ----------------------------
(***************************************************************************)
(* compute_intervals of codegen/src/analysis/liveness.rs: the blocks are   *)
(* numbered breadth-first from the entry, every instruction gets an index, *)
(* and the interval of a slot is the hull of the indices at which it is    *)
(* defined, used, or live across a block boundary.                         *)
(***************************************************************************)
EXTENDS LoweredCfg, SequencesExt

(* The instructions and the successors of a block are lists.                *)
Listed(f) ==
    \A b \in f.blocks : f.code[b] \in Seq(ToSet(f.code[b])) /\ f.succ[b] \in Seq(f.blocks)

(* One block off the BFS queue: it takes the next |instructions| + 1        *)
(* indices and its unvisited successors join the queue, in list order.      *)
Visit(st, c) ==
    IF c \in st.visited THEN st
    ELSE [st EXCEPT !.visited = @ \cup {c}, !.queue = Append(@, c)]

BfsStep(f, st) ==
    LET b    == Head(st.queue)
        last == st.idx + Len(f.code[b])
        numbered == [st EXCEPT
                       !.queue  = Tail(@),
                       !.ranges = [c \in DOMAIN @ \cup {b} |->
                                     IF c = b THEN <<st.idx, last>> ELSE @[c]],
                       !.idx    = last + 1]
        visit[n \in 0 .. Len(f.succ[b])] ==
            IF n = 0 THEN numbered ELSE Visit(visit[n-1], f.succ[b][n])
    IN  visit[Len(f.succ[b])]

BlockRanges(f) ==
    LET start == [queue |-> <<f.entry>>, visited |-> {f.entry},
                  ranges |-> [c \in {} |-> <<0, 0>>], idx |-> 0]
        bfs[n \in 0 .. Cardinality(f.blocks)] ==
            IF n = 0 THEN start
            ELSE LET st == bfs[n-1] IN IF st.queue = <<>> THEN st ELSE BfsStep(f, st)
    IN  bfs[Cardinality(f.blocks)].ranges

(* Mutant of IntervalPoints: a slot live at the end of a block is forgotten. *)
PointsBeforeExit(f, ranges, in, out, s) ==
    UNION {      {ranges[b][1] : x \in {s} \cap in[b]}
            \cup {ranges[b][1] + i - 1 :
                     i \in {j \in Points(f, b) : s \in ReadsAt(f, b, j) \cup WritesAt(f, b, j)}}
          : b \in DOMAIN ranges}

(* The indices extend_interval is called with for slot s. *)
IntervalPoints(f, ranges, in, out, s) ==
    UNION {      {ranges[b][1] : x \in {s} \cap in[b]}
            \cup {ranges[b][2] : x \in {s} \cap out[b]}
            \cup {ranges[b][1] + i - 1 :
                     i \in {j \in Points(f, b) : s \in ReadsAt(f, b, j) \cup WritesAt(f, b, j)}}
          : b \in DOMAIN ranges}

IntervalOf(pts) ==
    [start |-> CHOOSE i \in pts : \A j \in pts : i <= j,
     end   |-> CHOOSE i \in pts : \A j \in pts : j <= i]

ComputeIntervals(f, in, out) ==
    LET ranges == BlockRanges(f)
        pts(s) == IntervalPoints(f, ranges, in, out, s)
    IN  [s \in {x \in Slot : pts(x) # {}} |-> IntervalOf(pts(s))]

(* LiveInterval::overlaps. *)
Overlaps(i, j) == i.start <= j.end /\ j.start <= i.end
=============================================================================
