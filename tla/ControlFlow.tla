------------------------------ MODULE ControlFlow ------------------------------
(***************************************************************************)
(* Control-flow graphs, shared by the SSA and the lowered form of a        *)
(* function.  A graph g is a record with                                   *)
(*                                                                         *)
(*   entry, blocks   the entry block and the set of block ids              *)
(*   succ, pred      [blocks -> Seq(blocks)], the two lists add_edge keeps *)
(***************************************************************************)
EXTENDS Integers, Sequences, FiniteSets

(* The sequences that list the elements of S, each once: the orders in      *)
(* which a HashMap or a HashSet may be walked.                              *)
Enumerations(S) ==
    {q \in [1 .. Cardinality(S) -> S] :
        /\ \A i, j \in DOMAIN q : q[i] = q[j] => i = j
        /\ \A x \in S : \E i \in DOMAIN q : q[i] = x}

Successors(g, b)   == {g.succ[b][i] : i \in DOMAIN g.succ[b]}
Predecessors(g, b) == {g.pred[b][i] : i \in DOMAIN g.pred[b]}

(* What add_edge guarantees: both lists are updated together. *)
WellFormed(g) ==
    /\ IsFiniteSet(g.blocks)
    /\ g.entry \in g.blocks
    /\ \A b \in g.blocks : Successors(g, b) \subseteq g.blocks
    /\ \A b, c \in g.blocks : c \in Successors(g, b) <=> b \in Predecessors(g, c)
    /\ \A b \in g.blocks : Predecessors(g, b) \subseteq g.blocks

-----------------------------------------------------------------------------
(* Reference definitions, by paths: the nodes some path of one or more      *)
(* steps of next leads to from x, and the blocks reached from block b.      *)
Reach(nodes, next, x) ==
    LET reach[n \in 1 .. Cardinality(nodes)] ==
            IF n = 1 THEN next[x]
            ELSE LET nearer == reach[n-1] IN nearer \cup UNION {next[y] : y \in nearer}
    IN  reach[Cardinality(nodes)]
ReachableFrom(g, b) == Reach(g.blocks, [c \in g.blocks |-> Successors(g, c)], b)
=============================================================================
