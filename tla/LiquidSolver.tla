------------------------------ MODULE LiquidSolver ------------------------------
(***************************************************************************)
(* The constraint solver (refinements/solver.rs).  Liquid variables start   *)
(* as true; the constraints are checked in the order they were generated,  *)
(* a subtyping constraint that fails strengthens the liquid variable on its *)
(* right, and rounds go on until one changes nothing.  A last round decides.*)
(***************************************************************************)
EXTENDS LiquidInference

CONSTANT MaxIterations

VARIABLES
    assignment,    \* LiquidAssignment
    next,          \* the constraint to check next
    changed,       \* has this round strengthened anything
    iteration,     \* rounds completed
    search,        \* candidates left for a liquid variable, and what it has so far
    backwards      \* the order in which hash maps of names and qualifiers come out

solverVars == <<assignment, next, changed, iteration, search, backwards>>
vars == <<inferenceVars, solverVars>>

NoSearch == [candidates |-> <<>>, pred |-> True, simple |-> 0, complex |-> 0]
Init ==
    /\ InitInference /\ search = NoSearch
    /\ assignment = <<>> /\ next = 1 /\ changed = FALSE /\ iteration = 0
    /\ backwards = FALSE

-----------------------------------------------------------------------------
Templates(c) == ToSet(c.given) \cup {c.goal}
LiquidVars == UNION {t.kappa : t \in UNION {Templates(c) : c \in ToSet(constraints)}}

(* get_predicate: the only liquid variables without a value are those of    *)
(* registers no constraint is about.                                       *)
PredicateOf(t) ==
    IF ~ IsLiquid(t) THEN t.pred
    ELSE IF t.kappa \subseteq DOMAIN assignment THEN assignment[CHOOSE k \in t.kappa : TRUE]
    ELSE True

(* collect_vars_from_predicate: neither the subject of a refinement nor     *)
(* what stands inside old.                                                 *)
RECURSIVE Mentioned(_)
Mentioned(p) ==
    CASE p.op = "BoolVar" -> {p.sym} \ {Nu}
      [] p.op = "IntVar"  -> {p.sym} \ {Self}
      [] p.op = "Old"     -> {}
      [] OTHER -> UNION {Mentioned(p.args[k]) : k \in DOMAIN p.args}

(* The registers a name stands for: itself, or the one that holds it.       *)
Registers(ctx, x) ==
    IF x \in DOMAIN ctx.bindings THEN {x}
    ELSE IF x \in DOMAIN ctx.map THEN {ctx.map[x]} \cap DOMAIN ctx.bindings
    ELSE {}
Refinements(ctx, names) ==
    UNION {{SubstituteVars(PredicateOf(ctx.bindings[r]), ctx.bindings[r].binder :> x)
                : r \in Registers(ctx, x)} : x \in names}

(* check_implication: what the context assumes, and the refinements of the  *)
(* names the two predicates mention (of no others).                        *)
Assumptions(ctx, antecedent, consequent) ==
    ToSet(ctx.assumptions)
        \cup Refinements(ctx, Mentioned(antecedent) \cup Mentioned(consequent))
Entails(ctx, antecedent, consequent) ==
    \/ consequent = True
    \/ antecedent = False
    \/ ValidImplication(Assumptions(ctx, antecedent, consequent), antecedent, consequent)

-----------------------------------------------------------------------------
Antecedent(c) ==
    CASE c.kind = "Subtype" -> PredicateOf(c.given[1])
      [] c.kind = "Operation" ->
            FoldRight(LAMBDA t, p : And(PredicateOf(t), p), c.given, c.fact)
      [] OTHER -> True

(* The right side of a subtyping is about the left side's binder.           *)
Consequent(c) ==
    IF c.kind = "Subtype" THEN PredicateOf(ReplaceBinder(c.goal, c.given[1].binder))
    ELSE PredicateOf(c.goal)

(* Mutant of Unsettled: what a liquid variable already is does not matter.  *)
AnyLiquid(c) == c.kind = "Subtype" /\ IsLiquid(c.goal)
Unsettled(c) == c.kind = "Subtype" /\ IsLiquid(c.goal) /\ PredicateOf(c.goal) = True

Satisfied(c) ==
    CASE c.kind = "WellFormed" -> Mentioned(c.goal.pred) \subseteq DOMAIN c.ctx.bindings
      [] c.kind = "Subtype" ->
            /\ c.given[1].base = c.goal.base
            /\ ~ Unsettled(c)
            /\ Entails(c.ctx, Antecedent(c), Consequent(c))
      [] OTHER -> Entails(c.ctx, Antecedent(c), Consequent(c))

-----------------------------------------------------------------------------
(* strengthen_liquid_var_multi_path.                                        *)
MaxSimple  == 5
MaxComplex == 2

Into(k, c) == c.kind = "Subtype" /\ c.goal.kappa = {k}
Paths(k) == SelectSeq(constraints, LAMBDA c : Into(k, c))

Listed(S) == FoldSet(LAMBDA x, s : Append(s, x), <<>>, S)
CandidatesFor(c) ==
    LET names == Listed(DOMAIN c.ctx.bindings)
        bases == [x \in DOMAIN c.ctx.bindings |-> c.ctx.bindings[x].base]
        lhs == c.given[1]
        relevant == IF IsLiquid(lhs) THEN {} ELSE Mentioned(lhs.pred)
    IN  IF backwards THEN Candidates(<<1, 0>>, Reverse(names), bases, relevant)
        ELSE Candidates(<<0, 1>>, names, bases, relevant)

Current == constraints[next]
Kappa   == CHOOSE k \in Current.goal.kappa : TRUE

(* Without a conjunct, what the only path assumes is taken over.            *)
Strengthened(k, found) ==
    LET paths == Paths(k)
    IN  IF found.simple + found.complex > 0 THEN [assignment EXCEPT ![k] = found.pred]
        ELSE IF Len(paths) = 1 /\ Antecedent(paths[1]) # True
        THEN [assignment EXCEPT ![k] = Antecedent(paths[1])]
        ELSE assignment

(* Mutant of Progress: an attempt counts.                                   *)
Attempted(k, updated) == TRUE
Progress(k, updated) ==
    updated # assignment \/ (Len(Paths(k)) = 1 /\ Antecedent(Paths(k)[1]) # True)

-----------------------------------------------------------------------------
(* Qualifiers and bindings come out of hash maps: in either order, which is *)
(* the same whenever they are listed again.                                *)
StartSolving ==
    /\ phase = "collect"
    /\ phase' = "solve"
    /\ assignment' = [k \in LiquidVars |-> True]
    /\ backwards' \in BOOLEAN
    /\ UNCHANGED <<program, env, visited, frames, constraints, next, changed, iteration, search>>

Advance == next' = next + 1 /\ UNCHANGED <<inferenceVars, iteration, search, backwards>>
Refuse == phase' = "refused" /\ UNCHANGED <<program, env, visited, frames, constraints, solverVars>>

StartStrengthening ==
    /\ phase' = "strengthen"
    /\ search' = [candidates |-> CandidatesFor(Current),
                  pred |-> assignment[Kappa], simple |-> 0, complex |-> 0]
    /\ UNCHANGED <<program, env, visited, frames, constraints,
                   assignment, next, changed, iteration, backwards>>

CheckConstraint ==
    /\ phase = "solve" /\ next =< Len(constraints)
    /\ \E satisfied \in {Satisfied(Current)} :
        \/ satisfied /\ Advance /\ UNCHANGED <<assignment, changed>>
        \/ ~ satisfied /\ Current.kind \in Hard /\ Refuse
        \/ /\ ~ satisfied /\ Current.kind = "Subtype" /\ IsLiquid(Current.goal)
           /\ StartStrengthening
        \/ /\ ~ satisfied /\ Current.kind \notin Hard
           /\ ~ (Current.kind = "Subtype" /\ IsLiquid(Current.goal))
           /\ Advance /\ UNCHANGED <<assignment, changed>>

(* Mutant of Spent: one more than the limit.                                *)
Overspent(simple) == IF simple THEN search.simple > MaxSimple ELSE search.complex > MaxComplex
Spent(simple) == IF simple THEN search.simple >= MaxSimple ELSE search.complex >= MaxComplex
(* Conjuncts are taken one by one as long as every path implies the whole.  *)
OnAllPaths(p) == \A c \in ToSet(Paths(Kappa)) : Entails(c.ctx, Antecedent(c), p)
TryCandidate ==
    /\ phase = "strengthen" /\ search.candidates # <<>>
    /\ LET candidate == Head(search.candidates)
           simple == IsSimple(candidate)
           strengthened == Conjoin(search.pred, candidate)
           rest == [search EXCEPT !.candidates = Tail(@)]
       IN  search' = IF Spent(simple) \/ ~ OnAllPaths(strengthened) THEN rest
                     ELSE IF simple
                     THEN [rest EXCEPT !.pred = strengthened, !.simple = @ + 1]
                     ELSE [rest EXCEPT !.pred = strengthened, !.complex = @ + 1]
    /\ UNCHANGED <<inferenceVars, assignment, next, changed, iteration, backwards>>

Strengthen ==
    /\ phase = "strengthen" /\ search.candidates = <<>>
    /\ phase' = "solve"
    /\ assignment' = Strengthened(Kappa, search)
    /\ changed' = (changed \/ Progress(Kappa, assignment'))
    /\ search' = NoSearch
    /\ next' = next + 1
    /\ UNCHANGED <<program, env, visited, frames, constraints, iteration, backwards>>

(* The bound on the rounds is an error of its own.                          *)
EndRound ==
    /\ phase = "solve" /\ next > Len(constraints)
    /\ next' = 1 /\ changed' = FALSE
    /\ \/ ~ changed /\ phase' = "verify" /\ UNCHANGED iteration
       \/ /\ changed /\ iteration' = iteration + 1
          /\ phase' = IF iteration' = MaxIterations THEN "refused" ELSE "solve"
    /\ UNCHANGED <<program, env, visited, frames, constraints, assignment, search, backwards>>

Verify ==
    /\ phase = "verify" /\ next =< Len(constraints)
    /\ \E satisfied \in {Satisfied(Current)} :
        \/ satisfied /\ Advance /\ UNCHANGED <<assignment, changed>>
        \/ ~ satisfied /\ Refuse

Accept ==
    /\ phase = "verify" /\ next > Len(constraints)
    /\ phase' = "accepted"
    /\ UNCHANGED <<program, env, visited, frames, constraints, solverVars>>

Next ==
    \/ Generate /\ UNCHANGED solverVars
    \/ StartSolving \/ CheckConstraint \/ TryCandidate \/ Strengthen \/ EndRound \/ Verify \/ Accept

(* The checker waits for nothing.                                           *)
Spec == Init /\ [][Next]_vars /\ WF_vars(Next)
=============================================================================
