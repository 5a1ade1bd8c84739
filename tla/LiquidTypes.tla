------------------------------- MODULE LiquidTypes -------------------------------
(***************************************************************************)
(* The vocabulary of refinement inference: templates (templates.rs),       *)
(* contexts and constraints (constraints.rs), and the qualifiers a liquid  *)
(* variable may become a conjunction of (qualifiers.rs).                   *)
(*                                                                         *)
(* A template is concrete, with a refinement, or liquid: kappa then names  *)
(* the register it was made for, and its refinement is left to the solver. *)
(***************************************************************************)
EXTENDS Predicates

Template(base, binder, kappa, pred) ==
    [base |-> base, binder |-> binder, kappa |-> kappa, pred |-> pred]
Concrete(base, binder, pred)  == Template(base, binder, {}, pred)
Liquid(base, binder, r)       == Template(base, binder, {r}, True)
IsLiquid(t) == t.kappa # {}

(* A source type: its annotation is one the user wrote, or the default.     *)
Type(base, binder, pred, explicit) ==
    [base |-> base, binder |-> binder, pred |-> pred, explicit |-> explicit]
Refined(ty) == ty.explicit /\ ty.pred # True
AsConcrete(ty) == Concrete(ty.base, ty.binder, ty.pred)
FromType(ty, r) == IF ty.explicit THEN AsConcrete(ty) ELSE Liquid(ty.base, ty.binder, r)

ReplaceBinder(t, x) ==
    [t EXCEPT !.binder = x,
              !.pred = IF IsLiquid(t) THEN @ ELSE SubstituteVars(@, t.binder :> x)]

(* Names of the source, other than the binder, become registers.            *)
ResolveCrossRefs(t, map) ==
    IF IsLiquid(t) THEN t
    ELSE [t EXCEPT !.pred = SubstituteVars(@, [x \in DOMAIN map \ {t.binder} |-> map[x]])]

-----------------------------------------------------------------------------
(* A context: all templates of the function, what is assumed, and which     *)
(* register holds a source variable.                                       *)
Context(bindings, assumptions, map) ==
    [bindings |-> bindings, assumptions |-> assumptions, map |-> map]
Assume(ctx, p) == [ctx EXCEPT !.assumptions = Append(@, p)]

(* A constraint: under the context, the templates given and the fact entail *)
(* the goal.  at is its location.                                          *)
Constraint(kind, at, ctx, given, fact, goal) ==
    [kind |-> kind, at |-> at, ctx |-> ctx, given |-> given, fact |-> fact, goal |-> goal]
Subtype(at, ctx, sub, sup)   == Constraint("Subtype", at, ctx, <<sub>>, True, sup)
WellFormed(at, ctx, t)       == Constraint("WellFormed", at, ctx, <<>>, True, t)
Obligation(kind, at, ctx, p) ==
    Constraint(kind, at, ctx, <<>>, True, Concrete("bool", Self, p))

Hard == {"LoopInvariantEntry", "LoopInvariantPreservation", "LoopVariantDecreases",
         "LoopVariantNonNegative", "Requires", "Ensures", "Fold"}

(* What an operation makes of its operands, in terms of their binders.      *)
Iff(x, p) == And(Implies(BoolVar(x), p), Implies(p, BoolVar(x)))
ArithOps == {"Add", "Subtract"}
Connective(op, p, q) == IF op = "And" THEN And(p, q) ELSE Or(p, q)
BinaryFact(op, x, y, dest) ==
    CASE op \in ArithOps -> Rel("Eq", IntVar(dest), Arith(op, IntVar(x), IntVar(y)))
      [] op \in RelOps   -> Iff(dest, Rel(op, IntVar(x), IntVar(y)))
      [] OTHER           -> Iff(dest, Connective(op, BoolVar(x), BoolVar(y)))
UnaryFact(op, x, dest) ==
    IF op = "Negate" THEN Rel("Eq", IntVar(dest), Minus(IntVar(x)))
    ELSE And(Implies(BoolVar(dest), Not(BoolVar(x))), Implies(Not(BoolVar(dest)), BoolVar(x)))
OperationFact(op, operands, dest) ==
    IF Len(operands) = 1 THEN UnaryFact(op, operands[1], dest)
    ELSE BinaryFact(op, operands[1], operands[2], dest)

-----------------------------------------------------------------------------
(* QualifierSet::with_constants, in the order its qualifiers are tried: the *)
(* ones without a name, those with one, those with two.  Comparisons with  *)
(* a name are about nu, all the others about __self.                       *)
Oriented(op, x, y) == <<Rel(op, x, y), Rel(op, y, x)>>
ComparisonOrder == <<"Lt", "Leq", "Gt", "Geq", "Eq", "Neq">>
ConstantOrder   == <<"Leq", "Geq", "Lt", "Gt", "Eq", "Neq">>

Nullary(constants) ==
    FlattenSeq([i \in DOMAIN constants |->
        FlattenSeq([j \in DOMAIN ConstantOrder |->
            Oriented(ConstantOrder[j], Lit(constants[i]), IntVar(Self))])])
    \o <<BoolVar(Self), Not(BoolVar(Self))>>

Compatible(op, base) == \/ base = "int"
                        \/ base \in {"bool", "address", "string"} /\ op \in {"Eq", "Neq"}
Unary(names, bases) ==
    FlattenSeq([j \in DOMAIN ComparisonOrder |->
        LET op == ComparisonOrder[j]
            fit == SelectSeq(names, LAMBDA x : Compatible(op, bases[x]))
        IN  [i \in DOMAIN fit |-> Rel(op, IntVar(fit[i]), IntVar(Nu))]
            \o [i \in DOMAIN fit |-> Rel(op, IntVar(Nu), IntVar(fit[i]))]])

Binary(names, bases) ==
    LET ints == SelectSeq(names, LAMBDA x : bases[x] = "int")
        n == Len(ints)
        Over(rel, op) == [k \in 1 .. n * n |->
            Rel(rel, IntVar(Self), Arith(op, IntVar(ints[1 + (k - 1) \div n]),
                                             IntVar(ints[1 + ((k - 1) % n)])))]
    IN  Over("Eq", "Add") \o Over("Geq", "Add") \o Over("Leq", "Add")
        \o Over("Eq", "Subtract") \o Over("Geq", "Subtract") \o Over("Leq", "Subtract")

(* instantiate_all_with_relevance: what mentions a name of the given        *)
(* template's refinement comes before the rest.                            *)
Candidates(constants, names, bases, relevant) ==
    LET named == Unary(names, bases) \o Binary(names, bases)
        first(p) == (FreeVariables(p) \ {Self, Nu}) \cap relevant # {}
    IN  Nullary(constants) \o SelectSeq(named, first)
        \o SelectSeq(named, LAMBDA p : ~ first(p))

(* estimate_predicate_complexity.                                           *)
IsSimple(p) == Cardinality(FreeVariables(p) \ {Self, Nu}) =< 1
=============================================================================
