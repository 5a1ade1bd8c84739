------------------------------- MODULE Predicates -------------------------------
(***************************************************************************)
(* Refinement predicates (ast/src/predicate.rs) and what the SMT solver    *)
(* answers about them (refinements/smt.rs).                                *)
(*                                                                         *)
(* A predicate or expression is a tree of nodes [op, sym, val, args].  A   *)
(* name is a tuple: <<"x">> in the source, <<"x", 1>> for a register, which *)
(* prints as x_1.                                                          *)
(***************************************************************************)
EXTENDS Integers, Sequences, SequencesExt, FiniteSetsExt, TLC

CONSTANT Trial     \* bound: the integers an implication is tried with

Self == <<"__self">>
Nu   == <<"nu">>

Tree(op, sym, val, args) == [op |-> op, sym |-> sym, val |-> val, args |-> args]
True  == Tree("True", <<>>, 0, <<>>)
False == Tree("False", <<>>, 0, <<>>)
BoolVar(x)     == Tree("BoolVar", x, 0, <<>>)
IntVar(x)      == Tree("IntVar", x, 0, <<>>)
Lit(n)         == Tree("Lit", <<>>, n, <<>>)
BoolLit(n)     == Tree("BoolLit", <<>>, n, <<>>)
Rel(op, a, b)  == Tree(op, <<>>, 0, <<a, b>>)
Arith(op, a, b) == Tree(op, <<>>, 0, <<a, b>>)
And(p, q)      == Tree("And", <<>>, 0, <<p, q>>)
Or(p, q)       == Tree("Or", <<>>, 0, <<p, q>>)
Not(p)         == Tree("Not", <<>>, 0, <<p>>)
Implies(p, q)  == Tree("Implies", <<>>, 0, <<p, q>>)
Minus(a)       == Tree("Minus", <<>>, 0, <<a>>)
Old(a)         == Tree("Old", <<>>, 0, <<a>>)

RelOps == {"Eq", "Neq", "Lt", "Leq", "Gt", "Geq"}

-----------------------------------------------------------------------------
RECURSIVE FreeVariables(_), ContainsOld(_), Negate(_)
RECURSIVE SubstituteVars(_, _), SubstituteExprs(_, _)

FreeVariables(p) ==
    IF p.op \in {"BoolVar", "IntVar"} THEN {p.sym}
    ELSE UNION {FreeVariables(p.args[i]) : i \in DOMAIN p.args}

ContainsOld(p) == p.op = "Old" \/ \E i \in DOMAIN p.args : ContainsOld(p.args[i])

SubstituteVars(p, map) ==
    [p EXCEPT !.sym = IF @ \in DOMAIN map THEN map[@] ELSE @,
              !.args = [i \in DOMAIN @ |-> SubstituteVars(@[i], map)]]

(* A variable used as a predicate is only replaced by a literal.            *)
SubstituteExprs(p, map) ==
    IF p.op = "IntVar" /\ p.sym \in DOMAIN map THEN map[p.sym]
    ELSE IF p.op = "BoolVar" /\ p.sym \in DOMAIN map /\ map[p.sym].op = "BoolLit"
         THEN IF map[p.sym].val = 1 THEN True ELSE False
    ELSE [p EXCEPT !.args = [i \in DOMAIN @ |-> SubstituteExprs(@[i], map)]]

Opposite == [Eq |-> "Neq", Neq |-> "Eq", Lt |-> "Geq", Leq |-> "Gt", Gt |-> "Leq", Geq |-> "Lt"]
Negate(p) ==
    CASE p.op = "True"    -> False
      [] p.op = "False"   -> True
      [] p.op = "BoolVar" -> Not(p)
      [] p.op \in RelOps  -> [p EXCEPT !.op = Opposite[@]]
      [] p.op = "And"     -> Or(Negate(p.args[1]), Negate(p.args[2]))
      [] p.op = "Or"      -> And(Negate(p.args[1]), Negate(p.args[2]))
      [] p.op = "Not"     -> p.args[1]
      [] p.op = "Implies" -> And(p.args[1], Negate(p.args[2]))

(* conjoin of the constraint solver.                                        *)
Conjoin(p, q) == IF p = True THEN q ELSE IF q = True THEN p ELSE And(p, q)

-----------------------------------------------------------------------------
(* predicate_to_z3 and expr_to_z3: a name stands for an unbounded integer   *)
(* in an expression, for a Boolean where it is a predicate, and for its    *)
(* value at the start of the function inside old; the three are unrelated. *)
BoolKey(x) == <<"bool">> \o x
PreKey(x)  == <<"pre">> \o x

RECURSIVE Keys(_, _), Value(_, _, _), Holds(_, _)
Keys(p, pre) ==
    CASE p.op = "BoolVar" -> {BoolKey(p.sym)}
      [] p.op = "IntVar"  -> {IF pre THEN PreKey(p.sym) ELSE p.sym}
      [] OTHER -> UNION {Keys(p.args[i], pre \/ p.op = "Old") : i \in DOMAIN p.args}

Value(e, v, pre) ==
    CASE e.op = "IntVar" -> v[IF pre THEN PreKey(e.sym) ELSE e.sym]
      [] e.op \in {"Lit", "BoolLit"} -> e.val
      [] e.op = "Old"    -> Value(e.args[1], v, TRUE)
      [] e.op = "Minus"  -> - Value(e.args[1], v, pre)
      [] e.op = "Add"      -> Value(e.args[1], v, pre) + Value(e.args[2], v, pre)
      [] e.op = "Subtract" -> Value(e.args[1], v, pre) - Value(e.args[2], v, pre)

Related(op, a, b) ==
    CASE op = "Eq" -> a = b [] op = "Neq" -> a # b
      [] op = "Lt" -> a < b [] op = "Leq" -> a =< b
      [] op = "Gt" -> a > b [] op = "Geq" -> a >= b

Holds(p, v) ==
    CASE p.op = "True"    -> TRUE
      [] p.op = "False"   -> FALSE
      [] p.op = "BoolVar" -> v[BoolKey(p.sym)] = 1
      [] p.op = "And"     -> Holds(p.args[1], v) /\ Holds(p.args[2], v)
      [] p.op = "Or"      -> Holds(p.args[1], v) \/ Holds(p.args[2], v)
      [] p.op = "Not"     -> ~ Holds(p.args[1], v)
      [] p.op = "Implies" -> Holds(p.args[1], v) => Holds(p.args[2], v)
      [] OTHER -> Related(p.op, Value(p.args[1], v, FALSE), Value(p.args[2], v, FALSE))

(* A search for values of the names left, one name after another, that make *)
(* every formula true as soon as all its names have a value.  The next name *)
(* is one of a formula with the fewest names left.  (\E x \in {e} stands   *)
(* for LET x == e where TLC would evaluate e at every use.)                *)
Formula(p) == [pred |-> p, keys |-> Keys(p, FALSE)]
Missing(f, v) == f.keys \ DOMAIN v
NextName(forms, v) ==
    LET f == CHOOSE f \in forms : \A h \in forms :
                Cardinality(Missing(f, v)) =< Cardinality(Missing(h, v))
    IN  CHOOSE k \in Missing(f, v) : TRUE

RECURSIVE Satisfiable(_, _)
Satisfiable(forms, v) ==
    \E left \in {{f \in forms : Missing(f, v) # {}}} :
        /\ \A f \in forms \ left : Holds(f.pred, v)
        /\ \/ left = {}
           \/ \E k \in {NextName(left, v)} :
              \E n \in IF k[1] = "bool" THEN {0, 1} ELSE Trial :
              \E w \in {(k :> n) @@ v} : Satisfiable(left, w)

RECURSIVE Conjuncts(_)
Conjuncts(p) == IF p.op = "And" THEN Conjuncts(p.args[1]) \cup Conjuncts(p.args[2]) ELSE {p}
ConsistentWith(preds, v) ==
    \E forms \in {{Formula(p) : p \in UNION {Conjuncts(q) : q \in preds}}} : Satisfiable(forms, v)
Consistent(preds) == ConsistentWith(preds, <<>>)

(* is_valid_implication; an answer other than unsat counts as invalid.      *)
ValidImplication(assumptions, antecedent, consequent) ==
    ~ Consistent(assumptions \cup {antecedent, Not(consequent)})
=============================================================================
