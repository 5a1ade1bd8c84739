--------------------------- MODULE RefinementSoundness ---------------------------
(***************************************************************************)
(* What the refinement checker promises, against the runs of the function   *)
(* it checks.  A run of the SSA graph on given arguments, storage and       *)
(* answers of callees is a sequence of events, one for each point where a   *)
(* contract is due; an event is broken if the contract does not hold there. *)
(***************************************************************************)
EXTENDS LiquidSolver

CONSTANTS Input,   \* bound: values of arguments and of storage
          Fuel     \* bound: blocks a run enters

Bit(b) == IF b THEN 1 ELSE 0
Compute(op, x) ==
    CASE op = "Add"      -> x[1] + x[2]
      [] op = "Subtract" -> x[1] - x[2]
      [] op = "Negate"   -> - x[1]
      [] op = "And"      -> Bit(x[1] = 1 /\ x[2] = 1)
      [] op = "Or"       -> Bit(x[1] = 1 \/ x[2] = 1)
      [] op = "Not"      -> 1 - x[1]
      [] OTHER           -> Bit(Related(op, x[1], x[2]))

Edges == {<<b, s>> \in (DOMAIN program.blocks) \X (DOMAIN program.blocks) :
            s \in ToSet(Block(b).term.to)}
(* The blocks reached from those given without entering the ones avoided.   *)
Reached(from, avoid) ==
    LET r[n \in 0 .. Cardinality(DOMAIN program.blocks)] ==
            IF n = 0 THEN from \ avoid
            ELSE LET p == r[n - 1]
                 IN  p \cup ({e[2] : e \in {f \in Edges : f[1] \in p}} \ avoid)
    IN  r[Cardinality(DOMAIN program.blocks)]
Dominates(d, b) == b \notin Reached({0}, {d})

Defined(b) == {Block(b).code[i].dest : i \in DOMAIN Block(b).code} \ {<<>>}
(* The registers that have their value wherever control is in b.            *)
Available(b) ==
    {ParamReg(x) : x \in ToSet(program.params)}
        \cup UNION {Defined(d) : d \in {d \in DOMAIN program.blocks \ {b} : Dominates(d, b)}}

-----------------------------------------------------------------------------
(* A valuation of names gives each its value as an integer and as a truth.  *)
AlsoBool(f) == f @@ [k \in {BoolKey(x) : x \in DOMAIN f} |-> f[Tail(k)]]
AtStart(store) == [k \in {PreKey(x) : x \in DOMAIN store} |-> store[Tail(k)]]

(* A machine m: where it is, registers, source variables, storage, storage  *)
(* at the start, and the variants at the last turn of each loop.           *)
Known(m) == AlsoBool(m.regs @@ m.store) @@ AtStart(m.old)
Keeps(p, m, extra) == Holds(p, AlsoBool(extra @@ m.vals @@ m.store) @@ AtStart(m.old))
KeepsType(ty, n, m) == Keeps(ty.pred, m, ty.binder :> n)

Event(at, m, broken) == [at |-> at, known |-> Known(m), broken |-> broken]

Turn(m, b) ==
    LET ranks == [k \in DOMAIN Block(b).term.variants |->
                    Value(Block(b).term.variants[k], m.vals @@ m.store, FALSE)]
        back == Dominates(b, m.block)
        kept == \A p \in ToSet(Block(b).term.invariants) : Keeps(p, m, <<>>)
        ranked == \A k \in DOMAIN ranks : IF back THEN ranks[k] < m.ranks[b][k] ELSE ranks[k] >= 0
    IN  [ranks |-> ranks,
         events |-> IF IsLoop(Block(b).term)
                    THEN <<Event(IF back THEN After(b) ELSE Before(b), m, ~ (kept /\ ranked))>>
                    ELSE <<>>]

(* Entering a block: its phis take the values from the edge.                *)
Phis(b, from) ==
    {[dest |-> Block(b).code[i].dest, reg |-> Block(b).code[i].sources[k].reg, at |-> <<b, i, from>>]
        : <<i, k>> \in {ik \in (1 .. Len(Block(b).code)) \X (1 .. 2) :
              /\ Block(b).code[ik[1]].op = "Phi"
              /\ ik[2] \in DOMAIN Block(b).code[ik[1]].sources
              /\ Block(b).code[ik[1]].sources[ik[2]].from = from}}
Enter(m, b) ==
    LET phis == Phis(b, m.block)
        carried == [r \in Available(b) \cap DOMAIN m.regs |-> m.regs[r]]
        joined == [d \in {p.dest : p \in phis} |-> m.regs[(CHOOSE p \in phis : p.dest = d).reg]]
    IN  [m EXCEPT !.block = b, !.i = 1, !.regs = joined @@ carried, !.fuel = @ - 1,
                  !.ranks = (b :> Turn(m, b).ranks) @@ @]

Assigned(m, r, n) ==
    [m EXCEPT !.i = @ + 1, !.regs = (r :> n) @@ @,
              !.vals = IF IsNamed(r) THEN (Source(r) :> n) @@ @ ELSE @]

(* One instruction: the machine after it, and whether a contract was broken. *)
Executed(m, instr) ==
    LET args == [k \in DOMAIN instr.args |-> Value(instr.args[k], m.regs, FALSE)]
        Step(after, broken) == [m |-> after, broken |-> broken, ends |-> FALSE]
    IN  CASE instr.op = "Phi" -> Step([m EXCEPT !.i = @ + 1], FALSE)
          [] instr.op = "Copy" ->
                LET after == Assigned(m, instr.dest, args[1])
                IN  Step(after, /\ IsNamed(instr.dest) /\ Refined(TypeOf(instr.dest))
                                /\ ~ KeepsType(TypeOf(instr.dest), args[1], after))
          [] instr.op = "StorageLoad" -> Step(Assigned(m, instr.dest, m.store[instr.ref]), FALSE)
          [] instr.op = "StorageStore" ->
                Step([m EXCEPT !.i = @ + 1, !.store = (instr.ref :> args[1]) @@ @],
                     ~ KeepsType(program.types[instr.ref], args[1], m))
          [] instr.op = "Fold" ->
                Step([m EXCEPT !.i = @ + 1],
                     ~ KeepsType(program.types[instr.ref], m.store[instr.ref], m))
          [] instr.op = "Unfold" -> Step([m EXCEPT !.i = @ + 1], FALSE)
          [] instr.op = "CallExternal" -> Step(Assigned(m, instr.dest, m.answer), FALSE)
          [] instr.op = "Call" ->
                LET callee == program.callees[instr.ref]
                    outcome == m.outcomes[instr.ref]
                    formal == [x \in {callee.params[k].name : k \in DOMAIN callee.params} |->
                                 args[CHOOSE k \in DOMAIN callee.params : callee.params[k].name = x]]
                    there == [m EXCEPT !.vals = formal, !.store = outcome.store @@ @, !.old = m.store]
                    back  == [m EXCEPT !.store = there.store]
                IN  [m |-> IF instr.dest = <<>> THEN [back EXCEPT !.i = @ + 1]
                           ELSE Assigned(back, instr.dest, outcome.answer),
                     broken |-> \/ \E k \in DOMAIN callee.params :
                                     ~ KeepsType(callee.params[k].type, args[k],
                                                 [m EXCEPT !.vals = formal])
                                \/ \E p \in ToSet(callee.requires) :
                                     ~ Keeps(p, [m EXCEPT !.vals = formal], <<>>),
                     ends |-> ~ (/\ KeepsType(callee.returns, outcome.answer, there)
                                 /\ \A p \in ToSet(callee.ensures) : Keeps(p, there, <<>>))]
          [] OTHER -> Step(Assigned(m, instr.dest, Compute(instr.op, args)), FALSE)

ReturnBreaks(m, term) ==
    \/ \E k \in DOMAIN term.operand :
          ~ KeepsType(program.returns, Value(term.operand[k], m.regs, FALSE), m)
    \/ \E p \in ToSet(program.ensures) : ~ Keeps(p, m, <<>>)

RECURSIVE Trace(_)
Trace(m) ==
    LET code == Block(m.block).code
        term == Block(m.block).term
        here == <<m.block, m.i>>
        Goto(b) == Turn(m, b).events
                    \o SetToSeq({Event(p.at, m, FALSE) : p \in Phis(b, m.block)})
                    \o Trace(Enter(m, b))
    IN  IF m.fuel = 0 THEN <<>>
        ELSE IF m.i =< Len(code)
        THEN LET done == Executed(m, code[m.i])
             IN  <<Event(here, m, done.broken)>>
                    \o (IF done.ends THEN <<>> ELSE Trace(done.m))
        ELSE CASE term.kind = "Jump"   -> Goto(term.to[1])
               [] term.kind = "Branch" ->
                    <<Event(here, m, FALSE)>>
                    \o Goto(term.to[IF Value(term.operand[1], m.regs, FALSE) = 1 THEN 1 ELSE 2])
               [] term.kind = "Return" -> <<Event(here, m, ReturnBreaks(m, term))>>
               [] OTHER -> <<>>

-----------------------------------------------------------------------------
Does(ops, blocks) ==
    {i \in UNION {ToSet(Block(b).code) : b \in blocks} : i.op \in ops}
Everywhere(ops) == Does(ops, DOMAIN program.blocks)

(* A run starts with arguments and storage that keep their contracts.  A    *)
(* Boolean is 0 or 1.                                                      *)
ValuesOf(x) == IF program.types[x].base = "bool" THEN {0, 1} ELSE Input
Values(names) == {f \in [names -> Input] : \A x \in names : f[x] \in ValuesOf(x)}
Outcomes == {f \in [DOMAIN program.callees -> UNION {program.callees[g].outcomes
                                                        : g \in DOMAIN program.callees}] :
                \A g \in DOMAIN program.callees : f[g] \in program.callees[g].outcomes}
(* What another contract answers, a number or a truth value.                *)
Answers == IF Everywhere({"CallExternal"}) = {} THEN {0} ELSE 0 .. 1
Machine(args, store, outcomes, answer) ==
    [block |-> 0, i |-> 1, regs |-> [r \in {ParamReg(x) : x \in DOMAIN args} |-> args[Source(r)]],
     vals |-> args, store |-> store, old |-> store, outcomes |-> outcomes,
     answer |-> answer, ranks |-> NoFunction, fuel |-> Fuel]
Starts ==
    {m \in {Machine(s[1], s[2], s[3], s[4]) :
                s \in Values(ToSet(program.params)) \X Values(StorageNames) \X Outcomes \X Answers} :
        /\ \A x \in DOMAIN m.vals  : KeepsType(program.types[x], m.vals[x], m)
        /\ \A x \in DOMAIN m.store : KeepsType(program.types[x], m.store[x], m)
        /\ \A p \in ToSet(program.requires) : Keeps(p, m, <<>>)}

-----------------------------------------------------------------------------
(* Is a constraint's context true of the run at an event?                   *)
Contractual(c) == c.kind \notin {"WellFormed", "Operation"}
Due(e) == {c \in ToSet(constraints) : c.at = e.at /\ Contractual(c)}
Honest(c, e) ==
    ConsistentWith({Antecedent(c)} \cup Assumptions(c.ctx, Antecedent(c), Consequent(c)), e.known)

(* A run up to the first contract it breaks.                                *)
Breaks(trace) == {k \in DOMAIN trace : trace[k].broken}
Kept(trace)   == IF Breaks(trace) = {} THEN trace ELSE SubSeq(trace, 1, Min(Breaks(trace)))

(* What a function must do without for every context to be true of its     *)
(* runs.  A block that both sides of a branch reach is walked once, under  *)
(* the condition.                                                          *)
Plain(b)   == Block(b).term.kind = "Branch" /\ ~ IsLoop(Block(b).term)
Side(b, k) == Reached({Block(b).term.to[k]}, {b})
SidesApart == \A b \in DOMAIN program.blocks : Plain(b) => Side(b, 1) \cap Side(b, 2) = {}

(* What is assumed at a load, an unfold and after a loop is popped instead  *)
(* of the condition around it.                                             *)
Inside == UNION {Side(b, 1) \cup (IF Plain(b) THEN Side(b, 2) ELSE {})
                    : b \in {d \in DOMAIN program.blocks : Block(d).term.kind = "Branch"}}
NothingPushedInside ==
    /\ Does({"StorageLoad", "Unfold"}, Inside) = {}
    /\ \A b \in Inside : Block(b).term.kind = "Branch" => Plain(b) \/ b \notin Side(b, 1)

(* The refinement of a comparison's result is that it holds; that of a flag *)
(* is true, and its negation is false.                                     *)
Tests == {i.dest : i \in Everywhere(RelOps \cup {"And", "Or", "Not"})}
TestsOnlyBranch ==
    /\ \A b \in DOMAIN program.blocks :
          LET term == Block(b).term
          IN  \A k \in DOMAIN term.operand : (term.operand[k].sym \in Tests) = (term.kind = "Branch")
    /\ \A i \in Everywhere({"Copy", "StorageStore", "Call"}), k \in {1} :
          k \in DOMAIN i.args => i.args[k].sym \notin Tests

(* The liquid variable of a copied constant is about __self, whatever the   *)
(* register, and one of a phi has two paths.                               *)
NothingAboutSelf ==
    /\ \A i \in Everywhere({"Copy"}) : Refined(TypeOf(i.dest)) \/ i.args[1].op = "IntVar"
    /\ \A i \in Everywhere({"Phi"}) : IsNamed(i.dest) => Refined(TypeOf(i.dest))

(* What is known of storage outlives a store or a call.                     *)
StorageStays ==
    /\ program.requires = <<>> \/ Everywhere({"StorageStore", "Call"}) = {}
    /\ Everywhere({"StorageLoad"}) = {} \/ Everywhere({"Call"}) = {}

Clean == SidesApart /\ NothingPushedInside /\ TestsOnlyBranch /\ NothingAboutSelf /\ StorageStays

-----------------------------------------------------------------------------
Decided == phase \in {"accepted", "refused"}

(* The inference stays within its own bookkeeping: a block has at most one   *)
(* activation of the walk, only registers with a template get a liquid     *)
(* variable, and a liquid variable takes no more qualifiers than allowed.  *)
TypeOK ==
    /\ phase \in {"templates", "contracts", "generate", "collect", "solve", "strengthen", "verify",
                  "accepted", "refused"}
    /\ visited \subseteq DOMAIN program.blocks
    /\ \A k, l \in DOMAIN frames : frames[k].block = frames[l].block => k = l
    /\ next \in 1 .. Len(constraints) + 1
    /\ changed \in BOOLEAN /\ iteration \in 0 .. MaxIterations
    /\ DOMAIN assignment \subseteq DOMAIN env.bindings
    /\ search.simple \in 0 .. MaxSimple /\ search.complex \in 0 .. MaxComplex

(* inference.rs pushes and pops what a branch, loop, load or unfold assumes. *)
(* In a function without the five habits of Clean, what a constraint is    *)
(* checked under is true in every run that gets to its location with all    *)
(* contracts kept so far.  Constraints of phis (the locations of length 3) *)
(* are checked under the assumptions left at the end of the walk.          *)
ContextsHold ==
    Decided /\ Clean =>
        \A m \in Starts : \A e \in ToSet(Kept(Trace(m))) :
            \A c \in Due(e) : Honest(c, e) \/ Len(c.at) = 3

(* Of an accepted function, the first contract a run breaks is one whose    *)
(* constraint was checked under an assumption the run falsifies there: no   *)
(* contract is without a constraint, and no inferred refinement or decision *)
(* of the solver lets a violation through by itself.                       *)
BrokenOnlyWhereBlind ==
    phase = "accepted" =>
        \A m \in Starts : \E trace \in {Trace(m)} :
            Breaks(trace) # {} =>
                LET e == trace[Min(Breaks(trace))] IN \E c \in Due(e) : ~ Honest(c, e)

(* The liquid variables a value of another base type flows into: the answer *)
(* of an external call is inferred an int (inference.rs:371), whatever its  *)
(* declaration says, so `var ok: bool = ext.f()` makes one, and so does the *)
(* phi of such an answer.  The constraint fails in every round              *)
(* (solver.rs:476), and each round conjoins what is implied once more.     *)
Foreign(k) ==
    \E n \in DOMAIN constraints :
        Into(k, constraints[n]) /\ constraints[n].given[1].base # constraints[n].goal.base

(* Every round but the last settles a liquid variable: the limit of a       *)
(* hundred rounds, which refuses a function as if it were wrong, is not met *)
(* by a function with fewer liquid variables, unless one of them is Foreign. *)
RoundsBounded ==
    \/ iteration =< Cardinality(DOMAIN assignment)
    \/ \E k \in DOMAIN assignment : Foreign(k)

(* A liquid variable that has a refinement keeps it, unless it is Foreign:  *)
(* constraints found to hold with it on the left are not undone by a later  *)
(* path into it, nor by what the others are strengthened to meanwhile.      *)
SettledOnce ==
    [][\A k \in DOMAIN assignment :
            assignment[k] # True => assignment'[k] = assignment[k] \/ Foreign(k)]_vars

(* The check of a function ends with a verdict.                             *)
Ends == <>Decided
=============================================================================
