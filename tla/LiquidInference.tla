----------------------------- MODULE LiquidInference -----------------------------
(***************************************************************************)
(* Constraint generation (refinements/inference.rs, environment.rs): one   *)
(* walk over the SSA graph of a function, depth first and each block once,  *)
(* that turns instructions, branches, loops and contracts into constraints *)
(* for the solver.                                                         *)
(*                                                                         *)
(* A program gives the blocks, numbered in reverse post-order, the source  *)
(* variables with their types and kinds, and the contracts.  An operand is *)
(* the expression it is turned into: a register or a literal.  A register  *)
(* <<"x", 1>> holds the source variable <<"x">>; one whose first part is   *)
(* no source variable is a temporary, <<"t", 1, 0>> a version of one; the   *)
(* "ref" of its phi is the type local_temps has for it.                    *)
(***************************************************************************)
EXTENDS LiquidTypes

CONSTANT Programs

VARIABLES
    program,       \* the function
    phase,         \* templates, contracts, generate, ...
    env,           \* TypeEnvironment and the engine's maps
    visited,       \* blocks the walk has entered
    frames,        \* the activations of generate_constraints_from_block
    constraints    \* ConstraintSet

inferenceVars == <<program, phase, env, visited, frames, constraints>>

Source(r)  == SubSeq(r, 1, 1)
IsNamed(r) == r # <<>> /\ Source(r) \in DOMAIN program.types
TypeOf(r)  == program.types[Source(r)]
IsParam(r) == IsNamed(r) /\ program.kinds[Source(r)] = "param"

Block(b) == program.blocks[b]
Pop(s, n) == SubSeq(s, 1, Len(s) - n)

NoFunction == <<>>
EmptyEnv == [bindings |-> NoFunction, assumptions |-> <<>>, map |-> NoFunction,
             facts |-> <<>>, loads |-> NoFunction, paths |-> NoFunction]

InitInference ==
    /\ program \in Programs
    /\ phase = "templates"
    /\ env = EmptyEnv
    /\ visited = {}
    /\ frames = <<>>
    /\ constraints = <<>>

-----------------------------------------------------------------------------
(* Templates.                                                               *)

AsPredicate(operand) ==
    CASE operand.op = "IntVar"  -> BoolVar(operand.sym)
      [] operand.op = "BoolLit" -> IF operand.val = 1 THEN True ELSE False

(* operand_to_template: bindings are looked up with their own name as binder. *)
Local(bindings, r) == ReplaceBinder(bindings[r], r)
OperandTemplate(bindings, operand) ==
    CASE operand.op = "IntVar"  -> Local(bindings, operand.sym)
      [] operand.op = "Lit"     -> Concrete("int", Self, Rel("Eq", IntVar(Self), operand))
      [] operand.op = "BoolLit" -> Concrete("bool", Self, Rel("Eq", IntVar(Self), operand))

BinaryTemplate(op, left, right) ==
    CASE op \in ArithOps ->
            Concrete("int", Self, Rel("Eq", IntVar(Self), Arith(op, left, right)))
      [] op \in RelOps -> Concrete("bool", Self, Rel(op, left, right))
      [] OTHER -> Concrete("bool", Self, Connective(op, AsPredicate(left), AsPredicate(right)))
UnaryTemplate(op, operand) ==
    IF op = "Negate" THEN Concrete("int", Self, Rel("Eq", IntVar(Self), Minus(operand)))
    ELSE Concrete("bool", Self, Not(AsPredicate(operand)))

TemplateOf(bindings, instr) ==
    CASE instr.op = "Copy" -> OperandTemplate(bindings, instr.args[1])
      [] instr.op = "StorageLoad" -> AsConcrete(program.types[instr.ref])
      [] instr.op = "Call" -> FromType(program.callees[instr.ref].returns, instr.dest)
      [] instr.op = "CallExternal" -> Liquid("int", Self, instr.dest)
      [] instr.op = "Phi" -> Liquid(instr.ref[1], Self, instr.dest)
      [] Len(instr.args) = 1 -> UnaryTemplate(instr.op, instr.args[1])
      [] OTHER -> BinaryTemplate(instr.op, instr.args[1], instr.args[2])

NamedTemplate(r) ==
    IF IsParam(r) \/ Refined(TypeOf(r)) THEN AsConcrete(TypeOf(r))
    ELSE Liquid(TypeOf(r).base, TypeOf(r).binder, r)

Bind(bindings, instr) ==
    IF instr.dest = <<>> THEN bindings
    ELSE (instr.dest :> IF IsNamed(instr.dest) THEN NamedTemplate(instr.dest)
                        ELSE ReplaceBinder(TemplateOf(bindings, instr), instr.dest)) @@ bindings

ParamReg(x) == Append(x, 0)
ParamBindings ==
    [r \in {ParamReg(program.params[i]) : i \in DOMAIN program.params} |-> AsConcrete(TypeOf(r))]
AllInstructions ==
    FlattenSeq([b \in 1 .. Cardinality(DOMAIN program.blocks) |-> Block(b - 1).code])

AssignTemplates ==
    /\ phase = "templates"
    /\ phase' = "contracts"
    /\ env' = [env EXCEPT !.bindings = FoldLeft(Bind, ParamBindings, AllInstructions)]
    /\ UNCHANGED <<program, visited, frames, constraints>>

-----------------------------------------------------------------------------
(* The contracts of the function.                                           *)

StorageNames == {x \in DOMAIN program.kinds : program.kinds[x] = "storage"}
AboutStorage(p) == ContainsOld(p) \/ FreeVariables(p) \cap StorageNames # {}
ContractsValid ==
    \A p \in ToSet(program.requires \o program.ensures) : AboutStorage(p)

RejectContracts ==
    /\ phase = "contracts" /\ ~ ContractsValid
    /\ phase' = "refused"
    /\ UNCHANGED <<program, env, visited, frames, constraints>>

ParamMap == [x \in ToSet(program.params) |-> ParamReg(x)]
ParamContract(x) ==
    LET ty == program.types[x]
    IN  SubstituteVars(ty.pred, (ty.binder :> ParamReg(x)) @@ ParamMap)
InitialAssumptions ==
    LET refined == SelectSeq(program.params, LAMBDA x : Refined(program.types[x]))
    IN  [i \in DOMAIN program.requires |-> SubstituteVars(program.requires[i], ParamMap)]
        \o [i \in DOMAIN refined |-> ParamContract(refined[i])]

Frame(b, map) == [block |-> b, i |-> 1, stage |-> "code", entry |-> map,
                  head |-> NoFunction, cond |-> True, loads |-> NoFunction]

(* generate_constraints_from_block, which returns at once from a block it   *)
(* has visited.                                                            *)
Visit(b, rest, map) == IF b \in visited THEN rest ELSE Append(rest, Frame(b, map))
Walk(b, rest) ==
    /\ frames' = Visit(b, rest, env'.map)
    /\ visited' = visited \cup {b}

StartGeneration ==
    /\ phase = "contracts" /\ ContractsValid
    /\ phase' = "generate"
    /\ env' = [env EXCEPT !.map = ParamMap, !.assumptions = InitialAssumptions]
    /\ Walk(0, <<>>)
    /\ UNCHANGED <<program, constraints>>

-----------------------------------------------------------------------------
(* Instructions.                                                            *)

top   == Last(frames)
Instr == Block(top.block).code[top.i]
Here  == <<top.block, top.i>>

ContextOf(e) == Context(e.bindings, e.assumptions \o e.facts, e.map)

(* operand_to_template_with_contract_check: reading a parameter checks it   *)
(* against its own contract.                                               *)
UserContract(r) ==
    Concrete(TypeOf(r).base, r, SubstituteVars(TypeOf(r).pred, TypeOf(r).binder :> r))
ReadCheck(e, operand) ==
    IF operand.op = "IntVar" /\ IsParam(operand.sym) /\ Refined(TypeOf(operand.sym))
    THEN <<Subtype(Here, ContextOf(e), OperandTemplate(e.bindings, operand),
                   UserContract(operand.sym))>>
    ELSE <<>>

AtInstruction(ops) ==
    /\ phase = "generate" /\ frames # <<>>
    /\ top.stage = "code" /\ top.i \in DOMAIN Block(top.block).code
    /\ Instr.op \in ops

(* The source variable's current register is tracked before the instruction *)
(* is looked at.                                                           *)
Tracked == IF IsNamed(Instr.dest) THEN [env EXCEPT !.map = (Source(Instr.dest) :> Instr.dest) @@ @]
           ELSE env

Emit(e, cs) ==
    /\ env' = e
    /\ constraints' = constraints \o cs
    /\ frames' = [frames EXCEPT ![Len(frames)].i = @ + 1]
    /\ UNCHANGED <<program, phase, visited>>

Fact(e, p) == [e EXCEPT !.facts = Append(@, p)]

GenerateCopy ==
    /\ AtInstruction({"Copy"})
    /\ LET ctx == ContextOf(Tracked)
           src == Instr.args[1]
           sub == OperandTemplate(env.bindings, src)
           sup == ResolveCrossRefs(Local(env.bindings, Instr.dest), Tracked.map)
       IN  Emit(Fact(Tracked, Rel("Eq", IntVar(Instr.dest), src)),
                ReadCheck(Tracked, src)
                \o <<Subtype(Here, ctx, sub, sup)>>
                \o IF IsNamed(Instr.dest) /\ Refined(TypeOf(Instr.dest))
                   THEN <<Subtype(Here, ctx, sub,
                            ResolveCrossRefs(UserContract(Instr.dest), Tracked.map))>>
                   ELSE <<>>)

OperationFacts(op, args, dest) ==
    CASE op \in ArithOps -> <<Rel("Eq", IntVar(dest), Arith(op, args[1], args[2]))>>
      [] op \in RelOps   -> <<Iff(dest, Rel(op, args[1], args[2]))>>
      [] OTHER           -> <<>>

GenerateOperation ==
    /\ AtInstruction(ArithOps \cup RelOps \cup {"And", "Or", "Negate", "Not"})
    /\ LET ctx  == ContextOf(Tracked)
           args == Instr.args
           operands == [k \in DOMAIN args |-> OperandTemplate(env.bindings, args[k])]
           binders  == [k \in DOMAIN args |-> operands[k].binder]
           result   == Local(env.bindings, Instr.dest)
       IN  Emit([Tracked EXCEPT !.facts = @ \o OperationFacts(Instr.op, args, Instr.dest)],
                FlattenSeq([k \in DOMAIN args |-> ReadCheck(Tracked, args[k])])
                \o [k \in DOMAIN args |-> WellFormed(Here, ctx, operands[k])]
                \o <<WellFormed(Here, ctx, result),
                     Constraint("Operation", Here, ctx, operands,
                                OperationFact(Instr.op, binders, result.binder), result)>>)

GenerateLoad ==
    /\ AtInstruction({"StorageLoad"})
    /\ LET x == Instr.ref
           equal == IF x \in DOMAIN env.loads
                    THEN <<Rel("Eq", IntVar(Instr.dest), IntVar(env.loads[x]))>> ELSE <<>>
       IN  Emit([Tracked EXCEPT !.assumptions = @ \o equal, !.loads = (x :> Instr.dest) @@ @],
                <<Subtype(Here, ContextOf(Tracked), FromType(program.types[x], Instr.dest),
                          Local(env.bindings, Instr.dest))>>)

GenerateStore ==
    /\ AtInstruction({"StorageStore"})
    /\ LET x == Instr.ref
           value == Instr.args[1]
       IN  Emit([env EXCEPT !.loads = IF value.op = "IntVar" THEN (x :> value.sym) @@ @
                                      ELSE [y \in DOMAIN @ \ {x} |-> @[y]]],
                ReadCheck(env, value)
                \o <<Subtype(Here, ContextOf(env), OperandTemplate(env.bindings, value),
                             FromType(program.types[x], <<"store">> \o Here))>>)

-----------------------------------------------------------------------------
(* Calls: the arguments replace the parameters' names in the contracts, but *)
(* not in the parameters' types.                                           *)

GenerateCall ==
    /\ AtInstruction({"Call"})
    /\ LET ctx    == ContextOf(Tracked)
           callee == program.callees[Instr.ref]
           args   == Instr.args
           given  == 1 .. Min({Len(args), Len(callee.params)})
           subst  == [x \in {callee.params[k].name : k \in given} |->
                        args[CHOOSE k \in given : callee.params[k].name = x]]
           Filled(p) == SubstituteExprs(p, subst)
           answer == IF Instr.dest = <<>> THEN <<>>
                     ELSE LET t == Local(env.bindings, Instr.dest)
                          IN  <<IF IsLiquid(t) THEN t ELSE [t EXCEPT !.pred = Filled(@)]>>
           Argument(k) ==
                Append(ReadCheck(Tracked, args[k]),
                       Subtype(Here, ctx, OperandTemplate(env.bindings, args[k]),
                               AsConcrete(callee.params[k].type)))
       IN  Emit(IF answer = <<>> THEN Tracked
                ELSE [Tracked EXCEPT !.bindings = (Instr.dest :> answer[1]) @@ @],
                [k \in DOMAIN answer |-> WellFormed(Here, ctx, answer[k])]
                \o [k \in DOMAIN callee.requires |->
                        Obligation("Requires", Here, ctx, Filled(callee.requires[k]))]
                \o [k \in DOMAIN callee.ensures |->
                        Obligation("Ensures", Here, ctx, Filled(callee.ensures[k]))]
                \o FlattenSeq([k \in given |-> Argument(k)]))

GenerateCallExternal == AtInstruction({"CallExternal"}) /\ Emit(Tracked, <<>>)

-----------------------------------------------------------------------------
(* Fold asserts and unfold assumes the refinement of a storage variable, in *)
(* terms of the variable's own name.  A phi waits for the end of the walk.  *)

GenerateFold ==
    /\ AtInstruction({"Fold"})
    /\ Emit(env, <<Obligation("Fold", Here, ContextOf(env), program.types[Instr.ref].pred)>>)

GenerateUnfold ==
    /\ AtInstruction({"Unfold"})
    /\ Emit([env EXCEPT !.assumptions = Append(@, program.types[Instr.ref].pred)], <<>>)

SkipPhi == AtInstruction({"Phi"}) /\ Emit(Tracked, <<>>)

-----------------------------------------------------------------------------
(* Terminators.                                                             *)

Term == Block(top.block).term
Rest == Front(frames)
AtTerminator(kind) ==
    /\ phase = "generate" /\ frames # <<>>
    /\ top.stage = "code" /\ top.i > Len(Block(top.block).code)
    /\ Term.kind = kind
IsLoop(term) == term.invariants # <<>> \/ term.variants # <<>>

Resolved(preds, map) == [k \in DOMAIN preds |-> SubstituteVars(preds[k], map)]

(* A branch without loop annotations: the then side is walked under the     *)
(* condition, the else side under its negation, and a block both reach     *)
(* under the first only.                                                   *)
TakeThen ==
    /\ AtTerminator("Branch") /\ ~ IsLoop(Term)
    /\ LET t == OperandTemplate(env.bindings, Term.operand[1])
           cond == IF IsLiquid(t) THEN AsPredicate(Term.operand[1]) ELSE t.pred
       IN  /\ constraints' = constraints \o ReadCheck(env, Term.operand[1])
           /\ env' = [env EXCEPT !.assumptions = Append(@, cond),
                                 !.paths = (Term.to[1] :> cond) @@ @]
           /\ Walk(Term.to[1], Append(Rest, [top EXCEPT !.stage = "else", !.cond = cond,
                                                        !.loads = env.loads]))
    /\ UNCHANGED <<program, phase>>

AtStage(stage) == phase = "generate" /\ frames # <<>> /\ top.stage = stage

(* Mutants of TakeElse: the condition stays assumed; the branch is left for *)
(* the other side forever.                                                 *)
TakeElseUnpopped ==
    /\ AtStage("else")
    /\ LET not == Negate(top.cond)
       IN  env' = [env EXCEPT !.loads = top.loads, !.assumptions = Append(@, not),
                              !.paths = (Term.to[2] :> not) @@ @]
    /\ Walk(Term.to[2], Append(Rest, [top EXCEPT !.stage = "join"]))
    /\ UNCHANGED <<program, phase, constraints>>
TakeElseAgain ==
    /\ AtStage("else")
    /\ LET not == Negate(top.cond)
       IN  env' = [env EXCEPT !.loads = top.loads, !.assumptions = Append(Pop(@, 1), not),
                              !.paths = (Term.to[2] :> not) @@ @]
    /\ Walk(Term.to[2], frames)
    /\ UNCHANGED <<program, phase, constraints>>
TakeElse ==
    /\ AtStage("else")
    /\ LET not == Negate(top.cond)
       IN  env' = [env EXCEPT !.loads = top.loads, !.assumptions = Append(Pop(@, 1), not),
                              !.paths = (Term.to[2] :> not) @@ @]
    /\ Walk(Term.to[2], Append(Rest, [top EXCEPT !.stage = "join"]))
    /\ UNCHANGED <<program, phase, constraints>>

LeaveBranch ==
    /\ AtStage("join")
    /\ env' = [env EXCEPT !.assumptions = Pop(@, 1)]
    /\ frames' = Rest
    /\ UNCHANGED <<program, phase, visited, constraints>>

(* A branch with loop annotations: invariants and variants are checked at   *)
(* the entry with the registers from before the phis, then assumed.        *)
Before(b) == <<b, -1>>
After(b)  == <<b, 0>>

EnterLoop ==
    /\ AtTerminator("Branch") /\ IsLoop(Term)
    /\ LET ctx  == ContextOf(env)
           cond == AsPredicate(Term.operand[1])
           atEntry == Resolved(Term.invariants, top.entry)
           ranks   == Resolved(Term.variants, top.entry)
       IN  /\ constraints' = constraints
                \o [k \in DOMAIN atEntry |->
                        Obligation("LoopInvariantEntry", Before(top.block), ctx, atEntry[k])]
                \o [k \in DOMAIN ranks |->
                        Obligation("LoopVariantNonNegative", Before(top.block), ctx,
                                   Rel("Geq", ranks[k], Lit(0)))]
                \o ReadCheck(env, Term.operand[1])
           /\ env' = [env EXCEPT !.assumptions =
                            Append(@ \o Resolved(Term.invariants, env.map), cond)]
           /\ Walk(Term.to[1], Append(Rest, [top EXCEPT !.stage = "exit", !.cond = cond,
                                                  !.head = env.map, !.loads = env.loads]))
    /\ UNCHANGED <<program, phase>>

(* After the body: the invariants again, with the registers the walk ended  *)
(* with; the negated condition is assumed and stays.                       *)
LeaveLoop ==
    /\ AtStage("exit")
    /\ LET ctx == ContextOf(env)
           preserved == Resolved(Term.invariants, env.map)
           before == Resolved(Term.variants, top.head)
           after  == Resolved(Term.variants, env.map)
       IN  constraints' = constraints
                \o [k \in DOMAIN preserved |->
                        Obligation("LoopInvariantPreservation", After(top.block), ctx, preserved[k])]
                \o [k \in DOMAIN after |->
                        Obligation("LoopVariantDecreases", After(top.block), ctx,
                                   Rel("Lt", after[k], before[k]))]
    /\ env' = [env EXCEPT !.loads = top.loads,
                          !.assumptions = Append(Pop(@, 1 + Len(Term.invariants)), Negate(top.cond))]
    /\ Walk(Term.to[2], Rest)
    /\ UNCHANGED <<program, phase>>

FollowJump ==
    /\ AtTerminator("Jump")
    /\ UNCHANGED <<program, phase, env, constraints>>
    /\ Walk(Term.to[1], Rest)

(* generate_return_constraint.                                              *)
ReturnChecks(operand) ==
    Append(ReadCheck(env, operand),
           Subtype(Here, ContextOf(env), OperandTemplate(env.bindings, operand),
                   ResolveCrossRefs(FromType(program.returns, <<"return">> \o Here), env.map)))

(* Mutant of GenerateReturn: what is returned is not compared with the type. *)
GenerateReturnUnchecked ==
    /\ AtTerminator("Return")
    /\ LET ctx == ContextOf(env)
           posts == Resolved(program.ensures, env.map)
       IN  constraints' = constraints
                \o FlattenSeq([k \in DOMAIN Term.operand |-> ReadCheck(env, Term.operand[k])])
                \o [k \in DOMAIN posts |-> Obligation("Ensures", Here, ctx, posts[k])]
    /\ frames' = Rest
    /\ UNCHANGED <<program, phase, env, visited>>
GenerateReturn ==
    /\ AtTerminator("Return")
    /\ LET posts == Resolved(program.ensures, env.map)
       IN  constraints' = constraints
                \o FlattenSeq([k \in DOMAIN Term.operand |-> ReturnChecks(Term.operand[k])])
                \o [k \in DOMAIN posts |-> Obligation("Ensures", Here, ContextOf(env), posts[k])]
    /\ frames' = Rest
    /\ UNCHANGED <<program, phase, env, visited>>

-----------------------------------------------------------------------------
(* generate_phi_constraints: every source under the context the walk ended  *)
(* with and what was assumed at the start of the block it comes from.      *)

PhiConstraints(b) ==
    LET code == Block(b).code
        Source1(i, k) ==
            LET s == code[i].sources[k]
                ctx == ContextOf(env)
            IN  Subtype(<<b, i, s.from>>,
                        IF s.from \in DOMAIN env.paths THEN Assume(ctx, env.paths[s.from]) ELSE ctx,
                        Local(env.bindings, s.reg), Local(env.bindings, code[i].dest))
    IN  FlattenSeq([i \in DOMAIN code |->
            IF code[i].op = "Phi" THEN [k \in DOMAIN code[i].sources |-> Source1(i, k)] ELSE <<>>])

GeneratePhis ==
    /\ phase = "generate" /\ frames = <<>>
    /\ phase' = "collect"
    /\ LET n == Cardinality(DOMAIN program.blocks)
           up   == FlattenSeq([k \in 1 .. n |-> PhiConstraints(k - 1)])
           down == FlattenSeq([k \in 1 .. n |-> PhiConstraints(n - k)])
       IN  \E phis \in {up, down} : constraints' = constraints \o phis
    /\ UNCHANGED <<program, env, visited, frames>>

Generate ==
    \/ AssignTemplates \/ RejectContracts \/ StartGeneration
    \/ GenerateCopy \/ GenerateOperation \/ GenerateLoad \/ GenerateStore
    \/ GenerateCall \/ GenerateCallExternal \/ GenerateFold \/ GenerateUnfold \/ SkipPhi
    \/ TakeThen \/ TakeElse \/ LeaveBranch \/ EnterLoop \/ LeaveLoop
    \/ FollowJump \/ GenerateReturn \/ GeneratePhis
=============================================================================
