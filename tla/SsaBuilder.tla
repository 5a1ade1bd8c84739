------------------------------ MODULE SsaBuilder ------------------------------
(***************************************************************************)
(* SsaBuilder (ir/src/transformers/ssa.rs): the control-flow graph of one  *)
(* function, one action per kind of statement.  The recursion over nested  *)
(* blocks is a stack of frames, innermost first: the statements left, and  *)
(* the blocks the enclosing statement still has to wire.                   *)
(***************************************************************************)
EXTENDS SsaForm, PassState

CONSTANTS Programs,     \* the functions that may be compiled
          StateVariable

(* Parameters have names of their own (add_symbol refuses two of one name   *)
(* in a scope); blocks and expressions are lists, and Depth is enough.      *)
ASSUME ProgramsAssumption ==
    \A p \in Programs :
        /\ DOMAIN p = {"constructor", "params", "body"}
        /\ IsList(p.params) /\ IsInjective(p.params)
        /\ \A block \in Blocks(p.body) :
              /\ IsList(block)
              /\ \A s \in ToSet(block) : IsList(s.expr) /\ {s.block, s.otherwise} \subseteq Blocks(p.body)

(* collect_and_resolve_block (analyzer/src/lib.rs), which runs on the bodies *)
(* as ensure_return_statement leaves them: a block is in the scope of the   *)
(* parameters and of what the blocks around it had declared before it, and  *)
(* its statements in that of the declarations above them.  The blocks of a  *)
(* body, each with the names it starts with.                               *)
Declared(block, i) == {block[j].ref : j \in {k \in 1 .. i - 1 : block[k].kind = "Declare"}}
NamesAt(scope, i)  == scope[2] \cup Declared(scope[1], i)
Inner(scope, i) ==
    {<<scope[1][i].block, NamesAt(scope, i)>>, <<scope[1][i].otherwise, NamesAt(scope, i)>>}
Scopes(p) ==
    LET nested[n \in 0 .. Depth] ==
            IF n = 0 THEN {<<p.body, ToSet(p.params)>>}
            ELSE LET outer == nested[n-1]
                 IN  outer \cup UNION {UNION {Inner(s, i) : i \in DOMAIN s[1]} : s \in outer}
    IN  nested[Depth]

(* What name resolution and the parser leave of a function: locals are used *)
(* in their scope only and are no state variables (SymbolIds are unique),   *)
(* operands come before their operator, a member call has a receiver.      *)
NodeOps == {"Literal", "Local", "State", "Binary", "Unary", "Call", "MemberCall"}
ResolvedNode(node, k, names) ==
    /\ node.op \in NodeOps
    /\ node.op = "Local" => node.ref \in names
    /\ IsList(node.args) /\ ToSet(node.args) \subseteq 1 .. k - 1
    /\ node.op = "MemberCall" => node.args # <<>>
(* And the type checker (analyzer/src/typechecker.rs): the value of a call  *)
(* of a function that returns nothing is never used.  One such use gets     *)
(* past it and is no input here: `var x = f()` without a type, on which     *)
(* transform_statement panics.  That a call resolves to a declaration of an *)
(* interface, where transform_expression panics too, it does not let by:    *)
(* it looks those up as Iface::f, and they are registered with the contract *)
(* in front.                                                               *)
TypedExpression(s) ==
    /\ \A k \in DOMAIN s.expr : \A j \in ToSet(s.expr[k].args) : ReturnsValue(s.expr[j])
    /\ s.kind # "Expression" /\ s.expr # <<>> => ReturnsValue(Last(s.expr))
ResolvedStatement(s, names) ==
    /\ TypedExpression(s)
    /\ s.kind = "Declare" => s.ref \notin StateVariable
    /\ s.kind \in {"Assign", "Declare", "If", "IfElse", "While"} => s.expr # <<>>
    /\ \A k \in DOMAIN s.expr : ResolvedNode(s.expr[k], k, names)
Resolved(p) ==
    \A scope \in Scopes(p) :
        /\ IsList(scope[1])
        /\ \A i \in DOMAIN scope[1] :
              Inner(scope, i) \subseteq Scopes(p) /\ ResolvedStatement(scope[1][i], NamesAt(scope, i))
ASSUME ResolvedAssumption == \A p \in Programs : Resolved(EnsureReturn(p))

VARIABLES
    program,
    current_block,
    next_temp,
    frames

builder == <<current_block, next_temp, frames>>

Frame(kind, todo, blocks, otherwise) ==
    [kind |-> kind, todo |-> todo, blocks |-> blocks, otherwise |-> otherwise]
NoBlocks == [exit |-> 0, other |-> 0, body |-> 0, header |-> 0]

InitBuilder ==
    /\ program \in {EnsureReturn(p) : p \in Programs}
    /\ InitPass(NewCfg([i \in DOMAIN program.params |-> Reg(program.params[i], 0)]))
    /\ current_block = 0 /\ next_temp = 0
    /\ frames = <<Frame("body", program.body, NoBlocks, <<>>)>>

-----------------------------------------------------------------------------
(* transform_expression: the instructions of an expression and the operand  *)
(* that holds its value (a void call leaves none).  Local variables are     *)
(* named, versions come with renaming.                                     *)
Opcode(node) ==
    CASE node.op = "State"      -> "SLoad"
      [] node.op = "MemberCall" -> "External"
      [] OTHER                  -> node.op
TransformNode(acc, node) ==
    LET given == [i \in DOMAIN node.args |-> acc.operands[node.args[i]]]
        args  == IF node.op = "MemberCall" THEN Tail(given) ELSE given
        target == Reg(<<"tmp", acc.next>>, 0)
    IN  CASE node.op = "Literal" -> [acc EXCEPT !.operands = Append(@, Const(node.val))]
          [] node.op = "Local"   -> [acc EXCEPT !.operands = Append(@, At(Reg(node.ref, 0)))]
          [] ReturnsValue(node) /\ node.op \notin {"Literal", "Local"} ->
                [code |-> Append(acc.code, Instr(Opcode(node), node.ref, {target}, args)),
                 operands |-> Append(acc.operands, At(target)), next |-> acc.next + 1]
          [] OTHER ->
                [acc EXCEPT !.code = Append(@, Instr(Opcode(node), node.ref, {}, args)),
                            !.operands = Append(@, Const(0))]
TransformExpression(expr) ==
    LET after[n \in 0 .. Len(expr)] ==
            IF n = 0 THEN [code |-> <<>>, operands |-> <<>>, next |-> next_temp]
            ELSE TransformNode(after[n-1], expr[n])
    IN  after[Len(expr)]
Value(t) == Last(t.operands)

stmt == Head(frames[1].todo)
Reading(kinds) == phase = "build" /\ frames # <<>> /\ frames[1].todo # <<>> /\ stmt.kind \in kinds
AfterStatement == [frames EXCEPT ![1].todo = Tail(@)]

(* A statement that ends in the block it starts in.                         *)
Straight(t, g) ==
    /\ cfg' = g
    /\ next_temp' = t.next
    /\ frames' = AfterStatement
    /\ UNCHANGED <<phase, program, current_block>>

TransformExpressionStatement ==
    /\ Reading({"Expression"})
    /\ LET t == TransformExpression(stmt.expr)
       IN  Straight(t, AddInstructions(cfg, current_block, t.code))

TransformAssignment ==
    /\ Reading({"Assign", "Declare"})
    /\ LET t    == TransformExpression(stmt.expr)
           inst == IF stmt.ref \in StateVariable
                   THEN Instr("SStore", stmt.ref, {}, <<Value(t)>>)
                   ELSE Instr("Copy", <<"", 0>>, {Reg(stmt.ref, 0)}, <<Value(t)>>)
       IN  Straight(t, AddInstructions(cfg, current_block, Append(t.code, inst)))

(* No new block: what follows is appended before the same terminator.       *)
TransformReturn ==
    /\ Reading({"Return"})
    /\ LET t == TransformExpression(stmt.expr)
           value == IF stmt.expr = <<>> THEN <<>> ELSE <<Value(t)>>
       IN  Straight(t, AddTerminator(AddInstructions(cfg, current_block, t.code),
                                     current_block, Return(value)))

(* The blocks are created before the condition is evaluated in the block    *)
(* at hand.  Without an else block the branch goes to the exit block.       *)
TransformIf ==
    /\ Reading({"If", "IfElse"})
    /\ LET t     == TransformExpression(stmt.expr)
           n     == Cardinality(cfg.blocks)
           other == n + 1
           exit  == IF stmt.kind = "IfElse" THEN n + 2 ELSE n + 1
           grown == IF stmt.kind = "IfElse" THEN NewBlock(NewBlock(NewBlock(cfg)))
                    ELSE NewBlock(NewBlock(cfg))
           branched == AddTerminator(AddInstructions(grown, current_block, t.code),
                                     current_block, Branch(Value(t), n, other))
       IN  /\ cfg' = AddEdge(AddEdge(branched, current_block, n), current_block, other)
           /\ next_temp' = t.next
           /\ current_block' = n
           /\ frames' = <<Frame(IF stmt.kind = "IfElse" THEN "then" ELSE "last", stmt.block,
                                [NoBlocks EXCEPT !.exit = exit, !.other = other], stmt.otherwise)>>
                        \o AfterStatement
    /\ UNCHANGED <<phase, program>>

(* The edge to the exit block is added whether or not the block jumps.      *)
JoinExit(g, exit) ==
    LET joined == AddEdge(g, current_block, exit)
    IN  IF g.term[current_block] = Unreachable
        THEN AddTerminator(joined, current_block, Jump(exit)) ELSE joined
BlockEnds(kind) ==
    phase = "build" /\ frames # <<>> /\ frames[1].todo = <<>> /\ frames[1].kind = kind
EndThen ==
    /\ BlockEnds("then")
    /\ cfg' = JoinExit(cfg, frames[1].blocks.exit)
    /\ current_block' = frames[1].blocks.other
    /\ frames' = <<Frame("last", frames[1].otherwise, frames[1].blocks, <<>>)>> \o Tail(frames)
    /\ UNCHANGED <<phase, program, next_temp>>
EndIf ==
    /\ BlockEnds("last")
    /\ cfg' = JoinExit(cfg, frames[1].blocks.exit)
    /\ current_block' = frames[1].blocks.exit
    /\ frames' = Tail(frames)
    /\ UNCHANGED <<phase, program, next_temp>>

(* The back edge leaves body_bb before the body is transformed.             *)
TransformWhile ==
    /\ Reading({"While"})
    /\ LET header == Cardinality(cfg.blocks)
           body   == header + 1
           exit   == header + 2
           t      == TransformExpression(stmt.expr)
           entered == AddEdge(AddTerminator(NewBlock(NewBlock(NewBlock(cfg))), current_block, Jump(header)),
                              current_block, header)
           branched == AddTerminator(AddInstructions(entered, header, t.code),
                                     header, Branch(Value(t), body, exit))
       IN  /\ cfg' = AddEdge(AddEdge(branched, header, body), body, header)
           /\ next_temp' = t.next
           /\ current_block' = body
           /\ frames' = <<Frame("while", stmt.block,
                                [NoBlocks EXCEPT !.header = header, !.body = body, !.exit = exit], <<>>)>>
                        \o AfterStatement
    /\ UNCHANGED <<phase, program>>
(* The jump is put on body_bb, whatever block the body ended in.            *)
BackJumpFrom(blocks) == blocks.body
EndWhile ==
    /\ BlockEnds("while")
    /\ LET b == frames[1].blocks
       IN  /\ cfg' = AddEdge(AddTerminator(cfg, BackJumpFrom(b), Jump(b.header)), b.header, b.exit)
           /\ current_block' = b.exit
    /\ frames' = Tail(frames)
    /\ UNCHANGED <<phase, program, next_temp>>

(* build_contract adds a return to a constructor that lacks one; functions  *)
(* have theirs from the parser.                                            *)
FinishBuild ==
    /\ BlockEnds("body")
    /\ cfg' = IF program.constructor /\ cfg.term[current_block] = Unreachable
              THEN AddTerminator(cfg, current_block, Return(<<>>)) ELSE cfg
    /\ frames' = <<>>
    /\ phase' = "order"
    /\ UNCHANGED <<program, current_block, next_temp>>

NextBuilder ==
    \/ TransformExpressionStatement \/ TransformAssignment \/ TransformReturn
    \/ TransformIf \/ EndThen \/ EndIf
    \/ TransformWhile \/ EndWhile
    \/ FinishBuild
=============================================================================
