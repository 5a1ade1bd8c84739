----------------------------- MODULE SourceProgram -----------------------------
(***************************************************************************)
(* Function bodies as the compiler gets them from name resolution, and     *)
(* what they mean.  The meaning of a body is the trace of its effects on   *)
(* the world outside its locals: stores, calls with their arguments, and   *)
(* how it ends.                                                            *)
(*                                                                         *)
(* An expression is the sequence of its nodes in evaluation order, each    *)
(*   [op, ref, val, args]                                                  *)
(* where args are the positions of the operands; a symbol is a pair of a   *)
(* name and a number, as SymbolId is.                                      *)
(***************************************************************************)
EXTENDS Words, Sequences, SequencesExt

CONSTANTS Void,     \* the functions that return nothing
          Depth     \* bound: how deep blocks nest
ASSUME DepthAssumption == Depth \in Nat

Node(op, ref, val, args) == [op |-> op, ref |-> ref, val |-> val, args |-> args]
Statement(kind, ref, expr, block, otherwise) ==
    [kind |-> kind, ref |-> ref, expr |-> expr, block |-> block, otherwise |-> otherwise]

(* A body and the blocks in it.                                             *)
Blocks(body) ==
    LET nested[n \in 0 .. Depth] ==
            IF n = 0 THEN {body}
            ELSE LET outer == nested[n-1]
                 IN  outer \cup UNION {{s.block, s.otherwise} : s \in UNION {ToSet(b) : b \in outer}}
    IN  nested[Depth]

(* has_return_statement and ensure_return_statement of the parser: a return *)
(* is added to a function without one of its own.                           *)
HasReturn(body) ==
    LET has[b \in Blocks(body)] ==
            \E s \in ToSet(b) :
                \/ s.kind = "Return"
                \/ s.kind = "IfElse" /\ has[s.block] /\ has[s.otherwise]
    IN  has[body]
EnsureReturn(program) ==
    IF program.constructor \/ HasReturn(program.body) THEN program
    ELSE [program EXCEPT !.body = Append(@, Statement("Return", <<"", 0>>, <<>>, <<>>, <<>>))]

ReturnsValue(node) == node.op \notin {"Call", "MemberCall"} \/ node.ref[1] \notin Void

(* Arithmetic of the two machines below, and the answer of another          *)
(* function, which sees the storage and changes it.                        *)
Operate(ref, vals) ==
    CASE ref = "Add"      -> (vals[1] + vals[2]) % WordCount
      [] ref = "Subtract" -> (vals[1] - vals[2]) % WordCount
      [] ref = "Less"     -> FromBool(vals[1] < vals[2])
      [] ref = "Equal"    -> FromBool(vals[1] = vals[2])
      [] ref = "Not"      -> FromBool(vals[1] = 0)

World(storage) == [storage |-> storage, trace |-> <<>>]
Record(w, event) == [w EXCEPT !.trace = Append(@, event)]
StoreIn(w, x, v) ==
    Record([w EXCEPT !.storage[x] = v], [act |-> "store", ref |-> x, vals |-> <<v>>])
CallIn(w, f, vals) ==
    Record([w EXCEPT !.storage = [x \in DOMAIN @ |-> (@[x] + 1) % WordCount]],
           [act |-> "call", ref |-> f, vals |-> vals])
Answer(w, vals) ==
    FoldLeft(LAMBDA a, b : (a + b) % WordCount, Len(w.trace) % WordCount, vals)
EndIn(w, act, vals) == Record(w, [act |-> act, ref |-> <<"", 0>>, vals |-> vals])

-----------------------------------------------------------------------------
(* Reference: expressions from left to right, then statements one by one.  *)
EvalNode(acc, node, env) ==
    LET vals == [i \in DOMAIN node.args |-> acc.vals[node.args[i]]]
        With(v) == [acc EXCEPT !.vals = Append(@, v)]
    IN  CASE node.op = "Literal" -> With(node.val)
          [] node.op = "Local"   -> With(env[node.ref])
          [] node.op = "State"   -> With(acc.w.storage[node.ref])
          [] node.op \in {"Binary", "Unary"} -> With(Operate(node.ref[1], vals))
          [] node.op = "Call" ->
                [w |-> CallIn(acc.w, node.ref, vals), vals |-> Append(acc.vals, Answer(acc.w, vals))]
          [] node.op = "MemberCall" ->
                [w |-> CallIn(acc.w, node.ref, Tail(vals)),
                 vals |-> Append(acc.vals, Answer(acc.w, Tail(vals)))]
Eval(e, env, w) ==
    FoldLeft(LAMBDA acc, node : EvalNode(acc, node, env), [w |-> w, vals |-> <<>>], e)

SourceStep(s) ==
    LET stmt == Head(s.todo)
        rest == Tail(s.todo)
        r    == Eval(stmt.expr, s.env, s.w)
        v    == Last(r.vals)
        Go(todo) == [s EXCEPT !.todo = todo, !.w = r.w]
    IN  CASE stmt.kind = "Expression" -> Go(rest)
          [] stmt.kind \in {"If", "IfElse"} ->
                Go((IF v = 1 THEN stmt.block ELSE stmt.otherwise) \o rest)
          [] stmt.kind = "While" ->
                Go(IF v = 1 THEN stmt.block \o s.todo ELSE rest)
          [] stmt.kind = "Return" ->
                [s EXCEPT !.todo = <<>>, !.done = TRUE,
                          !.w = EndIn(r.w, "return", IF stmt.expr = <<>> THEN <<>> ELSE <<v>>)]
          [] stmt.kind = "Assign" /\ stmt.ref \in DOMAIN s.w.storage ->
                [Go(rest) EXCEPT !.w = StoreIn(r.w, stmt.ref, v)]
          [] stmt.kind \in {"Assign", "Declare"} ->
                [Go(rest) EXCEPT !.env = (stmt.ref :> v) @@ @]

(* The trace of a body run for at most fuel statements; a body that falls   *)
(* off its end returns nothing.                                            *)
Meaning(program, args, storage, fuel) ==
    LET start == [todo |-> program.body, done |-> FALSE, w |-> World(storage),
                  env |-> [x \in ToSet(program.params) |->
                              args[CHOOSE i \in DOMAIN program.params : program.params[i] = x]]]
        after[n \in 0 .. fuel] ==
            IF n = 0 THEN start
            ELSE LET s == after[n-1] IN IF s.todo = <<>> THEN s ELSE SourceStep(s)
        end == after[fuel]
    IN  IF end.done THEN end.w.trace
        ELSE IF end.todo = <<>> THEN EndIn(end.w, "return", <<>>).trace
        ELSE EndIn(end.w, "timeout", <<>>).trace
=============================================================================
