-------------------------------- MODULE SsaForm --------------------------------
(***************************************************************************)
(* The control-flow graph of ir/src/ssa_ir.rs (SsaCfg), the value the      *)
(* passes from SSA construction to lowering hand on, and what such a graph *)
(* means.  It is a graph of ControlFlow with code, term and params; an     *)
(* instruction has a set dest of at most one register, a terminator an     *)
(* operand sequence args and jump targets.  The sources of a phi are pairs *)
(* of a predecessor and a register.                                        *)
(***************************************************************************)
EXTENDS ControlFlow, SourceProgram

Reg(x, n) == [sym |-> x, ver |-> n]
At(r)     == [kind |-> "reg", val |-> r]
Const(v)  == [kind |-> "const", val |-> v]
Instr(op, ref, dest, args) ==
    [op |-> op, ref |-> ref, dest |-> dest, args |-> args, sources |-> <<>>]
Phi(r)    == [op |-> "Phi", ref |-> <<"", 0>>, dest |-> {r}, args |-> <<>>, sources |-> <<>>]
Jump(b)   == [kind |-> "Jump", args |-> <<>>, targets |-> <<b>>]
Branch(c, b1, b2) == [kind |-> "Branch", args |-> <<c>>, targets |-> <<b1, b2>>]
Return(args) == [kind |-> "Return", args |-> args, targets |-> <<>>]
Unreachable  == [kind |-> "Unreachable", args |-> <<>>, targets |-> <<>>]

(* A Vec, whatever it holds; a map with one entry put in or overwritten.    *)
IsList(q) == q \in Seq(ToSet(q))
Put(f, x, v) == [y \in DOMAIN f \cup {x} |-> IF y = x THEN v ELSE f[y]]

(* SsaCfg::new and the entry block; new_block; add_instruction_at;          *)
(* add_terminator_at.                                                      *)
NewCfg(params) ==
    LET only(v) == [b \in {0} |-> v]
    IN  [entry |-> 0, blocks |-> {0}, params |-> params, succ |-> only(<<>>), pred |-> only(<<>>),
         code |-> only(<<>>), term |-> only(Unreachable)]
NewBlock(g) ==
    LET b == Cardinality(g.blocks)
    IN  [g EXCEPT !.blocks = @ \cup {b},
                  !.succ = Put(@, b, <<>>), !.pred = Put(@, b, <<>>),
                  !.code = Put(@, b, <<>>), !.term = Put(@, b, Unreachable)]
AddInstructions(g, b, q) == [g EXCEPT !.code[b] = @ \o q]
AddTerminator(g, b, t)   == [g EXCEPT !.term[b] = t]
AppendOnce(q, x) == IF x \in ToSet(q) THEN q ELSE Append(q, x)
AddEdge(g, from, to) ==
    [g EXCEPT !.succ[from] = AppendOnce(@, to), !.pred[to] = AppendOnce(@, from)]

-----------------------------------------------------------------------------
(* Reference: running a graph block by block.  The phis of a block read     *)
(* the registers as the predecessor left them, all at once.  A copy of a    *)
(* register without a value leaves its destination without one; any other  *)
(* use of it ends the run.                                                 *)
OperandValue(env, o) == IF o.kind = "const" THEN o.val ELSE env[o.val]
HasValue(env, o) == o.kind = "const" \/ o.val \in DOMAIN env
Readable(env, args) == \A i \in DOMAIN args : HasValue(env, args[i])

EnterBlock(env, code, from) ==
    LET phis == {q \in ToSet(code) : q.op = "Phi"}
        given == {q \in phis : \E s \in ToSet(q.sources) : s[1] = from /\ s[2] \in DOMAIN env}
        PhiOf(r) == CHOOSE q \in given : r \in q.dest
        source(q) == CHOOSE s \in ToSet(q.sources) : s[1] = from
        dests(Q) == UNION {q.dest : q \in Q}
    IN  [r \in dests(given) |-> env[source(PhiOf(r))[2]]]
        @@ [r \in DOMAIN env \ dests(phis) |-> env[r]]

Execute(s, q) ==
    LET vals == [i \in DOMAIN q.args |-> OperandValue(s.env, q.args[i])]
        Set(v) == [s EXCEPT !.env = [r \in q.dest |-> v] @@ @]
    IN  CASE s.ended \/ q.op = "Phi" -> s
          [] ~ s.ended /\ q.op # "Phi" /\ ~ Readable(s.env, q.args) ->
                IF q.op = "Copy"
                THEN [s EXCEPT !.env = [r \in DOMAIN @ \ q.dest |-> @[r]]]
                ELSE [s EXCEPT !.ended = TRUE, !.w = EndIn(s.w, "undefined", <<>>)]
          [] OTHER ->
                CASE q.op = "Copy" -> Set(vals[1])
                  [] q.op \in {"Binary", "Unary"} -> Set(Operate(q.ref[1], vals))
                  [] q.op = "SLoad"  -> Set(s.w.storage[q.ref])
                  [] q.op = "SStore" -> [s EXCEPT !.w = StoreIn(s.w, q.ref, vals[1])]
                  [] q.op \in {"Call", "External"} ->
                        [Set(Answer(s.w, vals)) EXCEPT !.w = CallIn(s.w, q.ref, vals)]

Leave(s, t) ==
    LET End(act, vals) == [s EXCEPT !.ended = TRUE, !.w = EndIn(s.w, act, vals)]
        GoTo(b) == [s EXCEPT !.block = b, !.from = s.block]
    IN  IF s.ended THEN s
        ELSE IF ~ Readable(s.env, t.args) THEN End("undefined", <<>>)
        ELSE CASE t.kind = "Jump"   -> GoTo(t.targets[1])
               [] t.kind = "Branch" -> GoTo(t.targets[IF OperandValue(s.env, t.args[1]) = 1 THEN 1 ELSE 2])
               [] t.kind = "Return" -> End("return", [i \in DOMAIN t.args |-> OperandValue(s.env, t.args[i])])
               [] t.kind = "Unreachable" -> End("invalid", <<>>)

RunGraph(g, args, storage, fuel) ==
    LET start == [block |-> g.entry, from |-> -1, ended |-> FALSE, w |-> World(storage),
                  env |-> [r \in ToSet(g.params) |->
                              args[CHOOSE i \in DOMAIN g.params : g.params[i] = r]]]
        Turn(s) ==
            LET code == g.code[s.block]
                entered == [s EXCEPT !.env = EnterBlock(@, code, s.from)]
            IN  Leave(FoldLeft(Execute, entered, code), g.term[s.block])
        after[n \in 0 .. fuel] ==
            IF n = 0 THEN start
            ELSE LET s == after[n-1] IN IF s.ended THEN s ELSE Turn(s)
        end == after[fuel]
    IN  IF end.ended THEN end.w.trace ELSE EndIn(end.w, "timeout", <<>>).trace
=============================================================================
