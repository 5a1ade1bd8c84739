----------------------------- MODULE SlotMachine -----------------------------
(***************************************************************************)
(* What a lowered program means (codegen/src/lowering/mod.rs): every       *)
(* activation of a function has its own slots, an instruction reads and    *)
(* writes the slots it names, and there is no stack and no memory.  An     *)
(* activation remembers only the slots whose value it still needs.         *)
(*                                                                         *)
(* A program is a record                                                   *)
(*   fns       [function names -> unit]                                    *)
(*   main      the function the outside calls                              *)
(*   creation  whether main is the constructor                             *)
(* where a unit is a record with the lowered function cfg and its liveness *)
(* live_out (and what code generation adds, which this module ignores).    *)
(***************************************************************************)
EXTENDS LoweredCfg, Words, Functions

CONSTANT Keys      \* the storage slots

VARIABLES
    program,
    frames,        \* activations, the running one first: [fn, block, idx, env]
    storage,       \* [Keys -> Word]
    outcome,       \* "running", "returned" or "invalid"
    result         \* <<>>, or the returned value

vars == <<program, frames, storage, outcome, result>>

(* What the source operators mean.                                          *)
BinaryValue(op, l, r) ==
    CASE op = "Add"          -> (l + r) % WordCount
      [] op = "Subtract"     -> (l - r) % WordCount
      [] op = "Multiply"     -> (l * r) % WordCount
      [] op = "Divide"       -> IF r = 0 THEN 0 ELSE l \div r
      [] op = "Modulo"       -> IF r = 0 THEN 0 ELSE l % r
      [] op = "Less"         -> FromBool(l < r)
      [] op = "Greater"      -> FromBool(l > r)
      [] op = "Equal"        -> FromBool(l = r)
      [] op = "LessEqual"    -> FromBool(l <= r)
      [] op = "GreaterEqual" -> FromBool(l >= r)
      [] op = "NotEqual"     -> FromBool(l # r)
      [] op = "LogicalAnd"   -> FromBool(l = 1 /\ r = 1)
      [] op = "LogicalOr"    -> FromBool(l = 1 \/ r = 1)
UnaryValue(op, x) ==
    CASE op = "Not"    -> FromBool(x = 0)
      [] op = "Negate" -> (0 - x) % WordCount

ValueOf(env, x) == IF x.kind = "const" THEN x.val ELSE env[x.val]

Needed(fn, b, i) ==
    NeededBefore(program.fns[fn].cfg, program.fns[fn].live_out[b], b, i)

Activation(fn, b, i, env) ==
    [fn |-> fn, block |-> b, idx |-> i, env |-> Restrict(env, Needed(fn, b, i))]

(* A call of fn with the values args: the parameters take them in order.    *)
Entered(fn, args) ==
    LET g == program.fns[fn].cfg
    IN  Activation(fn, g.entry, 1,
                   [s \in Slot |-> IF s \in Range(g.params)
                                   THEN args[CHOOSE k \in DOMAIN args : g.params[k] = s]
                                   ELSE 0])

(* Any program, any arguments, any storage. *)
Init ==
    /\ \E args \in [1 .. Len(program.fns[program.main].cfg.params) -> Word] :
          frames = <<Entered(program.main, args)>>
    /\ storage \in [Keys -> Word]
    /\ outcome = "running"
    /\ result = <<>>

Running == Head(frames)
Cfg  == program.fns[Running.fn].cfg
Code == Cfg.code[Running.block]
AtInstruction(ops) ==
    /\ outcome = "running"
    /\ Running.idx <= Len(Code)
    /\ Code[Running.idx].op \in ops
AtTerminator(kinds) ==
    /\ outcome = "running"
    /\ Running.idx = Len(Code) + 1
    /\ Cfg.term[Running.block].kind \in kinds

(* The activation f after the instruction it is at wrote v to its           *)
(* destination, if it has one.                                              *)
Past(f, v) ==
    LET dest == program.fns[f.fn].cfg.code[f.block][f.idx].dest
    IN  Activation(f.fn, f.block, f.idx + 1,
                   [s \in DOMAIN f.env \cup dest |-> IF s \in dest THEN v ELSE f.env[s]])

Compute ==
    /\ AtInstruction({"Binary", "Unary", "Copy", "SLoad"})
    /\ LET inst == Code[Running.idx]
           arg(k) == ValueOf(Running.env, inst.args[k])
           v == CASE inst.op = "Binary" -> BinaryValue(inst.ref, arg(1), arg(2))
                  [] inst.op = "Unary"  -> UnaryValue(inst.ref, arg(1))
                  [] inst.op = "Copy"   -> arg(1)
                  [] inst.op = "SLoad"  -> storage[inst.ref]
       IN  frames' = <<Past(Running, v)>> \o Tail(frames)
    /\ UNCHANGED <<program, storage, outcome, result>>

Store ==
    /\ AtInstruction({"SStore"})
    /\ LET inst == Code[Running.idx]
       IN  storage' = [storage EXCEPT ![inst.ref] = ValueOf(Running.env, inst.args[1])]
    /\ frames' = <<Past(Running, 0)>> \o Tail(frames)
    /\ UNCHANGED <<program, outcome, result>>

(* The caller waits at its call, keeping what it needs afterwards.          *)
Waiting(f) ==
    LET after == Needed(f.fn, f.block, f.idx + 1)
        dest == program.fns[f.fn].cfg.code[f.block][f.idx].dest
    IN  [f EXCEPT !.env = Restrict(@, after \ dest)]

Call ==
    /\ AtInstruction({"Call"})
    /\ LET inst == Code[Running.idx]
           args == [k \in DOMAIN inst.args |-> ValueOf(Running.env, inst.args[k])]
       IN  frames' = <<Entered(inst.ref, args), Waiting(Running)>> \o Tail(frames)
    /\ UNCHANGED <<program, storage, outcome, result>>

Goto ==
    /\ AtTerminator({"Jump", "Branch"})
    /\ LET t == Cfg.term[Running.block]
           taken == IF t.kind = "Branch" /\ ValueOf(Running.env, t.args[1]) = 0 THEN 2 ELSE 1
       IN  frames' = <<Activation(Running.fn, t.targets[taken], 1, Running.env)>> \o Tail(frames)
    /\ UNCHANGED <<program, storage, outcome, result>>

Return ==
    /\ AtTerminator({"Return"})
    /\ LET t == Cfg.term[Running.block]
           value == [k \in DOMAIN t.args |-> ValueOf(Running.env, t.args[k])]
       IN  IF Len(frames) = 1
           THEN /\ outcome' = "returned"
                /\ result' = value
                /\ frames' = <<>>
           ELSE /\ frames' = <<Past(frames[2], IF value = <<>> THEN 0 ELSE value[1])>>
                             \o SubSeq(frames, 3, Len(frames))
                /\ UNCHANGED <<outcome, result>>
    /\ UNCHANGED <<program, storage>>

Abort ==
    /\ AtTerminator({"Unreachable"})
    /\ outcome' = "invalid"
    /\ frames' = <<>>
    /\ UNCHANGED <<program, storage, result>>

Next == Compute \/ Store \/ Call \/ Goto \/ Return \/ Abort

Spec == Init /\ [][Next]_vars
=============================================================================
