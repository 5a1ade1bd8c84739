------------------------ MODULE StorageAnalysisProofs ------------------------
(***************************************************************************)
(* Proofs about the storage analysis, for every contract (any functions,   *)
(* control flow and storage): the insertion of fold and unfold, what the   *)
(* search for external calls finds, the folds around calls, and what the   *)
(* search for stores after a call accepts and refuses.                     *)
(***************************************************************************)
EXTENDS StorageAnalysis, SequenceTheorems, Iteration

Mark == [op : {"Fold", "Unfold"}, ref : Location]
Emitted == Source \cup Mark

(* What is unfolded after instruction x, when S was before, and the         *)
(* condition under which x may be emitted.                                  *)
After(S, x) ==
    IF x.op = "Unfold" THEN S \cup {x.ref} ELSE IF x.op = "Fold" THEN S \ {x.ref} ELSE S
May(S, x) ==
    /\ x.op \in {"Load", "Store", "Fold"} => x.ref \in S
    /\ x.op = "Unfold" => x.ref \notin S

(* current_state is what the instructions emitted so far leave unfolded.    *)
Tracks(q, S) ==
    /\ q \in Seq(Emitted) /\ S \subseteq Location
    /\ WellFolded(q)
    /\ \A v \in Location : v \in S <=> OpenAt(q, Len(q) + 1, v)

(* Instructions after point i do not matter to what is unfolded there.      *)
LEMMA OpenInPrefix ==
    ASSUME NEW q \in Seq(Emitted), NEW x \in Emitted, NEW v, NEW i \in 1 .. Len(q) + 1
    PROVE  OpenAt(q \o <<x>>, i, v) <=> OpenAt(q, i, v)
<1>1. \A j \in 1 .. i - 1 : (q \o <<x>>)[j] = q[j]
  OBVIOUS
<1> QED BY <1>1 DEF OpenAt

(* One more instruction unfolds or folds the location it names, or nothing. *)
LEMMA OpenAfter ==
    ASSUME NEW q \in Seq(Emitted), NEW x \in Emitted, NEW v
    PROVE  OpenAt(q \o <<x>>, Len(q) + 2, v) <=>
              x = Unfold(v) \/ (OpenAt(q, Len(q) + 1, v) /\ x # Fold(v))
<1> DEFINE r == q \o <<x>>
           n == Len(q) + 1
<1>1. r[n] = x /\ n \in Nat /\ n >= 1 /\ \A j \in 1 .. n - 1 : r[j] = q[j]
  OBVIOUS
<1>2. OpenAt(r, n + 1, v) <=>
         \E j \in 1 .. n : r[j] = Unfold(v) /\ \A m \in j + 1 .. n : r[m] # Fold(v)
  BY <1>1, SMTT(30) DEF OpenAt
<1>3. OpenAt(q, n, v) <=>
         \E j \in 1 .. n - 1 : r[j] = Unfold(v) /\ \A m \in j + 1 .. n - 1 : r[m] # Fold(v)
  BY <1>1 DEF OpenAt
<1>4. ASSUME x = Unfold(v) PROVE OpenAt(r, n + 1, v)
  <2>1. n \in 1 .. n /\ r[n] = Unfold(v) /\ \A m \in n + 1 .. n : r[m] # Fold(v)
    BY <1>1, <1>4
  <2> QED BY <2>1, <1>2
<1>5. ASSUME OpenAt(q, n, v), x # Fold(v) PROVE OpenAt(r, n + 1, v)
  <2>1. PICK j \in 1 .. n - 1 : r[j] = Unfold(v) /\ \A m \in j + 1 .. n - 1 : r[m] # Fold(v)
    BY <1>3, <1>5
  <2>2. j \in 1 .. n /\ \A m \in j + 1 .. n : r[m] # Fold(v)
    BY <2>1, <1>1, <1>5
  <2> QED BY <2>1, <2>2, <1>2
<1>6. ASSUME OpenAt(r, n + 1, v), x # Unfold(v) PROVE OpenAt(q, n, v) /\ x # Fold(v)
  <2>1. PICK j \in 1 .. n : r[j] = Unfold(v) /\ \A m \in j + 1 .. n : r[m] # Fold(v)
    BY <1>2, <1>6
  <2>2. j # n /\ n \in j + 1 .. n
    BY <2>1, <1>1, <1>6
  <2>3. j \in 1 .. n - 1 /\ (\A m \in j + 1 .. n - 1 : r[m] # Fold(v)) /\ x # Fold(v)
    BY <2>1, <2>2, <1>1
  <2> QED BY <2>1, <2>3, <1>3
<1> QED BY <1>1, <1>4, <1>5, <1>6

(* Emitting an instruction that may be emitted keeps track.                 *)
LEMMA EmitOne ==
    ASSUME NEW q, NEW S, Tracks(q, S), NEW x \in Emitted, May(S, x)
    PROVE  Tracks(q \o <<x>>, After(S, x))
<1> DEFINE r == q \o <<x>>
<1>1. q \in Seq(Emitted) /\ S \subseteq Location
  BY DEF Tracks
<1>2. /\ r \in Seq(Emitted) /\ Len(r) = Len(q) + 1 /\ r[Len(q) + 1] = x
      /\ \A i \in 1 .. Len(q) : r[i] = q[i]
      /\ DOMAIN r = 1 .. Len(q) + 1 /\ DOMAIN q = 1 .. Len(q) /\ Len(q) \in Nat
  BY <1>1
<1>3. x.op \in {"Load", "Store", "Fold", "Unfold"} => x.ref \in Location
  BY DEF Emitted, Source, Access, Mark
<1>4. After(S, x) \subseteq Location
  BY <1>1, <1>3 DEF After
<1>5. WellFolded(r)
  <2> SUFFICES ASSUME NEW i \in 1 .. Len(q) + 1
               PROVE  /\ r[i].op \in {"Load", "Store", "Fold"} => OpenAt(r, i, r[i].ref)
                      /\ r[i].op = "Unfold" => ~OpenAt(r, i, r[i].ref)
    BY <1>2 DEF WellFolded
  <2>1. CASE i \in 1 .. Len(q)
    <3>1. r[i] = q[i] /\ i \in DOMAIN q
      BY <2>1, <1>2
    <3>2. OpenAt(r, i, r[i].ref) <=> OpenAt(q, i, q[i].ref)
      BY <3>1, <1>1, OpenInPrefix
    <3> QED BY <3>1, <3>2 DEF Tracks, WellFolded
  <2>2. CASE i = Len(q) + 1
    <3>1. r[i] = x
      BY <2>2, <1>2
    <3>2. OpenAt(r, i, x.ref) <=> OpenAt(q, i, x.ref)
      BY <2>2, <1>1, OpenInPrefix
    <3> QED BY <3>1, <3>2, <2>2, <1>3 DEF Tracks, May
  <2> QED BY <2>1, <2>2, <1>2
<1>6. ASSUME NEW v \in Location PROVE v \in After(S, x) <=> OpenAt(r, Len(r) + 1, v)
  <2>1. OpenAt(r, Len(q) + 2, v) <=> x = Unfold(v) \/ (v \in S /\ x # Fold(v))
    BY <1>1, OpenAfter DEF Tracks
  <2>2. /\ x.op = "Unfold" /\ x.ref = v <=> x = Unfold(v)
        /\ x.op = "Fold" /\ x.ref = v <=> x = Fold(v)
    <3>1. CASE x \in Mark
      BY <3>1 DEF Mark, Fold, Unfold
    <3>2. CASE x \in Source
      <4>1. x.op \notin {"Fold", "Unfold"}
        BY <3>2 DEF Source, Access
      <4> QED BY <4>1 DEF Fold, Unfold
    <3> QED BY <3>1, <3>2 DEF Emitted
  <2>3. Len(r) + 1 = Len(q) + 2
    BY <1>2
  <2> QED BY <2>1, <2>2, <2>3 DEF After
<1> QED BY <1>2, <1>4, <1>5, <1>6 DEF Tracks

-----------------------------------------------------------------------------
(* What the insertion relies on.  The states computed before it say that    *)
(* nothing is unfolded where a block starts, which is what Cleanup achieves.*)
Placed ==
    /\ contract \in Contracts
    /\ phase \in {"calls", "states", "insert", "cei", "done", "error"}
    /\ k \in Nat
    /\ phase # "done" => k \in DOMAIN contract.order
    /\ phase \in {"states", "insert"} => entry_state \in [cfg.blocks -> {{}}]
    /\ phase = "states" => worklist \in Seq(cfg.blocks)
    /\ phase = "insert" =>
          /\ todo \subseteq cfg.blocks /\ block \in cfg.blocks
          /\ idx \in Nat
          /\ idx # 0 => Tracks(new_instructions, current_state)
IInv == Placed /\ Disciplined

(* The function at hand is one of the contract, with the code SsaBuilder    *)
(* gave it.                                                                 *)
LEMMA FunctionAtHand ==
    ASSUME Placed, phase # "done"
    PROVE  /\ fn \in DOMAIN contract.fns
           /\ cfg.entry \in cfg.blocks
           /\ cfg.code \in [cfg.blocks -> Seq(Source)]
           /\ cfg.succ \in [cfg.blocks -> Seq(cfg.blocks)]
<1>1. contract \in Contracts /\ k \in DOMAIN contract.order
  BY DEF Placed
<1>2. fn \in DOMAIN contract.fns
  BY <1>1, ContractsAssumption DEF fn
<1> QED BY <1>1, <1>2, ContractsAssumption DEF cfg, Cfg, WellFormed

(* The instruction read is one of SsaBuilder's.                             *)
LEMMA InstructionRead ==
    ASSUME Placed, AtInstruction
    PROVE  /\ inst \in Source /\ inst \in Emitted
           /\ inst.op \in {"Load", "Store"} => inst \in Access /\ inst.ref \in Location
           /\ inst.op \notin {"Fold", "Unfold"}
<1>1. inst \in Source
  BY FunctionAtHand DEF Placed, AtInstruction, inst
<1> QED BY <1>1 DEF Source, Access, Emitted

(* Emitting nothing, or an unfold and then instruction x on the location    *)
(* it names.                                                                *)
LEMMA EmitAccess ==
    ASSUME NEW q, NEW S, Tracks(q, S), NEW x \in Access,
           NEW u, u = IF x.ref \in S THEN <<>> ELSE <<Unfold(x.ref)>>
    PROVE  Tracks(q \o (u \o <<x>>), S \cup {x.ref})
<1>1. q \in Seq(Emitted) /\ x \in Emitted /\ Unfold(x.ref) \in Emitted /\ x.ref \in Location
  BY DEF Tracks, Emitted, Source, Access, Mark, Unfold
<1>2. Tracks(q \o u, S \cup {x.ref})
  <2>1. CASE x.ref \in S
    <3>1. q \o u = q /\ S \cup {x.ref} = S
      BY <2>1, <1>1
    <3> QED BY <3>1
  <2>2. CASE x.ref \notin S
    <3>1. May(S, Unfold(x.ref)) /\ After(S, Unfold(x.ref)) = S \cup {x.ref}
      BY <2>2 DEF May, After, Unfold
    <3> QED BY <3>1, <2>2, <1>1, EmitOne
  <2> QED BY <2>1, <2>2
<1>3. May(S \cup {x.ref}, x) /\ After(S \cup {x.ref}, x) = S \cup {x.ref}
  BY DEF May, After, Access
<1>4. Tracks((q \o u) \o <<x>>, S \cup {x.ref})
  <2> DEFINE p == q \o u
             T == S \cup {x.ref}
  <2>1. Tracks(p, T) /\ May(T, x) /\ After(T, x) = T /\ x \in Emitted
    BY <1>1, <1>2, <1>3
  <2> HIDE DEF p, T
  <2>2. Tracks(p \o <<x>>, T)
    BY <2>1, EmitOne
  <2> QED BY <2>2 DEF p, T
<1>5. q \o (u \o <<x>>) = (q \o u) \o <<x>>
  <2>1. u \in Seq(Emitted) /\ <<x>> \in Seq(Emitted)
    BY <1>1
  <2> QED BY <2>1, <1>1
<1> QED BY <1>4, <1>5, Zenon

(* A mark on a location of the right state, and an instruction that is no   *)
(* access, keep track.                                                      *)
LEMMA EmitMark ==
    ASSUME NEW q, NEW S, Tracks(q, S), NEW v \in Location
    PROVE  /\ v \notin S => Tracks(q \o <<Unfold(v)>>, S \cup {v})
           /\ v \in S => Tracks(q \o <<Fold(v)>>, S \ {v})
<1>1. Unfold(v) \in Emitted /\ Fold(v) \in Emitted
  BY DEF Emitted, Mark, Fold, Unfold
<1>2. ASSUME v \notin S PROVE Tracks(q \o <<Unfold(v)>>, S \cup {v})
  <2>1. May(S, Unfold(v)) /\ After(S, Unfold(v)) = S \cup {v}
    BY <1>2 DEF May, After, Unfold
  <2> QED BY <2>1, <1>1, EmitOne
<1>3. ASSUME v \in S PROVE Tracks(q \o <<Fold(v)>>, S \ {v})
  <2>1. May(S, Fold(v)) /\ After(S, Fold(v)) = S \ {v}
    BY <1>3 DEF May, After, Fold
  <2> QED BY <2>1, <1>1, EmitOne
<1> QED BY <1>2, <1>3

LEMMA EmitOther ==
    ASSUME NEW q, NEW S, Tracks(q, S), NEW x \in Emitted,
           x.op \notin {"Load", "Store", "Fold", "Unfold"}
    PROVE  Tracks(q \o <<x>>, S)
<1>1. May(S, x) /\ After(S, x) = S
  BY DEF May, After
<1> QED BY <1>1, EmitOne

-----------------------------------------------------------------------------
(* Nothing is rewritten at the start.                                       *)
LEMMA InitPlaced == Init => IInv
<1> SUFFICES ASSUME Init PROVE IInv
  OBVIOUS
<1>1. contract \in Contracts /\ k = 1 /\ phase = "calls" /\ DOMAIN code = {}
  BY DEF Init
<1>2. contract.order # <<>> /\ contract.order \in Seq(DOMAIN contract.fns)
  BY <1>1, ContractsAssumption
<1>3. 1 \in DOMAIN contract.order
  BY <1>2
<1> QED BY <1>1, <1>3 DEF IInv, Placed, Disciplined

(* The search for external calls, and what starts and ends the work on a    *)
(* function.                                                                *)
LEMMA SearchStep ==
    ASSUME IInv, Search
    PROVE  IInv'
<1>1. CASE VisitCallee
  BY <1>1 DEF VisitCallee, IInv, Placed, Disciplined, states, insert, check, cfg, Cfg, fn
<1>2. CASE SearchNextFunction
  <2>1. k + 1 \in DOMAIN contract.order
    BY <1>2, ContractsAssumption DEF SearchNextFunction, IInv, Placed
  <2> QED BY <1>2, <2>1 DEF SearchNextFunction, IInv, Placed, Disciplined
<1> QED BY <1>1, <1>2 DEF Search

(* Popping the end of a worklist leaves a worklist.                         *)
LEMMA PopFacts ==
    ASSUME NEW B, NEW w \in Seq(B), w # <<>>
    PROVE  Last(w) \in B /\ Front(w) \in Seq(B)
<1>1. Len(w) \in Nat /\ Len(w) >= 1 /\ DOMAIN w = 1 .. Len(w)
  OBVIOUS
<1>2. Len(w) \in DOMAIN w /\ w[Len(w)] \in B
  BY <1>1
<1>3. SubSeq(w, 1, Len(w) - 1) \in Seq(B)
  BY <1>1
<1> QED BY <1>2, <1>3 DEF Last, Front

(* The states a function starts with.                                       *)
LEMMA EmptyStates ==
    ASSUME NEW B, NEW e \in B
    PROVE  [b \in B |-> {}] \in [B -> {{}}] /\ <<e>> \in Seq(B)
OBVIOUS

LEMMA ComputeStep ==
    ASSUME IInv, Compute
    PROVE  IInv'
<1>1. CASE StartFirstFunction
  <2>1. /\ contract \in Contracts /\ contract' = contract /\ k' = 1 /\ phase' = "states"
        /\ code' = code
    BY <1>1 DEF StartFirstFunction, IInv, Placed
  <2>2. /\ 1 \in DOMAIN contract.order /\ contract.order[1] \in DOMAIN contract.fns
    BY <2>1, ContractsAssumption
  <2> DEFINE g == Cfg(contract.order[1])
  <2>3. g.entry \in g.blocks
    BY <2>1, <2>2, ContractsAssumption DEF Cfg, WellFormed
  <2>4. cfg' = g
    BY <2>1 DEF cfg, fn, Cfg
  <2>5. entry_state' = [b \in g.blocks |-> {}] /\ worklist' = <<g.entry>>
    BY <1>1 DEF StartFirstFunction, StartStates
  <2> HIDE DEF g
  <2>6. entry_state' \in [g.blocks -> {{}}] /\ worklist' \in Seq(g.blocks)
    BY <2>3, <2>5, EmptyStates, Zenon
  <2>7. entry_state' \in [cfg'.blocks -> {{}}] /\ worklist' \in Seq(cfg'.blocks)
    BY <2>4, <2>6, Zenon
  <2> QED BY <2>1, <2>2, <2>7 DEF IInv, Placed, Disciplined
<1>2. CASE VisitBlock
  <2>1. /\ contract' = contract /\ k' = k /\ phase' = "states" /\ phase = "states" /\ code' = code
    BY <1>2 DEF VisitBlock
  <2>2. cfg' = cfg
    BY <2>1 DEF cfg, fn, Cfg
  <2>3. PICK b : /\ b = Last(worklist)
                 /\ entry_state' = [entry_state EXCEPT ![b] = EntryState(b)]
                 /\ \E new : worklist' = Front(worklist) \o ToRevisit(b, new)
    BY <1>2 DEF VisitBlock
  <2>4. worklist \in Seq(cfg.blocks) /\ worklist # <<>> /\ entry_state \in [cfg.blocks -> {{}}]
    BY <1>2, <2>1 DEF VisitBlock, IInv, Placed
  <2>5. b \in cfg.blocks /\ Front(worklist) \in Seq(cfg.blocks)
    BY <2>3, <2>4, PopFacts
  <2>6. EntryState(b) = {}
    BY DEF EntryState
  <2>7. cfg.succ \in [cfg.blocks -> Seq(cfg.blocks)]
    BY <2>1, FunctionAtHand DEF IInv
  <2>8. \A new : ToRevisit(b, new) \in Seq(cfg.blocks)
    <3>1. cfg.succ[b] \in Seq(cfg.blocks) /\ <<>> \in Seq(cfg.blocks)
      BY <2>5, <2>7
    <3> QED BY <3>1, Zenon DEF ToRevisit
  <2>9. entry_state' \in [cfg.blocks -> {{}}] /\ worklist' \in Seq(cfg.blocks)
    BY <2>3, <2>4, <2>5, <2>6, <2>8
  <2> QED BY <2>1, <2>2, <2>9 DEF IInv, Placed, Disciplined
<1> QED BY <1>1, <1>2 DEF Compute

(* Cleanup has folded everything: the block rewritten last is disciplined.  *)
LEMMA FinishBlockStep ==
    ASSUME IInv, FinishBlock
    PROVE  IInv'
<1>1. /\ contract' = contract /\ k' = k /\ phase' = "insert" /\ phase = "insert"
      /\ entry_state' = entry_state
      /\ todo' = todo \ {block} /\ block' = cfg.entry /\ idx' = 0
  BY DEF FinishBlock, AtBlockEnd, states
<1>2. cfg' = cfg /\ cfg.entry \in cfg.blocks
  BY <1>1, FunctionAtHand DEF IInv, cfg, fn, Cfg
<1>3. Placed'
  BY <1>1, <1>2 DEF IInv, Placed
<1>4. Tracks(new_instructions, current_state) /\ current_state = {}
  <2>1. cfg.code[block] \in Seq(Source)
    BY <1>1, FunctionAtHand DEF IInv, Placed
  <2>2. idx # 0
    BY <2>1 DEF FinishBlock, AtBlockEnd
  <2> QED BY <2>2, <1>1 DEF IInv, Placed, Tracks, FinishBlock
<1>5. /\ WellFolded(new_instructions)
      /\ \A v \in Location : ~OpenAt(new_instructions, Len(new_instructions) + 1, v)
  BY <1>4 DEF Tracks
<1>6. ASSUME NEW p \in DOMAIN code'
      PROVE  code'[p] = new_instructions \/ (p \in DOMAIN code /\ code'[p] = code[p])
  BY DEF FinishBlock
<1>7. Disciplined'
  <2> SUFFICES ASSUME NEW p \in DOMAIN code'
               PROVE  WellFolded(code'[p]) /\ \A v \in Location : ~OpenAt(code'[p], Len(code'[p]) + 1, v)
    BY DEF Disciplined, WellFolded, OpenAt
  <2> QED BY <1>5, <1>6 DEF IInv, Disciplined
<1> QED BY <1>3, <1>7 DEF IInv

-----------------------------------------------------------------------------
(* Two instructions after sequences p and u, one by one or together.        *)
LEMMA AppendTwo ==
    \A p, u \in Seq(Emitted) : \A x, y \in Emitted :
        (p \o (u \o <<x>>)) \o <<y>> = p \o (u \o <<x, y>>)
<1> SUFFICES ASSUME NEW p \in Seq(Emitted), NEW u \in Seq(Emitted), NEW x \in Emitted, NEW y \in Emitted
             PROVE  (p \o (u \o <<x>>)) \o <<y>> = p \o (u \o <<x, y>>)
  BY Zenon
<1> DEFINE a == (p \o (u \o <<x>>)) \o <<y>>
           b == p \o (u \o <<x, y>>)
<1>1. /\ u \o <<x>> \in Seq(Emitted) /\ u \o <<x, y>> \in Seq(Emitted)
      /\ Len(u \o <<x>>) = Len(u) + 1 /\ Len(u \o <<x, y>>) = Len(u) + 2
      /\ Len(u) \in Nat /\ Len(p) \in Nat
  OBVIOUS
<1>2. a \in Seq(Emitted) /\ b \in Seq(Emitted) /\ Len(a) = Len(p) + Len(u) + 2 /\ Len(b) = Len(a)
  BY <1>1
<1>3. ASSUME NEW i \in 1 .. Len(a) PROVE a[i] = b[i]
  <2>1. CASE i \in 1 .. Len(p)
    BY <1>1, <1>2, <2>1
  <2>2. CASE i \in Len(p) + 1 .. Len(p) + Len(u)
    BY <1>1, <1>2, <2>2
  <2>3. CASE i = Len(p) + Len(u) + 1
    BY <1>1, <1>2, <2>3
  <2>4. CASE i = Len(p) + Len(u) + 2
    BY <1>1, <1>2, <2>4
  <2> QED BY <1>1, <1>2, <2>1, <2>2, <2>3, <2>4
<1> QED BY <1>2, <1>3, SeqEqual

(* Inside a block, the instructions emitted so far are tracked.             *)
LEMMA InsideBlock ==
    ASSUME IInv, AtInstruction \/ AtBlockEnd
    PROVE  phase = "insert" /\ idx \in Nat /\ idx # 0 /\ Tracks(new_instructions, current_state)
<1>1. phase = "insert" /\ idx \in Nat
  BY DEF AtInstruction, AtBlockEnd, IInv, Placed
<1>2. cfg.code[block] \in Seq(Source)
  BY <1>1, FunctionAtHand DEF IInv, Placed
<1>3. idx # 0
  BY <1>2 DEF AtInstruction, AtBlockEnd
<1> QED BY <1>1, <1>3 DEF IInv, Placed

(* What an action that emits has to show.                                   *)
LEMMA EmitStep ==
    ASSUME IInv, phase = "insert", idx' \in Nat,
           NEW q, NEW S, Emit(q, S), Tracks(new_instructions \o q, S)
    PROVE  IInv'
<1>1. /\ contract' = contract /\ k' = k /\ phase' = phase /\ entry_state' = entry_state
      /\ code' = code /\ todo' = todo /\ block' = block
      /\ new_instructions' = new_instructions \o q /\ current_state' = S
  BY DEF Emit, states
<1>2. cfg' = cfg
  BY <1>1 DEF cfg, fn, Cfg
<1>3. Tracks(new_instructions', current_state')
  BY <1>1, Zenon
<1>4. Placed'
  BY <1>1, <1>2, <1>3 DEF IInv, Placed
<1> QED BY <1>1, <1>4 DEF IInv, Disciplined

LEMMA InsertAtLoadStep ==
    ASSUME IInv, InsertAtLoad
    PROVE  IInv'
<1>1. AtInstruction /\ Placed
  BY DEF InsertAtLoad, IInv
<1>2. inst \in Access
  BY <1>1, InstructionRead DEF InsertAtLoad
<1>3. Tracks(new_instructions, current_state) /\ phase = "insert" /\ idx \in Nat
  BY <1>1, InsideBlock
<1>4. Unfolding(inst.ref) = IF inst.ref \in current_state THEN <<>> ELSE <<Unfold(inst.ref)>>
  BY DEF Unfolding
<1>5. Tracks(new_instructions \o (Unfolding(inst.ref) \o <<inst>>), current_state \cup {inst.ref})
  BY <1>2, <1>3, <1>4, EmitAccess
<1>6. Emit(Unfolding(inst.ref) \o <<inst>>, current_state \cup {inst.ref}) /\ idx' \in Nat
  BY <1>3 DEF InsertAtLoad
<1> QED BY <1>3, <1>5, <1>6, EmitStep

LEMMA InsertAtStoreStep ==
    ASSUME IInv, InsertAtStore
    PROVE  IInv'
<1> DEFINE v == inst.ref
           u == Unfolding(v)
           T == current_state \cup {v}
<1>1. AtInstruction /\ Placed
  BY DEF InsertAtStore, IInv
<1>2. inst \in Access /\ v \in Location
  BY <1>1, InstructionRead DEF InsertAtStore
<1>3. Tracks(new_instructions, current_state) /\ phase = "insert" /\ idx \in Nat
  BY <1>1, InsideBlock
<1>4. u = IF v \in current_state THEN <<>> ELSE <<Unfold(v)>>
  BY DEF Unfolding
<1>5. Tracks(new_instructions \o (u \o <<inst>>), T)
  BY <1>2, <1>3, <1>4, EmitAccess
<1>6. Tracks((new_instructions \o (u \o <<inst>>)) \o <<Fold(v)>>, T \ {v})
  <2> DEFINE p == new_instructions \o (u \o <<inst>>)
  <2>1. Tracks(p, T) /\ v \in T /\ v \in Location
    BY <1>2, <1>5
  <2> HIDE DEF p, T, v
  <2> QED BY <2>1, EmitMark DEF p
<1>7. (new_instructions \o (u \o <<inst>>)) \o <<Fold(v)>>
        = new_instructions \o (u \o <<inst, Fold(v)>>)
  <2> DEFINE x == inst
             y == Fold(v)
  <2>1. x \in Emitted /\ y \in Emitted /\ Unfold(v) \in Emitted
    BY <1>2 DEF Emitted, Source, Mark, Fold, Unfold
  <2>2. u \in Seq(Emitted) /\ new_instructions \in Seq(Emitted)
    BY <1>3, <1>4, <2>1 DEF Tracks
  <2> QED BY <2>1, <2>2, AppendTwo, Zenon DEF x, y
<1>8. T \ {v} = current_state \ {v}
  OBVIOUS
<1>9. Tracks(new_instructions \o (u \o <<inst, Fold(v)>>), current_state \ {v})
  BY <1>6, <1>7, <1>8, Zenon
<1>10. Emit(u \o <<inst, Fold(v)>>, current_state \ {v}) /\ idx' \in Nat
  BY <1>3 DEF InsertAtStore
<1> QED BY <1>3, <1>9, <1>10, EmitStep

(* Before and after a call, and at the end of a block.                      *)
LEMMA MarkStep ==
    ASSUME IInv, UnfoldBeforeCall \/ FoldAfterCall \/ Cleanup
    PROVE  IInv'
<1>1. /\ Tracks(new_instructions, current_state) /\ phase = "insert" /\ idx \in Nat
      /\ idx' = idx
  BY InsideBlock DEF UnfoldBeforeCall, FoldAfterCall, Cleanup
<1>2. CASE UnfoldBeforeCall
  <2>1. PICK v \in Mutable : /\ FirstOf(Mutable \ current_state, v)
                             /\ Emit(<<Unfold(v)>>, current_state \cup {v})
    BY <1>2 DEF UnfoldBeforeCall
  <2>2. v \in Location /\ v \notin current_state
    BY <2>1, LocationAssumption DEF FirstOf
  <2>3. Tracks(new_instructions \o <<Unfold(v)>>, current_state \cup {v})
    BY <1>1, <2>2, EmitMark
  <2> QED BY <1>1, <2>1, <2>3, EmitStep
<1>3. CASE FoldAfterCall \/ Cleanup
  <2>1. PICK v \in Location : v \in current_state /\ Emit(<<Fold(v)>>, current_state \ {v})
    BY <1>3, LocationAssumption DEF FoldAfterCall, Cleanup, FirstOf
  <2>2. Tracks(new_instructions \o <<Fold(v)>>, current_state \ {v})
    BY <1>1, <2>1, EmitMark
  <2> QED BY <1>1, <2>1, <2>2, EmitStep
<1> QED BY <1>2, <1>3

(* The instructions that access no storage.                                 *)
LEMMA KeepStep ==
    ASSUME IInv, CallUnfolded \/ KeepInstruction
    PROVE  IInv'
<1>1. /\ Tracks(new_instructions, current_state) /\ phase = "insert" /\ idx' \in Nat
      /\ AtInstruction /\ Placed
  BY InsideBlock DEF CallUnfolded, KeepInstruction, IInv
<1>2. inst \in Emitted /\ inst.op \notin {"Load", "Store", "Fold", "Unfold"}
  BY <1>1, InstructionRead DEF CallUnfolded, KeepInstruction, NeedsFoldUnfold
<1>3. Tracks(new_instructions \o <<inst>>, current_state)
  BY <1>1, <1>2, EmitOther
<1>4. Emit(<<inst>>, current_state)
  BY DEF CallUnfolded, KeepInstruction
<1> QED BY <1>1, <1>3, <1>4, EmitStep

(* A block starts with no instruction and nothing unfolded.                 *)
LEMMA EnterStep ==
    ASSUME IInv, StartInsertion \/ EnterBlock \/ CallFolded
    PROVE  IInv'
<1>1. contract' = contract /\ k' = k /\ phase' = "insert" /\ code' = code /\ entry_state' = entry_state
  BY DEF StartInsertion, EnterBlock, CallFolded, AtInstruction, states
<1>2. cfg' = cfg
  BY <1>1 DEF cfg, fn, Cfg
<1>3. CASE StartInsertion
  <2>1. cfg.entry \in cfg.blocks /\ phase = "states"
    BY <1>3, FunctionAtHand DEF StartInsertion, IInv
  <2> QED BY <1>1, <1>2, <1>3, <2>1 DEF StartInsertion, IInv, Placed, Disciplined
<1>4. CASE EnterBlock
  <2>1. PICK b \in todo : block' = b /\ current_state' = entry_state[b]
    BY <1>4 DEF EnterBlock
  <2>2. b \in cfg.blocks /\ entry_state \in [cfg.blocks -> {{}}] /\ todo \subseteq cfg.blocks
    BY <1>4, <2>1 DEF EnterBlock, IInv, Placed
  <2>3. current_state' = {} /\ new_instructions' = <<>>
    BY <1>4, <2>1, <2>2 DEF EnterBlock
  <2>4. Tracks(<<>>, {})
    BY DEF Tracks, WellFolded, OpenAt
  <2>5. Tracks(new_instructions', current_state')
    BY <2>3, <2>4, Zenon
  <2>6. /\ idx' \in Nat /\ todo' \subseteq cfg'.blocks /\ block' \in cfg'.blocks
        /\ entry_state' \in [cfg'.blocks -> {{}}] /\ phase = "insert"
    BY <1>1, <1>2, <1>4, <2>1, <2>2 DEF EnterBlock
  <2>7. Placed'
    BY <1>1, <2>5, <2>6 DEF IInv, Placed
  <2> QED BY <1>1, <2>7 DEF IInv, Disciplined
<1>5. CASE CallFolded
  <2>1. /\ Tracks(new_instructions, current_state) /\ idx' \in Nat /\ phase = "insert"
        /\ todo' = todo /\ block' = block
        /\ new_instructions' = new_instructions /\ current_state' = current_state
    BY <1>5, InsideBlock DEF CallFolded
  <2>2. Tracks(new_instructions', current_state')
    BY <2>1, Zenon
  <2> QED BY <1>1, <1>2, <2>1, <2>2 DEF IInv, Placed, Disciplined
<1> QED BY <1>3, <1>4, <1>5

(* The checks read the rewritten blocks; the next function starts afresh.   *)
LEMMA CheckStep ==
    ASSUME IInv, Check
    PROVE  IInv'
<1>1. contract' = contract /\ code' = code /\ contract \in Contracts
  BY DEF Check, StartChecks, CheckCall, SkipVisited, FollowBlock, RejectConstantWrite,
         AcceptFunction, IInv, Placed
<1>2. CASE AcceptFunction
  <2>1. CASE k = Len(contract.order)
    BY <1>1, <1>2, <2>1 DEF AcceptFunction, IInv, Placed, Disciplined
  <2>2. CASE k # Len(contract.order)
    <3>1. k + 1 \in DOMAIN contract.order /\ contract.order[k + 1] \in DOMAIN contract.fns
      BY <1>1, <1>2, <2>2, ContractsAssumption DEF AcceptFunction, IInv, Placed
    <3> DEFINE g == Cfg(contract.order[k + 1])
    <3>2. g.entry \in g.blocks
      BY <1>1, <3>1, ContractsAssumption DEF Cfg, WellFormed
    <3>3. k' = k + 1 /\ phase' = "states" /\ StartStates(contract.order[k + 1])
      BY <1>2, <2>2 DEF AcceptFunction
    <3>4. cfg' = g
      BY <1>1, <3>3 DEF cfg, fn, Cfg
    <3>5. entry_state' = [b \in g.blocks |-> {}] /\ worklist' = <<g.entry>>
      BY <3>3 DEF StartStates
    <3> HIDE DEF g
    <3>6. entry_state' \in [g.blocks -> {{}}] /\ worklist' \in Seq(g.blocks)
      BY <3>2, <3>5, EmptyStates, Zenon
    <3>7. entry_state' \in [cfg'.blocks -> {{}}] /\ worklist' \in Seq(cfg'.blocks)
      BY <3>4, <3>6, Zenon
    <3> QED BY <1>1, <3>1, <3>3, <3>7 DEF IInv, Placed, Disciplined
  <2> QED BY <2>1, <2>2
<1>3. CASE StartChecks \/ CheckCall \/ SkipVisited \/ FollowBlock \/ RejectConstantWrite
  <2>1. k' = k /\ phase \in {"insert", "cei"} /\ phase' \in {"cei", "error"}
    BY <1>3 DEF StartChecks, CheckCall, SkipVisited, FollowBlock, RejectConstantWrite
  <2> QED BY <1>1, <2>1 DEF IInv, Placed, Disciplined
<1> QED BY <1>2, <1>3 DEF Check

-----------------------------------------------------------------------------
(* The inductive invariant, of which the other proofs about the analysis    *)
(* make use.                                                                *)
LEMMA IInvInvariant == Spec => []IInv
<1>1. Init => IInv
  BY InitPlaced
<1>2. IInv /\ [Next]_vars => IInv'
  <2> SUFFICES ASSUME IInv, [Next]_vars PROVE IInv'
    OBVIOUS
  <2>1. CASE Search
    BY <2>1, SearchStep
  <2>2. CASE Compute
    BY <2>2, ComputeStep
  <2>3. CASE Insert
    BY <2>3, InsertAtLoadStep, InsertAtStoreStep, MarkStep, KeepStep, EnterStep, FinishBlockStep
    DEF Insert
  <2>4. CASE Check
    BY <2>4, CheckStep
  <2>5. CASE UNCHANGED vars
    BY <2>5 DEF vars, states, insert, IInv, Placed, Disciplined, cfg, fn, Cfg
  <2> QED BY <2>1, <2>2, <2>3, <2>4, <2>5 DEF Next
<1> QED BY <1>1, <1>2, PTL DEF Spec

(* In every contract, whatever its functions, their control flow and their  *)
(* calls: the blocks insert_fold_unfold_instructions has rewritten load and *)
(* store a location only between its unfold and its fold, and end with      *)
(* everything folded.                                                       *)
THEOREM DisciplinedInvariant == Spec => []Disciplined
<1>1. IInv => Disciplined
  BY DEF IInv
<1> QED BY <1>1, IInvInvariant, PTL

-----------------------------------------------------------------------------
(* Types.  What TypeOK leaves out: the blocks rewritten so far, which the   *)
(* checks read, and the functions the search of the call graph is at.       *)
Rewritten(f, B) == \A b \in B : <<f, b>> \in DOMAIN code
Typed ==
    /\ TypeOK
    /\ seen \subseteq DOMAIN contract.fns /\ frontier \subseteq DOMAIN contract.fns
    /\ phase = "calls" => DOMAIN code = {}
    /\ \A p \in DOMAIN code : code[p] \in Seq(Emitted)
    /\ \A f \in Accepted : Rewritten(f, Cfg(f).blocks)
    /\ phase = "insert" => Rewritten(fn, cfg.blocks \ todo)
    /\ phase = "cei" => Rewritten(fn, cfg.blocks) /\ stack \in Seq(cfg.blocks \X Nat)
    /\ phase \in {"insert", "cei"} => called \in BOOLEAN

(* What the contracts are assumed to be, for the contract analysed.         *)
LEMMA OrderFacts ==
    ASSUME contract \in Contracts
    PROVE  /\ Len(contract.order) \in Nat /\ Len(contract.order) >= 1
           /\ DOMAIN contract.order = 1 .. Len(contract.order)
           /\ \A j \in 1 .. Len(contract.order) : contract.order[j] \in DOMAIN contract.fns
           /\ \A i, j \in 1 .. Len(contract.order) : contract.order[i] = contract.order[j] => i = j
           /\ \A f \in DOMAIN contract.fns : \E j \in 1 .. Len(contract.order) : contract.order[j] = f
<1>1. /\ contract.order # <<>> /\ contract.order \in Seq(DOMAIN contract.fns)
      /\ ToSet(contract.order) = DOMAIN contract.fns /\ IsInjective(contract.order)
  BY ContractsAssumption
<1>2. /\ Len(contract.order) \in Nat /\ DOMAIN contract.order = 1 .. Len(contract.order)
      /\ Len(contract.order) # 0
  BY <1>1
<1>3. \A f \in DOMAIN contract.fns : \E j \in DOMAIN contract.order : contract.order[j] = f
  BY <1>1 DEF ToSet
<1>4. \A i, j \in DOMAIN contract.order : contract.order[i] = contract.order[j] => i = j
  BY <1>1 DEF IsInjective
<1>5. \A j \in 1 .. Len(contract.order) : contract.order[j] \in DOMAIN contract.fns
  BY <1>1
<1>6. Len(contract.order) >= 1
  BY <1>2
<1> QED BY <1>2, <1>3, <1>4, <1>5, <1>6, Zenon

LEMMA FunctionFacts ==
    ASSUME contract \in Contracts, NEW f \in DOMAIN contract.fns
    PROVE  /\ WellFormed(Cfg(f)) /\ Cfg(f).entry \in Cfg(f).blocks
           /\ Cfg(f).code \in [Cfg(f).blocks -> Seq(Source)]
           /\ Cfg(f).succ \in [Cfg(f).blocks -> Seq(Cfg(f).blocks)]
           /\ Callees(f) \subseteq DOMAIN contract.fns
<1>1. /\ WellFormed(Cfg(f))
      /\ Cfg(f).code \in [Cfg(f).blocks -> Seq(Source)]
      /\ Cfg(f).succ \in [Cfg(f).blocks -> Seq(Cfg(f).blocks)]
      /\ \A b \in Cfg(f).blocks : \A i \in DOMAIN Cfg(f).code[b] :
            Cfg(f).code[b][i].op = "Internal" => Cfg(f).code[b][i].ref \in DOMAIN contract.fns
  BY ContractsAssumption DEF Cfg
<1>2. ASSUME NEW g \in Callees(f) PROVE g \in DOMAIN contract.fns
  <2>1. PICK x \in Instructions(f) : x.op = "Internal" /\ g = x.ref
    BY <1>2 DEF Callees
  <2>2. PICK b \in Cfg(f).blocks : x \in ToSet(Cfg(f).code[b])
    BY <2>1 DEF Instructions
  <2>3. PICK i \in DOMAIN Cfg(f).code[b] : x = Cfg(f).code[b][i]
    BY <2>2 DEF ToSet
  <2> QED BY <1>1, <2>1, <2>3
<1>3. Cfg(f).entry \in Cfg(f).blocks
  BY <1>1 DEF WellFormed
<1> QED BY <1>1, <1>2, <1>3

(* The function at hand, except when all are done.                          *)
LEMMA AtHand ==
    ASSUME TypeOK, phase # "done"
    PROVE  /\ contract \in Contracts /\ k \in 1 .. Len(contract.order) /\ k \in Nat
           /\ fn \in DOMAIN contract.fns /\ fn = contract.order[k] /\ cfg = Cfg(fn)
<1>1. /\ contract \in Contracts /\ k \in 1 .. Len(contract.order) + 1
      /\ k # Len(contract.order) + 1
  BY DEF TypeOK
<1>2. k \in 1 .. Len(contract.order) /\ k \in Nat
  BY <1>1, OrderFacts
<1> QED BY <1>1, <1>2, OrderFacts DEF fn, cfg

LEMMA InitTyped == Init => Typed
<1> SUFFICES ASSUME Init PROVE Typed
  OBVIOUS
<1>1. /\ contract \in Contracts /\ locations \in Enumerations(Location)
      /\ phase = "calls" /\ k = 1 /\ leaving = {} /\ seen = {} /\ frontier = {contract.order[1]}
      /\ code = <<>>
  BY DEF Init
<1>2. DOMAIN code = {}
  BY <1>1
<1>3. /\ k \in 1 .. Len(contract.order) + 1 /\ k # Len(contract.order) + 1
      /\ frontier \subseteq DOMAIN contract.fns
  BY <1>1, OrderFacts
<1> QED BY <1>1, <1>2, <1>3 DEF Typed, TypeOK, Accepted, Rewritten

LEMMA SearchTyped ==
    ASSUME Typed, Search
    PROVE  Typed'
<1>1. /\ phase = "calls" /\ phase' = "calls" /\ contract' = contract /\ locations' = locations
      /\ code' = code /\ DOMAIN code = {}
  BY DEF Search, VisitCallee, SearchNextFunction, Typed
<1>2. /\ contract \in Contracts /\ k \in 1 .. Len(contract.order)
      /\ fn \in DOMAIN contract.fns
      /\ leaving \subseteq DOMAIN contract.fns /\ seen \subseteq DOMAIN contract.fns
      /\ frontier \subseteq DOMAIN contract.fns /\ locations \in Enumerations(Location)
  BY <1>1, AtHand DEF Typed, TypeOK
<1>3. CASE VisitCallee
  <2>1. PICK f \in frontier :
           /\ seen' = seen \cup {f}
           /\ leaving' \in {leaving, leaving \cup {fn}}
           /\ frontier' \in {{}, (frontier \cup Callees(f)) \ seen'}
    BY <1>3 DEF VisitCallee
  <2>2. Callees(f) \subseteq DOMAIN contract.fns
    BY <1>2, <2>1, FunctionFacts
  <2>3. k' = k
    BY <1>3 DEF VisitCallee
  <2>4. /\ leaving' \subseteq DOMAIN contract.fns /\ seen' \subseteq DOMAIN contract.fns
        /\ frontier' \subseteq DOMAIN contract.fns
    BY <1>2, <2>1, <2>2
  <2>5. k \in 1 .. Len(contract.order) + 1 /\ k # Len(contract.order) + 1
    BY <1>2, OrderFacts
  <2> QED BY <1>1, <1>2, <2>3, <2>4, <2>5 DEF Typed, TypeOK, Accepted
<1>4. CASE SearchNextFunction
  <2>1. /\ k' = k + 1 /\ k < Len(contract.order) /\ leaving' = leaving
        /\ seen' = {} /\ frontier' = {contract.order[k+1]} \ {}
    BY <1>4 DEF SearchNextFunction, SeenBefore
  <2>2. /\ k + 1 \in 1 .. Len(contract.order) + 1 /\ k + 1 # Len(contract.order) + 1
        /\ k + 1 \in 1 .. Len(contract.order)
    BY <1>2, <2>1, OrderFacts
  <2>3. frontier' \subseteq DOMAIN contract.fns
    BY <1>2, <2>1, <2>2, OrderFacts
  <2> QED BY <1>1, <1>2, <2>1, <2>2, <2>3 DEF Typed, TypeOK, Accepted
<1> QED BY <1>3, <1>4 DEF Search

(* Popping a worklist, pushing a list of the same things.                   *)
LEMMA PushFacts ==
    ASSUME NEW B, NEW w \in Seq(B), NEW q \in Seq(B)
    PROVE  w \o q \in Seq(B)
OBVIOUS

LEMMA StartTyped ==
    ASSUME NEW g, WellFormed(g)
    PROVE  /\ [b \in g.blocks |-> {}] \in [g.blocks -> SUBSET Location]
           /\ <<g.entry>> \in Seq(g.blocks)
<1>1. g.entry \in g.blocks
  BY DEF WellFormed
<1>2. [b \in g.blocks |-> {}] \in [g.blocks -> SUBSET Location]
  OBVIOUS
<1>3. <<g.entry>> \in Seq(g.blocks)
  BY <1>1, EmptyStates, Zenon
<1> QED BY <1>2, <1>3

LEMMA ComputeTyped ==
    ASSUME Typed, Compute
    PROVE  Typed'
<1>1. CASE StartFirstFunction
  <2>1. /\ contract' = contract /\ locations' = locations /\ k' = 1 /\ phase' = "states"
        /\ code' = code /\ leaving' = leaving /\ seen' = seen /\ frontier' = frontier
        /\ phase = "calls" /\ StartStates(contract.order[1])
    BY <1>1 DEF StartFirstFunction, calls
  <2>2. contract \in Contracts /\ 1 \in 1 .. Len(contract.order)
    <3>1. contract \in Contracts
      BY DEF Typed, TypeOK
    <3> QED BY <3>1, OrderFacts
  <2> DEFINE g == Cfg(contract.order[1])
  <2>3. WellFormed(g)
    BY <2>2, OrderFacts, FunctionFacts
  <2>4. cfg' = g
    BY <2>1 DEF cfg, fn, Cfg
  <2>5. /\ entry_state' = [b \in g.blocks |-> {}] /\ exit_state' = [b \in g.blocks |-> {}]
        /\ worklist' = <<g.entry>>
    BY <2>1 DEF StartStates
  <2> HIDE DEF g
  <2>6. /\ entry_state' \in [cfg'.blocks -> SUBSET Location]
        /\ exit_state' \in [cfg'.blocks -> SUBSET Location]
        /\ worklist' \in Seq(cfg'.blocks)
    BY <2>3, <2>4, <2>5, StartTyped, Zenon
  <2>7. 1 \in 1 .. Len(contract.order) + 1 /\ 1 # Len(contract.order) + 1
    BY <2>2, OrderFacts
  <2>8. Accepted' = {}
    BY <2>1 DEF Accepted
  <2>9. TypeOK'
    BY <2>1, <2>6, <2>7 DEF Typed, TypeOK, Cfg
  <2> QED BY <2>1, <2>8, <2>9 DEF Typed
<1>2. CASE VisitBlock
  <2>1. /\ contract' = contract /\ locations' = locations /\ k' = k /\ phase' = phase
        /\ code' = code /\ leaving' = leaving /\ seen' = seen /\ frontier' = frontier
        /\ phase = "states" /\ worklist # <<>>
    BY <1>2 DEF VisitBlock, calls
  <2>2. cfg' = cfg
    BY <2>1 DEF cfg, fn, Cfg
  <2>3. PICK b, new : /\ b = Last(worklist) /\ new = Transfer(EntryState(b), cfg.code[b])
                      /\ entry_state' = [entry_state EXCEPT ![b] = EntryState(b)]
                      /\ exit_state' = [exit_state EXCEPT ![b] = new]
                      /\ worklist' = Front(worklist) \o ToRevisit(b, new)
    BY <1>2 DEF VisitBlock
  <2>4. /\ worklist \in Seq(cfg.blocks) /\ entry_state \in [cfg.blocks -> SUBSET Location]
        /\ exit_state \in [cfg.blocks -> SUBSET Location]
    BY <2>1 DEF Typed, TypeOK
  <2>5. b \in cfg.blocks /\ Front(worklist) \in Seq(cfg.blocks)
    BY <2>1, <2>3, <2>4, PopFacts
  <2>6. EntryState(b) \subseteq Location /\ new \subseteq Location
    BY <2>3 DEF EntryState, Transfer
  <2>7. cfg.succ[b] \in Seq(cfg.blocks) /\ <<>> \in Seq(cfg.blocks)
    BY <2>1, <2>5, AtHand, FunctionFacts DEF Typed
  <2>8. ToRevisit(b, new) \in Seq(cfg.blocks)
    BY <2>7, Zenon DEF ToRevisit
  <2>9. /\ entry_state' \in [cfg.blocks -> SUBSET Location]
        /\ exit_state' \in [cfg.blocks -> SUBSET Location]
    BY <2>3, <2>4, <2>6
  <2>10. worklist' \in Seq(cfg.blocks)
    BY <2>3, <2>5, <2>8, PushFacts
  <2>11. TypeOK'
    BY <2>1, <2>2, <2>9, <2>10 DEF Typed, TypeOK, Cfg
  <2>12. Accepted' = Accepted
    BY <2>1 DEF Accepted
  <2> QED BY <2>1, <2>11, <2>12 DEF Typed, Rewritten, Cfg
<1> QED BY <1>1, <1>2 DEF Compute

(* An action that emits instructions, or steps to the next instruction.     *)
LEMMA EmitTyped ==
    ASSUME Typed, phase = "insert", UNCHANGED <<contract, locations, phase, k, calls, states, code, todo, block>>,
           idx' \in 0 .. Len(cfg.code[block]) + 1, current_state' \subseteq Location, called' \in BOOLEAN
    PROVE  Typed'
<1>1. cfg' = cfg /\ fn' = fn /\ Accepted' = Accepted
  BY DEF cfg, fn, Cfg, Accepted
<1>2. /\ contract' = contract /\ locations' = locations /\ k' = k /\ phase' = "insert" /\ leaving' = leaving
      /\ seen' = seen /\ frontier' = frontier /\ code' = code /\ todo' = todo /\ block' = block
      /\ entry_state' = entry_state /\ exit_state' = exit_state /\ worklist' = worklist
  BY DEF calls, states
<1>3. TypeOK'
  BY <1>1, <1>2 DEF Typed, TypeOK, Cfg
<1> QED BY <1>1, <1>2, <1>3 DEF Typed, Rewritten, Cfg

LEMMA InstructionTyped ==
    ASSUME Typed, phase = "insert"
    PROVE  /\ block \in cfg.blocks /\ cfg.code[block] \in Seq(Source)
           /\ AtInstruction => inst \in Source /\ (inst.op \in {"Load", "Store"} => inst.ref \in Location)
           /\ AtInstruction => idx \in 0 .. Len(cfg.code[block]) + 1 /\ idx + 1 \in 0 .. Len(cfg.code[block]) + 1
           /\ AtBlockEnd => idx \in 0 .. Len(cfg.code[block]) + 1
<1>1. block \in cfg.blocks /\ cfg.code \in [cfg.blocks -> Seq(Source)]
  BY AtHand, FunctionFacts DEF Typed, TypeOK
<1>2. cfg.code[block] \in Seq(Source)
  BY <1>1
<1>3. Len(cfg.code[block]) \in Nat /\ DOMAIN cfg.code[block] = 1 .. Len(cfg.code[block])
  BY <1>2
<1>4. AtInstruction => inst \in Source
  BY <1>2 DEF AtInstruction, inst
<1>5. AtInstruction /\ inst.op \in {"Load", "Store"} => inst.ref \in Location
  BY <1>4 DEF Source, Access
<1> QED BY <1>1, <1>2, <1>3, <1>4, <1>5 DEF AtInstruction, AtBlockEnd

LEMMA InsertTyped ==
    ASSUME Typed, IInv, Insert
    PROVE  Typed'
<1>1. CASE StartInsertion
  <2>1. /\ contract' = contract /\ locations' = locations /\ k' = k /\ phase' = "insert" /\ leaving' = leaving
        /\ seen' = seen /\ frontier' = frontier /\ code' = code /\ phase = "states"
        /\ entry_state' = entry_state /\ exit_state' = exit_state /\ worklist' = worklist
        /\ todo' = cfg.blocks /\ block' = cfg.entry /\ idx' = 0 /\ called' = FALSE /\ current_state' = {}
    BY <1>1 DEF StartInsertion, calls, states
  <2>2. cfg' = cfg /\ fn' = fn /\ Accepted' = Accepted
    BY <2>1 DEF cfg, fn, Cfg, Accepted
  <2>3. cfg.entry \in cfg.blocks /\ cfg.code[cfg.entry] \in Seq(Source)
    BY <2>1, AtHand, FunctionFacts DEF Typed
  <2>4. 0 \in 0 .. Len(cfg.code[cfg.entry]) + 1
    BY <2>3
  <2>5. TypeOK'
    BY <2>1, <2>2, <2>3, <2>4 DEF Typed, TypeOK, Cfg
  <2> QED BY <2>1, <2>2, <2>5 DEF Typed, Rewritten, Cfg
<1>2. CASE EnterBlock
  <2>1. /\ contract' = contract /\ locations' = locations /\ k' = k /\ phase' = "insert" /\ leaving' = leaving
        /\ seen' = seen /\ frontier' = frontier /\ code' = code /\ phase = "insert" /\ todo' = todo
        /\ entry_state' = entry_state /\ exit_state' = exit_state /\ worklist' = worklist
        /\ idx' = 1 /\ called' = called
    BY <1>2 DEF EnterBlock, calls, states
  <2>2. PICK b \in todo : block' = b /\ current_state' = entry_state[b]
    BY <1>2 DEF EnterBlock
  <2>3. cfg' = cfg /\ fn' = fn /\ Accepted' = Accepted
    BY <2>1 DEF cfg, fn, Cfg, Accepted
  <2>4. b \in cfg.blocks /\ entry_state \in [cfg.blocks -> SUBSET Location]
    BY <2>1, <2>2 DEF Typed, TypeOK
  <2>5. cfg.code[b] \in Seq(Source)
    BY <2>1, <2>4, AtHand, FunctionFacts DEF Typed
  <2>6. 1 \in 0 .. Len(cfg.code[b]) + 1 /\ current_state' \subseteq Location
    BY <2>2, <2>4, <2>5
  <2>7. TypeOK'
    BY <2>1, <2>2, <2>3, <2>4, <2>6 DEF Typed, TypeOK, Cfg
  <2> QED BY <2>1, <2>3, <2>7 DEF Typed, Rewritten, Cfg
<1>3. CASE FinishBlock
  <2>1. /\ contract' = contract /\ locations' = locations /\ k' = k /\ phase' = "insert" /\ leaving' = leaving
        /\ seen' = seen /\ frontier' = frontier /\ phase = "insert" /\ todo' = todo \ {block}
        /\ entry_state' = entry_state /\ exit_state' = exit_state /\ worklist' = worklist
        /\ block' = cfg.entry /\ idx' = 0 /\ called' = called /\ current_state' = current_state
        /\ DOMAIN code' = DOMAIN code \cup {<<fn, block>>}
        /\ \A p \in DOMAIN code' : code'[p] = IF p = <<fn, block>> THEN new_instructions ELSE code[p]
    BY <1>3 DEF FinishBlock, calls, states, AtBlockEnd
  <2>2. cfg' = cfg /\ fn' = fn /\ Accepted' = Accepted
    BY <2>1 DEF cfg, fn, Cfg, Accepted
  <2>3. cfg.entry \in cfg.blocks /\ cfg.code[cfg.entry] \in Seq(Source)
    BY <2>1, AtHand, FunctionFacts DEF Typed
  <2>4. 0 \in 0 .. Len(cfg.code[cfg.entry]) + 1
    BY <2>3
  <2>5. new_instructions \in Seq(Emitted)
    BY <1>3, InsideBlock DEF FinishBlock, Tracks
  <2>6. block \in cfg.blocks /\ fn \in DOMAIN contract.fns /\ cfg = Cfg(fn)
    BY <2>1, InstructionTyped, AtHand DEF Typed
  <2>7. \A p \in DOMAIN code' : p[1] \in DOMAIN contract.fns /\ p[2] \in Cfg(p[1]).blocks
    <3> SUFFICES ASSUME NEW p \in DOMAIN code' PROVE p[1] \in DOMAIN contract.fns /\ p[2] \in Cfg(p[1]).blocks
      OBVIOUS
    <3>1. CASE p = <<fn, block>>
      BY <3>1, <2>6
    <3>2. CASE p # <<fn, block>>
      BY <3>2, <2>1 DEF Typed, TypeOK
    <3> QED BY <3>1, <3>2
  <2>8. TypeOK'
    BY <2>1, <2>2, <2>3, <2>4, <2>7 DEF Typed, TypeOK, Cfg
  <2>9. \A p \in DOMAIN code' : code'[p] \in Seq(Emitted)
    BY <2>1, <2>5 DEF Typed
  <2>10. /\ \A f \in Accepted' : Rewritten(f, Cfg(f).blocks)'
         /\ Rewritten(fn, cfg.blocks \ todo)'
    BY <2>1, <2>2 DEF Typed, Rewritten, Cfg
  <2> QED BY <2>1, <2>2, <2>8, <2>9, <2>10 DEF Typed
<1>4. CASE InsertAtLoad \/ InsertAtStore \/ KeepInstruction \/ CallFolded
  <2>1. /\ phase = "insert" /\ AtInstruction /\ idx' = idx + 1 /\ called' \in BOOLEAN
        /\ UNCHANGED <<contract, locations, phase, k, calls, states, code, todo, block>>
    BY <1>4 DEF InsertAtLoad, InsertAtStore, KeepInstruction, CallFolded, Emit, AtInstruction, Typed
  <2>2. /\ inst \in Source /\ (inst.op \in {"Load", "Store"} => inst.ref \in Location)
        /\ idx + 1 \in 0 .. Len(cfg.code[block]) + 1
    BY <2>1, InstructionTyped
  <2>3. current_state \subseteq Location
    BY <2>1 DEF Typed, TypeOK
  <2>4. current_state' \subseteq Location
    BY <1>4, <2>2, <2>3 DEF InsertAtLoad, InsertAtStore, KeepInstruction, CallFolded, Emit
  <2> QED BY <2>1, <2>2, <2>4, EmitTyped
<1>5. CASE UnfoldBeforeCall \/ CallUnfolded \/ FoldAfterCall \/ Cleanup
  <2>1. /\ phase = "insert" /\ (AtInstruction \/ AtBlockEnd) /\ idx' = idx /\ called' \in BOOLEAN
        /\ UNCHANGED <<contract, locations, phase, k, calls, states, code, todo, block>>
    BY <1>5 DEF UnfoldBeforeCall, CallUnfolded, FoldAfterCall, Cleanup, Emit, AtInstruction, AtBlockEnd, Typed
  <2>2. idx \in 0 .. Len(cfg.code[block]) + 1
    BY <2>1, InstructionTyped
  <2>3. current_state \subseteq Location
    BY <2>1 DEF Typed, TypeOK
  <2>4. current_state' \subseteq Location
    BY <1>5, <2>3, LocationAssumption DEF UnfoldBeforeCall, CallUnfolded, FoldAfterCall, Cleanup, Emit
  <2> QED BY <2>1, <2>2, <2>4, EmitTyped
<1> QED BY <1>1, <1>2, <1>3, <1>4, <1>5 DEF Insert

(* The elements of a stack popped, and of two sequences.                    *)
LEMMA PopItems ==
    ASSUME NEW B, NEW w \in Seq(B), w # <<>>
    PROVE  Last(w) \in B /\ Front(w) \in Seq(B) /\ ToSet(w) = ToSet(Front(w)) \cup {Last(w)}
<1> DEFINE u == Front(w)
<1>1. Len(w) \in Nat /\ Len(w) >= 1 /\ DOMAIN w = 1 .. Len(w)
  OBVIOUS
<1>2. u = SubSeq(w, 1, Len(w) - 1) /\ Last(w) = w[Len(w)]
  BY DEF Front, Last
<1>3. /\ u \in Seq(B) /\ DOMAIN u = 1 .. Len(w) - 1
      /\ \A i \in 1 .. Len(w) - 1 : u[i] = w[i]
  BY <1>1, <1>2
<1>4. DOMAIN w = DOMAIN u \cup {Len(w)} /\ Last(w) \in B
  BY <1>1, <1>2, <1>3
<1> HIDE DEF u
<1>5. {w[i] : i \in DOMAIN w} = {u[i] : i \in DOMAIN u} \cup {Last(w)}
  <2>1. /\ \A i \in DOMAIN u : i \in DOMAIN w /\ u[i] = w[i]
        /\ Len(w) \in DOMAIN w /\ w[Len(w)] = Last(w)
        /\ \A i \in DOMAIN w : i \in DOMAIN u \/ w[i] = Last(w)
    BY <1>2, <1>3, <1>4
  <2> QED BY <2>1, Zenon
<1> QED BY <1>3, <1>4, <1>5 DEF u, ToSet

LEMMA AppendItems ==
    ASSUME NEW B, NEW u \in Seq(B), NEW q \in Seq(B)
    PROVE  u \o q \in Seq(B) /\ ToSet(u \o q) = ToSet(u) \cup ToSet(q)
<1> DEFINE r == u \o q
<1>1. /\ r \in Seq(B) /\ Len(u) \in Nat /\ Len(q) \in Nat /\ Len(r) = Len(u) + Len(q)
      /\ DOMAIN r = 1 .. Len(r) /\ DOMAIN u = 1 .. Len(u) /\ DOMAIN q = 1 .. Len(q)
  OBVIOUS
<1>2. \A i \in DOMAIN u : r[i] = u[i]
  BY <1>1
<1>3. \A i \in DOMAIN q : r[Len(u) + i] = q[i]
  BY <1>1
<1>4. DOMAIN u \subseteq DOMAIN r /\ \A i \in DOMAIN q : Len(u) + i \in DOMAIN r
  BY <1>1
<1>5. ASSUME NEW i \in DOMAIN r PROVE i \in DOMAIN u \/ \E m \in DOMAIN q : i = Len(u) + m
  <2>1. i \notin DOMAIN u => i - Len(u) \in DOMAIN q /\ i = Len(u) + (i - Len(u))
    BY <1>1
  <2> QED BY <2>1
<1> HIDE DEF r
<1>6. {r[i] : i \in DOMAIN r} = {u[i] : i \in DOMAIN u} \cup {q[i] : i \in DOMAIN q}
  BY <1>2, <1>3, <1>4, <1>5
<1> QED BY <1>1, <1>6 DEF r, ToSet

(* Where the checks look in the rewritten code.                             *)
LEMMA PointFacts ==
    ASSUME Typed, phase \in {"cei"}, NEW b \in cfg.blocks
    PROVE  code[<<fn, b>>] \in Seq(Emitted)
BY DEF Typed, Rewritten

LEMMA AtPoint ==
    ASSUME NEW f, NEW p
    PROVE  p \in Points(f) <=> /\ p = <<p[1], p[2]>> /\ p[1] \in Cfg(f).blocks
                               /\ p[2] \in DOMAIN code[<<f, p[1]>>]
<1>1. p \in Points(f) <=> \E b \in Cfg(f).blocks : p \in {b} \X DOMAIN code[<<f, b>>]
  BY Zenon DEF Points
<1>2. \A b : p \in {b} \X DOMAIN code[<<f, b>>] <=>
                p = <<p[1], p[2]>> /\ p[1] = b /\ p[2] \in DOMAIN code[<<f, b>>]
  OBVIOUS
<1> QED BY <1>1, <1>2

LEMMA CallPointFacts ==
    ASSUME NEW f, NEW p \in CallPoints(f)
    PROVE  /\ p = <<p[1], p[2]>> /\ p[1] \in Cfg(f).blocks /\ p[2] \in DOMAIN code[<<f, p[1]>>]
           /\ code[<<f, p[1]>>][p[2]].op # "Store"
<1>1. p \in Points(f) /\ At(f, p).op # "Store"
  BY DEF CallPoints
<1> QED BY <1>1, AtPoint DEF At

(* What FollowBlock pushes: the successors, to be scanned from their start. *)
LEMMA Pushed ==
    ASSUME Typed, phase = "cei", NEW b \in cfg.blocks,
           NEW q, q = [i \in DOMAIN cfg.succ[b] |-> <<cfg.succ[b][i], 1>>]
    PROVE  /\ q \in Seq(cfg.blocks \X Nat)
           /\ ToSet(q) = {<<c, 1>> : c \in Successors(cfg, b)}
           /\ Successors(cfg, b) \subseteq cfg.blocks
<1>1. cfg.succ[b] \in Seq(cfg.blocks)
  BY AtHand, FunctionFacts DEF Typed
<1>2. \A i \in DOMAIN cfg.succ[b] : cfg.succ[b][i] \in cfg.blocks
  BY <1>1
<1>3. q \in Seq(cfg.blocks \X Nat)
  BY <1>1, <1>2
<1>4. DOMAIN q = DOMAIN cfg.succ[b] /\ \A i \in DOMAIN q : q[i] = <<cfg.succ[b][i], 1>>
  OBVIOUS
<1>5. {q[i] : i \in DOMAIN q} = {<<c, 1>> : c \in Successors(cfg, b)}
  BY <1>4 DEF Successors
<1> QED BY <1>2, <1>3, <1>5 DEF ToSet, Successors

(* The checks rewrite nothing.                                              *)
LEMMA ChecksTyped ==
    ASSUME Typed, phase \in {"insert", "cei"}, phase' \in {"cei", "error"},
           UNCHANGED <<contract, locations, k, calls, states, code, insert>>,
           phase = "insert" => todo = {},
           phase' = "cei" =>
              /\ stack' \in Seq(cfg.blocks \X Nat)
              /\ \A p \in pending' : p[1] \in cfg.blocks /\ p[2] \in DOMAIN code[<<fn, p[1]>>]
              /\ \A i \in DOMAIN stack' : /\ stack'[i][1] \in cfg.blocks
                                          /\ stack'[i][2] \in 1 .. Len(code[<<fn, stack'[i][1]>>]) + 1
    PROVE  Typed'
<1>1. cfg' = cfg /\ fn' = fn /\ Accepted' = Accepted
  BY DEF cfg, fn, Cfg, Accepted
<1>2. /\ contract' = contract /\ locations' = locations /\ k' = k /\ leaving' = leaving
      /\ seen' = seen /\ frontier' = frontier /\ code' = code /\ called' = called
      /\ entry_state' = entry_state /\ exit_state' = exit_state /\ worklist' = worklist
  BY DEF calls, states, insert
<1>3. TypeOK'
  BY <1>1, <1>2 DEF Typed, TypeOK, Cfg
<1>4. Rewritten(fn, cfg.blocks)
  BY DEF Typed, Rewritten
<1>5. called \in BOOLEAN
  BY DEF Typed
<1> QED BY <1>1, <1>2, <1>3, <1>4, <1>5 DEF Typed, Rewritten, Cfg

LEMMA CheckTyped ==
    ASSUME Typed, Check
    PROVE  Typed'
<1>1. CASE StartChecks
  <2>1. /\ phase = "insert" /\ phase' = "cei" /\ todo = {} /\ stack' = <<>>
        /\ UNCHANGED <<contract, locations, k, calls, states, code, insert>>
        /\ pending' \subseteq CallPoints(fn)
    BY <1>1 DEF StartChecks
  <2>2. \A p \in pending' : p[1] \in cfg.blocks /\ p[2] \in DOMAIN code[<<fn, p[1]>>]
    BY <2>1, CallPointFacts DEF cfg
  <2>3. DOMAIN stack' = {} /\ stack' \in Seq(cfg.blocks \X Nat)
    BY <2>1
  <2> QED BY <2>1, <2>2, <2>3, ChecksTyped
<1>2. CASE CheckCall
  <2>1. /\ phase = "cei" /\ phase' = "cei" /\ pending' \subseteq pending
        /\ UNCHANGED <<contract, locations, k, calls, states, code, insert>>
    BY <1>2 DEF CheckCall
  <2>2. PICK p \in pending : stack' = <<AfterCall(p)>>
    BY <1>2 DEF CheckCall
  <2>3. \A q \in pending : q[1] \in cfg.blocks /\ q[2] \in DOMAIN code[<<fn, q[1]>>]
    BY <2>1 DEF Typed, TypeOK
  <2>4. code[<<fn, p[1]>>] \in Seq(Emitted)
    BY <2>1, <2>2, <2>3, PointFacts
  <2>5. p[2] + 1 \in 1 .. Len(code[<<fn, p[1]>>]) + 1
    BY <2>2, <2>3, <2>4
  <2>6. p[1] \in cfg.blocks /\ p[2] + 1 \in Nat
    BY <2>2, <2>3, <2>4
  <2>7. (\A i \in DOMAIN stack' : stack'[i] = <<p[1], p[2] + 1>>) /\ stack' \in Seq(cfg.blocks \X Nat)
    BY <2>2, <2>6 DEF AfterCall
  <2> QED BY <2>1, <2>2, <2>3, <2>5, <2>7, ChecksTyped
<1>3. CASE SkipVisited \/ FollowBlock
  <2> DEFINE Stop(x) == x[1] \in cfg.blocks /\ x[2] \in 1 .. Len(code[<<fn, x[1]>>]) + 1
             B == cfg.blocks \X Nat
  <2>1. /\ phase = "cei" /\ phase' \in {"cei", "error"} /\ pending' = pending /\ stack # <<>>
        /\ UNCHANGED <<contract, locations, k, calls, states, code, insert>>
    BY <1>3 DEF SkipVisited, FollowBlock
  <2>2. /\ \A q \in pending : q[1] \in cfg.blocks /\ q[2] \in DOMAIN code[<<fn, q[1]>>]
        /\ \A x \in ToSet(stack) : Stop(x)
        /\ stack \in Seq(B)
    BY <2>1 DEF Typed, TypeOK, ToSet
  <2>3. ASSUME NEW c \in cfg.blocks PROVE Stop(<<c, 1>>)
    <3>1. code[<<fn, c>>] \in Seq(Emitted)
      BY <2>1, PointFacts
    <3> QED BY <3>1
  <2> HIDE DEF Stop
  <2>4. /\ Last(stack) \in B /\ Front(stack) \in Seq(B)
        /\ ToSet(stack) = ToSet(Front(stack)) \cup {Last(stack)}
    <3> HIDE DEF B
    <3> QED BY <2>1, <2>2, PopItems
  <2>5. stack' \in Seq(B) /\ \A x \in ToSet(stack') : Stop(x)
    <3>1. CASE SkipVisited
      BY <3>1, <2>2, <2>4 DEF SkipVisited
    <3>2. CASE FollowBlock
      <4> DEFINE b == Last(stack)[1]
                 q == [i \in DOMAIN cfg.succ[b] |-> <<cfg.succ[b][i], 1>>]
      <4>1. stack' = stack \/ stack' = Front(stack) \o q
        BY <3>2 DEF FollowBlock, SuccessorStart
      <4>2. q \in Seq(B) /\ \A x \in ToSet(q) : Stop(x)
        BY <2>1, <2>3, <2>4, Pushed
      <4> HIDE DEF q, B
      <4>3. CASE stack' = Front(stack) \o q
        <5>1. stack' \in Seq(B) /\ ToSet(stack') = ToSet(Front(stack)) \cup ToSet(q)
          BY <4>2, <4>3, <2>4, AppendItems
        <5> QED BY <5>1, <4>2, <2>2, <2>4
      <4> QED BY <4>1, <4>3, <2>2
    <3> QED BY <1>3, <3>1, <3>2
  <2> QED BY <2>1, <2>2, <2>5, ChecksTyped DEF Stop, ToSet
<1>4. CASE RejectConstantWrite
  BY <1>4, ChecksTyped DEF RejectConstantWrite
<1>5. CASE AcceptFunction
  <2>1. /\ phase = "cei" /\ k' = k + 1 /\ contract' = contract /\ locations' = locations
        /\ leaving' = leaving /\ seen' = seen /\ frontier' = frontier /\ code' = code
    BY <1>5 DEF AcceptFunction, calls
  <2>2. /\ contract \in Contracts /\ k \in 1 .. Len(contract.order) /\ k \in Nat
        /\ fn \in DOMAIN contract.fns /\ fn = contract.order[k] /\ cfg = Cfg(fn)
        /\ Len(contract.order) \in Nat
    BY <2>1, AtHand, OrderFacts DEF Typed
  <2>3. Rewritten(fn, Cfg(fn).blocks) /\ \A f \in Accepted : Rewritten(f, Cfg(f).blocks)
    BY <2>1, <2>2 DEF Typed
  <2>4. \A f \in Accepted' : Rewritten(f, Cfg(f).blocks)'
    <3>1. phase' # "calls" /\ Accepted = {contract.order[i] : i \in 1 .. k - 1}
      BY <1>5, <2>1 DEF AcceptFunction, Accepted
    <3>2. Accepted' = {contract.order[i] : i \in 1 .. (k + 1) - 1}
      BY <2>1, <3>1 DEF Accepted
    <3>3. \A i \in 1 .. (k + 1) - 1 : i \in 1 .. k - 1 \/ i = k
      BY <2>2
    <3>4. \A f \in Accepted' : f \in Accepted \/ f = fn
      BY <2>2, <3>1, <3>2, <3>3
    <3> QED BY <2>1, <2>3, <3>4 DEF Rewritten, Cfg
  <2>5. k + 1 \in 1 .. Len(contract.order) + 1
    BY <2>2
  <2>6. CASE k = Len(contract.order)
    <3>1. phase' = "done"
      BY <1>5, <2>6 DEF AcceptFunction
    <3>2. TypeOK'
      BY <2>1, <2>5, <2>6, <3>1 DEF Typed, TypeOK, Cfg
    <3> QED BY <2>1, <2>4, <3>1, <3>2 DEF Typed
  <2>7. CASE k # Len(contract.order)
    <3> DEFINE g == Cfg(contract.order[k + 1])
    <3>1. k + 1 \in 1 .. Len(contract.order) /\ k + 1 # Len(contract.order) + 1
      BY <2>2, <2>7
    <3>2. WellFormed(g)
      BY <2>2, <3>1, OrderFacts, FunctionFacts
    <3>3. phase' = "states" /\ StartStates(contract.order[k+1])
      BY <1>5, <2>7 DEF AcceptFunction
    <3>4. /\ entry_state' = [b \in g.blocks |-> {}] /\ exit_state' = [b \in g.blocks |-> {}]
          /\ worklist' = <<g.entry>>
      BY <3>3 DEF StartStates
    <3>5. cfg' = g
      BY <2>1 DEF cfg, fn, Cfg
    <3> HIDE DEF g
    <3>6. /\ entry_state' \in [cfg'.blocks -> SUBSET Location]
          /\ exit_state' \in [cfg'.blocks -> SUBSET Location]
          /\ worklist' \in Seq(cfg'.blocks)
      BY <3>2, <3>4, <3>5, StartTyped, Zenon
    <3>7. TypeOK'
      BY <2>1, <2>5, <3>1, <3>3, <3>6 DEF Typed, TypeOK, Cfg
    <3> QED BY <2>1, <2>4, <3>3, <3>7 DEF Typed
  <2> QED BY <2>6, <2>7
<1> QED BY <1>1, <1>2, <1>3, <1>4, <1>5 DEF Check

LEMMA TypedInvariant == Spec => []Typed
<1>1. Init => Typed
  BY InitTyped
<1>2. Typed /\ IInv /\ [Next]_vars => Typed'
  <2> SUFFICES ASSUME Typed, IInv, [Next]_vars PROVE Typed'
    OBVIOUS
  <2>1. CASE Next
    BY <2>1, SearchTyped, ComputeTyped, InsertTyped, CheckTyped DEF Next
  <2>2. CASE UNCHANGED vars
    <3>1. cfg' = cfg /\ fn' = fn /\ Accepted' = Accepted
      BY <2>2 DEF vars, cfg, fn, Cfg, Accepted
    <3>2. TypeOK'
      BY <2>2, <3>1 DEF vars, calls, states, insert, check, Typed, TypeOK, Cfg
    <3> QED BY <2>2, <3>1, <3>2 DEF vars, calls, states, insert, check, Typed, Rewritten, Cfg
  <2> QED BY <2>1, <2>2
<1> QED BY <1>1, <1>2, IInvInvariant, PTL DEF Spec

(* In every contract, the worklists, the search of the call graph and the   *)
(* checks stay within the functions, blocks and rewritten instructions they *)
(* are about; in particular check_no_stores_after_call never starts beyond  *)
(* the end of a block.                                                      *)
THEOREM TypeCorrect == Spec => []TypeOK
<1>1. Typed => TypeOK
  BY DEF Typed
<1> QED BY <1>1, TypedInvariant, PTL

-----------------------------------------------------------------------------
(* Every function searched that may leave the contract is found to; the one *)
(* at hand is, or what has been met from it is closed under calls.          *)
Met == seen \cup frontier
Found(f) == MayLeave(f) => f \in leaving
LeavingFound ==
    IF phase = "calls"
    THEN /\ \A j \in 1 .. k - 1 : Found(contract.order[j])
         /\ \/ fn \in leaving /\ frontier = {}
            \/ fn \in Met /\ \A f \in seen : Callees(f) \subseteq Met /\ ~CallsOut(f)
    ELSE \A f \in DOMAIN contract.fns : Found(f)

LEMMA FunctionsFinite ==
    ASSUME contract \in Contracts
    PROVE  IsFiniteSet(DOMAIN contract.fns)
<1> DEFINE n == Len(contract.order)
           S == 1 .. n
           fs == DOMAIN contract.fns
<1>1. /\ n \in Nat /\ contract.order \in [S -> fs]
      /\ \A f \in fs : \E j \in S : contract.order[j] = f
  <2>1. contract.order \in Seq(fs)
    BY ContractsAssumption
  <2> QED BY <2>1, OrderFacts
<1> HIDE DEF n, fs
<1>2. IsFiniteSet(S)
  BY <1>1, FS_Interval
<1>3. contract.order \in Surjection(S, fs)
  BY <1>1 DEF Surjection
<1> HIDE DEF S
<1> QED BY <1>2, <1>3, FS_Surjection DEF fs

(* No call leaves the contract from a set of functions closed under calls.  *)
LEMMA NoneLeaves ==
    ASSUME contract \in Contracts, NEW C, C \subseteq DOMAIN contract.fns,
           \A f \in C : Callees(f) \subseteq C /\ ~CallsOut(f),
           NEW f \in C
    PROVE  ~MayLeave(f)
<1> DEFINE fs == DOMAIN contract.fns
           next == [h \in fs |-> Callees(h)]
<1>1. IsFiniteSet(fs) /\ next \in [fs -> SUBSET fs]
  BY FunctionsFinite, FunctionFacts
<1>2. \A h \in fs : next[h] = Callees(h)
  OBVIOUS
<1>3. MayLeave(f) <=> \E g \in {f} \cup Reach(fs, next, f) : CallsOut(g)
  BY DEF MayLeave
<1> HIDE DEF fs, next
<1>4. f \in fs /\ next[f] \subseteq C /\ \A y \in C \cap fs : next[y] \subseteq C
  BY <1>2 DEF fs
<1>5. Reach(fs, next, f) \subseteq C
  BY <1>1, <1>4, ReachFacts
<1> QED BY <1>3, <1>5

LEMMA SameContract ==
    ASSUME contract' = contract
    PROVE  /\ \A f : Callees(f)' = Callees(f) /\ (CallsOut(f)' <=> CallsOut(f))
           /\ \A f : MayLeave(f)' <=> MayLeave(f)
<1>1. \A f : Callees(f)' = Callees(f) /\ (CallsOut(f)' <=> CallsOut(f))
  BY DEF Callees, CallsOut, Instructions, Cfg
<1>2. \A f : MayLeave(f)' <=> MayLeave(f)
  BY DEF MayLeave, Callees, CallsOut, Instructions, Cfg
<1> QED BY <1>1, <1>2

(* When the search from the function at hand is over, the function is found *)
(* if it may leave the contract.                                            *)
LEMMA SearchOver ==
    ASSUME Typed, LeavingFound, phase = "calls", frontier = {}
    PROVE  \A j \in 1 .. k : Found(contract.order[j])
<1>1. /\ contract \in Contracts /\ k \in Nat /\ fn = contract.order[k] /\ seen \subseteq DOMAIN contract.fns
  BY AtHand DEF Typed
<1>2. Found(fn)
  <2>1. CASE fn \in leaving
    BY <2>1 DEF Found
  <2>2. CASE fn \in Met /\ \A f \in seen : Callees(f) \subseteq Met /\ ~CallsOut(f)
    <3>1. fn \in seen /\ \A f \in seen : Callees(f) \subseteq seen /\ ~CallsOut(f)
      BY <2>2 DEF Met
    <3> QED BY <1>1, <3>1, NoneLeaves DEF Found
  <2> QED BY <2>1, <2>2 DEF LeavingFound
<1>3. \A j \in 1 .. k : j \in 1 .. k - 1 \/ j = k
  BY <1>1
<1> QED BY <1>1, <1>2, <1>3 DEF LeavingFound

LEMMA LeavingFoundStep ==
    ASSUME Typed, LeavingFound, [Next]_vars
    PROVE  LeavingFound'
<1>1. contract' = contract
  BY DEF Next, Search, Compute, Insert, Check, VisitCallee, SearchNextFunction, StartFirstFunction, VisitBlock,
         StartInsertion, EnterBlock, InsertAtLoad, InsertAtStore, UnfoldBeforeCall, CallUnfolded, FoldAfterCall,
         CallFolded, KeepInstruction, Cleanup, FinishBlock, Emit, StartChecks, CheckCall, SkipVisited, FollowBlock,
         RejectConstantWrite, AcceptFunction, vars
<1>2. /\ \A f : Callees(f)' = Callees(f) /\ (CallsOut(f)' <=> CallsOut(f))
      /\ \A f : MayLeave(f)' <=> MayLeave(f)
  BY <1>1, SameContract
<1>3. CASE VisitCallee
  <2>1. PICK f \in frontier :
           /\ seen' = seen \cup {f}
           /\ IF CallsOut(f)
              THEN leaving' = leaving \cup {fn} /\ frontier' = {}
              ELSE leaving' = leaving /\ frontier' = (frontier \cup Callees(f)) \ seen'
    BY <1>3 DEF VisitCallee
  <2>2. /\ phase = "calls" /\ phase' = "calls" /\ k' = k /\ fn' = fn
    BY <1>1, <1>3 DEF VisitCallee, fn
  <2>3. \A j \in 1 .. k' - 1 : Found(contract.order[j])'
    BY <1>1, <1>2, <2>1, <2>2 DEF LeavingFound, Found
  <2>4. CASE CallsOut(f)
    BY <2>1, <2>2, <2>3, <2>4 DEF LeavingFound
  <2>5. CASE ~CallsOut(f)
    <3>1. leaving' = leaving /\ frontier' = (frontier \cup Callees(f)) \ seen'
      BY <2>1, <2>5
    <3>2. fn \in Met /\ \A g \in seen : Callees(g) \subseteq Met /\ ~CallsOut(g)
      BY <2>1, <2>2 DEF LeavingFound
    <3>3. Met' = Met \cup Callees(f)
      BY <2>1, <3>1 DEF Met
    <3>4. fn' \in Met' /\ \A g \in seen' : Callees(g)' \subseteq Met' /\ ~CallsOut(g)'
      BY <1>2, <2>1, <2>2, <2>5, <3>2, <3>3
    <3> QED BY <2>2, <2>3, <3>4 DEF LeavingFound
  <2> QED BY <2>4, <2>5
<1>4. CASE SearchNextFunction
  <2>1. /\ phase = "calls" /\ phase' = "calls" /\ frontier = {} /\ k' = k + 1 /\ leaving' = leaving
        /\ seen' = {} /\ frontier' = {contract.order[k+1]} \ {}
    BY <1>4 DEF SearchNextFunction, SeenBefore
  <2>2. k \in Nat
    BY <2>1, AtHand DEF Typed
  <2>3. \A j \in 1 .. k' - 1 : Found(contract.order[j])'
    BY <1>1, <1>2, <2>1, <2>2, SearchOver DEF Found
  <2>4. fn' \in Met'
    BY <1>1, <2>1 DEF fn, Met
  <2> QED BY <2>1, <2>3, <2>4 DEF LeavingFound
<1>5. CASE StartFirstFunction
  <2>1. /\ phase = "calls" /\ phase' = "states" /\ frontier = {} /\ k = Len(contract.order) /\ leaving' = leaving
    BY <1>5 DEF StartFirstFunction, calls
  <2>2. \A f \in DOMAIN contract.fns : Found(f)
    <3>1. \A j \in 1 .. Len(contract.order) : Found(contract.order[j])
      BY <2>1, SearchOver
    <3>2. contract \in Contracts
      BY DEF Typed, TypeOK
    <3> QED BY <3>1, <3>2, OrderFacts, SMTT(30)
  <2> QED BY <1>1, <1>2, <2>1, <2>2 DEF LeavingFound, Found
<1>6. CASE Next /\ ~VisitCallee /\ ~SearchNextFunction /\ ~StartFirstFunction
  <2>1. phase # "calls" /\ phase' # "calls" /\ leaving' = leaving
    BY <1>6 DEF Next, Search, Compute, Insert, Check, VisitBlock,
         StartInsertion, EnterBlock, InsertAtLoad, InsertAtStore, UnfoldBeforeCall, CallUnfolded, FoldAfterCall,
         CallFolded, KeepInstruction, Cleanup, FinishBlock, Emit, StartChecks, CheckCall, SkipVisited, FollowBlock,
         RejectConstantWrite, AcceptFunction, AtInstruction, AtBlockEnd, calls
  <2> QED BY <1>1, <1>2, <2>1 DEF LeavingFound, Found
<1>7. CASE UNCHANGED vars
  BY <1>1, <1>2, <1>7 DEF vars, calls, LeavingFound, Found, Met, fn
<1> QED BY <1>3, <1>4, <1>5, <1>6, <1>7

LEMMA LeavingFoundInvariant == Spec => []LeavingFound
<1>1. Init => LeavingFound
  BY OrderFacts DEF Init, LeavingFound, Met, fn
<1>2. Typed /\ LeavingFound /\ [Next]_vars => LeavingFound'
  BY LeavingFoundStep
<1> QED BY <1>1, <1>2, TypedInvariant, PTL DEF Spec

-----------------------------------------------------------------------------
(* Instruction i of q, a call, has everything unfolded before it; everything*)
(* is folded right after it, or what is still unfolded is about to be.      *)
FoldedAfter(q, i, v) ==
    \E j \in i + 1 .. Len(q) : q[j] = Fold(v) /\ \A m \in i + 1 .. j : q[m].op = "Fold"
Wrapped(q, i) == \A v \in Mutable : OpenAt(q, i, v) /\ FoldedAfter(q, i, v)
Wrapping(q, i, S) ==
    /\ \A m \in i + 1 .. Len(q) : q[m].op = "Fold"
    /\ \A v \in Mutable : OpenAt(q, i, v) /\ (v \in S \/ FoldedAfter(q, i, v))
Known(x) == x.op = "Internal" => x.ref \in DOMAIN contract.fns
Calm(x)  == Known(x) /\ ~NeedsFoldUnfold(x)
AllWrapped(q, calling, S) ==
    \A i \in DOMAIN q :
        /\ Known(q[i])
        /\ NeedsFoldUnfold(q[i]) => Wrapped(q, i) \/ (calling /\ Wrapping(q, i, S))
CallsWrapped ==
    /\ \A p \in DOMAIN code : AllWrapped(code[p], FALSE, {})
    /\ phase = "insert" =>
          /\ called => AtInstruction /\ NeedsFoldUnfold(inst)
          /\ idx # 0 => AllWrapped(new_instructions, called, current_state)

(* What follows in a block does not disturb what precedes it.               *)
LEMMA OpenBefore ==
    ASSUME NEW q \in Seq(Emitted), NEW r \in Seq(Emitted), NEW v, NEW i \in 1 .. Len(q) + 1
    PROVE  OpenAt(q \o r, i, v) <=> OpenAt(q, i, v)
<1>1. Len(q) \in Nat /\ \A j \in 1 .. i - 1 : j \in 1 .. Len(q)
  OBVIOUS
<1>2. \A j \in 1 .. Len(q) : (q \o r)[j] = q[j]
  OBVIOUS
<1>3. \A j \in 1 .. i - 1 : (q \o r)[j] = q[j] /\ \A m \in j + 1 .. i - 1 : (q \o r)[m] = q[m]
  BY <1>1, <1>2
<1> QED BY <1>3 DEF OpenAt

LEMMA WrappedStays ==
    ASSUME NEW q \in Seq(Emitted), NEW r \in Seq(Emitted), NEW i \in DOMAIN q
    PROVE  /\ \A v : OpenAt(q \o r, i, v) <=> OpenAt(q, i, v)
           /\ \A v : FoldedAfter(q, i, v) => FoldedAfter(q \o r, i, v)
           /\ Wrapped(q, i) => Wrapped(q \o r, i)
<1> DEFINE s == q \o r
<1>1. /\ Len(q) \in Nat /\ i \in 1 .. Len(q) + 1 /\ i \in Nat
      /\ Len(s) \in Nat /\ Len(s) >= Len(q) /\ \A j \in 1 .. Len(q) : s[j] = q[j]
  OBVIOUS
<1>2. \A v : OpenAt(s, i, v) <=> OpenAt(q, i, v)
  BY <1>1, OpenBefore
<1> HIDE DEF s
<1>3. ASSUME NEW v, FoldedAfter(q, i, v) PROVE FoldedAfter(s, i, v)
  <2>1. PICK j \in i + 1 .. Len(q) : q[j] = Fold(v) /\ \A m \in i + 1 .. j : q[m].op = "Fold"
    BY <1>3 DEF FoldedAfter
  <2>2. j \in i + 1 .. Len(s) /\ \A m \in i + 1 .. j : m \in 1 .. Len(q)
    BY <1>1, <2>1
  <2>3. s[j] = Fold(v) /\ \A m \in i + 1 .. j : s[m].op = "Fold"
    BY <1>1, <2>1, <2>2
  <2> QED BY <2>2, <2>3 DEF FoldedAfter
<1>4. Wrapped(q, i) => Wrapped(s, i)
  BY <1>2, <1>3 DEF Wrapped
<1> QED BY <1>2, <1>3, <1>4 DEF s

(* Instructions that are no such calls.                                     *)
LEMMA AppendCalm ==
    ASSUME NEW q \in Seq(Emitted), NEW r \in Seq(Emitted), NEW s, s = q \o r, NEW S, NEW T,
           AllWrapped(q, FALSE, S), \A x \in ToSet(r) : Calm(x)
    PROVE  AllWrapped(s, FALSE, T)
<1>1. ASSUME NEW i \in DOMAIN s PROVE Known(s[i]) /\ (NeedsFoldUnfold(s[i]) => Wrapped(s, i))
  <2>1. /\ Len(q) \in Nat /\ Len(r) \in Nat /\ Len(s) = Len(q) + Len(r) /\ DOMAIN s = 1 .. Len(s)
        /\ DOMAIN q = 1 .. Len(q) /\ DOMAIN r = 1 .. Len(r)
    OBVIOUS
  <2>2. CASE i \in DOMAIN q
    <3>1. s[i] = q[i]
      BY <2>1, <2>2
    <3> QED BY <1>1, <2>2, <3>1, WrappedStays DEF AllWrapped
  <2>3. CASE i \notin DOMAIN q
    <3>1. i - Len(q) \in DOMAIN r /\ s[i] = r[i - Len(q)]
      BY <2>1, <2>3
    <3> QED BY <1>1, <3>1 DEF ToSet, Calm
  <2> QED BY <2>2, <2>3
<1> QED BY <1>1 DEF AllWrapped

LEMMA ShortItems ==
    ASSUME NEW B, NEW x \in B, NEW y \in B
    PROVE  /\ <<>> \in Seq(B) /\ <<x>> \in Seq(B) /\ <<x, y>> \in Seq(B)
           /\ ToSet(<<>>) = {} /\ ToSet(<<x>>) = {x} /\ ToSet(<<x, y>>) = {x, y}
<1>1. <<>> \in Seq(B) /\ <<x>> \in Seq(B) /\ <<x, y>> \in Seq(B)
  OBVIOUS
<1>2. ToSet(<<>>) = {}
  BY DEF ToSet
<1>3. ToSet(<<x>>) = {x}
  BY DEF ToSet
<1>4. ToSet(<<x, y>>) = {x, y}
  <2>1. DOMAIN <<x, y>> = {1, 2} /\ <<x, y>>[1] = x /\ <<x, y>>[2] = y
    OBVIOUS
  <2> DEFINE q == <<x, y>>
  <2> HIDE DEF q
  <2>2. {q[i] : i \in DOMAIN q} = {x, y}
    BY <2>1, Zenon DEF q
  <2> QED BY <2>2 DEF ToSet, q
<1> QED BY <1>1, <1>2, <1>3, <1>4

(* The call itself, with everything unfolded.                               *)
LEMMA AppendCall ==
    ASSUME NEW q, NEW x \in Emitted, NEW s, s = q \o <<x>>, NEW S, Tracks(q, S),
           AllWrapped(q, FALSE, S), Mutable \subseteq S, Known(x)
    PROVE  AllWrapped(s, TRUE, S)
<1>1. /\ q \in Seq(Emitted) /\ <<x>> \in Seq(Emitted) /\ Len(q) \in Nat /\ Len(s) = Len(q) + 1
      /\ DOMAIN s = 1 .. Len(q) + 1 /\ DOMAIN q = 1 .. Len(q) /\ \A i \in 1 .. Len(q) : s[i] = q[i]
      /\ s[Len(q) + 1] = x
  BY DEF Tracks
<1>2. ASSUME NEW i \in DOMAIN q PROVE Known(s[i]) /\ (NeedsFoldUnfold(s[i]) => Wrapped(s, i))
  BY <1>1, <1>2, WrappedStays DEF AllWrapped
<1>3. Wrapping(s, Len(q) + 1, S)
  <2>1. \A v \in Mutable : OpenAt(q, Len(q) + 1, v)
    BY LocationAssumption DEF Tracks
  <2>2. \A v \in Mutable : OpenAt(s, Len(q) + 1, v)
    <3>1. Len(q) + 1 \in 1 .. Len(q) + 1
      BY <1>1
    <3>2. \A v : OpenAt(q \o <<x>>, Len(q) + 1, v) <=> OpenAt(q, Len(q) + 1, v)
      BY <1>1, <3>1, OpenBefore
    <3> QED BY <2>1, <3>2
  <2>3. (Len(q) + 1) + 1 .. Len(s) = {}
    BY <1>1
  <2> QED BY <2>2, <2>3 DEF Wrapping
<1>4. \A i \in DOMAIN s : i \in DOMAIN q \/ i = Len(q) + 1
  BY <1>1
<1> QED BY <1>1, <1>2, <1>3, <1>4 DEF AllWrapped

(* A fold right after the call, and the end of the folds.                   *)
LEMMA AppendFold ==
    ASSUME NEW q \in Seq(Emitted), NEW v \in Location, NEW s, s = q \o <<Fold(v)>>, NEW S,
           AllWrapped(q, TRUE, S)
    PROVE  AllWrapped(s, TRUE, S \ {v})
<1>1. Fold(v) \in Emitted /\ Fold(v).op = "Fold" /\ ~NeedsFoldUnfold(Fold(v)) /\ Known(Fold(v))
  BY DEF Emitted, Mark, Fold, NeedsFoldUnfold, Known
<1>2. /\ <<Fold(v)>> \in Seq(Emitted) /\ Len(q) \in Nat /\ Len(s) = Len(q) + 1 /\ s[Len(q) + 1] = Fold(v)
      /\ DOMAIN s = 1 .. Len(q) + 1 /\ DOMAIN q = 1 .. Len(q) /\ \A i \in 1 .. Len(q) : s[i] = q[i]
  BY <1>1
<1>3. ASSUME NEW i \in DOMAIN q, Wrapping(q, i, S) PROVE Wrapping(s, i, S \ {v})
  <2>1. \A m \in i + 1 .. Len(s) : s[m].op = "Fold"
    <3>1. \A m \in i + 1 .. Len(s) : m \in i + 1 .. Len(q) \/ m = Len(q) + 1
      BY <1>2
    <3>2. \A m \in i + 1 .. Len(q) : m \in 1 .. Len(q)
      BY <1>2
    <3> QED BY <1>1, <1>2, <1>3, <3>1, <3>2 DEF Wrapping
  <2>2. FoldedAfter(s, i, v)
    <3>1. Len(q) + 1 \in i + 1 .. Len(s) /\ i + 1 .. Len(q) + 1 = i + 1 .. Len(s)
      BY <1>2
    <3> QED BY <1>2, <2>1, <3>1 DEF FoldedAfter
  <2>3. \A w : (OpenAt(q, i, w) => OpenAt(s, i, w)) /\ (FoldedAfter(q, i, w) => FoldedAfter(s, i, w))
    BY <1>2, WrappedStays
  <2> QED BY <1>3, <2>1, <2>2, <2>3 DEF Wrapping
<1>4. \A i \in DOMAIN s : i \in DOMAIN q \/ s[i] = Fold(v)
  BY <1>2
<1>5. ASSUME NEW i \in DOMAIN q
      PROVE  Known(s[i]) /\ (NeedsFoldUnfold(s[i]) => Wrapped(s, i) \/ Wrapping(s, i, S \ {v}))
  <2>1. Known(s[i]) /\ (NeedsFoldUnfold(s[i]) => Wrapped(q, i) \/ Wrapping(q, i, S))
    BY <1>2, <1>5 DEF AllWrapped
  <2> QED BY <1>2, <1>3, <2>1, WrappedStays
<1> QED BY <1>1, <1>4, <1>5 DEF AllWrapped

LEMMA FoldsOver ==
    ASSUME NEW q, NEW S, AllWrapped(q, TRUE, S), Mutable \cap S = {}, NEW T
    PROVE  AllWrapped(q, FALSE, T)
BY DEF AllWrapped, Wrapped, Wrapping

(* In a block: calls are all wrapped except the one whose folds are going   *)
(* on, and an instruction that is no call finds none going on.              *)
LEMMA AtBlock ==
    ASSUME Typed, IInv, CallsWrapped, AtInstruction \/ AtBlockEnd
    PROVE  /\ phase = "insert" /\ idx # 0 /\ called \in BOOLEAN
           /\ new_instructions \in Seq(Emitted) /\ Tracks(new_instructions, current_state)
           /\ AllWrapped(new_instructions, called, current_state)
           /\ AtBlockEnd => called = FALSE
           /\ AtInstruction => Known(inst)
           /\ AtInstruction /\ ~NeedsFoldUnfold(inst) => called = FALSE
<1>1. phase = "insert" /\ idx \in Nat /\ idx # 0 /\ Tracks(new_instructions, current_state)
  BY InsideBlock
<1>2. called \in BOOLEAN /\ (called => AtInstruction /\ NeedsFoldUnfold(inst))
  BY <1>1 DEF Typed, CallsWrapped
<1>3. cfg.code[block] \in Seq(Source)
  BY <1>1, InstructionTyped
<1>4. ~(AtInstruction /\ AtBlockEnd)
  BY <1>3 DEF AtInstruction, AtBlockEnd
<1>5. AtInstruction => Known(inst)
  <2>1. /\ contract \in Contracts /\ fn \in DOMAIN contract.fns /\ cfg = Cfg(fn) /\ block \in cfg.blocks
    BY <1>1, AtHand, InstructionTyped DEF Typed
  <2> QED BY <2>1, ContractsAssumption DEF AtInstruction, Known, inst, Cfg
<1> QED BY <1>1, <1>2, <1>4, <1>5 DEF CallsWrapped, Tracks

(* An action within a block keeps the code already rewritten.               *)
LEMMA WithinBlock ==
    ASSUME CallsWrapped, phase = "insert", phase' = "insert", contract' = contract, leaving' = leaving,
           code' = code, called' => AtInstruction' /\ NeedsFoldUnfold(inst)',
           AllWrapped(new_instructions', called', current_state')
    PROVE  CallsWrapped'
<1>1. \A q, c, S : AllWrapped(q, c, S)' <=> AllWrapped(q, c, S)
  BY DEF AllWrapped, Known, NeedsFoldUnfold, Reentrant, Cfg, Wrapped, Wrapping, FoldedAfter, OpenAt
<1>2. \A p \in DOMAIN code' : AllWrapped(code'[p], FALSE, {})
  BY DEF CallsWrapped
<1> QED BY <1>1, <1>2 DEF CallsWrapped

(* A list of one calm instruction is a list of calm instructions.           *)
LEMMA CalmItem ==
    ASSUME NEW x \in Emitted, Calm(x)
    PROVE  <<x>> \in Seq(Emitted) /\ \A y \in ToSet(<<x>>) : Calm(y)
<1>1. <<x>> \in Seq(Emitted) /\ ToSet(<<x>>) = {x}
  BY ShortItems
<1> QED BY <1>1

(* What an action that emits r, outside the folds of a call, has to show.   *)
LEMMA CalmStep ==
    ASSUME Typed, IInv, CallsWrapped, AtInstruction \/ AtBlockEnd,
           NEW r \in Seq(Emitted), NEW S, Emit(r, S), called = FALSE, called' = FALSE,
           \A x \in ToSet(r) : Calm(x)
    PROVE  CallsWrapped'
<1>1. /\ phase = "insert" /\ new_instructions \in Seq(Emitted)
      /\ AllWrapped(new_instructions, FALSE, current_state)
  BY AtBlock
<1>2. /\ new_instructions' = new_instructions \o r /\ contract' = contract /\ phase' = phase
      /\ leaving' = leaving /\ code' = code
  BY DEF Emit, calls
<1>3. AllWrapped(new_instructions', FALSE, current_state')
  BY <1>1, <1>2, AppendCalm
<1> QED BY <1>1, <1>2, <1>3, WithinBlock

LEMMA AccessWrapped ==
    ASSUME Typed, IInv, CallsWrapped, InsertAtLoad \/ InsertAtStore
    PROVE  CallsWrapped'
<1>1. AtInstruction /\ inst.op \in {"Load", "Store"} /\ called' = called
  BY DEF InsertAtLoad, InsertAtStore
<1>2. inst \in Emitted /\ inst.ref \in Location
  BY <1>1, InstructionRead DEF IInv
<1>3. called = FALSE
  BY <1>1, AtBlock DEF NeedsFoldUnfold
<1> DEFINE v == inst.ref
           u == Unfolding(v)
           x == inst
<1>4. /\ Unfold(v) \in Emitted /\ Fold(v) \in Emitted
      /\ Calm(Unfold(v)) /\ Calm(Fold(v)) /\ Calm(x)
  BY <1>1, <1>2 DEF Emitted, Mark, Fold, Unfold, NeedsFoldUnfold, Calm, Known
<1>5. u = <<>> \/ u = <<Unfold(v)>>
  BY DEF Unfolding
<1>6. u \in Seq(Emitted) /\ \A y \in ToSet(u) : Calm(y)
  <2>1. /\ <<>> \in Seq(Emitted) /\ ToSet(<<>>) = {}
        /\ <<Unfold(v)>> \in Seq(Emitted) /\ ToSet(<<Unfold(v)>>) = {Unfold(v)}
    BY <1>4, ShortItems
  <2> HIDE DEF u, v
  <2> QED BY <1>4, <1>5, <2>1, Zenon
<1>7. /\ <<x>> \in Seq(Emitted) /\ ToSet(<<x>>) = {x}
      /\ <<x, Fold(v)>> \in Seq(Emitted) /\ ToSet(<<x, Fold(v)>>) = {x, Fold(v)}
  BY <1>2, <1>4, ShortItems
<1>8. CASE InsertAtLoad
  <2> DEFINE r == u \o <<x>>
  <2>1. Emit(r, current_state \cup {v})
    BY <1>8 DEF InsertAtLoad
  <2>2. r \in Seq(Emitted) /\ ToSet(r) = ToSet(u) \cup {x}
    BY <1>6, <1>7, AppendItems
  <2>3. \A y \in ToSet(r) : Calm(y)
    BY <1>4, <1>6, <2>2
  <2> HIDE DEF r
  <2> QED BY <1>1, <1>3, <2>1, <2>2, <2>3, CalmStep
<1>9. CASE InsertAtStore
  <2> DEFINE r == u \o <<x, Fold(v)>>
  <2>1. Emit(r, current_state \ {v})
    BY <1>9 DEF InsertAtStore
  <2>2. r \in Seq(Emitted) /\ ToSet(r) = ToSet(u) \cup {x, Fold(v)}
    <3> DEFINE y == <<x, Fold(v)>>
    <3>1. y \in Seq(Emitted) /\ ToSet(y) = {x, Fold(v)} /\ r = u \o y
      BY <1>7
    <3> HIDE DEF u, y, r, x, v
    <3>2. u \o y \in Seq(Emitted) /\ ToSet(u \o y) = ToSet(u) \cup ToSet(y)
      BY <1>6, <3>1, AppendItems
    <3> QED BY <3>1, <3>2
  <2>3. \A y \in ToSet(r) : Calm(y)
    BY <1>4, <1>6, <2>2
  <2> HIDE DEF r
  <2> QED BY <1>1, <1>3, <2>1, <2>2, <2>3, CalmStep
<1> QED BY <1>8, <1>9

LEMMA CallWrapped ==
    ASSUME Typed, IInv, CallsWrapped, UnfoldBeforeCall \/ CallUnfolded \/ FoldAfterCall \/ CallFolded
    PROVE  CallsWrapped'
<1>1. AtInstruction /\ phase = "insert" /\ called \in BOOLEAN
  BY AtBlock DEF UnfoldBeforeCall, CallUnfolded, FoldAfterCall, CallFolded
<1>2. /\ new_instructions \in Seq(Emitted) /\ Tracks(new_instructions, current_state)
      /\ AllWrapped(new_instructions, called, current_state)
  BY <1>1, AtBlock
<1>3. /\ contract' = contract /\ leaving' = leaving /\ code' = code /\ phase' = "insert" /\ block' = block
      /\ k' = k
  BY <1>1 DEF UnfoldBeforeCall, CallUnfolded, FoldAfterCall, CallFolded, Emit, calls
<1>4. CASE UnfoldBeforeCall
  <2>1. PICK v \in Mutable : Emit(<<Unfold(v)>>, current_state \cup {v})
    BY <1>4 DEF UnfoldBeforeCall
  <2>2. called = FALSE /\ called' = FALSE
    BY <1>1, <1>4 DEF UnfoldBeforeCall
  <2>3. Unfold(v) \in Emitted /\ Calm(Unfold(v))
    BY <2>1, LocationAssumption DEF Emitted, Mark, Unfold, NeedsFoldUnfold, Calm, Known
  <2>4. <<Unfold(v)>> \in Seq(Emitted) /\ \A y \in ToSet(<<Unfold(v)>>) : Calm(y)
    BY <2>3, CalmItem
  <2> QED BY <1>1, <2>1, <2>2, <2>4, CalmStep
<1>5. CASE CallUnfolded
  <2>1. /\ called' = TRUE /\ called = FALSE /\ idx' = idx /\ NeedsFoldUnfold(inst) /\ Mutable \subseteq current_state
        /\ new_instructions' = new_instructions \o <<inst>> /\ current_state' = current_state
    BY <1>1, <1>5 DEF CallUnfolded, Emit
  <2>2. inst \in Emitted /\ Known(inst)
    BY <1>1, InstructionRead, AtBlock DEF IInv
  <2>3. AllWrapped(new_instructions', called', current_state')
    BY <1>2, <2>1, <2>2, AppendCall
  <2>4. AtInstruction' /\ NeedsFoldUnfold(inst)'
    BY <1>1, <1>3, <2>1 DEF AtInstruction, NeedsFoldUnfold, Reentrant, inst, cfg, fn, Cfg
  <2> QED BY <1>1, <1>3, <2>3, <2>4, WithinBlock
<1>6. CASE FoldAfterCall
  <2>1. /\ called = TRUE /\ called' = TRUE /\ idx' = idx
        /\ \E v \in Mutable : /\ new_instructions' = new_instructions \o <<Fold(v)>>
                              /\ current_state' = current_state \ {v}
    BY <1>1, <1>6 DEF FoldAfterCall, Emit
  <2>2. PICK v \in Location : /\ new_instructions' = new_instructions \o <<Fold(v)>>
                              /\ current_state' = current_state \ {v}
    BY <2>1, LocationAssumption
  <2>3. AllWrapped(new_instructions, TRUE, current_state)
    BY <1>2, <2>1
  <2>4. AllWrapped(new_instructions', TRUE, current_state')
    BY <1>2, <2>2, <2>3, AppendFold
  <2>5. NeedsFoldUnfold(inst)
    BY <1>1, <2>1 DEF CallsWrapped
  <2>6. AtInstruction' /\ NeedsFoldUnfold(inst)'
    BY <1>1, <1>3, <2>1, <2>5 DEF AtInstruction, NeedsFoldUnfold, Reentrant, inst, cfg, fn, Cfg
  <2> QED BY <1>1, <1>3, <2>1, <2>4, <2>6, WithinBlock
<1>7. CASE CallFolded
  <2>1. /\ called = TRUE /\ called' = FALSE /\ Mutable \cap current_state = {}
        /\ new_instructions' = new_instructions /\ current_state' = current_state
    BY <1>1, <1>7 DEF CallFolded
  <2>2. AllWrapped(new_instructions', called', current_state')
    BY <1>2, <2>1, FoldsOver
  <2> QED BY <1>1, <1>3, <2>1, <2>2, WithinBlock
<1> QED BY <1>4, <1>5, <1>6, <1>7

LEMMA InsertWrapped ==
    ASSUME Typed, IInv, CallsWrapped, Insert
    PROVE  CallsWrapped'
<1>1. CASE StartInsertion \/ EnterBlock
  <2>1. /\ contract' = contract /\ leaving' = leaving /\ code' = code /\ phase' = "insert"
    BY <1>1 DEF StartInsertion, EnterBlock, calls
  <2>2. called' = FALSE
    <3>1. CASE StartInsertion
      BY <3>1 DEF StartInsertion
    <3>2. CASE EnterBlock
      <4>1. phase = "insert" /\ idx = 0 /\ called' = called
        BY <3>2 DEF EnterBlock
      <4>2. ~AtInstruction /\ called \in BOOLEAN
        BY <4>1, InstructionTyped DEF AtInstruction, Typed
      <4> QED BY <4>1, <4>2 DEF CallsWrapped
    <3> QED BY <1>1, <3>1, <3>2
  <2>3. new_instructions' = <<>>
    BY <1>1 DEF StartInsertion, EnterBlock
  <2>4. AllWrapped(new_instructions', FALSE, current_state')
    BY <2>3 DEF AllWrapped
  <2>5. \A q, c, S : AllWrapped(q, c, S)' <=> AllWrapped(q, c, S)
    BY <2>1 DEF AllWrapped, Known, NeedsFoldUnfold, Reentrant, Cfg, Wrapped, Wrapping, FoldedAfter, OpenAt
  <2> QED BY <2>1, <2>2, <2>4, <2>5 DEF CallsWrapped
<1>2. CASE InsertAtLoad \/ InsertAtStore
  BY <1>2, AccessWrapped
<1>3. CASE UnfoldBeforeCall \/ CallUnfolded \/ FoldAfterCall \/ CallFolded
  BY <1>3, CallWrapped
<1>4. CASE KeepInstruction
  <2>1. AtInstruction /\ ~NeedsFoldUnfold(inst) /\ Emit(<<inst>>, current_state) /\ called' = called
    BY <1>4 DEF KeepInstruction
  <2>2. inst \in Emitted /\ called = FALSE /\ Calm(inst)
    BY <2>1, InstructionRead, AtBlock DEF IInv, Calm
  <2>3. <<inst>> \in Seq(Emitted) /\ \A y \in ToSet(<<inst>>) : Calm(y)
    BY <2>2, CalmItem
  <2> QED BY <2>1, <2>2, <2>3, CalmStep
<1>5. CASE Cleanup
  <2>1. PICK v \in Location : Emit(<<Fold(v)>>, current_state \ {v})
    BY <1>5 DEF Cleanup
  <2>2. AtBlockEnd /\ called = FALSE /\ called' = FALSE
    BY <1>5, AtBlock DEF Cleanup
  <2>3. Fold(v) \in Emitted /\ Calm(Fold(v))
    BY <2>1 DEF Emitted, Mark, Fold, NeedsFoldUnfold, Calm, Known
  <2>4. <<Fold(v)>> \in Seq(Emitted) /\ \A y \in ToSet(<<Fold(v)>>) : Calm(y)
    BY <2>3, CalmItem
  <2> QED BY <2>1, <2>2, <2>4, CalmStep
<1>6. CASE FinishBlock
  <2>1. AtBlockEnd /\ called = FALSE /\ AllWrapped(new_instructions, FALSE, current_state)
    BY <1>6, AtBlock DEF FinishBlock
  <2>2. /\ contract' = contract /\ leaving' = leaving /\ called' = FALSE /\ idx' = 0
        /\ \A p \in DOMAIN code' : code'[p] = new_instructions \/ (p \in DOMAIN code /\ code'[p] = code[p])
    BY <1>6, <2>1 DEF FinishBlock, calls
  <2>3. \A q, c, S : AllWrapped(q, c, S)' <=> AllWrapped(q, c, S)
    BY <2>2 DEF AllWrapped, Known, NeedsFoldUnfold, Reentrant, Cfg, Wrapped, Wrapping, FoldedAfter, OpenAt
  <2>4. AllWrapped(new_instructions, FALSE, {}) /\ \A p \in DOMAIN code : AllWrapped(code[p], FALSE, {})
    BY <2>1 DEF AllWrapped, CallsWrapped
  <2>5. \A p \in DOMAIN code' : AllWrapped(code'[p], FALSE, {})
    BY <2>2, <2>4
  <2> QED BY <2>2, <2>3, <2>5 DEF CallsWrapped
<1> QED BY <1>1, <1>2, <1>3, <1>4, <1>5, <1>6 DEF Insert

LEMMA WrappedStep ==
    ASSUME Typed, IInv, CallsWrapped, [Next]_vars
    PROVE  CallsWrapped'
<1>1. CASE Insert
  BY <1>1, InsertWrapped
<1>2. CASE Search
  BY <1>2 DEF Search, VisitCallee, SearchNextFunction, Typed, CallsWrapped
<1>3. CASE Compute \/ Check
  <2>1. contract' = contract /\ leaving' = leaving /\ code' = code /\ phase' # "insert"
    BY <1>3 DEF Compute, Check, StartFirstFunction, VisitBlock, StartChecks, CheckCall, SkipVisited, FollowBlock,
         RejectConstantWrite, AcceptFunction, calls
  <2>2. \A q, c, S : AllWrapped(q, c, S)' <=> AllWrapped(q, c, S)
    BY <2>1 DEF AllWrapped, Known, NeedsFoldUnfold, Reentrant, Cfg, Wrapped, Wrapping, FoldedAfter, OpenAt
  <2> QED BY <2>1, <2>2 DEF CallsWrapped
<1>4. CASE UNCHANGED vars
  <2>1. /\ contract' = contract /\ leaving' = leaving /\ code' = code /\ phase' = phase /\ called' = called
        /\ idx' = idx /\ new_instructions' = new_instructions /\ current_state' = current_state
        /\ (AtInstruction' <=> AtInstruction) /\ inst' = inst
    BY <1>4 DEF vars, calls, insert, AtInstruction, inst, cfg, fn, Cfg
  <2>2. /\ \A q, c, S : AllWrapped(q, c, S)' <=> AllWrapped(q, c, S)
        /\ NeedsFoldUnfold(inst)' <=> NeedsFoldUnfold(inst)
    BY <2>1 DEF AllWrapped, Known, NeedsFoldUnfold, Reentrant, Cfg, Wrapped, Wrapping, FoldedAfter, OpenAt
  <2> QED BY <2>1, <2>2 DEF CallsWrapped
<1> QED BY <1>1, <1>2, <1>3, <1>4 DEF Next

LEMMA WrappedInvariant == Spec => []CallsWrapped
<1>1. Init => CallsWrapped
  BY DEF Init, CallsWrapped
<1>2. Typed /\ IInv /\ CallsWrapped /\ [Next]_vars => CallsWrapped'
  BY WrappedStep
<1> QED BY <1>1, <1>2, IInvInvariant, TypedInvariant, PTL DEF Spec

(* In every contract, however long the chain of internal calls and whatever *)
(* the recursion: around every call through which control may leave the     *)
(* contract, insert_fold_unfold_instructions has put the unfold of every    *)
(* state variable before and its fold right after.                          *)
THEOREM OpenAcrossCallsInvariant == Spec => []OpenAcrossCalls
<1>1. Typed /\ LeavingFound /\ CallsWrapped => OpenAcrossCalls
  <2> SUFFICES ASSUME Typed, LeavingFound, CallsWrapped,
                      NEW p \in DOMAIN code, NEW i \in DOMAIN code[p], LeavesContract(code[p][i])
               PROVE  Wrapped(code[p], i)
    BY DEF OpenAcrossCalls, Wrapped, FoldedAfter
  <2>1. NeedsFoldUnfold(code[p][i])
    <3>1. phase # "calls"
      BY DEF Typed
    <3>2. code[p][i].op = "Internal" => code[p][i].ref \in DOMAIN contract.fns
      BY DEF CallsWrapped, AllWrapped, Known
    <3> QED BY <3>1, <3>2 DEF LeavingFound, Found, LeavesContract, NeedsFoldUnfold
  <2> QED BY <2>1 DEF CallsWrapped, AllWrapped
<1> QED BY <1>1, TypedInvariant, LeavingFoundInvariant, WrappedInvariant, PTL

-----------------------------------------------------------------------------
(* The stores after call p come before it in its own block, around a loop.  *)
Cleared(f, p) == \A q \in StoresAfter(f, p) : q[1] = p[1] /\ q[2] < p[2]

(* The search for stores after call p of the function at hand.              *)
Awaits(p, x) == x = AfterCall(p) \/ (x[1] \in ReachableFrom(cfg, p[1]) /\ x[2] = 1)
Searching(p) ==
    /\ \A x \in ToSet(stack) : Awaits(p, x)
    /\ visited \subseteq cfg.blocks
    /\ IF p[1] \in visited THEN ~StoresFrom(p[1], p[2] + 1)
       ELSE stack = <<AfterCall(p)>> /\ visited = {}
    /\ \A b \in visited \ {p[1]} : ~StoresFrom(b, 1)
    /\ \A b \in visited : \A c \in Successors(cfg, b) :
          c \in visited \/ \E x \in ToSet(stack) : x[1] = c
SearchesDone ==
    /\ EffectsFirstButForLoops
    /\ RefusedForCause
    /\ phase = "cei" =>
          /\ pending \subseteq CallPoints(fn)
          /\ cfg.modifier # "Checked" => pending = {} /\ stack = <<>>
          /\ stack # <<>> => \E p \in CallPoints(fn) : Searching(p)
          /\ cfg.modifier = "Checked" =>
                \A p \in CallPoints(fn) \ pending : Cleared(fn, p) \/ Searching(p)

(* The points looked at are those of the rewritten blocks of the function.  *)
LEMMA SamePoints ==
    ASSUME contract' = contract, NEW f, \A b \in Cfg(f).blocks : code'[<<f, b>>] = code[<<f, b>>]
    PROVE  /\ CallPoints(f)' = CallPoints(f)
           /\ \A p : Cleared(f, p)' <=> Cleared(f, p)
           /\ \A p : StoresAfter(f, p)' = StoresAfter(f, p)
           /\ WritesConstant(f)' <=> WritesConstant(f)
<1>1. Cfg(f)' = Cfg(f) /\ \A g : Reentrant(g)' <=> Reentrant(g)
  BY DEF Cfg, Reentrant
<1>2. Points(f)' = Points(f)
  <2>1. ASSUME NEW p PROVE p \in Points(f) <=> p \in Points(f)'
    <3>1. p \in Points(f) <=> \E b \in Cfg(f).blocks : p \in {b} \X DOMAIN code[<<f, b>>]
      BY Zenon DEF Points
    <3>2. p \in Points(f)' <=> \E b \in Cfg(f)'.blocks : p \in {b} \X DOMAIN code'[<<f, b>>]
      BY Zenon DEF Points
    <3> QED BY <1>1, <3>1, <3>2
  <2> QED BY <2>1
<1>3. \A p \in Points(f) : At(f, p)' = At(f, p)
  <2> SUFFICES ASSUME NEW p \in Points(f) PROVE At(f, p)' = At(f, p)
    OBVIOUS
  <2>2. p[1] \in Cfg(f).blocks
    BY AtPoint
  <2> QED BY <2>2 DEF At
<1>4. CallPoints(f)' = CallPoints(f)
  BY <1>1, <1>2, <1>3 DEF CallPoints
<1>5. \A p : StoresAfter(f, p)' = StoresAfter(f, p)
  BY <1>1, <1>2, <1>3 DEF StoresAfter
<1>6. \A p : Cleared(f, p)' <=> Cleared(f, p)
  BY <1>5 DEF Cleared
<1>7. WritesConstant(f)' <=> WritesConstant(f)
  BY <1>1 DEF WritesConstant
<1> QED BY <1>4, <1>5, <1>6, <1>7

(* When the stack is empty the blocks visited are closed under successors.  *)
LEMMA SearchEnds ==
    ASSUME Typed, phase = "cei", stack = <<>>, NEW p \in CallPoints(fn), Searching(p)
    PROVE  Cleared(fn, p)
<1>1. cfg = Cfg(fn) /\ WellFormed(cfg)
  BY AtHand, FunctionFacts DEF Typed
<1>2. /\ p[1] \in cfg.blocks /\ p[2] \in DOMAIN code[<<fn, p[1]>>]
      /\ code[<<fn, p[1]>>][p[2]].op # "Store"
  BY <1>1, CallPointFacts
<1>3. ToSet(stack) = {}
  BY DEF ToSet
<1>4. p[1] \in visited
  BY DEF Searching, AfterCall
<1>5. \A b \in visited : Successors(cfg, b) \subseteq visited
  BY <1>3 DEF Searching
<1>6. ReachableFrom(cfg, p[1]) \subseteq visited
  BY <1>1, <1>2, <1>4, <1>5, ReachableFacts
<1>7. ASSUME NEW q \in StoresAfter(fn, p) PROVE q[1] = p[1] /\ q[2] < p[2]
  <2>1. /\ q \in Points(fn) /\ At(fn, q).op = "Store"
        /\ \/ q[1] = p[1] /\ q[2] > p[2]
           \/ q[1] \in ReachableFrom(cfg, p[1])
    BY <1>1, <1>7 DEF StoresAfter
  <2>9. q = <<q[1], q[2]>> /\ q[1] \in cfg.blocks /\ q[2] \in DOMAIN code[<<fn, q[1]>>]
    BY <1>1, <2>1, AtPoint
  <2>2. PICK b \in cfg.blocks : b = q[1]
    BY <2>9
  <2>3. PICK i \in DOMAIN code[<<fn, b>>] : q = <<b, i>> /\ code[<<fn, b>>][i].op = "Store"
    BY <2>1, <2>2, <2>9 DEF At
  <2>4. code[<<fn, b>>] \in Seq(Emitted)
    BY PointFacts
  <2>5. /\ Len(code[<<fn, b>>]) \in Nat /\ DOMAIN code[<<fn, b>>] = 1 .. Len(code[<<fn, b>>])
    BY <2>4
  <2>6. \A n \in Nat : ~StoresFrom(b, n) => i < n
    BY <2>3, <2>5 DEF StoresFrom
  <2>7. CASE b # p[1]
    <3>1. b \in visited
      BY <1>6, <2>1, <2>3, <2>7
    <3>2. ~StoresFrom(b, 1)
      BY <2>7, <3>1 DEF Searching
    <3> QED BY <2>3, <2>5, <2>6, <3>2
  <2>8. CASE b = p[1]
    <3>1. p[2] \in Nat
      BY <1>2, <2>5, <2>8
    <3>2. ~StoresFrom(b, p[2] + 1)
      BY <1>4, <2>8 DEF Searching
    <3>3. i < p[2] + 1 /\ i # p[2]
      BY <1>2, <2>3, <2>6, <2>8, <3>1, <3>2
    <3> QED BY <2>3, <2>5, <2>8, <3>1, <3>3
  <2> QED BY <2>7, <2>8
<1> QED BY <1>7 DEF Cleared

(* A step of the search, or of the checks, that rewrites nothing.           *)
LEMMA SameSearch ==
    ASSUME UNCHANGED <<contract, k, code>>
    PROVE  /\ fn' = fn /\ cfg' = cfg
           /\ CallPoints(fn)' = CallPoints(fn)
           /\ \A p : StoresAfter(fn, p)' = StoresAfter(fn, p)
           /\ \A p : Cleared(fn, p)' <=> Cleared(fn, p)
           /\ WritesConstant(fn)' <=> WritesConstant(fn)
           /\ \A b, n : StoresFrom(b, n)' <=> StoresFrom(b, n)
           /\ \A p, x : Awaits(p, x)' <=> Awaits(p, x)
<1>1. fn' = fn /\ cfg' = cfg
  BY DEF fn, cfg, Cfg
<1>2. /\ CallPoints(fn)' = CallPoints(fn)
      /\ \A p : StoresAfter(fn, p)' = StoresAfter(fn, p)
      /\ \A p : Cleared(fn, p)' <=> Cleared(fn, p)
      /\ WritesConstant(fn)' <=> WritesConstant(fn)
  BY <1>1, SamePoints
<1>3. \A b, n : StoresFrom(b, n)' <=> StoresFrom(b, n)
  BY <1>1 DEF StoresFrom
<1>4. \A p, x : Awaits(p, x)' <=> Awaits(p, x)
  BY <1>1 DEF Awaits
<1> QED BY <1>1, <1>2, <1>3, <1>4

(* What was accepted stays so.                                              *)
LEMMA AcceptedStay ==
    ASSUME contract' = contract, EffectsFirstButForLoops, Accepted' \subseteq Accepted,
           \A f \in Accepted : \A b \in Cfg(f).blocks : code'[<<f, b>>] = code[<<f, b>>]
    PROVE  EffectsFirstButForLoops'
<1>1. \A f : Cfg(f)' = Cfg(f)
  BY DEF Cfg
<1>2. \A f \in Accepted' : Cfg(f).modifier = "Checked" => \A p \in CallPoints(f) : Cleared(f, p)
  BY DEF EffectsFirstButForLoops, Cleared
<1>3. \A f \in Accepted' : /\ CallPoints(f)' = CallPoints(f)
                           /\ \A p : Cleared(f, p)' <=> Cleared(f, p)
  BY SamePoints
<1>4. \A f \in Accepted' : Cfg(f)'.modifier = "Checked" => \A p \in CallPoints(f)' : Cleared(f, p)'
  BY <1>1, <1>2, <1>3
<1> QED BY <1>4 DEF EffectsFirstButForLoops, Cleared

(* One turn of the loop keeps what is known of the search after each call.  *)
LEMMA SearchGoesOn ==
    ASSUME Typed, phase = "cei", SkipVisited \/ (FollowBlock /\ phase' = "cei"),
           NEW p \in CallPoints(fn), Searching(p)
    PROVE  Searching(p)'
<1> DEFINE x == Last(stack)
           b == x[1]
           B == cfg.blocks \X Nat
<1>1. stack # <<>> /\ UNCHANGED <<contract, k, code>>
  BY DEF SkipVisited, FollowBlock
<1>2. /\ x \in B /\ Front(stack) \in Seq(B) /\ ToSet(stack) = ToSet(Front(stack)) \cup {x}
  <2>1. stack \in Seq(B)
    BY DEF Typed
  <2> HIDE DEF B
  <2> QED BY <1>1, <2>1, PopItems
<1>3. x \in ToSet(stack) /\ b \in cfg.blocks
  BY <1>2
<1>4. /\ fn' = fn /\ cfg' = cfg
      /\ \A c, n : StoresFrom(c, n)' <=> StoresFrom(c, n)
      /\ \A y : Awaits(p, y)' <=> Awaits(p, y)
  BY <1>1, SameSearch
<1>5. /\ \A y \in ToSet(stack) : Awaits(p, y)
      /\ visited \subseteq cfg.blocks
      /\ p[1] \in visited => ~StoresFrom(p[1], p[2] + 1)
      /\ p[1] \notin visited => stack = <<AfterCall(p)>> /\ visited = {}
      /\ \A c \in visited \ {p[1]} : ~StoresFrom(c, 1)
      /\ \A c \in visited : \A d \in Successors(cfg, c) :
            d \in visited \/ \E y \in ToSet(stack) : y[1] = d
  BY DEF Searching
<1>6. CASE SkipVisited
  <2>1. stack' = Front(stack) /\ visited' = visited /\ b \in visited
    BY <1>6 DEF SkipVisited
  <2>2. p[1] \in visited
    BY <1>5, <2>1
  <2> HIDE DEF x
  <2> QED BY <1>2, <1>4, <1>5, <2>1, <2>2 DEF Searching
<1>7. CASE FollowBlock /\ phase' = "cei"
  <2> DEFINE start == x[2]
             q == [i \in DOMAIN cfg.succ[b] |-> <<cfg.succ[b][i], 1>>]
  <2>1. /\ visited' = visited \cup {b} /\ b \notin visited /\ ~StoresFrom(b, start)
        /\ stack' = Front(stack) \o q
    BY <1>7 DEF FollowBlock, SuccessorStart
  <2>2. /\ q \in Seq(B) /\ ToSet(q) = {<<c, 1>> : c \in Successors(cfg, b)}
        /\ Successors(cfg, b) \subseteq cfg.blocks
    BY <1>3, Pushed
  <2>3. ToSet(stack') = ToSet(Front(stack)) \cup ToSet(q)
    <3> HIDE DEF B, x, q
    <3> QED BY <1>2, <2>1, <2>2, AppendItems
  <2>4. b = p[1] \/ b \in ReachableFrom(cfg, p[1])
    BY <1>3, <1>5 DEF Awaits, AfterCall
  <2>5. Successors(cfg, b) \subseteq ReachableFrom(cfg, p[1])
    <3>1. WellFormed(cfg) /\ cfg = Cfg(fn)
      BY AtHand, FunctionFacts DEF Typed
    <3>2. p[1] \in cfg.blocks
      BY <3>1, CallPointFacts
    <3> QED BY <2>4, <3>1, <3>2, ReachableFacts
  <2>6. \A y \in ToSet(stack') : Awaits(p, y)
    <3>1. \A y \in ToSet(q) : Awaits(p, y)
      BY <2>2, <2>5 DEF Awaits
    <3> QED BY <1>2, <1>5, <2>3, <3>1
  <2>7. p[1] \in visited' /\ ~StoresFrom(p[1], p[2] + 1)
    <3>1. CASE p[1] \in visited
      BY <1>5, <2>1, <3>1
    <3>2. CASE p[1] \notin visited
      <4>1. stack = <<AfterCall(p)>>
        BY <1>5, <3>2
      <4>2. x = AfterCall(p)
        BY <4>1 DEF Last
      <4>3. b = p[1] /\ start = p[2] + 1
        BY <4>2 DEF AfterCall
      <4> QED BY <2>1, <4>3
    <3> QED BY <3>1, <3>2
  <2>8. \A c \in visited' \ {p[1]} : ~StoresFrom(c, 1)
    <3>1. b # p[1] => start = 1
      BY <1>3, <1>5 DEF Awaits, AfterCall
    <3> QED BY <1>5, <2>1, <3>1
  <2>9. \A c \in visited' : \A d \in Successors(cfg, c) :
           d \in visited' \/ \E y \in ToSet(stack') : y[1] = d
    <3>1. \A d \in Successors(cfg, b) : <<d, 1>> \in ToSet(stack') /\ <<d, 1>>[1] = d
      BY <2>2, <2>3
    <3>2. \A y \in ToSet(stack) : y \in ToSet(stack') \/ y[1] = b
      BY <1>2, <2>3
    <3> HIDE DEF x, b
    <3> QED BY <1>5, <2>1, <3>1, <3>2
  <2>10. visited' \subseteq cfg.blocks
    BY <1>3, <1>5, <2>1
  <2> HIDE DEF x, b, q, start
  <2> QED BY <1>4, <2>6, <2>7, <2>8, <2>9, <2>10 DEF Searching
<1> QED BY <1>6, <1>7

LEMMA TurnStep ==
    ASSUME Typed, SearchesDone, SkipVisited \/ (FollowBlock /\ phase' = "cei")
    PROVE  SearchesDone'
<1>1. /\ phase = "cei" /\ phase' = "cei" /\ stack # <<>> /\ pending' = pending
      /\ UNCHANGED <<contract, k, code>>
  BY DEF SkipVisited, FollowBlock
<1>2. /\ pending \subseteq CallPoints(fn) /\ cfg.modifier = "Checked"
      /\ \E p \in CallPoints(fn) : Searching(p)
      /\ \A p \in CallPoints(fn) \ pending : Cleared(fn, p) \/ Searching(p)
  BY <1>1 DEF SearchesDone
<1>3. \A p \in CallPoints(fn) : Searching(p) => Searching(p)'
  BY <1>1, SearchGoesOn
<1>4. /\ cfg' = cfg /\ CallPoints(fn)' = CallPoints(fn) /\ \A p : Cleared(fn, p)' <=> Cleared(fn, p)
  BY <1>1, SameSearch
<1>5. EffectsFirstButForLoops'
  <2>1. Accepted' = Accepted /\ EffectsFirstButForLoops
    BY <1>1 DEF Accepted, SearchesDone
  <2> QED BY <1>1, <2>1, AcceptedStay
<1>6. RefusedForCause'
  BY <1>1 DEF RefusedForCause
<1> QED BY <1>1, <1>2, <1>3, <1>4, <1>5, <1>6 DEF SearchesDone

(* A store is found: it is on a path from the call searched from.           *)
LEMMA FoundStep ==
    ASSUME Typed, SearchesDone, FollowBlock, phase' # "cei"
    PROVE  SearchesDone'
<1> DEFINE x == Last(stack)
           b == x[1]
           B == cfg.blocks \X Nat
<1>1. /\ phase = "cei" /\ phase' = "error" /\ stack # <<>> /\ StoresFrom(b, x[2])
      /\ UNCHANGED <<contract, k, code>>
  BY DEF FollowBlock
<1>2. x \in B /\ x \in ToSet(stack)
  <2>1. stack \in Seq(B)
    BY <1>1 DEF Typed
  <2> HIDE DEF B
  <2> QED BY <1>1, <2>1, PopItems
<1>3. cfg.modifier = "Checked"
  BY <1>1 DEF SearchesDone
<1>4. PICK p \in CallPoints(fn) : Searching(p)
  BY <1>1 DEF SearchesDone
<1>5. Awaits(p, x)
  BY <1>2, <1>4 DEF Searching
<1>6. b \in cfg.blocks /\ code[<<fn, b>>] \in Seq(Emitted) /\ cfg = Cfg(fn)
  BY <1>1, <1>2, AtHand, PointFacts DEF Typed
<1>7. PICK i \in x[2] .. Len(code[<<fn, b>>]) : code[<<fn, b>>][i].op = "Store"
  BY <1>1 DEF StoresFrom
<1>8. x[2] \in Nat /\ x[2] >= 1 /\ (b # p[1] => b \in ReachableFrom(cfg, p[1]))
      /\ (b = p[1] => b \in ReachableFrom(cfg, p[1]) \/ (x[2] = p[2] + 1 /\ p[2] \in Nat))
  <2>1. CASE x = AfterCall(p)
    <3>1. p[1] \in cfg.blocks /\ p[2] \in DOMAIN code[<<fn, p[1]>>]
      BY <1>6, CallPointFacts
    <3>2. code[<<fn, p[1]>>] \in Seq(Emitted)
      BY <1>1, <3>1, PointFacts
    <3>3. p[2] \in Nat /\ p[2] >= 1
      BY <3>1, <3>2
    <3> QED BY <2>1, <3>3 DEF AfterCall
  <2>2. CASE b \in ReachableFrom(cfg, p[1]) /\ x[2] = 1
    BY <2>2
  <2> QED BY <1>5, <2>1, <2>2 DEF Awaits
<1> DEFINE q == <<b, i>>
<1>9. q[1] = b /\ q[2] = i /\ i \in DOMAIN code[<<fn, b>>] /\ i \in Nat
  BY <1>6, <1>7, <1>8
<1>10. q \in Points(fn) /\ At(fn, q).op = "Store"
  BY <1>6, <1>7, <1>9, AtPoint DEF At
<1>11. (q[1] = p[1] /\ q[2] > p[2]) \/ q[1] \in ReachableFrom(Cfg(fn), p[1])
  BY <1>6, <1>7, <1>8, <1>9
<1>12. q \in StoresAfter(fn, p)
  BY <1>10, <1>11 DEF StoresAfter
<1>13. /\ cfg' = cfg /\ CallPoints(fn)' = CallPoints(fn) /\ StoresAfter(fn, p)' = StoresAfter(fn, p)
  BY <1>1, SameSearch
<1> HIDE DEF x, b, q
<1>14. RefusedForCause'
  BY <1>3, <1>12, <1>13 DEF RefusedForCause
<1>15. EffectsFirstButForLoops'
  <2>1. Accepted' = Accepted /\ EffectsFirstButForLoops
    BY <1>1 DEF Accepted, SearchesDone
  <2> QED BY <1>1, <2>1, AcceptedStay
<1> QED BY <1>1, <1>14, <1>15 DEF SearchesDone

LEMMA CheckCallStep ==
    ASSUME Typed, SearchesDone, CheckCall
    PROVE  SearchesDone'
<1>1. /\ phase = "cei" /\ phase' = "cei" /\ stack = <<>> /\ visited' = {}
      /\ UNCHANGED <<contract, k, code>>
  BY DEF CheckCall, VisitedBefore
<1>2. PICK p \in pending : pending' = pending \ {p} /\ stack' = <<AfterCall(p)>>
  BY DEF CheckCall
<1>3. /\ pending \subseteq CallPoints(fn) /\ cfg.modifier = "Checked"
      /\ \A q \in CallPoints(fn) \ pending : Cleared(fn, q) \/ Searching(q)
  BY <1>1, <1>2 DEF SearchesDone
<1>4. /\ cfg' = cfg /\ CallPoints(fn)' = CallPoints(fn)
      /\ \A q : Cleared(fn, q)' <=> Cleared(fn, q)
      /\ Awaits(p, AfterCall(p))'
  BY <1>1, SameSearch DEF Awaits, AfterCall
<1>5. Searching(p)'
  <2>1. ToSet(stack') = {AfterCall(p)}
    BY <1>2 DEF ToSet
  <2> QED BY <1>1, <1>2, <1>4, <2>1 DEF Searching
<1>6. \A q \in CallPoints(fn) \ pending : Cleared(fn, q)
  BY <1>1, <1>3, SearchEnds
<1>7. EffectsFirstButForLoops'
  <2>1. Accepted' = Accepted /\ EffectsFirstButForLoops
    BY <1>1 DEF Accepted, SearchesDone
  <2> QED BY <1>1, <2>1, AcceptedStay
<1>8. RefusedForCause'
  BY <1>1 DEF RefusedForCause
<1> QED BY <1>1, <1>2, <1>3, <1>4, <1>5, <1>6, <1>7, <1>8 DEF SearchesDone

LEMMA AcceptStep ==
    ASSUME Typed, SearchesDone, AcceptFunction
    PROVE  SearchesDone'
<1>1. /\ phase = "cei" /\ phase' \in {"done", "states"} /\ stack = <<>> /\ pending = {} /\ k' = k + 1
      /\ contract' = contract /\ code' = code
  BY DEF AcceptFunction
<1>2. k \in Nat /\ fn = contract.order[k] /\ cfg = Cfg(fn)
  BY <1>1, AtHand DEF Typed
<1>3. \A f \in Accepted' : f \in Accepted \/ f = fn
  <2>1. Accepted' = {contract.order[j] : j \in 1 .. (k + 1) - 1}
    BY <1>1 DEF Accepted
  <2>2. Accepted = {contract.order[j] : j \in 1 .. k - 1}
    BY <1>1 DEF Accepted
  <2>3. \A j \in 1 .. (k + 1) - 1 : j \in 1 .. k - 1 \/ j = k
    BY <1>2
  <2> QED BY <1>2, <2>1, <2>2, <2>3
<1>4. Cfg(fn).modifier = "Checked" => \A p \in CallPoints(fn) : Cleared(fn, p)
  <2>1. cfg.modifier = "Checked" => \A p \in CallPoints(fn) : Cleared(fn, p) \/ Searching(p)
    BY <1>1 DEF SearchesDone
  <2> QED BY <1>1, <1>2, <2>1, SearchEnds
<1>5. \A f \in Accepted' : Cfg(f).modifier = "Checked" => \A p \in CallPoints(f) : Cleared(f, p)
  BY <1>3, <1>4 DEF SearchesDone, EffectsFirstButForLoops, Cleared
<1>6. \A f : /\ Cfg(f)' = Cfg(f) /\ CallPoints(f)' = CallPoints(f)
             /\ \A p : Cleared(f, p)' <=> Cleared(f, p)
  BY <1>1, SamePoints DEF Cfg
<1>7. \A f \in Accepted' : Cfg(f)'.modifier = "Checked" => \A p \in CallPoints(f)' : Cleared(f, p)'
  BY <1>5, <1>6
<1> QED BY <1>1, <1>7 DEF SearchesDone, EffectsFirstButForLoops, RefusedForCause, Cleared

LEMMA ChecksStep ==
    ASSUME Typed, SearchesDone, Check
    PROVE  SearchesDone'
<1>1. CASE StartChecks
  <2>1. /\ phase = "insert" /\ phase' = "cei" /\ stack' = <<>>
        /\ pending' = IF cfg.modifier = "Checked" THEN CallPoints(fn) ELSE {}
        /\ UNCHANGED <<contract, k, code>>
    BY <1>1 DEF StartChecks
  <2>2. cfg' = cfg /\ CallPoints(fn)' = CallPoints(fn)
    BY <2>1, SameSearch
  <2>3. Accepted' = Accepted /\ EffectsFirstButForLoops
    BY <2>1 DEF Accepted, SearchesDone
  <2>4. EffectsFirstButForLoops'
    BY <2>1, <2>3, AcceptedStay
  <2> QED BY <2>1, <2>2, <2>4 DEF SearchesDone, RefusedForCause
<1>2. CASE RejectConstantWrite
  <2>1. /\ phase = "cei" /\ phase' = "error" /\ WritesConstant(fn) /\ UNCHANGED <<contract, k, code>>
    BY <1>2 DEF RejectConstantWrite
  <2>2. WritesConstant(fn)'
    BY <2>1, SameSearch
  <2>3. Accepted' = Accepted /\ EffectsFirstButForLoops
    BY <2>1 DEF Accepted, SearchesDone
  <2>4. EffectsFirstButForLoops'
    BY <2>1, <2>3, AcceptedStay
  <2> QED BY <2>1, <2>2, <2>4 DEF SearchesDone, RefusedForCause
<1> QED BY <1>1, <1>2, TurnStep, FoundStep, CheckCallStep, AcceptStep DEF Check

LEMMA SearchesStep ==
    ASSUME Typed, SearchesDone, [Next]_vars
    PROVE  SearchesDone'
<1>1. EffectsFirstButForLoops
  BY DEF SearchesDone
<1>2. CASE FinishBlock
  <2>1. /\ phase = "insert" /\ phase' = "insert" /\ contract' = contract /\ k' = k
        /\ \A p \in DOMAIN code : p # <<fn, block>> => code'[p] = code[p]
    BY <1>2 DEF FinishBlock, AtBlockEnd
  <2>2. Accepted' = Accepted
    BY <2>1 DEF Accepted
  <2>3. ASSUME NEW f \in Accepted, NEW b \in Cfg(f).blocks
        PROVE  code'[<<f, b>>] = code[<<f, b>>]
    <3>1. PICK j \in 1 .. k - 1 : f = contract.order[j]
      BY <2>1, <2>3 DEF Accepted
    <3>2. contract \in Contracts /\ k \in 1 .. Len(contract.order) /\ k \in Nat /\ fn = contract.order[k]
      BY <2>1, AtHand DEF Typed
    <3>3. Len(contract.order) \in Nat
      BY <3>2, OrderFacts
    <3>4. j \in 1 .. Len(contract.order) /\ j # k
      BY <3>1, <3>2, <3>3
    <3>5. f # fn
      BY <3>1, <3>2, <3>4, OrderFacts
    <3>6. <<f, b>> \in DOMAIN code
      BY <2>3 DEF Typed, Rewritten
    <3> QED BY <2>1, <3>5, <3>6
  <2>4. EffectsFirstButForLoops'
    BY <1>1, <2>1, <2>2, <2>3, AcceptedStay
  <2> QED BY <2>1, <2>4 DEF SearchesDone, RefusedForCause
<1>3. CASE Check
  BY <1>3, ChecksStep
<1>4. CASE Search \/ Compute \/ (Insert /\ ~FinishBlock)
  <2>1. /\ phase' \notin {"cei", "error"} /\ contract' = contract /\ code' = code
        /\ \/ phase' = "calls"
           \/ k' = 1 /\ phase' # "calls"
           \/ k' = k /\ phase # "calls" /\ phase' # "calls"
    BY <1>4 DEF Search, Compute, Insert, VisitCallee, SearchNextFunction, StartFirstFunction, VisitBlock,
         StartInsertion, EnterBlock, InsertAtLoad, InsertAtStore, UnfoldBeforeCall, CallUnfolded,
         FoldAfterCall, CallFolded, KeepInstruction, Cleanup, Emit, AtInstruction, AtBlockEnd
  <2>2. Accepted' \subseteq Accepted
    <3>1. CASE phase' = "calls"
      BY <3>1 DEF Accepted
    <3>2. CASE k' = 1 /\ phase' # "calls"
      <4>1. \A j \in 1 .. 1 - 1 : FALSE
        OBVIOUS
      <4> QED BY <3>2, <4>1 DEF Accepted
    <3>3. CASE k' = k /\ phase # "calls" /\ phase' # "calls"
      BY <2>1, <3>3 DEF Accepted
    <3> QED BY <2>1, <3>1, <3>2, <3>3
  <2>3. EffectsFirstButForLoops'
    BY <1>1, <2>1, <2>2, AcceptedStay
  <2> QED BY <2>1, <2>3 DEF SearchesDone, RefusedForCause
<1>5. CASE UNCHANGED vars
  <2>1. /\ UNCHANGED <<contract, k, code>> /\ phase' = phase /\ stack' = stack /\ visited' = visited
        /\ pending' = pending
    BY <1>5 DEF vars, check
  <2>2. Accepted' = Accepted
    BY <2>1 DEF Accepted
  <2>3. EffectsFirstButForLoops'
    BY <1>1, <2>1, <2>2, AcceptedStay
  <2>4. /\ cfg' = cfg /\ fn' = fn /\ CallPoints(fn)' = CallPoints(fn)
        /\ \A p : StoresAfter(fn, p)' = StoresAfter(fn, p)
        /\ \A p : Cleared(fn, p)' <=> Cleared(fn, p)
        /\ WritesConstant(fn)' <=> WritesConstant(fn)
        /\ \A b, n : StoresFrom(b, n)' <=> StoresFrom(b, n)
        /\ \A p, x : Awaits(p, x)' <=> Awaits(p, x)
    BY <2>1, SameSearch
  <2>5. \A p : Searching(p)' <=> Searching(p)
    BY <2>1, <2>4 DEF Searching
  <2>6. RefusedForCause'
    BY <2>1, <2>4 DEF SearchesDone, RefusedForCause
  <2> QED BY <2>1, <2>3, <2>4, <2>5, <2>6 DEF SearchesDone
<1> QED BY <1>2, <1>3, <1>4, <1>5 DEF Next

LEMMA SearchesInvariant == Spec => []SearchesDone
<1>1. Init => SearchesDone
  BY DEF Init, SearchesDone, EffectsFirstButForLoops, RefusedForCause, Accepted
<1>2. Typed /\ SearchesDone /\ [Next]_vars => SearchesDone'
  BY SearchesStep
<1> QED BY <1>1, <1>2, TypedInvariant, PTL DEF Spec

(* In every contract, a Checked function that is accepted has no store on   *)
(* any path after a call that leaves the contract, save a store before the  *)
(* call in the call's own block, reached around a loop: that block is the   *)
(* only one check_no_stores_after_call does not scan whole.                 *)
THEOREM EffectsFirstInvariant == Spec => []EffectsFirstButForLoops
<1>1. SearchesDone => EffectsFirstButForLoops
  BY DEF SearchesDone
<1> QED BY <1>1, SearchesInvariant, PTL

(* In every contract, the analysis refuses a function only for a store on a *)
(* path after such a call, or for a store to a constant: the search along   *)
(* successors never strays to a store no path leads to.                     *)
THEOREM RefusedForCauseInvariant == Spec => []RefusedForCause
<1>1. SearchesDone => RefusedForCause
  BY DEF SearchesDone
<1> QED BY <1>1, SearchesInvariant, PTL
=============================================================================
