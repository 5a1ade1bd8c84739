------------------------------- MODULE Iteration -------------------------------
(***************************************************************************)
(* Induction over numbers, and what the recursive functions of the model   *)
(* compute: a value stepped through a range of numbers, and a set of nodes *)
(* that grows until it is closed.                                          *)
(***************************************************************************)
EXTENDS ControlFlow, FiniteSetTheorems, TLAPS

(* Every set of numbers has a least one.                                    *)
LEMMA LeastNumber ==
    ASSUME NEW T \in SUBSET Nat, T # {}
    PROVE  \E n \in T : \A m \in T : n <= m
<1>1. PICK n \in T : \A m \in T : <<m, n>> \notin OpToRel(<, Nat)
  BY NatLessThanWellFounded, WFMin
<1>2. \A m \in T : ~ (m < n)
  BY <1>1 DEF OpToRel
<1> QED BY <1>2

(* Induction, with the set of the numbers that have the property.           *)
LEMMA Induction ==
    ASSUME NEW S, 0 \in S, \A n \in Nat : n \in S => n + 1 \in S
    PROVE  Nat \subseteq S
<1> SUFFICES ASSUME Nat \ S # {} PROVE FALSE
  OBVIOUS
<1>1. PICK n \in Nat \ S : \A m \in Nat \ S : n <= m
  BY LeastNumber
<1>2. n # 0 /\ n - 1 \in Nat
  BY <1>1
<1>3. n - 1 \in S
  BY <1>1, <1>2
<1> QED BY <1>1, <1>2, <1>3

LEMMA StrongInduction ==
    ASSUME NEW S, \A n \in Nat : (\A m \in Nat : m < n => m \in S) => n \in S
    PROVE  Nat \subseteq S
<1> SUFFICES ASSUME Nat \ S # {} PROVE FALSE
  OBVIOUS
<1>1. PICK n \in Nat \ S : \A m \in Nat \ S : n <= m
  BY LeastNumber
<1>2. \A m \in Nat : m < n => m \in S
  BY <1>1
<1> QED BY <1>1, <1>2

-----------------------------------------------------------------------------
(* A value v0 of V, stepped through a .. b.                                 *)
Stepped(f, a, b, V, v0, step) ==
    /\ f \in [a .. b -> V]
    /\ f = [n \in a .. b |-> IF n = a THEN v0 ELSE step[f[n-1]]]

(* There is such a function, whatever the step: the recursive definitions   *)
(* of the model do define the functions they describe.                     *)
LEMMA SteppedExists ==
    ASSUME NEW a \in Nat, NEW b \in Nat, NEW V, NEW v0 \in V, NEW step \in [V -> V]
    PROVE  \E f : Stepped(f, a, b, V, v0, step)
<1> DEFINE S == {k \in Nat : \E f : Stepped(f, a, a + k, V, v0, step)}
<1>1. 0 \in S
  <2> DEFINE f == [n \in a .. a |-> v0]
  <2>1. f \in [a .. a -> V] /\ f = [n \in a .. a |-> IF n = a THEN v0 ELSE step[f[n-1]]]
    OBVIOUS
  <2>2. a + 0 = a
    OBVIOUS
  <2> HIDE DEF f
  <2> QED BY <2>1, <2>2 DEF Stepped
<1>2. ASSUME NEW k \in Nat, k \in S PROVE k + 1 \in S
  <2>1. PICK f : Stepped(f, a, a + k, V, v0, step)
    BY <1>2
  <2> DEFINE g == [n \in a .. a + (k + 1) |-> IF n = a + k + 1 THEN step[f[a+k]] ELSE f[n]]
  <2>2. f \in [a .. a + k -> V]
    BY <2>1 DEF Stepped
  <2>3. g \in [a .. a + (k + 1) -> V]
    <3>1. a + k \in a .. a + k
      OBVIOUS
    <3>2. step[f[a+k]] \in V
      BY <2>2, <3>1
    <3>3. \A n \in a .. a + (k + 1) : n # a + k + 1 => n \in a .. a + k
      OBVIOUS
    <3> QED BY <2>2, <3>2, <3>3
  <2>4. ASSUME NEW n \in a .. a + (k + 1)
        PROVE  g[n] = IF n = a THEN v0 ELSE step[g[n-1]]
    <3>1. CASE n = a + k + 1
      <4>1. n - 1 = a + k /\ n - 1 \in a .. a + (k + 1) /\ n - 1 # a + k + 1 /\ n # a
        BY <3>1
      <4>2. g[n-1] = f[a+k]
        BY <4>1
      <4>3. g[n] = step[f[a+k]]
        BY <3>1
      <4> QED BY <4>1, <4>2, <4>3
    <3>2. CASE n # a + k + 1
      <4>1. n \in a .. a + k
        BY <3>2
      <4>2. g[n] = f[n]
        BY <3>2
      <4>3. f[n] = IF n = a THEN v0 ELSE step[f[n-1]]
        BY <2>1, <4>1 DEF Stepped
      <4>4. n # a => n - 1 \in a .. a + (k + 1) /\ n - 1 # a + k + 1
        BY <4>1
      <4>5. n # a => g[n-1] = f[n-1]
        BY <4>4
      <4> QED BY <4>2, <4>3, <4>5
    <3> QED BY <3>1, <3>2
  <2> DEFINE rec == [n \in a .. a + (k + 1) |-> IF n = a THEN v0 ELSE step[g[n-1]]]
  <2>5. g = rec
    <3>1. g = [n \in a .. a + (k + 1) |-> g[n]]
      OBVIOUS
    <3> HIDE DEF g
    <3> QED BY <2>4, <3>1
  <2> HIDE DEF g
  <2>6. Stepped(g, a, a + (k + 1), V, v0, step)
    BY <2>3, <2>5 DEF Stepped
  <2> QED BY <2>6
<1>3. Nat \subseteq S
  <2> HIDE DEF S
  <2> QED BY <1>1, <1>2, Induction
<1>4. CASE b >= a
  <2>1. b - a \in Nat /\ a + (b - a) = b
    BY <1>4
  <2>2. b - a \in S
    BY <2>1, <1>3
  <2>3. PICK f : Stepped(f, a, a + (b - a), V, v0, step)
    BY <2>2
  <2> QED BY <2>1, <2>3
<1>5. CASE b < a
  <2>1. a .. b = {}
    BY <1>5
  <2> DEFINE f == [n \in {} |-> v0]
  <2>2. Stepped(f, a, b, V, v0, step)
    BY <2>1 DEF Stepped
  <2> HIDE DEF f
  <2> QED BY <2>2
<1> QED BY <1>4, <1>5

(* The same for a step that depends on its number.                          *)
Counted(f, b, V, v0, step) ==
    /\ f \in [0 .. b -> V]
    /\ f = [n \in 0 .. b |-> IF n = 0 THEN v0 ELSE step[<<n, f[n-1]>>]]

LEMMA CountedExists ==
    ASSUME NEW b \in Nat, NEW V, NEW v0 \in V, NEW step \in [Nat \X V -> V]
    PROVE  \E f : Counted(f, b, V, v0, step)
<1> USE DEF Counted
<1> DEFINE Is(f, k) == Counted(f, k, V, v0, step)
           S == {k \in Nat : \E f : Is(f, k)}
<1>1. 0 \in S
  <2> DEFINE f == [n \in 0 .. 0 |-> v0]
  <2>1. f \in [0 .. 0 -> V] /\ f = [n \in 0 .. 0 |-> IF n = 0 THEN v0 ELSE step[<<n, f[n-1]>>]]
    OBVIOUS
  <2> HIDE DEF f
  <2> QED BY <2>1
<1>2. ASSUME NEW k \in Nat, k \in S PROVE k + 1 \in S
  <2>1. PICK f : Is(f, k)
    BY <1>2
  <2> DEFINE g == [n \in 0 .. k + 1 |-> IF n = k + 1 THEN step[<<k + 1, f[k]>>] ELSE f[n]]
  <2>2. f \in [0 .. k -> V] /\ \A n \in 0 .. k : f[n] = IF n = 0 THEN v0 ELSE step[<<n, f[n-1]>>]
    BY <2>1
  <2>3. g \in [0 .. k + 1 -> V]
    <3>1. f[k] \in V /\ <<k + 1, f[k]>> \in Nat \X V
      BY <2>2
    <3>2. step[<<k + 1, f[k]>>] \in V
      BY <3>1
    <3>3. \A n \in 0 .. k + 1 : n # k + 1 => n \in 0 .. k
      OBVIOUS
    <3> QED BY <2>2, <3>2, <3>3
  <2>4. ASSUME NEW n \in 0 .. k + 1
        PROVE  g[n] = IF n = 0 THEN v0 ELSE step[<<n, g[n-1]>>]
    <3>1. CASE n = k + 1
      <4>1. n - 1 = k /\ n - 1 \in 0 .. k + 1 /\ n - 1 # k + 1 /\ n # 0
        BY <3>1
      <4>2. g[n-1] = f[k]
        BY <4>1
      <4>3. g[n] = step[<<k + 1, f[k]>>]
        BY <3>1
      <4> QED BY <3>1, <4>1, <4>2, <4>3
    <3>2. CASE n # k + 1
      <4>1. n \in 0 .. k /\ g[n] = f[n]
        BY <3>2
      <4>2. n # 0 => n - 1 \in 0 .. k + 1 /\ n - 1 # k + 1
        BY <4>1
      <4>3. n # 0 => g[n-1] = f[n-1]
        BY <4>2
      <4> QED BY <2>2, <4>1, <4>3
    <3> QED BY <3>1, <3>2
  <2> DEFINE rec == [n \in 0 .. k + 1 |-> IF n = 0 THEN v0 ELSE step[<<n, g[n-1]>>]]
  <2>5. g = rec
    <3>1. g = [n \in 0 .. k + 1 |-> g[n]]
      OBVIOUS
    <3> HIDE DEF g
    <3> QED BY <2>4, <3>1
  <2> HIDE DEF g
  <2>6. Is(g, k + 1)
    BY <2>3, <2>5
  <2> HIDE DEF Is
  <2>7. (k + 1 \in Nat) /\ \E h : Is(h, k + 1)
    BY <2>6
  <2> QED BY <2>7
<1>3. Nat \subseteq S
  <2> HIDE DEF S
  <2> QED BY <1>1, <1>2, Induction
<1> QED BY <1>3

(* A function that follows the recursion is such a function.                *)
LEMMA SolutionStepped ==
    ASSUME NEW a \in Nat, NEW b \in Nat, NEW V, NEW v0 \in V, NEW step \in [V -> V],
           NEW h, h = [n \in a .. b |-> h[n]], a <= b => h[a] = v0,
           \A n \in a + 1 .. b : h[n-1] \in V => h[n] = step[h[n-1]]
    PROVE  Stepped(h, a, b, V, v0, step)
<1> DEFINE S == {k \in Nat : a + k <= b => h[a + k] \in V}
<1>1. 0 \in S
  OBVIOUS
<1>2. ASSUME NEW k \in Nat, k \in S PROVE k + 1 \in S
  <2> SUFFICES ASSUME a + (k + 1) <= b PROVE h[a + (k + 1)] \in V
    OBVIOUS
  <2>1. a + (k + 1) \in a + 1 .. b /\ (a + (k + 1)) - 1 = a + k /\ a + k <= b
    OBVIOUS
  <2>2. h[a + k] \in V
    BY <1>2, <2>1
  <2>3. h[a + (k + 1)] = step[h[a + k]]
    BY <2>1, <2>2
  <2> QED BY <2>2, <2>3
<1>3. Nat \subseteq S
  <2> HIDE DEF S
  <2> QED BY <1>1, <1>2, Induction
<1>4. ASSUME NEW n \in a .. b PROVE h[n] \in V
  <2>1. n - a \in Nat /\ a + (n - a) = n
    OBVIOUS
  <2>2. n - a \in S
    BY <2>1, <1>3
  <2> QED BY <2>1, <2>2
<1>5. ASSUME NEW n \in a .. b PROVE h[n] = IF n = a THEN v0 ELSE step[h[n-1]]
  <2>1. n = a => h[n] = v0
    OBVIOUS
  <2>2. n # a => n \in a + 1 .. b /\ n - 1 \in a .. b
    OBVIOUS
  <2>3. n # a => h[n] = step[h[n-1]]
    BY <2>2, <1>4
  <2> QED BY <2>1, <2>3
<1> QED BY <1>4, <1>5 DEF Stepped

-----------------------------------------------------------------------------
(* A set of nodes that only grows, by a step that keeps it inside a finite  *)
(* set of nodes, for as many steps as there are nodes missing at the start. *)
Growing(f, a, b, nodes, start, step) ==
    /\ IsFiniteSet(nodes)
    /\ step \in [SUBSET nodes -> SUBSET nodes]
    /\ \A X \in SUBSET nodes : X \subseteq step[X]
    /\ start \in SUBSET nodes /\ a \in Nat /\ b \in Nat /\ a <= b
    /\ step[start] = start \/ Cardinality(start) + (b - a) >= Cardinality(nodes)
    /\ Stepped(f, a, b, SUBSET nodes, start, step)

(* Then it ends closed: every step adds a node or changes nothing.          *)
LEMMA Saturation ==
    ASSUME NEW f, NEW a, NEW b, NEW nodes, NEW start, NEW step,
           Growing(f, a, b, nodes, start, step)
    PROVE  f[b] \in SUBSET nodes /\ start \subseteq f[b] /\ step[f[b]] = f[b]
<1> USE DEF Growing
<1> DEFINE At(k) == f[a + k]
           Full(k) == step[At(k)] = At(k) \/ Cardinality(At(k)) >= Cardinality(start) + k
           S == {k \in Nat : a + k <= b =>
                    At(k) \in SUBSET nodes /\ start \subseteq At(k)
                    /\ Full(k) /\ (step[start] = start => At(k) = start)}
<1>1. \A X \in SUBSET nodes : IsFiniteSet(X) /\ Cardinality(X) \in Nat
  BY FS_Subset, FS_CardinalityType
<1>2. 0 \in S
  <2>1. a \in a .. b /\ f[a] = start
    BY DEF Stepped
  <2>2. At(0) = start
    BY <2>1
  <2>3. Cardinality(start) >= Cardinality(start) + 0
    BY <1>1
  <2> QED BY <2>2, <2>3
<1>3. ASSUME NEW k \in Nat, k \in S PROVE k + 1 \in S
  <2> SUFFICES ASSUME a + (k + 1) <= b
               PROVE  /\ At(k + 1) \in SUBSET nodes /\ start \subseteq At(k + 1)
                      /\ Full(k + 1) /\ (step[start] = start => At(k + 1) = start)
    OBVIOUS
  <2>1. /\ a + (k + 1) \in a .. b /\ a + (k + 1) # a /\ (a + (k + 1)) - 1 = a + k
        /\ a + k <= b
    OBVIOUS
  <2>2. At(k + 1) = step[At(k)]
    BY <2>1 DEF Stepped
  <2>3. /\ At(k) \in SUBSET nodes /\ start \subseteq At(k) /\ Full(k)
        /\ (step[start] = start => At(k) = start)
    BY <1>3, <2>1
  <2> HIDE DEF S, At
  <2>4. At(k + 1) \in SUBSET nodes /\ At(k) \subseteq At(k + 1)
    BY <2>2, <2>3
  <2>5. CASE step[At(k)] = At(k)
    BY <2>2, <2>3, <2>4, <2>5
  <2>6. CASE step[At(k)] # At(k)
    <3>1. Cardinality(At(k)) <= Cardinality(At(k + 1)) /\ Cardinality(At(k)) # Cardinality(At(k + 1))
      BY <2>2, <2>4, <2>6, <1>1, FS_Subset
    <3>2. Cardinality(At(k + 1)) >= Cardinality(start) + (k + 1)
      BY <3>1, <2>3, <2>4, <2>6, <1>1
    <3>3. step[start] # start
      BY <2>3, <2>6
    <3> QED BY <3>2, <3>3, <2>3, <2>4
  <2> QED BY <2>5, <2>6
<1>4. b - a \in Nat /\ a + (b - a) = b
  OBVIOUS
<1>5. b - a \in S
  <2> HIDE DEF S
  <2> QED BY <1>2, <1>3, <1>4, Induction
<1>6. At(b - a) = f[b]
  BY <1>4
<1>7. f[b] \in SUBSET nodes /\ start \subseteq f[b] /\ (step[start] = start => f[b] = start)
  BY <1>4, <1>5, <1>6
<1>8. step[f[b]] = f[b] \/ Cardinality(f[b]) >= Cardinality(start) + (b - a)
  BY <1>4, <1>5, <1>6
<1>9. CASE Cardinality(f[b]) >= Cardinality(nodes)
  <2>1. Cardinality(f[b]) <= Cardinality(nodes) /\ (Cardinality(f[b]) = Cardinality(nodes) => nodes = f[b])
    BY <1>7, FS_Subset
  <2>2. f[b] = nodes
    BY <2>1, <1>9, <1>1, <1>7
  <2> QED BY <2>2, <1>7
<1>10. CASE ~ Cardinality(f[b]) >= Cardinality(nodes)
  <2>1. step[start] = start \/ step[f[b]] = f[b]
    BY <1>8, <1>10, <1>1, <1>7, <1>4
  <2> QED BY <2>1, <1>7
<1> QED BY <1>9, <1>10

(* And it never leaves a set that holds the start and what a step adds to   *)
(* the nodes of that set.                                                  *)
LEMMA GrowsInside ==
    ASSUME NEW f, NEW a, NEW b, NEW nodes, NEW start, NEW step,
           Growing(f, a, b, nodes, start, step),
           NEW C, start \subseteq C, \A X \in SUBSET nodes : X \subseteq C => step[X] \subseteq C
    PROVE  f[b] \subseteq C
<1> USE DEF Growing
<1> DEFINE V == SUBSET nodes
<1> DEFINE S == {k \in Nat : a + k <= b => f[a + k] \in V /\ f[a + k] \subseteq C}
<1>1. 0 \in S
  <2>1. a \in a .. b /\ f[a] = start
    BY DEF Stepped
  <2>2. a + 0 = a
    OBVIOUS
  <2> QED BY <2>1, <2>2
<1>2. ASSUME NEW k \in Nat, k \in S PROVE k + 1 \in S
  <2> SUFFICES ASSUME a + (k + 1) <= b
               PROVE  f[a + (k + 1)] \in V /\ f[a + (k + 1)] \subseteq C
    OBVIOUS
  <2>1. /\ a + (k + 1) \in a .. b /\ a + (k + 1) # a /\ (a + (k + 1)) - 1 = a + k
        /\ a + k <= b
    OBVIOUS
  <2>2. f[a + (k + 1)] = step[f[a + k]]
    BY <2>1 DEF Stepped
  <2>3. f[a + k] \in V /\ f[a + k] \subseteq C
    BY <1>2, <2>1
  <2> QED BY <2>2, <2>3
<1>3. b - a \in Nat /\ a + (b - a) = b
  OBVIOUS
<1>4. b - a \in S
  <2> HIDE DEF S
  <2> QED BY <1>1, <1>2, <1>3, Induction
<1> QED BY <1>3, <1>4

(* Reach is the smallest set that holds the steps from x and from its own   *)
(* nodes.                                                                  *)
LEMMA ReachFacts ==
    ASSUME NEW nodes, IsFiniteSet(nodes), NEW next \in [nodes -> SUBSET nodes], NEW x \in nodes
    PROVE  /\ Reach(nodes, next, x) \in SUBSET nodes
           /\ next[x] \subseteq Reach(nodes, next, x)
           /\ \A y \in Reach(nodes, next, x) : next[y] \subseteq Reach(nodes, next, x)
           /\ \A C : next[x] \subseteq C /\ (\A y \in C \cap nodes : next[y] \subseteq C)
                     => Reach(nodes, next, x) \subseteq C
<1> DEFINE n == Cardinality(nodes)
           V == SUBSET nodes
           step == [X \in V |-> X \cup UNION {next[y] : y \in X}]
           start == next[x]
<1>1. n \in Nat /\ n >= 1
  BY FS_CardinalityType, FS_EmptySet
<1>2. step \in [V -> V] /\ start \in V /\ \A X \in V : X \subseteq step[X]
  OBVIOUS
<1>3. PICK f : Stepped(f, 1, n, V, start, step)
  <2> HIDE DEF V, step, start, n
  <2> QED BY <1>1, <1>2, SteppedExists
<1> DEFINE rec(h) == [k \in 1 .. n |-> IF k = 1 THEN next[x]
                           ELSE LET nearer == h[k-1] IN nearer \cup UNION {next[y] : y \in nearer}]
<1>4. f = rec(f)
  <2>1. \A k \in 1 .. n : k # 1 => k - 1 \in 1 .. n
    BY <1>1
  <2>2. \A k \in 1 .. n : k # 1 => step[f[k-1]] = f[k-1] \cup UNION {next[y] : y \in f[k-1]}
    BY <1>3, <2>1 DEF Stepped
  <2> QED BY <1>3, <2>2 DEF Stepped
<1>5. PICK h : h = rec(h) /\ Reach(nodes, next, x) = h[n]
  <2>1. (CHOOSE h : h = rec(h)) = rec(CHOOSE h : h = rec(h))
    BY <1>4
  <2> QED BY <2>1 DEF Reach
<1>6. Stepped(h, 1, n, V, start, step)
  <2> DEFINE body == rec(h)
  <2>1. h = body
    BY <1>5
  <2>2. DOMAIN h = 1 .. n /\ h = [k \in 1 .. n |-> h[k]]
    BY <2>1
  <2>3. h[1] = start
    BY <2>1, <1>1
  <2>4. ASSUME NEW k \in 1 + 1 .. n, h[k-1] \in V PROVE h[k] = step[h[k-1]]
    <3>1. k \in 1 .. n /\ k # 1
      BY <1>1
    <3>2. h[k] = h[k-1] \cup UNION {next[y] : y \in h[k-1]}
      BY <2>1, <3>1
    <3> QED BY <2>4, <3>2
  <2> HIDE DEF V, step, start, body, n
  <2> QED BY <2>2, <2>3, <2>4, <1>1, <1>2, SolutionStepped
<1>7. step[start] = start \/ Cardinality(start) + (n - 1) >= n
  <2>1. CASE start = {}
    BY <2>1, <1>2
  <2>2. CASE start # {}
    <3>1. IsFiniteSet(start) /\ Cardinality(start) \in Nat
      BY <1>2, FS_Subset, FS_CardinalityType
    <3>2. Cardinality(start) # 0
      BY <2>2, <3>1, FS_EmptySet
    <3> QED BY <3>1, <3>2, <1>1
  <2> QED BY <2>1, <2>2
<1>8. Growing(h, 1, n, nodes, start, step)
  <2> HIDE DEF step, start
  <2> QED BY <1>1, <1>2, <1>6, <1>7 DEF Growing
<1>9. h[n] \in V /\ start \subseteq h[n] /\ step[h[n]] = h[n]
  <2> HIDE DEF step, start, n
  <2> QED BY <1>8, Saturation
<1>10. \A y \in h[n] : next[y] \subseteq h[n]
  BY <1>9
<1>11. ASSUME NEW C, next[x] \subseteq C, \A y \in C \cap nodes : next[y] \subseteq C
       PROVE  h[n] \subseteq C
  <2>1. \A X \in V : X \subseteq C => step[X] \subseteq C
    BY <1>11
  <2>2. start \subseteq C
    BY <1>11
  <2> HIDE DEF V, step, start, n
  <2> QED BY <1>8, <2>1, <2>2, GrowsInside DEF V
<1>12. \A C : next[x] \subseteq C /\ (\A y \in C \cap nodes : next[y] \subseteq C) => h[n] \subseteq C
  BY <1>11
<1>13. h[n] \in SUBSET nodes /\ next[x] \subseteq h[n]
  BY <1>9
<1>14. Reach(nodes, next, x) = h[n]
  BY <1>5
<1> HIDE DEF n
<1> QED BY <1>10, <1>12, <1>13, <1>14

(* The blocks reached from block x: the least set that holds the successors *)
(* of x and those of its own blocks.                                       *)
LEMMA ReachableFacts ==
    ASSUME NEW g, WellFormed(g), NEW x \in g.blocks
    PROVE  /\ ReachableFrom(g, x) \subseteq g.blocks
           /\ \A y \in ReachableFrom(g, x) \cup {x} : Successors(g, y) \subseteq ReachableFrom(g, x)
           /\ \A C : (\A y \in (C \cap g.blocks) \cup {x} : Successors(g, y) \subseteq C)
                     => ReachableFrom(g, x) \subseteq C
<1> DEFINE next == [c \in g.blocks |-> Successors(g, c)]
<1>1. IsFiniteSet(g.blocks) /\ next \in [g.blocks -> SUBSET g.blocks]
  BY DEF WellFormed
<1>2. \A c \in g.blocks : next[c] = Successors(g, c)
  OBVIOUS
<1>3. ReachableFrom(g, x) = Reach(g.blocks, next, x)
  BY DEF ReachableFrom
<1> HIDE DEF next
<1>4. /\ Reach(g.blocks, next, x) \in SUBSET g.blocks
      /\ next[x] \subseteq Reach(g.blocks, next, x)
      /\ \A y \in Reach(g.blocks, next, x) : next[y] \subseteq Reach(g.blocks, next, x)
      /\ \A C : next[x] \subseteq C /\ (\A y \in C \cap g.blocks : next[y] \subseteq C)
                => Reach(g.blocks, next, x) \subseteq C
  BY <1>1, ReachFacts
<1> QED BY <1>2, <1>3, <1>4
=============================================================================
