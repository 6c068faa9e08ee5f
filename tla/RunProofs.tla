----------------------------- MODULE RunProofs -----------------------------
(***************************************************************************)
(* A run: the plan it is given, the handoffs on its way, and its end.      *)
(*                                                                         *)
(* A plan that is accepted stands in its planner's order, has no circle    *)
(* and runs to its end; a continuation of it repeats the failures, what    *)
(* rests on them, and no more.  The chain of handoffs keeps its budget and *)
(* shares it fairly.  All for every squad, every plan, every request and   *)
(* all lengths.                                                            *)
(*                                                                         *)
(* Who settles a run, and that its row, its member, its dispatch and its   *)
(* user agree about how it ended: for any number of foreground and         *)
(* background runs, any number of crashes, any history limit, storage that *)
(* fails and hosts that refuse jobs.                                       *)
(*                                                                         *)
(* Passes, waves and sums are recursions over the indices of a sequence.   *)
(* A least counterexample takes each of them apart once: what it needs is  *)
(* a set of numbers that holds 0 and each k with k - 1.                    *)
(***************************************************************************)
EXTENDS RunLifecycle, ContinuationPlan, HandoffChain, SequenceTheorems, FiniteSetTheorems, WellFoundedInduction, TLAPS

(***************************************************************************)
(* Numbers, sequences as sets, and iterations.                             *)
(***************************************************************************)
LEMMA Least ==
  ASSUME NEW S \in SUBSET Nat, S # {}
  PROVE  \E x \in S : \A y \in S : x <= y
<1>1. \E x \in S : \A y \in S : <<y, x>> \notin OpToRel(<, Nat)
  BY WFMin, NatLessThanWellFounded
<1>2. \A x, y \in Nat : y < x => <<y, x>> \in OpToRel(<, Nat)
  BY DEF OpToRel
<1>3. \E x \in S : \A y \in S : ~(y < x)
  BY <1>1, <1>2, Zenon
<1> QED
  BY <1>3

LEMMA SetOf ==
  ASSUME NEW S, NEW s \in Seq(S)
  PROVE  /\ Len(s) \in Nat /\ DOMAIN s = 1..Len(s) /\ s \in [1..Len(s) -> S]
         /\ ToSet(s) = {s[i] : i \in 1..Len(s)} /\ ToSet(s) \subseteq S
         /\ \A x \in ToSet(s) : \E i \in 1..Len(s) : x = s[i]
         /\ \A i \in 1..Len(s) : s[i] \in ToSet(s)
  BY DEF ToSet

LEMMA AppendSet ==
  ASSUME NEW S, NEW s \in Seq(S), NEW x \in S
  PROVE  /\ Append(s, x) \in Seq(S) /\ Len(Append(s, x)) = Len(s) + 1
         /\ ToSet(Append(s, x)) = ToSet(s) \union {x}
         /\ IsInjective(s) /\ x \notin ToSet(s) => IsInjective(Append(s, x))
<1> DEFINE t == Append(s, x)
           n == Len(s)
<1>1. t \in Seq(S) /\ Len(t) = n + 1 /\ n \in Nat /\ t[n + 1] = x /\ \A i \in 1..n : t[i] = s[i]
  OBVIOUS
<1>2. DOMAIN t = 1..(n + 1) /\ DOMAIN s = 1..n
  BY <1>1
<1> HIDE DEF t, n
<1>3. ToSet(t) = ToSet(s) \union {x}
  <2>1. \A i \in 1..(n + 1) : i \in 1..n \/ i = n + 1
    BY <1>1
  <2>2. \A i \in 1..n : i \in 1..(n + 1)
    BY <1>1
  <2>3. n + 1 \in 1..(n + 1)
    BY <1>1
  <2> QED
    BY <1>1, <1>2, <2>1, <2>2, <2>3 DEF ToSet
<1>4. ASSUME IsInjective(s), x \notin ToSet(s)
      PROVE  IsInjective(t)
  <2>1. \A i \in 1..n : s[i] # x
    BY <1>2, <1>4 DEF ToSet
  <2> SUFFICES ASSUME NEW i \in 1..(n + 1), NEW j \in 1..(n + 1), t[i] = t[j] PROVE i = j
    BY <1>2 DEF IsInjective
  <2> QED
    BY <1>1, <1>2, <1>4, <2>1 DEF IsInjective
<1> QED
  BY <1>1, <1>3, <1>4 DEF t, n

LEMMA ConcatSet ==
  ASSUME NEW S, NEW s \in Seq(S), NEW t \in Seq(S)
  PROVE  /\ s \o t \in Seq(S) /\ Len(s \o t) = Len(s) + Len(t)
         /\ \A i \in 1..Len(s) : (s \o t)[i] = s[i]
         /\ ToSet(s \o t) = ToSet(s) \union ToSet(t)
         /\ IsInjective(s) /\ IsInjective(t) /\ ToSet(s) \intersect ToSet(t) = {} => IsInjective(s \o t)
<1> DEFINE u == s \o t
           m == Len(s)
           n == Len(t)
<1>1. /\ u \in Seq(S) /\ Len(u) = m + n /\ m \in Nat /\ n \in Nat
      /\ \A i \in 1..(m + n) : u[i] = IF i <= m THEN s[i] ELSE t[i - m]
  BY ConcatProperties
<1>2. DOMAIN u = 1..(m + n) /\ DOMAIN s = 1..m /\ DOMAIN t = 1..n
  BY <1>1
<1> HIDE DEF u, m, n
<1>3. \A i \in 1..m : i \in 1..(m + n) /\ u[i] = s[i]
  BY <1>1
<1>4. \A j \in 1..n : j + m \in 1..(m + n) /\ u[j + m] = t[j]
  BY <1>1
<1>5. \A i \in 1..(m + n) : (i \in 1..m /\ u[i] = s[i]) \/ (i - m \in 1..n /\ u[i] = t[i - m])
  BY <1>1
<1>6. ToSet(u) = ToSet(s) \union ToSet(t)
  <2>1. ToSet(u) \subseteq ToSet(s) \union ToSet(t)
    BY <1>2, <1>5 DEF ToSet
  <2>2. ToSet(s) \subseteq ToSet(u)
    BY <1>2, <1>3 DEF ToSet
  <2>3. ToSet(t) \subseteq ToSet(u)
    BY <1>2, <1>4 DEF ToSet
  <2> QED
    BY <2>1, <2>2, <2>3
<1>7. ASSUME IsInjective(s), IsInjective(t), ToSet(s) \intersect ToSet(t) = {}
      PROVE  IsInjective(u)
  <2>1. \A i \in 1..m, j \in 1..n : s[i] # t[j]
    BY <1>2, <1>7 DEF ToSet
  <2>2. \A i, j \in 1..m : s[i] = s[j] => i = j
    BY <1>2, <1>7 DEF IsInjective
  <2>3. \A i, j \in 1..n : t[i] = t[j] => i = j
    BY <1>2, <1>7 DEF IsInjective
  <2> SUFFICES ASSUME NEW i \in 1..(m + n), NEW j \in 1..(m + n), u[i] = u[j] PROVE i = j
    BY <1>2 DEF IsInjective
  <2>4. CASE i \in 1..m /\ j \in 1..m
    BY <1>3, <2>2, <2>4
  <2>5. CASE i \notin 1..m /\ j \notin 1..m
    <3>1. i - m \in 1..n /\ j - m \in 1..n /\ t[i - m] = t[j - m]
      BY <1>5, <2>5
    <3>2. i - m = j - m
      BY <2>3, <3>1
    <3> QED
      BY <1>1, <3>2
  <2>6. CASE i \in 1..m /\ j \notin 1..m
    BY <1>3, <1>5, <2>1, <2>6
  <2>7. CASE i \notin 1..m /\ j \in 1..m
    BY <1>3, <1>5, <2>1, <2>7
  <2> QED
    BY <2>4, <2>5, <2>6, <2>7
<1> QED
  BY <1>1, <1>3, <1>6, <1>7 DEF u, m, n

\* A sequence without repetition is as long as its set, and no other is.
LEMMA SizeOfSet ==
  ASSUME NEW S, NEW s \in Seq(S)
  PROVE  /\ IsFiniteSet(ToSet(s)) /\ Cardinality(ToSet(s)) \in Nat /\ Cardinality(ToSet(s)) <= Len(s)
         /\ Cardinality(ToSet(s)) = Len(s) <=> IsInjective(s)
<1> DEFINE T == ToSet(s)
           D == 1..Len(s)
<1>1. Len(s) \in Nat /\ DOMAIN s = D /\ s \in [D -> T] /\ \A x \in T : \E i \in D : x = s[i]
  <2>1. \A i \in D : s[i] \in T
    BY SetOf
  <2> QED
    BY <2>1, SetOf
<1> HIDE DEF T
<1>2. IsFiniteSet(D) /\ Cardinality(D) = Len(s)
  <2>1. 1 \in Int /\ Len(s) \in Int
    BY <1>1
  <2>2. IsFiniteSet(D) /\ Cardinality(D) = IF 1 > Len(s) THEN 0 ELSE Len(s) - 1 + 1
    BY <2>1, FS_Interval
  <2> QED
    BY <1>1, <2>2
<1> HIDE DEF D
<1>3. s \in Surjection(D, T)
  BY <1>1 DEF Surjection
<1>4. IsFiniteSet(T) /\ Cardinality(T) <= Cardinality(D) /\ (Cardinality(T) = Cardinality(D) <=> s \in Injection(D, T))
  BY <1>2, <1>3, FS_Surjection
<1>5. s \in Injection(D, T) <=> IsInjective(s)
  BY <1>1 DEF Injection
<1>6. Cardinality(T) \in Nat
  BY <1>4, FS_CardinalityType
<1> QED
  BY <1>2, <1>4, <1>5, <1>6 DEF T

LEMMA PositionOf ==
  ASSUME NEW S, NEW s \in Seq(S)
  PROVE  /\ \A x \in ToSet(s) : Position(s, x) \in 1..Len(s) /\ s[Position(s, x)] = x
         /\ IsInjective(s) => \A i \in 1..Len(s) : s[i] \in ToSet(s) /\ Position(s, s[i]) = i
<1>1. \A x \in ToSet(s) : Position(s, x) \in 1..Len(s) /\ s[Position(s, x)] = x
  <2> SUFFICES ASSUME NEW x \in ToSet(s) PROVE Position(s, x) \in 1..Len(s) /\ s[Position(s, x)] = x
    OBVIOUS
  <2>1. \E i \in 1..Len(s) : s[i] = x
    BY SetOf
  <2> QED
    BY <2>1 DEF Position
<1>2. ASSUME IsInjective(s), NEW i \in 1..Len(s)
      PROVE  s[i] \in ToSet(s) /\ Position(s, s[i]) = i
  <2>1. s[i] \in ToSet(s) /\ DOMAIN s = 1..Len(s)
    BY SetOf
  <2>2. Position(s, s[i]) \in 1..Len(s) /\ s[Position(s, s[i])] = s[i]
    BY <1>1, <2>1
  <2> QED
    BY <1>2, <2>1, <2>2 DEF IsInjective
<1> QED
  BY <1>1, <1>2

\* A set of numbers up to n that holds 0, and k with k - 1, holds them all.
LEMMA UpTo ==
  ASSUME NEW n \in Nat, NEW A, 0 \in A, \A k \in 1..n : k - 1 \in A => k \in A
  PROVE  \A k \in 0..n : k \in A
<1> DEFINE Missing == {k \in 0..n : k \notin A}
<1> SUFFICES ASSUME Missing # {} PROVE FALSE
  OBVIOUS
<1>1. PICK k \in Missing : \A j \in Missing : k <= j
  <2>1. Missing \in SUBSET Nat
    OBVIOUS
  <2> HIDE DEF Missing
  <2> QED BY <2>1, Least
<1>2. k \in 1..n /\ k - 1 \in 0..n
  BY <1>1
<1>3. k - 1 \in A
  BY <1>1, <1>2
<1> QED
  BY <1>1, <1>2, <1>3

\* Steps can be iterated, so a recursion over 0..n has a solution.
Steps(do, n, V) == do \in [1..n -> [V -> V]]
Iterated(f, do, v, n, V) == f \in [0..n -> V] /\ f[0] = v /\ \A k \in 1..n : f[k] = do[k][f[k - 1]]

LEMMA Iterates ==
  ASSUME NEW V, NEW v \in V, NEW n \in Nat, NEW do, Steps(do, n, V)
  PROVE  \E f : Iterated(f, do, v, n, V)
<1> USE DEF Steps, Iterated
<1> DEFINE Solves(f, m) == f \in [0..m -> V] /\ f[0] = v /\ \A k \in 1..m : f[k] = do[k][f[k - 1]]
           A == {m \in 0..n : \E f : Solves(f, m)}
<1>1. 0 \in A
  <2>1. Solves([k \in 0..0 |-> v], 0)
    OBVIOUS
  <2> HIDE DEF Solves
  <2>2. \E f : Solves(f, 0)
    BY <2>1
  <2> QED
    BY <2>2
<1>2. ASSUME NEW m \in 1..n, m - 1 \in A
      PROVE  m \in A
  <2>1. PICK f : Solves(f, m - 1)
    BY <1>2
  <2>2. m - 1 \in 0..(m - 1) /\ f[m - 1] \in V
    BY <1>2, <2>1
  <2> DEFINE w == do[m][f[m - 1]]
             g == [k \in 0..m |-> IF k = m THEN w ELSE f[k]]
  <2>3. w \in V
    BY <2>2
  <2> HIDE DEF w
  <2>4. g \in [0..m -> V] /\ g[0] = v
    BY <2>1, <2>3
  <2>5. ASSUME NEW k \in 1..m PROVE g[k] = do[k][g[k - 1]]
    <3>1. k \in 0..m /\ k - 1 \in 0..m /\ k - 1 # m /\ (k # m => k \in 1..(m - 1))
      OBVIOUS
    <3>2. g[k - 1] = f[k - 1] /\ g[k] = IF k = m THEN w ELSE f[k]
      BY <3>1
    <3> HIDE DEF g
    <3> QED
      BY <2>1, <3>1, <3>2 DEF w
  <2>6. Solves(g, m)
    <3> HIDE DEF g
    <3> QED BY <2>4, <2>5
  <2> HIDE DEF Solves
  <2> QED
    BY <2>6
<1>3. n \in A
  <2> HIDE DEF A
  <2>1. \A k \in 0..n : k \in A
    BY <1>1, <1>2, UpTo
  <2> QED
    BY <2>1
<1> QED
  BY <1>3
-----------------------------------------------------------------------------
(***************************************************************************)
(* The waves.                                                              *)
(***************************************************************************)
LEMMA EmptyIs ==
  ASSUME NEW S, NEW s, s = <<>>
  PROVE  s \in Seq(S) /\ ToSet(s) = {} /\ IsInjective(s)
  BY DEF ToSet, IsInjective

\* The nodes that are kept are those of the set.
LEMMA KeptAre ==
  ASSUME NEW S, NEW nodes \in Seq(S), IsInjective(nodes), NEW W
  PROVE  /\ Kept(nodes, W) \in Seq(S) /\ IsInjective(Kept(nodes, W))
         /\ ToSet(Kept(nodes, W)) = ToSet(nodes) \intersect W
<1> DEFINE n == Len(nodes)
           Step(k, q) == IF nodes[k] \in W THEN Append(q, nodes[k]) ELSE q
           Up(g) == [k \in 0..n |-> IF k = 0 THEN <<>> ELSE IF nodes[k] \in W THEN Append(g[k - 1], nodes[k]) ELSE g[k - 1]]
           do == [k \in 1..n |-> [q \in Seq(S) |-> Step(k, q)]]
           u == CHOOSE g : g = Up(g)
           First0(k) == {nodes[i] : i \in 1..k}
<1>1. n \in Nat /\ nodes \in [1..n -> S] /\ ToSet(nodes) = First0(n) /\ DOMAIN nodes = 1..n
  BY SetOf
<1>2. \A k \in 1..n : nodes[k] \in S
  BY <1>1
<1>3. <<>> \in Seq(S)
  OBVIOUS
<1>4. \A k \in 1..n, q \in Seq(S) : Step(k, q) \in Seq(S)
  BY <1>2
<1> HIDE DEF n
<1>5. do \in [1..n -> [Seq(S) -> Seq(S)]] /\ \A k \in 1..n, q \in Seq(S) : do[k][q] = Step(k, q)
  <2> HIDE DEF Step
  <2> QED BY <1>4
<1>6. \E f : f = Up(f)
  <2> DEFINE V == Seq(S)
             v == <<>>
  <2>1. do \in [1..n -> [V -> V]] /\ v \in V /\ n \in Nat
    BY <1>1, <1>3, <1>5
  <2>2. \A k \in 1..n, q \in V : do[k][q] = Step(k, q)
    BY <1>5
  <2> HIDE DEF do, V, v, Step
  <2>3. PICK f : f \in [0..n -> V] /\ f[0] = v /\ \A k \in 1..n : f[k] = do[k][f[k - 1]]
    <3>1. Steps(do, n, V) /\ v \in V /\ n \in Nat
      BY <2>1 DEF Steps
    <3>2. \E f : Iterated(f, do, v, n, V)
      BY <3>1, Iterates
    <3> QED
      BY <3>2 DEF Iterated
  <2>4. \A k \in 0..n : k # 0 => k \in 1..n /\ f[k - 1] \in V
    BY <2>1, <2>3
  <2>5. \A k \in 0..n : f[k] = IF k = 0 THEN v ELSE Step(k, f[k - 1])
    BY <2>2, <2>3, <2>4
  <2>6. f = [k \in 0..n |-> IF k = 0 THEN v ELSE Step(k, f[k - 1])]
    BY <2>3, <2>5
  <2>7. f = Up(f)
    BY <2>6 DEF Step, v
  <2> HIDE DEF Up
  <2> QED
    BY <2>7
<1>7. u = Up(u)
  <2> HIDE DEF Up
  <2> QED BY <1>6
<1> DEFINE A == {k \in 0..n : u[k] \in Seq(S) /\ IsInjective(u[k]) /\ ToSet(u[k]) = First0(k) \intersect W}
<1>8. Kept(nodes, W) = u[n]
  BY DEF Kept, n
<1> HIDE DEF u
<1>9. u[0] = <<>> /\ \A k \in 1..n : u[k] = Step(k, u[k - 1])
  <2>1. u = [k \in 0..n |-> IF k = 0 THEN <<>> ELSE Step(k, u[k - 1])]
    BY <1>7
  <2> HIDE DEF Step
  <2>2. n \in Nat
    BY <1>1
  <2>3. 0 \in 0..n /\ \A k \in 1..n : k \in 0..n /\ k # 0
    BY <2>2
  <2> QED
    BY <2>1, <2>3
<1>10. 0 \in A
  <2>1. u[0] = <<>> /\ n \in Nat
    BY <1>1, <1>9
  <2>2. First0(0) = {}
    OBVIOUS
  <2> HIDE DEF First0
  <2> QED
    BY <2>1, <2>2, EmptyIs
<1>11. ASSUME NEW k \in 1..n, k - 1 \in A
       PROVE  k \in A
  <2> DEFINE q == u[k - 1]
  <2>1. q \in Seq(S) /\ IsInjective(q) /\ ToSet(q) = First0(k - 1) \intersect W
    BY <1>11
  <2>2. First0(k) = First0(k - 1) \union {nodes[k]} /\ nodes[k] \notin First0(k - 1)
    <3>1. \A i \in 1..k : i \in 1..(k - 1) \/ i = k
      BY <1>1
    <3>2. \A i \in 1..(k - 1) : i \in 1..k /\ i # k /\ i \in 1..n /\ nodes[i] # nodes[k]
      BY <1>1 DEF IsInjective
    <3>3. k \in 1..k
      BY <1>1
    <3> QED
      BY <3>1, <3>2, <3>3
  <2>3. u[k] = Step(k, q) /\ nodes[k] \in S
    BY <1>2, <1>9
  <2> HIDE DEF q, First0
  <2>4. CASE nodes[k] \in W
    <3>1. u[k] = Append(q, nodes[k])
      BY <2>3, <2>4
    <3>2. nodes[k] \notin ToSet(q)
      BY <2>1, <2>2
    <3>3. u[k] \in Seq(S) /\ IsInjective(u[k]) /\ ToSet(u[k]) = ToSet(q) \union {nodes[k]}
      BY <2>1, <2>3, <3>1, <3>2, AppendSet
    <3> QED
      BY <2>1, <2>2, <2>4, <3>3
  <2>5. CASE nodes[k] \notin W
    <3>1. u[k] = q
      BY <2>3, <2>5
    <3> QED
      BY <2>1, <2>2, <2>5, <3>1
  <2> QED
    BY <2>4, <2>5
<1>12. n \in A
  <2> HIDE DEF A
  <2>1. \A k \in 0..n : k \in A
    BY <1>1, <1>10, <1>11, UpTo
  <2> QED
    BY <1>1, <2>1
<1> QED
  BY <1>1, <1>8, <1>12

\* t goes on with s.
GoesOn(s, t) == Len(s) <= Len(t) /\ \A i \in 1..Len(s) : t[i] = s[i]

\* What has run after a wave is what had run before it, then the wave.
WaveByWave(ran, nodes, deps, S) ==
  /\ DOMAIN ran = 0..Len(nodes) /\ ran[0] = <<>>
  /\ \A k \in 0..Len(nodes) : ran[k] \in Seq(S) /\ IsInjective(ran[k]) /\ ToSet(ran[k]) \subseteq ToSet(nodes)
  /\ \A k \in 1..Len(nodes) :
       ToSet(ran[k]) = ToSet(ran[k - 1]) \union Wave(nodes, deps, ran[k - 1]) /\ GoesOn(ran[k - 1], ran[k])

LEMMA RanSteps ==
  ASSUME NEW S, NEW nodes \in Seq(S), IsInjective(nodes), NEW deps
  PROVE  WaveByWave(Ran(nodes, deps), nodes, deps, S)
<1> DEFINE n == Len(nodes)
           Step(q) == q \o Kept(nodes, Wave(nodes, deps, q))
           Up(g) == [k \in 0..n |-> IF k = 0 THEN <<>> ELSE g[k - 1] \o Kept(nodes, Wave(nodes, deps, g[k - 1]))]
           do == [k \in 1..n |-> [q \in Seq(S) |-> Step(q)]]
           u == CHOOSE g : g = Up(g)
<1>1. n \in Nat
  OBVIOUS
<1>2. <<>> \in Seq(S)
  OBVIOUS
<1>3. ASSUME NEW q \in Seq(S)
      PROVE  /\ Kept(nodes, Wave(nodes, deps, q)) \in Seq(S) /\ Step(q) \in Seq(S)
             /\ ToSet(Step(q)) = ToSet(q) \union Wave(nodes, deps, q)
             /\ IsInjective(q) => IsInjective(Step(q))
             /\ Len(q) <= Len(Step(q)) /\ \A i \in 1..Len(q) : Step(q)[i] = q[i]
  <2> DEFINE W == Wave(nodes, deps, q)
             w == Kept(nodes, W)
  <2>1. W \subseteq ToSet(nodes) /\ W \intersect ToSet(q) = {}
    BY DEF Wave
  <2>2. w \in Seq(S) /\ IsInjective(w) /\ ToSet(w) = ToSet(nodes) \intersect W
    BY KeptAre
  <2> HIDE DEF W, w
  <2>3. /\ q \o w \in Seq(S) /\ Len(q \o w) = Len(q) + Len(w) /\ \A i \in 1..Len(q) : (q \o w)[i] = q[i]
        /\ ToSet(q \o w) = ToSet(q) \union ToSet(w)
        /\ IsInjective(q) /\ IsInjective(w) /\ ToSet(q) \intersect ToSet(w) = {} => IsInjective(q \o w)
    BY <2>2, ConcatSet
  <2>4. Len(q) <= Len(q) + Len(w)
    BY <2>2
  <2>5. ToSet(w) = W /\ ToSet(q) \intersect ToSet(w) = {}
    BY <2>1, <2>2
  <2>6. /\ q \o w \in Seq(S) /\ ToSet(q \o w) = ToSet(q) \union W /\ (IsInjective(q) => IsInjective(q \o w))
        /\ Len(q) <= Len(q \o w) /\ \A i \in 1..Len(q) : (q \o w)[i] = q[i]
    BY <2>2, <2>3, <2>4, <2>5
  <2> QED
    BY <2>2, <2>6 DEF W, w
<1> HIDE DEF n
<1>4. do \in [1..n -> [Seq(S) -> Seq(S)]] /\ \A k \in 1..n, q \in Seq(S) : do[k][q] = Step(q)
  <2>1. \A q \in Seq(S) : Step(q) \in Seq(S)
    BY <1>3
  <2> HIDE DEF Step
  <2> QED BY <2>1
<1>5. \E f : f = Up(f)
  <2> DEFINE V == Seq(S)
             v == <<>>
  <2>1. do \in [1..n -> [V -> V]] /\ v \in V /\ n \in Nat
    BY <1>1, <1>2, <1>4
  <2>2. \A k \in 1..n, q \in V : do[k][q] = Step(q)
    BY <1>4
  <2> HIDE DEF do, V, v, Step
  <2>3. PICK f : f \in [0..n -> V] /\ f[0] = v /\ \A k \in 1..n : f[k] = do[k][f[k - 1]]
    <3>1. Steps(do, n, V) /\ v \in V /\ n \in Nat
      BY <2>1 DEF Steps
    <3>2. \E f : Iterated(f, do, v, n, V)
      BY <3>1, Iterates
    <3> QED
      BY <3>2 DEF Iterated
  <2>4. \A k \in 0..n : k # 0 => k \in 1..n /\ f[k - 1] \in V
    BY <2>1, <2>3
  <2>5. \A k \in 0..n : f[k] = IF k = 0 THEN v ELSE Step(f[k - 1])
    BY <2>2, <2>3, <2>4
  <2>6. f = [k \in 0..n |-> IF k = 0 THEN v ELSE Step(f[k - 1])]
    BY <2>3, <2>5
  <2>7. f = Up(f)
    BY <2>6 DEF Step, v
  <2> HIDE DEF Up
  <2> QED
    BY <2>7
<1>6. u = Up(u)
  <2> HIDE DEF Up
  <2> QED BY <1>5
<1>7. Ran(nodes, deps) = u
  BY DEF Ran, n
<1> HIDE DEF u
<1>8. DOMAIN u = 0..n /\ u[0] = <<>> /\ \A k \in 1..n : u[k] = Step(u[k - 1])
  <2>1. u = [k \in 0..n |-> IF k = 0 THEN <<>> ELSE u[k - 1] \o Kept(nodes, Wave(nodes, deps, u[k - 1]))]
    BY <1>6
  <2> QED
    BY <1>1, <2>1
<1> DEFINE A == {k \in 0..n : u[k] \in Seq(S) /\ IsInjective(u[k]) /\ ToSet(u[k]) \subseteq ToSet(nodes)}
<1>9. 0 \in A
  <2>1. u[0] = <<>> /\ n \in Nat
    BY <1>1, <1>8
  <2> QED
    BY <2>1, EmptyIs
<1>10. ASSUME NEW k \in 1..n, k - 1 \in A
       PROVE  k \in A
  <2>1. u[k - 1] \in Seq(S) /\ IsInjective(u[k - 1]) /\ ToSet(u[k - 1]) \subseteq ToSet(nodes) /\ u[k] = Step(u[k - 1])
    BY <1>8, <1>10
  <2>2. Wave(nodes, deps, u[k - 1]) \subseteq ToSet(nodes)
    BY DEF Wave
  <2> HIDE DEF Step
  <2>3. u[k] \in Seq(S) /\ IsInjective(u[k]) /\ ToSet(u[k]) \subseteq ToSet(nodes)
    BY <1>3, <2>1, <2>2
  <2> QED
    BY <2>3
<1>11. \A k \in 0..n : k \in A
  <2> HIDE DEF A
  <2> QED
    BY <1>1, <1>9, <1>10, UpTo
<1>12. ASSUME NEW k \in 1..n
       PROVE  /\ ToSet(u[k]) = ToSet(u[k - 1]) \union Wave(nodes, deps, u[k - 1])
              /\ Len(u[k - 1]) <= Len(u[k]) /\ \A i \in 1..Len(u[k - 1]) : u[k][i] = u[k - 1][i]
  <2>1. k - 1 \in A
    BY <1>1, <1>11
  <2>2. u[k - 1] \in Seq(S) /\ u[k] = Step(u[k - 1])
    BY <1>8, <2>1
  <2> HIDE DEF Step
  <2> QED
    BY <1>3, <2>2
<1> QED
  BY <1>7, <1>8, <1>11, <1>12 DEF n, WaveByWave, GoesOn
\* What has run stays at the head of what runs later.
LEMMA RanGoesOn ==
  ASSUME NEW S, NEW nodes \in Seq(S), IsInjective(nodes), NEW deps, NEW k \in 0..Len(nodes), NEW j \in 0..k
  PROVE  GoesOn(Ran(nodes, deps)[j], Ran(nodes, deps)[k])
<1> DEFINE n == Len(nodes)
           u == Ran(nodes, deps)
           A == {l \in 0..n : l >= j => Len(u[j]) <= Len(u[l]) /\ \A i \in 1..Len(u[j]) : u[l][i] = u[j][i]}
<1>1. /\ \A l \in 0..n : u[l] \in Seq(S)
      /\ \A l \in 1..n : Len(u[l - 1]) <= Len(u[l]) /\ \A i \in 1..Len(u[l - 1]) : u[l][i] = u[l - 1][i]
  <2>1. WaveByWave(u, nodes, deps, S)
    BY RanSteps
  <2> HIDE DEF u
  <2> QED
    BY <2>1 DEF WaveByWave, GoesOn
<1>2. n \in Nat /\ j \in 0..n /\ k \in 0..n /\ j <= k
  OBVIOUS
<1> HIDE DEF u, n
<1>3. \A l \in 0..n : Len(u[l]) \in Nat
  BY <1>1
<1>4. 0 \in A
  BY <1>2, <1>3
<1>5. ASSUME NEW l \in 1..n, l - 1 \in A
      PROVE  l \in A
  <2>1. l \in 0..n /\ l - 1 \in 0..n
    BY <1>2
  <2>2. CASE j <= l - 1
    <3>1. Len(u[j]) <= Len(u[l - 1]) /\ \A i \in 1..Len(u[j]) : u[l - 1][i] = u[j][i]
      BY <1>5, <2>2
    <3>2. Len(u[l - 1]) <= Len(u[l]) /\ \A i \in 1..Len(u[l - 1]) : u[l][i] = u[l - 1][i]
      BY <1>1
    <3>3. Len(u[j]) \in Nat /\ Len(u[l - 1]) \in Nat /\ Len(u[l]) \in Nat
      BY <1>2, <1>3, <2>1
    <3>4. Len(u[j]) <= Len(u[l]) /\ \A i \in 1..Len(u[j]) : i \in 1..Len(u[l - 1])
      BY <3>1, <3>2, <3>3
    <3>5. \A i \in 1..Len(u[j]) : u[l][i] = u[j][i]
      BY <3>1, <3>2, <3>4
    <3> QED
      BY <2>1, <3>4, <3>5
  <2>3. CASE j = l
    BY <1>3, <2>1, <2>3
  <2>4. CASE j > l
    BY <1>2, <2>1, <2>4
  <2> QED
    BY <1>2, <2>1, <2>2, <2>3, <2>4
<1>6. k \in A
  <2> HIDE DEF A
  <2>1. \A l \in 0..n : l \in A
    BY <1>2, <1>4, <1>5, UpTo
  <2> QED
    BY <1>2, <2>1
<1> QED
  BY <1>2, <1>6 DEF u, GoesOn

\* Whoever runs has a wave, after those of what it waits for.
LEMMA RanOnce ==
  ASSUME NEW S, NEW nodes \in Seq(S), IsInjective(nodes), NEW deps, NEW x \in ToSet(Flat(nodes, deps))
  PROVE  LET ran == Ran(nodes, deps)
         IN  \E k \in 1..Len(nodes) : x \notin ToSet(ran[k - 1]) /\ deps[x] \subseteq ToSet(ran[k - 1])
<1> DEFINE n == Len(nodes)
           u == Ran(nodes, deps)
           In == {k \in 0..n : x \in ToSet(u[k])}
<1>1. u[0] = <<>> /\ \A k \in 1..n : ToSet(u[k]) = ToSet(u[k - 1]) \union Wave(nodes, deps, u[k - 1])
  <2>1. WaveByWave(u, nodes, deps, S)
    BY RanSteps
  <2> HIDE DEF u
  <2> QED
    BY <2>1 DEF WaveByWave
<1>2. n \in Nat /\ x \in ToSet(u[n])
  BY DEF Flat
<1> HIDE DEF u, n
<1>3. PICK k \in In : \A j \in In : k <= j
  <2>1. In \in SUBSET Nat /\ n \in In
    BY <1>2
  <2> HIDE DEF In
  <2> QED BY <2>1, Least
<1>4. k # 0
  <2>1. ToSet(u[0]) = {}
    BY <1>1, EmptyIs
  <2> QED
    BY <1>3, <2>1
<1>5. k \in 1..n /\ k - 1 \in 0..n /\ ~(k <= k - 1)
  BY <1>2, <1>3, <1>4
<1>6. x \notin ToSet(u[k - 1])
  BY <1>3, <1>5
<1>7. x \in Wave(nodes, deps, u[k - 1])
  BY <1>1, <1>3, <1>5, <1>6
<1> QED
  BY <1>5, <1>6, <1>7 DEF Wave, u, n

\* The waves one after the other respect the dependencies.
LEMMA FlatOrders ==
  ASSUME NEW S, NEW nodes \in Seq(S), IsInjective(nodes), NEW deps
  PROVE  LET flat == Flat(nodes, deps)
         IN  /\ flat \in Seq(S) /\ IsInjective(flat) /\ ToSet(flat) \subseteq ToSet(nodes)
             /\ \A x \in ToSet(flat) :
                  /\ deps[x] \subseteq ToSet(flat) \ {x}
                  /\ \A d \in deps[x] : Position(flat, d) < Position(flat, x)
<1> DEFINE n == Len(nodes)
           u == Ran(nodes, deps)
           flat == Flat(nodes, deps)
<1>1. flat = u[n] /\ n \in Nat /\ n \in 0..n
  BY DEF Flat
<1>2. flat \in Seq(S) /\ IsInjective(flat) /\ ToSet(flat) \subseteq ToSet(nodes)
  <2>1. WaveByWave(u, nodes, deps, S)
    BY RanSteps
  <2> HIDE DEF u
  <2> QED
    BY <1>1, <2>1 DEF WaveByWave
<1>3. ASSUME NEW x \in ToSet(flat), NEW d \in deps[x]
      PROVE  d \in ToSet(flat) /\ d # x /\ Position(flat, d) < Position(flat, x)
  <2>1. PICK k \in 1..n : x \notin ToSet(u[k - 1]) /\ deps[x] \subseteq ToSet(u[k - 1])
    BY RanOnce
  <2>2. k - 1 \in 0..n
    BY <1>1
  <2>3. u[k - 1] \in Seq(S)
    <3>1. WaveByWave(u, nodes, deps, S)
      BY RanSteps
    <3> HIDE DEF u
    <3> QED
      BY <2>2, <3>1 DEF WaveByWave
  <2>4. Len(u[k - 1]) <= Len(u[n]) /\ \A i \in 1..Len(u[k - 1]) : u[n][i] = u[k - 1][i]
    <3>1. n \in 0..n /\ k - 1 \in 0..n
      BY <1>1, <2>2
    <3>2. GoesOn(u[k - 1], u[n])
      BY <3>1, RanGoesOn
    <3> HIDE DEF u
    <3> QED
      BY <3>2 DEF GoesOn
  <2> DEFINE v == u[k - 1]
             p == Position(flat, x)
  <2>5. v \in Seq(S) /\ Len(v) \in Nat /\ Len(flat) \in Nat /\ Len(v) <= Len(flat) /\ (\A i \in 1..Len(v) : flat[i] = v[i])
        /\ x \notin ToSet(v) /\ d \in ToSet(v)
    BY <1>1, <1>2, <1>3, <2>1, <2>3, <2>4
  <2> HIDE DEF v, u, flat, n
  <2>6. PICK i \in 1..Len(v) : d = v[i]
    BY <2>5, SetOf
  <2>7. i \in 1..Len(flat) /\ flat[i] = d
    BY <2>5, <2>6
  <2>8. d \in ToSet(flat) /\ Position(flat, d) = i
    BY <1>2, <2>7, PositionOf
  <2>9. p \in 1..Len(flat) /\ flat[p] = x
    BY <1>2, <1>3, PositionOf
  <2>10. ~(p <= Len(v))
    <3> SUFFICES ASSUME p <= Len(v) PROVE FALSE
      OBVIOUS
    <3>1. p \in 1..Len(v)
      BY <2>5, <2>9
    <3>2. v[p] = x
      BY <2>5, <2>9, <3>1
    <3>3. v[p] \in ToSet(v)
      BY <2>5, <3>1, SetOf
    <3> QED
      BY <2>5, <3>2, <3>3
  <2>11. i < p
    BY <2>5, <2>9, <2>10
  <2> QED
    BY <2>5, <2>6, <2>8, <2>11
<1> QED
  BY <1>2, <1>3

\* They end with every node if they end, ...
LEMMA WavesEndWithAll ==
  ASSUME NEW S, NEW nodes \in Seq(S), IsInjective(nodes), NEW deps, WavesEnd(nodes, deps)
  PROVE  ToSet(Flat(nodes, deps)) = ToSet(nodes)
<1> DEFINE flat == Flat(nodes, deps)
<1>1. flat \in Seq(S) /\ IsInjective(flat) /\ ToSet(flat) \subseteq ToSet(nodes) /\ Len(flat) = Len(nodes)
  BY FlatOrders DEF WavesEnd
<1> HIDE DEF flat
<1>2. IsFiniteSet(ToSet(nodes)) /\ Cardinality(ToSet(nodes)) = Cardinality(ToSet(flat))
  <2>1. IsFiniteSet(ToSet(nodes)) /\ Cardinality(ToSet(nodes)) = Len(nodes)
    BY SizeOfSet
  <2>2. Cardinality(ToSet(flat)) = Len(flat)
    BY <1>1, SizeOfSet
  <2> QED
    BY <1>1, <2>1, <2>2
<1>3. ToSet(nodes) = ToSet(flat)
  BY <1>1, <1>2, FS_Subset
<1> QED
  BY <1>3 DEF flat

\* ... and they do if the nodes are in an order that respects the dependencies.
LEMMA WavesDoEnd ==
  ASSUME NEW S, NEW nodes \in Seq(S), IsInjective(nodes), NEW deps,
         \A i \in 1..Len(nodes) : \A d \in deps[nodes[i]] : \E j \in 1..(i - 1) : d = nodes[j]
  PROVE  WavesEnd(nodes, deps) /\ ToSet(Flat(nodes, deps)) = ToSet(nodes)
<1> DEFINE n == Len(nodes)
           u == Ran(nodes, deps)
           flat == Flat(nodes, deps)
           A == {k \in 0..n : \A i \in 1..k : nodes[i] \in ToSet(u[k])}
<1>1. n \in Nat /\ ToSet(nodes) = {nodes[i] : i \in 1..n} /\ \A i \in 1..n : nodes[i] \in ToSet(nodes)
  BY SetOf
<1>2. \A k \in 1..n : ToSet(u[k]) = ToSet(u[k - 1]) \union Wave(nodes, deps, u[k - 1])
  <2>1. WaveByWave(u, nodes, deps, S)
    BY RanSteps
  <2> HIDE DEF u
  <2> QED
    BY <2>1 DEF WaveByWave
<1>3. flat = u[n] /\ flat \in Seq(S) /\ IsInjective(flat) /\ ToSet(flat) \subseteq ToSet(nodes)
  BY FlatOrders DEF Flat
<1> HIDE DEF u, n, flat
<1>4. 0 \in A
  BY <1>1
<1>5. ASSUME NEW k \in 1..n, k - 1 \in A
      PROVE  k \in A
  <2>1. \A i \in 1..(k - 1) : nodes[i] \in ToSet(u[k - 1])
    BY <1>5
  <2>2. deps[nodes[k]] \subseteq ToSet(u[k - 1])
    BY <2>1 DEF n
  <2>3. nodes[k] \in ToSet(u[k - 1]) \union Wave(nodes, deps, u[k - 1])
    BY <1>1, <2>2 DEF Wave
  <2>4. \A i \in 1..k : i \in 1..(k - 1) \/ i = k
    BY <1>1
  <2>5. \A i \in 1..k : nodes[i] \in ToSet(u[k])
    BY <1>2, <2>1, <2>3, <2>4
  <2>6. k \in 0..n
    BY <1>1
  <2> QED
    BY <2>5, <2>6
<1>6. ToSet(nodes) \subseteq ToSet(flat)
  <2>1. n \in A
    <3> HIDE DEF A
    <3>1. \A k \in 0..n : k \in A
      BY <1>1, <1>4, <1>5, UpTo
    <3> QED
      BY <1>1, <3>1
  <2> QED
    BY <1>1, <1>3, <2>1
<1>7. ToSet(nodes) = ToSet(flat)
  BY <1>3, <1>6
<1>8. Len(flat) = Len(nodes)
  BY <1>3, <1>7, SizeOfSet
<1> QED
  BY <1>7, <1>8 DEF WavesEnd, flat

-----------------------------------------------------------------------------
(***************************************************************************)
(* The sort.  It follows the order of the planner: the queue holds whoever *)
(* waits for nobody that is not placed.                                    *)
(***************************************************************************)
Free(p, s) == {n \in Nodes(p) \ ToSet(s) : p.deps[n] \subseteq ToSet(s)}

PlanTypes ==
  /\ plan \in Plans
  /\ stage \in {"proposed", "refused", "sorting", "cyclic", "accepted"}
  /\ indegree \in [Identities -> Nat] /\ \A n \in Identities : indegree[n] <= Len(plan.nodes)
  /\ placed \in Seq(Identities)
  /\ stage \in {"proposed", "refused"} => ready = {} /\ placed = <<>> /\ \A n \in Identities : indegree[n] = 0

Sorts ==
  /\ stage # "cyclic"
  /\ stage \in {"sorting", "accepted"} => WellFormed(plan) /\ GoesOn(placed, plan.order)
  /\ stage = "sorting" =>
       /\ ready = Free(plan, placed)
       /\ \A n \in Nodes(plan) : indegree[n] = Cardinality(plan.deps[n] \ ToSet(placed))
  /\ stage = "accepted" => ready = {} /\ plan.order = placed /\ plan.nodes = placed

SortInv == PlanTypes /\ Sorts

\* The order of a well-formed plan.
LEMMA OrderOf ==
  ASSUME NEW p \in Plans, WellFormed(p)
  PROVE  /\ p.nodes \in Seq(Identities) /\ p.order \in Seq(Identities) /\ p.deps \in [Identities -> SUBSET Identities]
         /\ Len(p.order) = Len(p.nodes) /\ Len(p.order) \in Nat /\ IsInjective(p.nodes) /\ IsInjective(p.order)
         /\ ToSet(p.order) = Nodes(p) /\ Nodes(p) = ToSet(p.nodes) /\ Nodes(p) \subseteq Identities
         /\ IsFiniteSet(Nodes(p)) /\ Cardinality(Nodes(p)) = Len(p.nodes)
         /\ \A i \in 1..Len(p.order) : p.order[i] \in Nodes(p)
         /\ \A n \in Nodes(p) : \E i \in 1..Len(p.order) : n = p.order[i]
         /\ \A n \in Nodes(p) : p.deps[n] \subseteq Nodes(p) \ {n}
         /\ \A i \in 1..Len(p.order) : \A d \in p.deps[p.order[i]] : \E j \in 1..(i - 1) : d = p.order[j]
<1>1. p.nodes \in Seq(Identities) /\ p.order \in Seq(Identities) /\ p.deps \in [Identities -> SUBSET Identities]
  BY DEF Plans
<1>2. /\ Len(p.order) = Len(p.nodes) /\ IsInjective(p.nodes) /\ ToSet(p.order) = ToSet(p.nodes) /\ Nodes(p) = ToSet(p.nodes)
      /\ \A n \in Nodes(p) : p.deps[n] \subseteq Nodes(p) \ {n}
      /\ \A n \in Nodes(p) : \A d \in p.deps[n] : Position(p.order, d) < Position(p.order, n)
  BY DEF WellFormed, NodesAreMembers, DependenciesAreSelected, OrderIsComplete, OrderRespectsDependencies, Nodes
<1> DEFINE o == p.order
           l == p.nodes
           deps == p.deps
           N == Nodes(p)
<1>3. /\ o \in Seq(Identities) /\ l \in Seq(Identities) /\ Len(o) = Len(l) /\ IsInjective(l) /\ ToSet(o) = N /\ N = ToSet(l)
      /\ \A n \in N : deps[n] \subseteq N \ {n}
      /\ \A n \in N : \A d \in deps[n] : Position(o, d) < Position(o, n)
  BY <1>1, <1>2
<1> HIDE DEF o, l, deps, N
<1>4. IsFiniteSet(N) /\ Cardinality(N) = Len(l) /\ Len(l) \in Nat /\ N \subseteq Identities
  BY <1>3, SizeOfSet, SetOf
<1>5. IsInjective(o)
  BY <1>3, <1>4, SizeOfSet
<1>6. (\A i \in 1..Len(o) : o[i] \in N) /\ \A n \in N : \E i \in 1..Len(o) : n = o[i]
  BY <1>3, SetOf
<1>7. ASSUME NEW i \in 1..Len(o), NEW d \in deps[o[i]]
      PROVE  \E j \in 1..(i - 1) : d = o[j]
  <2>1. o[i] \in N /\ d \in N
    BY <1>3, <1>6, <1>7
  <2>2. Position(o, o[i]) = i
    BY <1>3, <1>5, PositionOf
  <2>3. Position(o, d) \in 1..Len(o) /\ o[Position(o, d)] = d
    BY <1>3, <2>1, PositionOf
  <2>4. Position(o, d) < i
    BY <1>3, <1>7, <2>1, <2>2
  <2> QED
    BY <2>3, <2>4
<1> QED
  BY <1>1, <1>3, <1>4, <1>5, <1>6, <1>7 DEF o, l, deps, N

\* What is placed is the head of the order, and rests on nothing else.
LEMMA HeadOf ==
  ASSUME NEW p \in Plans, WellFormed(p), NEW s \in Seq(Identities), GoesOn(s, p.order)
  PROVE  /\ Len(s) \in 0..Len(p.order) /\ IsInjective(s) /\ ToSet(s) \subseteq Nodes(p)
         /\ \A i \in 1..Len(p.order) : p.order[i] \in ToSet(s) <=> i <= Len(s)
         /\ \A n \in ToSet(s) : p.deps[n] \subseteq ToSet(s)
<1> DEFINE o == p.order
           N == Nodes(p)
           deps == p.deps
<1>1. /\ o \in Seq(Identities) /\ IsInjective(o) /\ Len(o) \in Nat
      /\ \A i \in 1..Len(o) : o[i] \in N
      /\ \A i \in 1..Len(o) : \A d \in deps[o[i]] : \E j \in 1..(i - 1) : d = o[j]
  BY OrderOf
<1>2. Len(s) \in Nat /\ Len(s) <= Len(o) /\ \A i \in 1..Len(s) : o[i] = s[i]
  BY DEF GoesOn
<1> HIDE DEF o, N, deps
<1>3. DOMAIN s = 1..Len(s) /\ DOMAIN o = 1..Len(o) /\ \A i \in 1..Len(s) : i \in 1..Len(o)
  BY <1>1, <1>2, SetOf
<1>4. IsInjective(s)
  BY <1>1, <1>2, <1>3 DEF IsInjective
<1>5. ToSet(s) \subseteq N
  BY <1>1, <1>2, <1>3 DEF ToSet
<1>6. ASSUME NEW i \in 1..Len(o)
      PROVE  o[i] \in ToSet(s) <=> i <= Len(s)
  <2>1. i <= Len(s) => i \in 1..Len(s) /\ o[i] = s[i]
    BY <1>2
  <2>2. \A j \in 1..Len(s) : s[j] = o[i] => j = i
    BY <1>1, <1>2, <1>3 DEF IsInjective
  <2> QED
    BY <1>2, <1>3, <2>1, <2>2 DEF ToSet
<1>7. ASSUME NEW n \in ToSet(s), NEW d \in deps[n]
      PROVE  d \in ToSet(s)
  <2>1. PICK i \in 1..Len(s) : n = s[i]
    BY SetOf
  <2>2. i \in 1..Len(o) /\ n = o[i] /\ i \in Nat /\ i <= Len(s)
    BY <1>2, <1>3, <2>1
  <2>3. PICK j \in 1..(i - 1) : d = o[j]
    BY <1>1, <1>7, <2>2
  <2>4. j \in 1..Len(o) /\ j <= Len(s)
    BY <1>1, <1>2, <2>2, <2>3
  <2> QED
    BY <1>6, <2>3, <2>4
<1> QED
  BY <1>2, <1>4, <1>5, <1>6, <1>7 DEF o, N, deps

\* The first of the queue is the next of the order, and there is one until all
\* are placed.
LEMMA FirstIsNext ==
  ASSUME NEW p \in Plans, WellFormed(p), NEW s \in Seq(Identities), GoesOn(s, p.order)
  PROVE  /\ Len(s) < Len(p.order) =>
              /\ p.order[Len(s) + 1] \in Free(p, s)
              /\ First(p, Free(p, s)) = p.order[Len(s) + 1]
         /\ Len(s) = Len(p.order) => Free(p, s) = {}
<1> DEFINE o == p.order
           N == Nodes(p)
           deps == p.deps
           k == Len(s)
           F == Free(p, s)
           P == ToSet(s)
<1>1. /\ o \in Seq(Identities) /\ IsInjective(o) /\ Len(o) \in Nat
      /\ \A i \in 1..Len(o) : o[i] \in N
      /\ \A n \in N : \E i \in 1..Len(o) : n = o[i]
      /\ \A i \in 1..Len(o) : \A d \in deps[o[i]] : \E j \in 1..(i - 1) : d = o[j]
  BY OrderOf
<1>2. k \in 0..Len(o) /\ \A i \in 1..Len(o) : o[i] \in P <=> i <= k
  BY HeadOf
<1>3. F = {n \in N \ P : deps[n] \subseteq P}
  BY DEF Free
<1>4. \A i \in 1..Len(o) : Position(o, o[i]) = i
  BY <1>1, PositionOf
<1>5. First(p, F) = CHOOSE n \in F : \A m \in F : Position(o, n) <= Position(o, m)
  BY DEF First
<1> HIDE DEF o, N, deps, k, F, P
<1>6. ASSUME k < Len(o)
      PROVE  o[k + 1] \in F /\ First(p, F) = o[k + 1]
  <2>1. k + 1 \in 1..Len(o) /\ k \in Nat /\ ~(k + 1 <= k)
    BY <1>1, <1>2, <1>6
  <2>2. o[k + 1] \in N \ P
    BY <1>1, <1>2, <2>1
  <2>3. ASSUME NEW d \in deps[o[k + 1]] PROVE d \in P
    <3>1. PICK j \in 1..(k + 1 - 1) : d = o[j]
      BY <1>1, <2>1, <2>3
    <3>2. j \in 1..Len(o) /\ j <= k
      BY <1>1, <2>1, <3>1
    <3> QED
      BY <1>2, <3>1, <3>2
  <2>4. o[k + 1] \in F /\ Position(o, o[k + 1]) = k + 1
    BY <1>3, <1>4, <2>1, <2>2, <2>3
  <2>5. ASSUME NEW m \in F PROVE k + 1 <= Position(o, m) /\ (m # o[k + 1] => k + 1 < Position(o, m))
    <3>1. PICK i \in 1..Len(o) : m = o[i]
      BY <1>1, <1>3
    <3>2. ~(i <= k)
      BY <1>2, <1>3, <3>1
    <3>3. i \in Nat /\ k + 1 <= i /\ (i # k + 1 => k + 1 < i)
      BY <2>1, <3>1, <3>2
    <3>4. Position(o, m) = i
      BY <1>4, <3>1
    <3>5. m # o[k + 1] => i # k + 1
      BY <3>1
    <3> QED
      BY <3>3, <3>4, <3>5
  <2>6. First(p, F) \in F /\ \A m \in F : Position(o, First(p, F)) <= Position(o, m)
    <3>1. \E n \in F : \A m \in F : Position(o, n) <= Position(o, m)
      BY <2>4, <2>5
    <3> QED
      BY <1>5, <3>1
  <2>7. Position(o, First(p, F)) <= k + 1
    BY <2>4, <2>6
  <2>8. First(p, F) # o[k + 1] => k + 1 < Position(o, First(p, F))
    BY <2>5, <2>6
  <2>9. Position(o, First(p, F)) \in Nat
    BY <1>1, <1>3, <1>4, <2>6
  <2> QED
    BY <2>1, <2>4, <2>7, <2>8, <2>9
<1>7. ASSUME k = Len(o)
      PROVE  F = {}
  <2>1. \A i \in 1..Len(o) : o[i] \in P
    BY <1>1, <1>2, <1>7
  <2> QED
    BY <1>1, <1>3, <2>1
<1> QED
  BY <1>6, <1>7 DEF o, k, F

\* An order that respects the dependencies leaves no circle among the nodes.
LEMMA NoCircle ==
  ASSUME NEW p \in Plans, WellFormed(p)
  PROVE  ~Cyclic(p)
<1> DEFINE o == p.order
           N == Nodes(p)
           deps == p.deps
<1>1. /\ Len(o) \in Nat
      /\ \A n \in N : \E i \in 1..Len(o) : n = o[i]
      /\ \A i \in 1..Len(o) : \A d \in deps[o[i]] : \E j \in 1..(i - 1) : d = o[j]
  BY OrderOf
<1> SUFFICES ASSUME Cyclic(p) PROVE FALSE
  OBVIOUS
<1>0. PICK C \in (SUBSET N) \ {{}} : \A n \in C : deps[n] \intersect C # {}
  BY DEF Cyclic
<1> HIDE DEF o, N, deps
<1> DEFINE At == {i \in 1..Len(o) : o[i] \in C}
<1>2. PICK i \in At : \A j \in At : i <= j
  <2>1. C \subseteq N /\ \E n \in C : TRUE
    BY <1>0
  <2>2. PICK n \in C : n \in N
    BY <2>1
  <2>3. \E i \in 1..Len(o) : o[i] \in C
    BY <1>1, <2>2
  <2>4. At \in SUBSET Nat /\ At # {}
    BY <2>3
  <2> HIDE DEF At
  <2> QED BY <2>4, Least
<1>3. PICK d \in deps[o[i]] : d \in C
  BY <1>0, <1>2
<1>4. PICK j \in 1..(i - 1) : d = o[j]
  BY <1>1, <1>2, <1>3
<1>5. j \in At /\ ~(i <= j)
  BY <1>1, <1>2, <1>3, <1>4
<1> QED
  BY <1>2, <1>5

\* Of D, all but P is waited for; then x is placed too.
WaitsForOneLess(D, P, x) ==
  /\ Cardinality(D \ P) \in Nat
  /\ x \in D => Cardinality(D \ (P \union {x})) = Cardinality(D \ P) - 1
  /\ x \in D => (Cardinality(D \ P) = 1 <=> D \subseteq P \union {x})
  /\ x \notin D => D \ (P \union {x}) = D \ P

LEMMA OneLess ==
  ASSUME NEW S, IsFiniteSet(S), NEW D \in SUBSET S, NEW P, NEW x, x \notin P
  PROVE  WaitsForOneLess(D, P, x)
<1> DEFINE E == D \ P
           R == D \ (P \union {x})
<1>1. IsFiniteSet(E) /\ Cardinality(E) \in Nat
  BY FS_Subset, FS_CardinalityType
<1>2. ASSUME x \in D
      PROVE  /\ Cardinality(R) = Cardinality(E) - 1
             /\ Cardinality(E) = 1 <=> D \subseteq P \union {x}
  <2>1. R = E \ {x} /\ x \in E /\ (R = {} <=> D \subseteq P \union {x})
    BY <1>2
  <2> HIDE DEF R, E
  <2>2. IsFiniteSet(R) /\ Cardinality(R) = Cardinality(E) - 1
    BY <1>1, <2>1, FS_RemoveElement
  <2>3. Cardinality(R) = 0 <=> R = {}
    BY <2>2, FS_EmptySet
  <2> QED
    BY <1>1, <2>1, <2>2, <2>3
<1>3. x \notin D => R = E
  OBVIOUS
<1> QED
  BY <1>1, <1>2, <1>3 DEF WaitsForOneLess

\* A plan whose order is the one it had, and whose nodes are in it.
LEMMA InItsOrder ==
  ASSUME NEW p \in Plans, WellFormed(p), NEW q, q = [p EXCEPT !.order = p.order, !.nodes = p.order]
  PROVE  /\ q \in Plans /\ WellFormed(q) /\ Nodes(q) = Nodes(p) /\ q.deps = p.deps
         /\ q.nodes = p.order /\ q.order = p.order /\ Len(q.nodes) = Len(p.nodes)
<1>1. /\ q.nodes = p.order /\ q.order = p.order /\ q.deps = p.deps /\ q \in Plans
  BY DEF Plans
<1>2. /\ p.order \in Seq(Identities) /\ Len(p.order) = Len(p.nodes) /\ IsInjective(p.order)
      /\ ToSet(p.order) = Nodes(p)
  BY OrderOf
<1>3. Nodes(q) = Nodes(p)
  BY <1>1, <1>2 DEF Nodes
<1>4. p.order # <<>>
  <2>1. p.nodes # <<>> /\ p.nodes \in Seq(Identities)
    BY OrderOf DEF WellFormed, NodesAreMembers
  <2> QED
    BY <1>2, <2>1, EmptySeq
<1>5. NodesAreMembers(q)
  BY <1>1, <1>2, <1>3, <1>4 DEF WellFormed, NodesAreMembers
<1>6. DependenciesAreSelected(q)
  BY <1>1, <1>3 DEF WellFormed, DependenciesAreSelected
<1>7. OrderIsComplete(q)
  BY <1>1, <1>2, <1>3 DEF OrderIsComplete
<1>8. OrderRespectsDependencies(q)
  BY <1>1, <1>3 DEF WellFormed, OrderRespectsDependencies
<1> QED
  BY <1>1, <1>2, <1>3, <1>5, <1>6, <1>7, <1>8 DEF WellFormed

LEMMA StartKeeps ==
  ASSUME SortInv, StartSort
  PROVE  SortInv'
<1>1. /\ plan \in Plans /\ stage = "proposed" /\ ready = {} /\ placed = <<>> /\ WellFormed(plan)
      /\ plan' = plan /\ placed' = placed /\ stage' = "sorting"
      /\ indegree' = [n \in Identities |-> IF n \in Nodes(plan) THEN Cardinality(plan.deps[n]) ELSE 0]
      /\ ready' = {n \in Nodes(plan) : plan.deps[n] = {}}
  BY DEF SortInv, PlanTypes, StartSort
<1>2. /\ Nodes(plan) \subseteq Identities /\ IsFiniteSet(Nodes(plan)) /\ Cardinality(Nodes(plan)) = Len(plan.nodes)
      /\ Len(plan.nodes) \in Nat /\ plan.order \in Seq(Identities)
      /\ \A n \in Nodes(plan) : plan.deps[n] \subseteq Nodes(plan)
  <2>1. /\ Nodes(plan) \subseteq Identities /\ IsFiniteSet(Nodes(plan)) /\ Cardinality(Nodes(plan)) = Len(plan.nodes)
        /\ Len(plan.order) = Len(plan.nodes) /\ Len(plan.order) \in Nat /\ plan.order \in Seq(Identities)
        /\ \A n \in Nodes(plan) : plan.deps[n] \subseteq Nodes(plan) \ {n}
    BY <1>1, OrderOf
  <2> QED
    BY <2>1
<1>3. \A n \in Nodes(plan) : Cardinality(plan.deps[n]) \in Nat /\ Cardinality(plan.deps[n]) <= Len(plan.nodes)
  <2> SUFFICES ASSUME NEW n \in Nodes(plan) 
               PROVE  Cardinality(plan.deps[n]) \in Nat /\ Cardinality(plan.deps[n]) <= Len(plan.nodes)
    OBVIOUS
  <2>1. plan.deps[n] \subseteq Nodes(plan)
    BY <1>2
  <2>2. IsFiniteSet(plan.deps[n]) /\ Cardinality(plan.deps[n]) <= Cardinality(Nodes(plan))
    BY <1>2, <2>1, FS_Subset
  <2> QED
    BY <1>2, <2>2, FS_CardinalityType
<1>4. placed \in Seq(Identities) /\ ToSet(placed) = {} /\ Len(placed) = 0
  BY <1>1, EmptyIs
<1>5. PlanTypes'
  <2>1. indegree' \in [Identities -> Nat] /\ \A n \in Identities : indegree'[n] <= Len(plan.nodes)
    BY <1>1, <1>2, <1>3
  <2> QED
    BY <1>1, <1>4, <2>1 DEF PlanTypes
<1>6. GoesOn(placed, plan.order)
  BY <1>2, <1>4 DEF GoesOn
<1>7. \A n \in Nodes(plan) : plan.deps[n] \ ToSet(placed) = plan.deps[n]
  BY <1>4
<1>8. ready' = Free(plan, placed)
  BY <1>1, <1>4 DEF Free
<1>9. \A n \in Nodes(plan) : indegree'[n] = Cardinality(plan.deps[n] \ ToSet(placed))
  BY <1>1, <1>2, <1>7
<1>10. Sorts'
  BY <1>1, <1>6, <1>8, <1>9 DEF Sorts
<1> QED
  BY <1>5, <1>10 DEF SortInv

LEMMA PlaceKeeps ==
  ASSUME SortInv, Place
  PROVE  SortInv'
<1> DEFINE n == First(plan, ready)
           N == Nodes(plan)
           deps == plan.deps
           P == ToSet(placed)
           k == Len(placed)
<1>1. /\ plan \in Plans /\ stage = "sorting" /\ WellFormed(plan) /\ GoesOn(placed, plan.order)
      /\ placed \in Seq(Identities) /\ indegree \in [Identities -> Nat]
      /\ \A m \in Identities : indegree[m] <= Len(plan.nodes)
      /\ ready = Free(plan, placed) /\ ready # {}
      /\ \A m \in N : indegree[m] = Cardinality(deps[m] \ P)
      /\ plan' = plan /\ stage' = stage /\ placed' = Append(placed, n)
      /\ indegree' = [m \in Identities |-> IF m \in Followers(n) THEN indegree[m] - 1 ELSE indegree[m]]
      /\ ready' = (ready \ {n}) \union {m \in Followers(n) : indegree[m] = 1}
  BY DEF SortInv, PlanTypes, Sorts, Place
<1>2. /\ N \subseteq Identities /\ IsFiniteSet(N) /\ Len(plan.order) = Len(plan.nodes) /\ Len(plan.order) \in Nat
      /\ plan.order \in Seq(Identities)
  BY <1>1, OrderOf
<1>3. \A m \in N : deps[m] \subseteq N /\ m \notin deps[m]
  <2>1. \A m \in N : deps[m] \subseteq N \ {m}
    BY <1>1, OrderOf
  <2> QED
    BY <2>1
<1>4. /\ k \in 0..Len(plan.order) /\ P \subseteq N /\ \A m \in P : deps[m] \subseteq P
  BY <1>1, HeadOf
<1>5. k < Len(plan.order) /\ n = plan.order[k + 1] /\ n \in ready
  <2>1. k # Len(plan.order)
    BY <1>1, FirstIsNext
  <2>2. k < Len(plan.order)
    BY <1>2, <1>4, <2>1
  <2> QED
    BY <1>1, <2>2, FirstIsNext
<1>6. n \in N /\ n \notin P /\ n \in Identities
  BY <1>1, <1>2, <1>5 DEF Free
<1>7. placed' \in Seq(Identities) /\ Len(placed') = k + 1 /\ ToSet(placed') = P \union {n}
  BY <1>1, <1>6, AppendSet
<1>8. GoesOn(placed', plan.order)
  <2>1. \A i \in 1..k : placed'[i] = placed[i] /\ plan.order[i] = placed[i]
    BY <1>1, <1>6 DEF GoesOn
  <2>2. placed'[k + 1] = n
    BY <1>1, <1>6
  <2>3. k \in Nat /\ k + 1 <= Len(plan.order) /\ \A i \in 1..(k + 1) : i \in 1..k \/ i = k + 1
    BY <1>2, <1>4, <1>5
  <2> HIDE DEF k, n
  <2> QED
    BY <1>5, <1>7, <2>1, <2>2, <2>3 DEF GoesOn
<1>9. \A m \in N : m \in Followers(n) <=> n \in deps[m]
  BY DEF Followers
<1>10. Followers(n) \subseteq N
  BY DEF Followers
<1>11. ready = {m \in N \ P : deps[m] \subseteq P}
  BY <1>1 DEF Free
<1>12. \A m \in N : \/ indegree'[m] = indegree[m] - 1 /\ n \in deps[m]
                    \/ indegree'[m] = indegree[m] /\ n \notin deps[m]
  BY <1>1, <1>2, <1>9
<1> HIDE DEF n, N, deps, P, k
<1>13. ASSUME NEW m \in N
       PROVE  /\ Cardinality(deps[m] \ P) \in Nat
              /\ n \in deps[m] => Cardinality(deps[m] \ (P \union {n})) = Cardinality(deps[m] \ P) - 1
              /\ n \in deps[m] => (Cardinality(deps[m] \ P) = 1 <=> deps[m] \subseteq P \union {n})
              /\ n \notin deps[m] => deps[m] \ (P \union {n}) = deps[m] \ P
  <2> DEFINE D == deps[m]
  <2>1. D \in SUBSET N /\ IsFiniteSet(N) /\ n \notin P
    BY <1>2, <1>3, <1>6
  <2> HIDE DEF D
  <2>2. WaitsForOneLess(D, P, n)
    BY <2>1, OneLess
  <2> QED
    BY <2>2 DEF WaitsForOneLess, D
<1>14. \A m \in N : indegree'[m] = Cardinality(deps[m] \ (P \union {n}))
  <2> SUFFICES ASSUME NEW m \in N PROVE indegree'[m] = Cardinality(deps[m] \ (P \union {n}))
    OBVIOUS
  <2>1. indegree[m] = Cardinality(deps[m] \ P)
    BY <1>1
  <2>2. CASE n \in deps[m]
    BY <1>12, <1>13, <2>1, <2>2
  <2>3. CASE n \notin deps[m]
    BY <1>12, <1>13, <2>1, <2>3
  <2> QED
    BY <2>2, <2>3
<1>15. ready' = {m \in N \ (P \union {n}) : deps[m] \subseteq P \union {n}}
  <2>1. ready' = (ready \ {n}) \union {m \in N : n \in deps[m] /\ Cardinality(deps[m] \ P) = 1}
    BY <1>1, <1>9, <1>10
  <2>2. \A m \in N : n \in deps[m] => m \notin P /\ m # n
    BY <1>3, <1>4, <1>6
  <2>3. \A m \in N : n \in deps[m] => (Cardinality(deps[m] \ P) = 1 <=> deps[m] \subseteq P \union {n})
    BY <1>13
  <2>4. \A m \in N : n \notin deps[m] => (deps[m] \subseteq P <=> deps[m] \subseteq P \union {n})
    OBVIOUS
  <2>5. \A m \in N : n \in deps[m] => m \notin ready
    BY <1>6, <1>11
  <2> QED
    BY <1>11, <2>1, <2>2, <2>3, <2>4, <2>5
<1>16. ready' = Free(plan, placed')
  BY <1>7, <1>15 DEF Free, N, deps
<1>17. PlanTypes'
  <2>1. ASSUME NEW m \in Identities PROVE indegree'[m] \in Nat /\ indegree'[m] <= Len(plan.nodes)
    <3>1. CASE m \in N /\ n \in deps[m]
      <4>1. Cardinality(deps[m] \ P) # 0
        <5>1. IsFiniteSet(deps[m] \ P) /\ n \in deps[m] \ P
          BY <1>2, <1>3, <1>6, <3>1, FS_Subset
        <5> QED
          BY <5>1, FS_EmptySet
      <4>2. indegree[m] \in Nat /\ indegree[m] # 0 /\ indegree[m] <= Len(plan.nodes) /\ indegree'[m] = indegree[m] - 1
        BY <1>1, <1>12, <3>1, <4>1
      <4> QED
        BY <1>2, <4>2
    <3>2. CASE ~(m \in N /\ n \in deps[m])
      <4>1. m \notin Followers(n)
        BY <1>9, <1>10, <3>2
      <4> QED
        BY <1>1, <4>1
    <3> QED
      BY <3>1, <3>2
  <2>2. indegree' \in [Identities -> Nat]
    BY <1>1, <2>1
  <2> QED
    BY <1>1, <1>7, <2>1, <2>2 DEF PlanTypes
<1>18. Sorts'
  <2>1. \A m \in Nodes(plan) : indegree'[m] = Cardinality(plan.deps[m] \ ToSet(placed'))
    BY <1>7, <1>14 DEF N, deps
  <2> QED
    BY <1>1, <1>8, <1>16, <2>1 DEF Sorts
<1> QED
  BY <1>17, <1>18 DEF SortInv

\* The sort ends with the whole order.
LEMMA FinishIs ==
  ASSUME SortInv, FinishSort
  PROVE  /\ stage' = "accepted" /\ plan' = [plan EXCEPT !.order = plan.order, !.nodes = plan.order]
         /\ placed = plan.order
<1>1. /\ plan \in Plans /\ stage = "sorting" /\ WellFormed(plan) /\ GoesOn(placed, plan.order)
      /\ placed \in Seq(Identities) /\ indegree \in [Identities -> Nat]
      /\ \A m \in Identities : indegree[m] <= Len(plan.nodes)
      /\ Free(plan, placed) = {} /\ ready = {}
      /\ IF Len(placed) = Len(plan.nodes)
           THEN stage' = "accepted" /\ plan' = [plan EXCEPT !.order = placed, !.nodes = placed]
           ELSE stage' = "cyclic" /\ UNCHANGED plan
      /\ indegree' = indegree /\ ready' = ready /\ placed' = placed
  BY DEF SortInv, PlanTypes, Sorts, FinishSort
<1>2. Len(plan.order) = Len(plan.nodes) /\ Len(plan.order) \in Nat /\ plan.order \in Seq(Identities)
  BY <1>1, OrderOf
<1>3. Len(placed) = Len(plan.order)
  <2>1. ~(Len(placed) < Len(plan.order))
    <3> SUFFICES ASSUME Len(placed) < Len(plan.order) PROVE FALSE
      OBVIOUS
    <3>1. plan.order[Len(placed) + 1] \in Free(plan, placed)
      BY <1>1, FirstIsNext
    <3> QED
      BY <1>1, <3>1
  <2>2. Len(placed) \in 0..Len(plan.order)
    BY <1>1, HeadOf
  <2> QED
    BY <1>2, <2>1, <2>2
<1>4. placed = plan.order
  <2>1. \A i \in 1..Len(placed) : placed[i] = plan.order[i]
    BY <1>1 DEF GoesOn
  <2> QED
    BY <1>1, <1>2, <1>3, <2>1, SeqEqual
<1>5. stage' = "accepted" /\ plan' = [plan EXCEPT !.order = plan.order, !.nodes = plan.order]
  BY <1>1, <1>2, <1>3, <1>4
<1> QED
  BY <1>4, <1>5

LEMMA FinishSortKeeps ==
  ASSUME SortInv, FinishSort
  PROVE  SortInv'
<1>1. /\ plan \in Plans /\ stage = "sorting" /\ WellFormed(plan)
      /\ placed \in Seq(Identities) /\ indegree \in [Identities -> Nat]
      /\ \A m \in Identities : indegree[m] <= Len(plan.nodes)
      /\ ready = {} /\ indegree' = indegree /\ ready' = ready /\ placed' = placed
  BY DEF SortInv, PlanTypes, Sorts, FinishSort
<1>2. /\ stage' = "accepted" /\ plan' = [plan EXCEPT !.order = plan.order, !.nodes = plan.order]
      /\ placed = plan.order
  BY FinishIs
<1>3. /\ plan' \in Plans /\ WellFormed(plan') /\ plan'.nodes = placed /\ plan'.order = placed
      /\ Len(plan'.nodes) = Len(plan.nodes)
  BY <1>1, <1>2, InItsOrder
<1>4. GoesOn(placed, placed)
  <2>1. Len(placed) \in Nat
    BY <1>1
  <2> QED
    BY <2>1 DEF GoesOn
<1>5. PlanTypes'
  BY <1>1, <1>2, <1>3 DEF PlanTypes
<1>6. Sorts'
  BY <1>1, <1>2, <1>3, <1>4 DEF Sorts
<1> QED
  BY <1>5, <1>6 DEF SortInv

LEMMA ValidateKeeps ==
  ASSUME SortInv, Validate
  PROVE  SortInv'
<1>1. CASE Refuse
  BY <1>1 DEF SortInv, PlanTypes, Sorts, Refuse
<1> QED
  BY <1>1, StartKeeps, PlaceKeeps, FinishSortKeeps DEF Validate

\* A plan that is well-formed is not refused, and keeps its order.
LEMMA ValidateGoesOn ==
  ASSUME SortInv, Validate, stage = "proposed" => WellFormed(plan)
  PROVE  stage' \notin {"proposed", "refused"} /\ plan'.deps = plan.deps /\ plan'.order = plan.order
<1>1. ~Refuse
  BY DEF Refuse
<1>2. CASE StartSort \/ Place
  BY <1>2 DEF SortInv, Sorts, StartSort, Place
<1>3. CASE FinishSort
  <2>1. /\ plan \in Plans /\ WellFormed(plan)
        /\ stage' = "accepted" /\ plan' = [plan EXCEPT !.order = plan.order, !.nodes = plan.order]
    BY <1>3, FinishIs DEF SortInv, PlanTypes, Sorts, FinishSort
  <2> QED
    BY <2>1, InItsOrder
<1> QED
  BY <1>1, <1>2, <1>3 DEF Validate

LEMMA ProposeSorts ==
  ASSUME NEW p \in Plans, Propose(p)
  PROVE  SortInv
<1>1. plan \in Plans /\ stage = "proposed" /\ indegree = [n \in Identities |-> 0] /\ ready = {} /\ placed = <<>>
  BY DEF Propose
<1>2. Len(plan.nodes) \in Nat
  BY <1>1 DEF Plans
<1>3. placed \in Seq(Identities)
  BY <1>1, EmptyIs
<1> QED
  BY <1>1, <1>2, <1>3 DEF SortInv, PlanTypes, Sorts

LEMMA SortRests ==
  ASSUME SortInv, UNCHANGED planVars
  PROVE  SortInv'
BY DEF SortInv, PlanTypes, Sorts, planVars

\* What the sort keeps makes an accepted plan sound.
LEMMA SortsSoundly ==
  ASSUME SortInv
  PROVE  PlanTypeOK /\ AcceptedPlanIsSound
<1>1. /\ plan \in Plans /\ placed \in Seq(Identities) /\ Len(placed) \in Nat
      /\ stage \in {"proposed", "refused", "sorting", "cyclic", "accepted"} /\ stage # "cyclic"
      /\ indegree \in [Identities -> Nat] /\ \A n \in Identities : indegree[n] <= Len(plan.nodes)
      /\ stage \in {"proposed", "refused"} => ready = {} /\ placed = <<>>
      /\ stage \in {"sorting", "accepted"} => WellFormed(plan) /\ GoesOn(placed, plan.order)
      /\ stage = "sorting" => ready = Free(plan, placed)
      /\ stage = "accepted" => ready = {} /\ plan.order = placed /\ plan.nodes = placed
  BY DEF SortInv, PlanTypes, Sorts
<1>2. IsInjective(placed)
  BY <1>1, EmptyIs, HeadOf
<1>3. ready \intersect ToSet(placed) = {}
  BY <1>1 DEF Free
<1>4. Len(plan.nodes) \in Nat
  BY <1>1 DEF Plans
<1>5. PlanTypeOK
  BY <1>1, <1>2, <1>3, <1>4 DEF PlanTypeOK
<1>6. PlannersOrderStands
  <2> SUFFICES ASSUME stage \in {"sorting", "accepted"}
               PROVE  placed = SubSeq(plan.order, 1, Len(placed)) /\ (stage = "accepted" => Len(placed) = Len(plan.nodes))
    BY <1>1 DEF PlannersOrderStands
  <2>1. GoesOn(placed, plan.order) /\ plan.order \in Seq(Identities) /\ Len(plan.order) \in Nat
    BY <1>1, OrderOf
  <2> DEFINE o == plan.order
             h == SubSeq(o, 1, Len(placed))
  <2>2. Len(placed) <= Len(o) /\ o \in Seq(Identities) /\ \A i \in 1..Len(placed) : o[i] = placed[i]
    BY <2>1 DEF GoesOn
  <2> HIDE DEF o
  <2>3. h \in Seq(Identities) /\ Len(h) = Len(placed) /\ \A i \in 1..Len(placed) : h[i] = o[i]
    BY <1>1, <2>2
  <2> HIDE DEF h
  <2>4. placed = h
    BY <1>1, <2>2, <2>3, SeqEqual
  <2> QED
    BY <1>1, <2>4 DEF h, o
<1>7. CyclesAreRefused
  BY <1>1, NoCircle DEF CyclesAreRefused
<1>8. ASSUME stage = "accepted"
      PROVE  LET ran == Ran(plan.nodes, plan.deps)
                 after(k) == ToSet(ran[k])
             IN /\ WavesEnd(plan.nodes, plan.deps) /\ IsInjective(ran[Len(plan.nodes)])
                /\ \A n \in Nodes(plan) : \A d \in plan.deps[n] :
                     \E k \in DOMAIN ran : d \in after(k) /\ n \notin after(k)
  <2> DEFINE l == plan.nodes
             deps == plan.deps
             ran == Ran(l, deps)
  <2>1. /\ l \in Seq(Identities) /\ IsInjective(l) /\ Len(l) \in Nat /\ Nodes(plan) = ToSet(l)
        /\ \A i \in 1..Len(l) : \A d \in deps[l[i]] : \E j \in 1..(i - 1) : d = l[j]
    <3>1. WellFormed(plan) /\ plan.order = plan.nodes
      BY <1>1, <1>8
    <3>2. /\ plan.nodes \in Seq(Identities) /\ IsInjective(plan.nodes) /\ Nodes(plan) = ToSet(plan.nodes)
          /\ Len(plan.order) = Len(plan.nodes) /\ Len(plan.order) \in Nat
          /\ \A i \in 1..Len(plan.order) : \A d \in plan.deps[plan.order[i]] : \E j \in 1..(i - 1) : d = plan.order[j]
      BY <1>1, <3>1, OrderOf
    <3> QED
      BY <3>1, <3>2
  <2> HIDE DEF l, deps
  <2>2. WavesEnd(l, deps) /\ ToSet(Flat(l, deps)) = ToSet(l)
    BY <2>1, WavesDoEnd
  <2>3. DOMAIN ran = 0..Len(l) /\ IsInjective(ran[Len(l)])
    <3>1. WaveByWave(ran, l, deps, Identities)
      BY <2>1, RanSteps
    <3> HIDE DEF ran
    <3> QED
      BY <2>1, <3>1 DEF WaveByWave
  <2>4. ASSUME NEW n \in ToSet(l), NEW d \in deps[n]
        PROVE  \E k \in DOMAIN ran : d \in ToSet(ran[k]) /\ n \notin ToSet(ran[k])
    <3>1. PICK k \in 1..Len(l) : n \notin ToSet(ran[k - 1]) /\ deps[n] \subseteq ToSet(ran[k - 1])
      BY <2>1, <2>2, RanOnce
    <3>2. k - 1 \in DOMAIN ran
      BY <2>1, <2>3
    <3> HIDE DEF ran
    <3> QED
      BY <2>4, <3>1, <3>2
  <2> QED
    BY <2>1, <2>2, <2>3, <2>4 DEF l, deps
<1>9. AcceptedPlanRuns
  BY <1>8 DEF AcceptedPlanRuns
<1> QED
  BY <1>5, <1>6, <1>7, <1>9 DEF AcceptedPlanIsSound
-----------------------------------------------------------------------------
(***************************************************************************)
(* What a continuation runs again.                                         *)
(***************************************************************************)
\* Whoever waits for a member of S is in S.
ClosedUnder(S, nodes, deps) == \A n \in ToSet(nodes) : deps[n] \intersect S # {} => n \in S

\* A pass adds nothing that a closed set does not have, and a pass that adds
\* nothing has seen a closed set.
LEMMA PassIs ==
  ASSUME NEW S, NEW nodes \in Seq(S), NEW set, NEW deps
  PROVE  /\ set \subseteq Pass(nodes, set, deps) /\ Pass(nodes, set, deps) \subseteq set \union ToSet(nodes)
         /\ \A T : set \subseteq T /\ ClosedUnder(T, nodes, deps) => Pass(nodes, set, deps) \subseteq T
         /\ Pass(nodes, set, deps) = set => ClosedUnder(set, nodes, deps)
<1> DEFINE n == Len(nodes)
           V == SUBSET (set \union ToSet(nodes))
           Step(k, q) == IF deps[nodes[k]] \intersect q # {} THEN q \union {nodes[k]} ELSE q
           Up(g) == [k \in 0..n |-> IF k = 0 THEN set
                                    ELSE IF deps[nodes[k]] \intersect g[k - 1] # {} THEN g[k - 1] \union {nodes[k]} ELSE g[k - 1]]
           do == [k \in 1..n |-> [q \in V |-> Step(k, q)]]
           u == CHOOSE g : g = Up(g)
<1>1. n \in Nat /\ (\A k \in 1..n : nodes[k] \in ToSet(nodes)) /\ \A x \in ToSet(nodes) : \E k \in 1..n : x = nodes[k]
  BY SetOf
<1>2. set \in V /\ \A k \in 1..n, q \in V : Step(k, q) \in V
  BY <1>1
<1>3. Pass(nodes, set, deps) = u[n]
  BY DEF Pass
<1> HIDE DEF n, V
<1>4. do \in [1..n -> [V -> V]] /\ \A k \in 1..n, q \in V : do[k][q] = Step(k, q)
  <2> HIDE DEF Step
  <2> QED BY <1>2
<1>5. \E f : f = Up(f)
  <2> HIDE DEF do, Step
  <2>1. PICK f : f \in [0..n -> V] /\ f[0] = set /\ \A k \in 1..n : f[k] = do[k][f[k - 1]]
    <3>1. Steps(do, n, V) /\ set \in V /\ n \in Nat
      BY <1>1, <1>2, <1>4 DEF Steps
    <3>2. \E f : Iterated(f, do, set, n, V)
      BY <3>1, Iterates
    <3> QED
      BY <3>2 DEF Iterated
  <2>2. \A k \in 0..n : k # 0 => k \in 1..n /\ f[k - 1] \in V
    BY <1>1, <2>1
  <2>3. \A k \in 0..n : f[k] = IF k = 0 THEN set ELSE Step(k, f[k - 1])
    BY <1>4, <2>1, <2>2
  <2>4. f = [k \in 0..n |-> IF k = 0 THEN set ELSE Step(k, f[k - 1])]
    BY <2>1, <2>3
  <2>5. f = Up(f)
    BY <2>4 DEF Step
  <2> HIDE DEF Up
  <2> QED
    BY <2>5
<1>6. u = Up(u)
  <2> HIDE DEF Up
  <2> QED BY <1>5
<1> HIDE DEF u
<1>7. u[0] = set /\ \A k \in 1..n : u[k] = Step(k, u[k - 1])
  <2>1. u = [k \in 0..n |-> IF k = 0 THEN set ELSE Step(k, u[k - 1])]
    BY <1>6
  <2> HIDE DEF Step
  <2>2. 0 \in 0..n /\ \A k \in 1..n : k \in 0..n /\ k # 0
    BY <1>1
  <2> QED
    BY <2>1, <2>2
<1>8. \A k \in 1..n : u[k - 1] \subseteq u[k]
  BY <1>7
\* The sets grow.
<1> DEFINE A == {k \in 0..n : set \subseteq u[k] /\ u[k] \subseteq set \union ToSet(nodes) /\ \A j \in 0..k : u[j] \subseteq u[k]}
<1>9. 0 \in A
  <2>1. \A j \in 0..0 : j = 0
    OBVIOUS
  <2>2. 0 \in 0..n
    BY <1>1
  <2> QED
    BY <1>7, <2>1, <2>2
<1>10. ASSUME NEW k \in 1..n, k - 1 \in A
       PROVE  k \in A
  <2>1. set \subseteq u[k - 1] /\ u[k - 1] \subseteq set \union ToSet(nodes) /\ \A j \in 0..(k - 1) : u[j] \subseteq u[k - 1]
    BY <1>10
  <2>2. u[k] \subseteq u[k - 1] \union {nodes[k]} /\ nodes[k] \in ToSet(nodes)
    BY <1>1, <1>7
  <2>3. k \in 0..n /\ \A j \in 0..k : j \in 0..(k - 1) \/ j = k
    BY <1>1
  <2> QED
    BY <1>8, <2>1, <2>2, <2>3
<1>11. \A k \in 0..n : k \in A
  <2> HIDE DEF A
  <2> QED
    BY <1>1, <1>9, <1>10, UpTo
<1>12. n \in 0..n /\ \A k \in 1..n : k \in 0..n /\ k - 1 \in 0..n
  BY <1>1
<1>13. set \subseteq u[n] /\ u[n] \subseteq set \union ToSet(nodes) /\ \A k \in 0..n : set \subseteq u[k] /\ u[k] \subseteq u[n]
  BY <1>11, <1>12
<1>14. ASSUME NEW T, set \subseteq T, ClosedUnder(T, nodes, deps)
       PROVE  u[n] \subseteq T
  <2> DEFINE B == {k \in 0..n : u[k] \subseteq T}
  <2>1. 0 \in B
    BY <1>1, <1>7, <1>14
  <2>2. ASSUME NEW k \in 1..n, k - 1 \in B
        PROVE  k \in B
    <3>1. deps[nodes[k]] \intersect u[k - 1] # {} => nodes[k] \in T
      BY <1>1, <1>14, <2>2 DEF ClosedUnder
    <3>2. u[k] \subseteq T
      BY <1>7, <2>2, <3>1
    <3> QED
      BY <1>12, <3>2
  <2>3. \A k \in 0..n : k \in B
    <3> HIDE DEF B
    <3> QED
      BY <1>1, <2>1, <2>2, UpTo
  <2> QED
    BY <1>12, <2>3
<1>15. ASSUME u[n] = set
       PROVE  ClosedUnder(set, nodes, deps)
  <2> SUFFICES ASSUME NEW x \in ToSet(nodes), deps[x] \intersect set # {} PROVE x \in set
    BY DEF ClosedUnder
  <2>1. PICK k \in 1..n : x = nodes[k]
    BY <1>1
  <2>2. u[k - 1] = set /\ u[k] = set
    BY <1>12, <1>13, <1>15
  <2>3. u[k] = Step(k, set)
    BY <1>7, <2>2
  <2> QED
    BY <2>1, <2>2, <2>3
<1> QED
  BY <1>3, <1>13, <1>14, <1>15
-----------------------------------------------------------------------------
(***************************************************************************)
(* The continuation.  Beside the sort, the invariant says how far the sets *)
(* have come: they hold the failures, they hold no more than any set that  *)
(* is closed under what rests on a failure, and when the plan is made the  *)
(* affected tasks are closed themselves.                                   *)
(***************************************************************************)
CallTypes ==
  /\ source \in Plans
  /\ request \in [changed : SUBSET Identities, deps : [Identities -> SUBSET Identities]]
  /\ step \in {"planned", "checking", "refused", "expanding", "growing", "validating"}
  /\ editable \subseteq Nodes(source) /\ affected \subseteq Nodes(source)

\* What was accepted once would be again.
SourceStands == step # "planned" => WellFormed(source)

NotValidatedYet == step \in {"checking", "refused", "expanding", "growing"} => stage = "proposed"

FailuresAreIn ==
  step \in {"expanding", "growing", "validating"} =>
    Failed \subseteq affected /\ \A S : RestsOnFailure(S) => editable \subseteq S /\ affected \subseteq S

ChangesAreIn == step \in {"growing", "validating"} => request.changed \subseteq editable

PlanIsMade ==
  step = "validating" =>
    /\ request.changed \subseteq affected
    /\ ClosedUnder(affected, source.nodes, source.deps)
    /\ plan.deps = NewDeps
    /\ fixed => plan.order = source.order
    /\ stage # "refused"
    /\ stage = "proposed" => WellFormed(plan)

ContinueInv ==
  /\ SortInv /\ CallTypes /\ SourceStands /\ NotValidatedYet
  /\ FailuresAreIn /\ ChangesAreIn /\ PlanIsMade

LEMMA ContinueStarts ==
  ASSUME PlannedInit \/ ContinueInit
  PROVE  ContinueInv
<1>1. CASE PlannedInit
  <2>1. /\ source \in Plans /\ Propose(source) /\ step = "planned" /\ editable = {} /\ affected = {}
        /\ request = [changed |-> {}, deps |-> source.deps]
    BY <1>1, ProposalsAssumption DEF PlannedInit
  <2>2. SortInv
    BY <2>1, ProposeSorts
  <2>3. CallTypes
    BY <2>1 DEF CallTypes, Plans
  <2> QED
    BY <2>1, <2>2, <2>3 DEF ContinueInv, SourceStands, NotValidatedYet, FailuresAreIn, ChangesAreIn, PlanIsMade
<1>2. CASE ContinueInit
  <2>1. /\ source \in Sources /\ request \in Requests
        /\ Propose(source) /\ step = "checking" /\ editable = {} /\ affected = {}
    BY <1>2 DEF ContinueInit
  <2>2. /\ source \in Plans /\ source.order = source.nodes /\ NodesAreMembers(source)
        /\ DependenciesAreSelected(source) /\ OrderRespectsDependencies(source)
    BY <2>1, SourcesAssumption
  <2>3. SortInv
    BY <2>1, <2>2, ProposeSorts
  <2>4. CallTypes
    BY <2>1, <2>2, RequestsAssumption DEF CallTypes
  <2>5. WellFormed(source)
    BY <2>2 DEF WellFormed, OrderIsComplete, Nodes
  <2>6. stage = "proposed"
    BY <2>1 DEF Propose
  <2> QED
    BY <2>1, <2>3, <2>4, <2>5, <2>6
       DEF ContinueInv, SourceStands, NotValidatedYet, FailuresAreIn, ChangesAreIn, PlanIsMade
<1> QED
  BY <1>1, <1>2

\* The call is read again and never written.
LEMMA CallRests ==
  ASSUME UNCHANGED callVars
  PROVE  /\ source' = source /\ fixed' = fixed /\ request' = request /\ Failed' = Failed /\ NewDeps' = NewDeps
         /\ \A S : RestsOnFailure(S)' <=> RestsOnFailure(S)
BY DEF callVars, Failed, NewDeps, RestsOnFailure, Nodes

\* What the lead changed was editable, so the new dependencies lead nowhere else.
LEMMA NewDepsLeadNowhere ==
  ASSUME CallTypes, FailuresAreIn, step = "growing", ChangesAreIn, NEW S, RestsOnFailure(S)
  PROVE  ClosedUnder(S, source.nodes, source.deps) /\ ClosedUnder(S, source.nodes, NewDeps)
<1>1. /\ source.nodes \in Seq(Identities) /\ request.changed \subseteq editable /\ editable \subseteq S
      /\ \A n \in Nodes(source) : source.deps[n] \intersect S # {} => n \in S
  BY DEF CallTypes, Plans, FailuresAreIn, ChangesAreIn, RestsOnFailure
<1>2. Nodes(source) = ToSet(source.nodes) /\ ToSet(source.nodes) \subseteq Identities
  BY <1>1, SetOf DEF Nodes
<1>3. \A n \in Nodes(source) : n \in request.changed \/ NewDeps[n] = source.deps[n]
  BY <1>2 DEF NewDeps
<1> QED
  BY <1>1, <1>2, <1>3 DEF ClosedUnder

LEMMA CheckRequestKeeps ==
  ASSUME ContinueInv, CheckRequest
  PROVE  ContinueInv'
<1> USE DEF ContinueInv
<1>1. UNCHANGED planVars /\ UNCHANGED callVars /\ step = "checking"
  BY DEF CheckRequest, Refused
<1>2. SortInv'
  BY <1>1, SortRests
<1>3. /\ source' = source /\ request' = request /\ Failed' = Failed /\ \A S : RestsOnFailure(S)' <=> RestsOnFailure(S)
  BY <1>1, CallRests
<1>4. \/ step' = "refused" /\ editable' = editable /\ affected' = affected
      \/ step' = "expanding" /\ editable' = Failed /\ affected' = Failed
  BY DEF CheckRequest, Refused
<1>5. CallTypes'
  <2>1. Failed \subseteq Nodes(source) /\ Nodes(source)' = Nodes(source)
    BY <1>3 DEF Failed, Nodes
  <2> QED
    BY <1>3, <1>4, <2>1 DEF CallTypes
<1>6. SourceStands'
  BY <1>1, <1>3 DEF SourceStands
<1>7. NotValidatedYet'
  BY <1>1 DEF NotValidatedYet, planVars
<1>8. FailuresAreIn'
  <2> SUFFICES ASSUME step' = "expanding"
               PROVE  Failed' \subseteq affected' /\ \A S : RestsOnFailure(S)' => editable' \subseteq S /\ affected' \subseteq S
    BY <1>4 DEF FailuresAreIn
  <2>1. editable' = Failed /\ affected' = Failed
    BY <1>4
  <2>2. \A S : RestsOnFailure(S) => Failed \subseteq S
    BY DEF RestsOnFailure
  <2> QED
    BY <1>3, <2>1, <2>2
<1>9. ChangesAreIn' /\ PlanIsMade'
  BY <1>4 DEF ChangesAreIn, PlanIsMade
<1> QED
  BY <1>2, <1>5, <1>6, <1>7, <1>8, <1>9

LEMMA ExpandEditableKeeps ==
  ASSUME ContinueInv, ExpandEditable
  PROVE  ContinueInv'
<1> USE DEF ContinueInv
<1>1. /\ UNCHANGED planVars /\ UNCHANGED callVars /\ step = "expanding" /\ step' = step /\ affected' = affected
      /\ editable' = Pass(source.nodes, editable, source.deps)
  BY DEF ExpandEditable, Expanded
<1>2. SortInv'
  BY <1>1, SortRests
<1>3. /\ source' = source /\ request' = request /\ Failed' = Failed /\ \A S : RestsOnFailure(S)' <=> RestsOnFailure(S)
  BY <1>1, CallRests
<1>4. /\ source.nodes \in Seq(Identities) /\ editable \subseteq Nodes(source)
      /\ Nodes(source) = ToSet(source.nodes)
  BY DEF CallTypes, Plans, Nodes
<1>5. /\ editable' \subseteq editable \union ToSet(source.nodes)
      /\ \A S : editable \subseteq S /\ ClosedUnder(S, source.nodes, source.deps) => editable' \subseteq S
  BY <1>1, <1>4, PassIs
<1>6. CallTypes'
  <2>1. Nodes(source)' = Nodes(source) /\ editable' \subseteq Nodes(source)
    BY <1>3, <1>4, <1>5 DEF Nodes
  <2> QED
    BY <1>1, <1>3, <2>1 DEF CallTypes
<1>7. SourceStands'
  BY <1>1, <1>3 DEF SourceStands
<1>8. NotValidatedYet'
  BY <1>1 DEF NotValidatedYet, planVars
<1>9. FailuresAreIn'
  <2>1. Failed \subseteq affected /\ \A S : RestsOnFailure(S) => editable \subseteq S /\ affected \subseteq S
    BY <1>1 DEF FailuresAreIn
  <2>2. \A S : RestsOnFailure(S) => ClosedUnder(S, source.nodes, source.deps)
    BY <1>4 DEF RestsOnFailure, ClosedUnder
  <2>3. \A S : RestsOnFailure(S)' => editable' \subseteq S /\ affected' \subseteq S
    BY <1>1, <1>3, <1>5, <2>1, <2>2
  <2> QED
    BY <1>1, <1>3, <2>1, <2>3 DEF FailuresAreIn
<1>10. ChangesAreIn' /\ PlanIsMade'
  BY <1>1 DEF ChangesAreIn, PlanIsMade
<1> QED
  BY <1>2, <1>6, <1>7, <1>8, <1>9, <1>10

LEMMA CheckEditableKeeps ==
  ASSUME ContinueInv, CheckEditable
  PROVE  ContinueInv'
<1> USE DEF ContinueInv
<1>1. /\ UNCHANGED planVars /\ UNCHANGED callVars /\ step = "expanding"
      /\ editable' = editable /\ affected' = affected
      /\ step' = "refused" \/ (step' = "growing" /\ request.changed \subseteq editable)
  BY DEF CheckEditable, Refused
<1>2. SortInv'
  BY <1>1, SortRests
<1>3. /\ source' = source /\ request' = request /\ Failed' = Failed /\ \A S : RestsOnFailure(S)' <=> RestsOnFailure(S)
  BY <1>1, CallRests
<1>4. CallTypes'
  BY <1>1, <1>3 DEF CallTypes, Nodes
<1>5. SourceStands'
  BY <1>1, <1>3 DEF SourceStands
<1>6. NotValidatedYet'
  BY <1>1 DEF NotValidatedYet, planVars
<1>7. FailuresAreIn'
  BY <1>1, <1>3 DEF FailuresAreIn
<1>8. ChangesAreIn' /\ PlanIsMade'
  BY <1>1, <1>3 DEF ChangesAreIn, PlanIsMade
<1> QED
  BY <1>2, <1>4, <1>5, <1>6, <1>7, <1>8

LEMMA GrowAffectedKeeps ==
  ASSUME ContinueInv, GrowAffected
  PROVE  ContinueInv'
<1> USE DEF ContinueInv
<1> DEFINE mid == Pass(source.nodes, affected, source.deps)
<1>1. /\ UNCHANGED planVars /\ UNCHANGED callVars /\ step = "growing" /\ step' = step /\ editable' = editable
      /\ affected' = Pass(source.nodes, mid, NewDeps)
  BY DEF GrowAffected, Grown
<1>2. SortInv'
  BY <1>1, SortRests
<1>3. /\ source' = source /\ request' = request /\ Failed' = Failed /\ \A S : RestsOnFailure(S)' <=> RestsOnFailure(S)
  BY <1>1, CallRests
<1>4. /\ source.nodes \in Seq(Identities) /\ affected \subseteq Nodes(source)
      /\ Nodes(source) = ToSet(source.nodes)
  BY DEF CallTypes, Plans, Nodes
<1>5. /\ affected \subseteq mid /\ mid \subseteq affected \union ToSet(source.nodes)
      /\ \A S : affected \subseteq S /\ ClosedUnder(S, source.nodes, source.deps) => mid \subseteq S
  BY <1>4, PassIs
<1> HIDE DEF mid
<1>6. /\ mid \subseteq affected' /\ affected' \subseteq mid \union ToSet(source.nodes)
      /\ \A S : mid \subseteq S /\ ClosedUnder(S, source.nodes, NewDeps) => affected' \subseteq S
  BY <1>1, <1>4, PassIs
<1>7. CallTypes'
  <2>1. Nodes(source)' = Nodes(source) /\ affected' \subseteq Nodes(source)
    BY <1>3, <1>4, <1>5, <1>6 DEF Nodes
  <2> QED
    BY <1>1, <1>3, <2>1 DEF CallTypes
<1>8. SourceStands'
  BY <1>1, <1>3 DEF SourceStands
<1>9. NotValidatedYet'
  BY <1>1 DEF NotValidatedYet, planVars
<1>10. FailuresAreIn'
  <2>1. Failed \subseteq affected /\ \A S : RestsOnFailure(S) => editable \subseteq S /\ affected \subseteq S
    BY <1>1 DEF FailuresAreIn
  <2>2. \A S : RestsOnFailure(S) => ClosedUnder(S, source.nodes, source.deps) /\ ClosedUnder(S, source.nodes, NewDeps)
    BY <1>1, NewDepsLeadNowhere
  <2>3. \A S : RestsOnFailure(S) => affected' \subseteq S
    BY <1>5, <1>6, <2>1, <2>2
  <2>4. Failed' \subseteq affected' /\ \A S : RestsOnFailure(S)' => editable' \subseteq S /\ affected' \subseteq S
    BY <1>1, <1>3, <1>5, <1>6, <2>1, <2>3
  <2> QED
    BY <2>4 DEF FailuresAreIn
<1>11. ChangesAreIn' /\ PlanIsMade'
  BY <1>1, <1>3 DEF ChangesAreIn, PlanIsMade
<1> QED
  BY <1>2, <1>7, <1>8, <1>9, <1>10, <1>11
\* The plan that is made: the waves are its order.
LEMMA MadePlanStands ==
  ASSUME NEW p \in Plans, WellFormed(p), NEW q \in Plans, q.nodes = p.nodes,
         WavesEnd(q.nodes, q.deps), q.order = Flat(q.nodes, q.deps)
  PROVE  WellFormed(q)
<1> DEFINE l == q.nodes
           deps == q.deps
           flat == Flat(l, deps)
<1>1. l \in Seq(Identities) /\ IsInjective(l) /\ Nodes(q) = ToSet(l) /\ Nodes(q) = Nodes(p)
  BY OrderOf DEF Nodes
<1>2. WavesEnd(l, deps)
  OBVIOUS
<1> HIDE DEF l, deps
<1>3. ToSet(flat) = ToSet(l) /\ Len(flat) = Len(l)
  BY <1>1, <1>2, WavesEndWithAll DEF WavesEnd
<1>4. /\ \A x \in ToSet(flat) : deps[x] \subseteq ToSet(flat) \ {x}
      /\ \A x \in ToSet(flat) : \A d \in deps[x] : Position(flat, d) < Position(flat, x)
  BY <1>1, FlatOrders
<1> HIDE DEF flat
<1>5. q.order = flat /\ q.nodes = l /\ q.deps = deps
  BY DEF flat, l, deps
<1>6. NodesAreMembers(q)
  BY <1>1 DEF WellFormed, NodesAreMembers
<1>7. DependenciesAreSelected(q) /\ OrderIsComplete(q) /\ OrderRespectsDependencies(q)
  BY <1>1, <1>3, <1>4, <1>5 DEF DependenciesAreSelected, OrderIsComplete, OrderRespectsDependencies
<1> QED
  BY <1>6, <1>7 DEF WellFormed

LEMMA ResubmitKeeps ==
  ASSUME ContinueInv, Resubmit
  PROVE  ContinueInv'
<1> USE DEF ContinueInv
<1> DEFINE flat == Flat(source.nodes, NewDeps)
           mid == Pass(source.nodes, affected, source.deps)
<1>1. /\ UNCHANGED callVars /\ step = "growing" /\ Grown = affected
      /\ editable' = editable /\ affected' = affected /\ stage' = stage /\ placed' = placed /\ ready' = ready /\ indegree' = indegree
      /\ \/ step' = "refused" /\ UNCHANGED planVars
         \/ /\ step' = "validating" /\ plan' = [nodes |-> source.nodes, deps |-> NewDeps, order |-> flat]
            /\ request.changed \subseteq affected /\ WavesEnd(source.nodes, NewDeps) /\ (fixed => flat = source.order)
  BY DEF Resubmit, Refused, planVars, callVars
<1>2. /\ source' = source /\ fixed' = fixed /\ request' = request /\ Failed' = Failed /\ NewDeps' = NewDeps
      /\ \A S : RestsOnFailure(S)' <=> RestsOnFailure(S)
  BY <1>1, CallRests
<1>3. CallTypes'
  BY <1>1, <1>2 DEF CallTypes, Nodes
<1>4. SourceStands'
  BY <1>1, <1>2 DEF SourceStands
<1>5. FailuresAreIn' /\ ChangesAreIn' /\ NotValidatedYet'
  <2>1. stage = "proposed"
    BY <1>1 DEF NotValidatedYet
  <2> QED
    BY <1>1, <1>2, <2>1 DEF FailuresAreIn, ChangesAreIn, NotValidatedYet
<1>6. CASE step' = "refused"
  <2>1. SortInv'
    BY <1>1, <1>6, SortRests
  <2>2. PlanIsMade'
    BY <1>6 DEF PlanIsMade
  <2> QED
    BY <1>3, <1>4, <1>5, <2>1, <2>2
<1>7. CASE step' = "validating"
  <2>1. /\ plan' = [nodes |-> source.nodes, deps |-> NewDeps, order |-> flat] /\ request.changed \subseteq affected
        /\ WavesEnd(source.nodes, NewDeps) /\ (fixed => flat = source.order)
    BY <1>1, <1>7
  <2>2. /\ source \in Plans /\ WellFormed(source) /\ source.nodes \in Seq(Identities) /\ IsInjective(source.nodes)
        /\ Nodes(source) = ToSet(source.nodes) /\ affected \subseteq Nodes(source)
    <3>1. source \in Plans /\ WellFormed(source) /\ affected \subseteq Nodes(source)
      BY <1>1 DEF CallTypes, SourceStands
    <3> QED
      BY <3>1, OrderOf
  <2>3. flat \in Seq(Identities)
    BY <2>2, FlatOrders
  <2>4. NewDeps \in [Identities -> SUBSET Identities]
    BY <2>2 DEF NewDeps, CallTypes, Plans
  <2> HIDE DEF flat
  <2>5. /\ plan' \in Plans /\ plan'.nodes = source.nodes /\ plan'.deps = NewDeps /\ plan'.order = flat
    BY <2>1, <2>2, <2>3, <2>4 DEF Plans
  <2>6. WellFormed(plan')
    <3>1. plan'.order = Flat(plan'.nodes, plan'.deps) /\ WavesEnd(plan'.nodes, plan'.deps)
      BY <2>1, <2>5 DEF flat
    <3> QED
      BY <2>2, <2>5, <3>1, MadePlanStands
  <2>7. ClosedUnder(affected, source.nodes, source.deps)
    <3>1. affected \subseteq mid
      BY <2>2, PassIs
    <3>2. mid \subseteq affected
      <4>1. mid \subseteq Pass(source.nodes, mid, NewDeps)
        BY <2>2, PassIs
      <4> QED
        BY <1>1, <4>1 DEF Grown
    <3>3. mid = affected
      BY <3>1, <3>2
    <3> QED
      BY <2>2, <3>3, PassIs
  <2>8. SortInv'
    <3>1. /\ stage = "proposed" /\ indegree \in [Identities -> Nat] /\ ready = {} /\ placed = <<>>
          /\ placed \in Seq(Identities) /\ \A n \in Identities : indegree[n] = 0
      BY <1>1 DEF NotValidatedYet, SortInv, PlanTypes
    <3>2. Len(plan'.nodes) \in Nat
      BY <2>5 DEF Plans
    <3>3. PlanTypes'
      BY <1>1, <2>5, <3>1, <3>2 DEF PlanTypes
    <3> QED
      BY <1>1, <3>1, <3>3 DEF SortInv, Sorts
  <2>9. PlanIsMade'
    <3>1. stage' = "proposed"
      BY <1>1 DEF NotValidatedYet
    <3>2. ClosedUnder(affected, source.nodes, source.deps)'
      BY <1>1, <1>2, <2>7 DEF ClosedUnder
    <3> QED
      BY <1>1, <1>2, <2>1, <2>5, <2>6, <3>1, <3>2 DEF PlanIsMade
  <2> QED
    BY <1>3, <1>4, <1>5, <2>8, <2>9
<1> QED
  BY <1>1, <1>6, <1>7

LEMMA RevalidateKeeps ==
  ASSUME ContinueInv, Revalidate
  PROVE  ContinueInv'
<1> USE DEF ContinueInv
<1>1. /\ UNCHANGED callVars /\ step \in {"planned", "validating"} /\ step' = step /\ editable' = editable /\ affected' = affected
      /\ Validate
  BY DEF Revalidate
<1>2. SortInv'
  BY <1>1, ValidateKeeps
<1>3. /\ source' = source /\ fixed' = fixed /\ request' = request /\ Failed' = Failed /\ NewDeps' = NewDeps
      /\ \A S : RestsOnFailure(S)' <=> RestsOnFailure(S)
  BY <1>1, CallRests
<1>4. CallTypes' /\ SourceStands' /\ NotValidatedYet'
  BY <1>1, <1>3 DEF CallTypes, Nodes, SourceStands, NotValidatedYet
<1>5. FailuresAreIn' /\ ChangesAreIn'
  BY <1>1, <1>3 DEF FailuresAreIn, ChangesAreIn
<1>6. PlanIsMade'
  <2> SUFFICES ASSUME step = "validating" PROVE PlanIsMade'
    BY <1>1 DEF PlanIsMade
  <2>1. /\ request.changed \subseteq affected /\ ClosedUnder(affected, source.nodes, source.deps)
        /\ plan.deps = NewDeps /\ (fixed => plan.order = source.order) /\ (stage = "proposed" => WellFormed(plan))
    BY DEF PlanIsMade
  <2>2. stage' \notin {"proposed", "refused"} /\ plan'.deps = plan.deps /\ plan'.order = plan.order
    BY <1>1, <2>1, ValidateGoesOn
  <2>3. ClosedUnder(affected, source.nodes, source.deps)'
    BY <1>1, <1>3, <2>1 DEF ClosedUnder
  <2> QED
    BY <1>1, <1>3, <2>1, <2>2, <2>3 DEF PlanIsMade
<1> QED
  BY <1>2, <1>4, <1>5, <1>6

\* What the invariant says of a plan that is accepted.
LEMMA ContinuesExactly ==
  ASSUME ContinueInv
  PROVE  PlansAreExact
<1>1. PlanTypeOK /\ AcceptedPlanIsSound
  BY SortsSoundly DEF ContinueInv
<1>2. ContinueTypeOK
  BY <1>1 DEF ContinueTypeOK, ContinueInv, CallTypes
<1>3. ASSUME step = "validating"
      PROVE  /\ source \in Plans /\ WellFormed(source) /\ affected \subseteq Nodes(source) /\ Failed \subseteq affected
             /\ \A S : RestsOnFailure(S) => affected \subseteq S
             /\ request.changed \subseteq affected /\ ClosedUnder(affected, source.nodes, source.deps)
             /\ plan.deps = NewDeps /\ (fixed => plan.order = source.order) /\ stage # "refused"
  BY <1>3 DEF ContinueInv, CallTypes, SourceStands, FailuresAreIn, PlanIsMade
<1>4. ReuseIsSound
  <2> SUFFICES ASSUME step = "validating", NEW n \in Nodes(source) \ affected
               PROVE  n \in completed /\ plan.deps[n] = source.deps[n] /\ source.deps[n] \subseteq Nodes(source) \ affected
    BY DEF ReuseIsSound, Accepted, Reused
  <2>1. n \in completed
    BY <1>3 DEF Failed
  <2>2. n \in Identities /\ source.deps[n] \subseteq Nodes(source) /\ Nodes(source) = ToSet(source.nodes)
    <3>1. Nodes(source) \subseteq Identities /\ (\A m \in Nodes(source) : source.deps[m] \subseteq Nodes(source) \ {m})
          /\ Nodes(source) = ToSet(source.nodes)
      BY <1>3, OrderOf
    <3> QED
      BY <3>1
  <2>3. plan.deps[n] = source.deps[n]
    BY <1>3, <2>2 DEF NewDeps
  <2>4. source.deps[n] \intersect affected = {}
    BY <1>3, <2>2 DEF ClosedUnder
  <2> QED
    BY <2>1, <2>2, <2>3, <2>4
<1>5. NothingElseRestarts
  BY <1>3 DEF NothingElseRestarts, Accepted
<1>6. PlanSurvives
  <2>1. stage # "cyclic"
    BY DEF ContinueInv, SortInv, Sorts
  <2> QED
    BY <1>3, <2>1 DEF PlanSurvives, Accepted
<1> QED
  BY <1>1, <1>2, <1>4, <1>5, <1>6 DEF PlansAreExact, ContinuationIsExact

\* Whatever a planner proposes and whatever a lead changes of a failed plan
\* (validateExecutionPlan, executionWaves, prepareContinuation): a plan that is
\* accepted stands in its planner's order, has no circle and runs to its end,
\* and a continuation repeats the failures and what rests on them, no more.
THEOREM PlansAreAlwaysExact == ContinueSpec => []PlansAreExact
<1>1. PlannedInit \/ ContinueInit => ContinueInv
  BY ContinueStarts
<1>2. ContinueInv /\ [ContinueNext]_continueVars => ContinueInv'
  <2> SUFFICES ASSUME ContinueInv, [ContinueNext]_continueVars PROVE ContinueInv'
    OBVIOUS
  <2>1. CASE ContinueNext
    BY <2>1, CheckRequestKeeps, ExpandEditableKeeps, CheckEditableKeeps, GrowAffectedKeeps, ResubmitKeeps,
       RevalidateKeeps DEF ContinueNext
  <2>2. CASE UNCHANGED continueVars
    <3>1. UNCHANGED planVars /\ UNCHANGED callVars /\ step' = step /\ editable' = editable /\ affected' = affected
      BY <2>2 DEF continueVars
    <3>2. SortInv'
      BY <3>1, SortRests DEF ContinueInv
    <3>3. /\ source' = source /\ fixed' = fixed /\ request' = request /\ Failed' = Failed /\ NewDeps' = NewDeps
          /\ \A S : RestsOnFailure(S)' <=> RestsOnFailure(S)
      BY <3>1, CallRests
    <3>4. plan' = plan /\ stage' = stage
      BY <3>1 DEF planVars
    <3>5. CallTypes' /\ SourceStands' /\ NotValidatedYet'
      BY <3>1, <3>3, <3>4 DEF ContinueInv, CallTypes, Nodes, SourceStands, NotValidatedYet
    <3>6. FailuresAreIn' /\ ChangesAreIn' /\ PlanIsMade'
      BY <3>1, <3>3, <3>4 DEF ContinueInv, FailuresAreIn, ChangesAreIn, PlanIsMade, ClosedUnder
    <3> QED
      BY <3>2, <3>5, <3>6 DEF ContinueInv
  <2> QED
    BY <2>1, <2>2
<1>3. ContinueInv => PlansAreExact
  BY ContinuesExactly
<1> QED
  BY <1>1, <1>2, <1>3, PTL DEF ContinueSpec
-----------------------------------------------------------------------------
(***************************************************************************)
(* The chain of handoffs keeps its budget, for every budget, every number  *)
(* of deliveries and all lengths of their rows, also where a narrower cut  *)
(* is longer than a wider one.  The argument is an account: what is used,  *)
(* with the shares of the rows that are still to be filled, never exceeds  *)
(* the budget.                                                             *)
(***************************************************************************)
RowType == [length : Nat, complete : BOOLEAN]

Shape ==
  /\ deliveries \in Chains
  /\ at \in {"measure", "select", "fill", "search", "done"}
  /\ selected \in Seq(1..Len(deliveries)) /\ Len(selected) <= Len(deliveries)
  /\ rows \in Seq(RowType) /\ Len(rows) = Len(selected)
  /\ body \in Int

\* The rows from n on have nothing but the identities of their deliveries.
Bare(n) == \A k \in n..Len(rows) : rows[k].length = deliveries[selected[k]].least

Starting == at = "measure" => selected = <<>> /\ rows = <<>> /\ body = 0 /\ next = 1

Selecting ==
  at = "select" =>
    /\ next \in 1..Len(deliveries) + 1
    /\ Len(selected) < next
    /\ Bare(1)
    /\ Remaining \in Nat

Filling ==
  at \in {"fill", "search"} =>
    /\ next \in 1..Len(rows) + 1
    /\ extra \in Nat
    /\ Bare(next)
    /\ Remaining \in Int /\ (Len(rows) + 1 - next) * extra <= Remaining

Searching ==
  at = "search" =>
    /\ next <= Len(rows)
    /\ low \in 0..MaxWidth /\ high \in Int /\ high <= MaxWidth
    /\ Cut(Filled, low) <= Budget

Account == (at # "done" => Shape) /\ Starting /\ Selecting /\ Filling /\ Searching /\ ChainFits

-----------------------------------------------------------------------------
(* A share of what is left, for each row, is within what is left.           *)
LEMMA SharesFit ==
  ASSUME NEW r \in Nat, NEW n \in Nat, n > 0
  PROVE  r \div n \in Nat /\ n * (r \div n) <= r
  OBVIOUS

LEMMA Lengths ==
  ASSUME Shape
  PROVE  /\ Len(deliveries) \in Nat /\ Len(selected) \in Nat
         /\ Omitted \in 0..Len(deliveries)
         /\ \A n \in 0..Len(deliveries) : Frame(n) \in Nat
         /\ Frame(Len(deliveries)) + Note <= MaxChars
         /\ MaxChars \in Nat /\ Note \in Nat
<1>1. deliveries \in Chains /\ selected \in Seq(1..Len(deliveries)) /\ Len(selected) <= Len(deliveries)
  BY DEF Shape
<1>2. Len(deliveries) \in Nat /\ Len(selected) \in Nat
  BY <1>1, ChainAssumption
<1>3. Omitted \in 0..Len(deliveries)
  BY <1>1, <1>2 DEF Omitted
<1> QED
  BY <1>1, <1>2, <1>3, ChainAssumption

LEMMA DeliveryType ==
  ASSUME Shape, NEW i \in 1..Len(deliveries)
  PROVE  deliveries[i] \in Delivery
<1>1. deliveries \in Seq(Delivery)
  BY ChainAssumption DEF Shape
<1> QED
  BY <1>1, ElementOfSeq

LEMMA CutType ==
  ASSUME NEW d \in Delivery, NEW w \in 0..MaxWidth
  PROVE  Cut(d, w) \in Nat
  BY ChainAssumption DEF Delivery, Cut

-----------------------------------------------------------------------------
LEMMA AccountInit == ChainInit => Account
  BY DEF ChainInit, Account, Shape, Starting, Selecting, Filling, Searching, ChainFits

(* A chain that fits is complete.                                           *)
LEMMA CompleteChain ==
  ASSUME Shape, Measure, Frame(0) + Complete <= MaxChars
  PROVE  Omitted' = 0 /\ Truncated' = FALSE
<1>1. Omitted' = 0
  BY Lengths DEF Measure, Omitted, Shape
<1>2. Truncated' = FALSE
  BY <1>1 DEF Measure, Truncated, Row
<1> QED
  BY <1>1, <1>2

LEMMA MeasureAccount ==
  ASSUME Account, Measure
  PROVE  Account'
<1>1. Shape /\ selected = <<>> /\ rows = <<>> /\ body = 0 /\ next = 1
  BY DEF Account, Starting, Measure
<1>2. CASE Frame(0) + Complete <= MaxChars
  <2>1. at' = "done" /\ deliveries' = deliveries /\ body' = Complete
    BY <1>2 DEF Measure
  <2>2. Omitted' = 0 /\ Truncated' = FALSE
    BY <1>1, <1>2, CompleteChain
  <2>3. ChainFits'
    BY <1>1, <1>2, <2>1, <2>2, Lengths DEF ChainFits
  <2> QED
    BY <2>1, <2>3 DEF Account, Starting, Selecting, Filling, Searching
<1>3. CASE ~(Frame(0) + Complete <= MaxChars)
  <2>1. at' = "select" /\ UNCHANGED <<selected, rows, body, deliveries, next>>
    BY <1>3 DEF Measure
  <2>2. Shape' /\ Omitted' = Len(deliveries)
    BY <1>1, <2>1, Lengths DEF Shape, Omitted
  <2>3. Remaining' \in Nat
    BY <1>1, <2>1, <2>2, Lengths DEF Remaining
  <2>4. Selecting'
    BY <1>1, <2>1, <2>2, <2>3, Lengths DEF Selecting, Bare
  <2> QED
    BY <2>1, <2>2, <2>4 DEF Account, Starting, Filling, Searching, ChainFits
<1> QED
  BY <1>2, <1>3

LEMMA SelectAccount ==
  ASSUME Account, Select
  PROVE  Account'
<1>1. Shape /\ Selecting /\ at = "select" /\ at' = "select" /\ next <= Len(deliveries)
      /\ next' = next + 1 /\ deliveries' = deliveries
  BY DEF Account, Select
<1>2. next \in 1..Len(deliveries) /\ Len(selected) < next /\ Bare(1) /\ Remaining \in Nat
  BY <1>1, Lengths DEF Selecting
<1>3. deliveries[next].least \in Nat /\ body \in Int
  BY <1>1, <1>2, DeliveryType DEF Delivery, Shape
<1> DEFINE with == body + Comma(Len(selected)) + deliveries[next].least
<1>4. CASE Frame(Omitted - 1) + Note + with <= MaxChars
  <2>1. /\ selected' = Append(selected, next)
        /\ rows' = Append(rows, Row(deliveries[next].least, FALSE))
        /\ body' = with
    BY <1>4 DEF Select, Keep
  <2>2. Len(selected') = Len(selected) + 1 /\ Len(rows') = Len(rows) + 1 /\ Omitted' = Omitted - 1
    BY <1>1, <2>1 DEF Shape, Omitted
  <2>3. Shape'
    BY <1>1, <1>2, <1>3, <2>1, <2>2 DEF Shape, RowType, Row, Comma
  <2>4. Bare(1)'
    BY <1>1, <1>2, <2>1, <2>2 DEF Bare, Shape, Row, RowType
  <2>5. body' \in Int /\ Omitted - 1 \in 0..Len(deliveries)
    BY <1>1, <1>2, <1>3, <2>1, <2>3, Lengths DEF Shape, Omitted
  <2>6. Remaining' \in Nat
    <3>1. Remaining' = MaxChars - Frame(Omitted - 1) - Note - body'
      BY <2>2 DEF Remaining
    <3>2. Frame(Omitted - 1) \in Nat /\ Note \in Nat /\ MaxChars \in Nat
      BY <1>1, <2>5, Lengths
    <3>3. Frame(Omitted - 1) + Note + body' <= MaxChars
      BY <1>4, <2>1
    <3>4. ASSUME NEW f \in Nat, NEW n \in Nat, NEW b \in Int, NEW m \in Nat, f + n + b <= m
          PROVE  m - f - n - b \in Nat
      BY <3>4
    <3> HIDE DEF with
    <3> QED
      BY <2>5, <3>1, <3>2, <3>3, <3>4
  <2>7. Selecting'
    BY <1>1, <1>2, <2>2, <2>4, <2>6, Lengths DEF Selecting
  <2> QED
    BY <1>1, <2>3, <2>7 DEF Account, Starting, Filling, Searching, ChainFits
<1>5. CASE ~(Frame(Omitted - 1) + Note + with <= MaxChars)
  <2>1. UNCHANGED <<selected, rows, body>>
    BY <1>5 DEF Select, Keep
  <2>2. Shape' /\ Omitted' = Omitted /\ Bare(1)' /\ Remaining' = Remaining
    BY <1>1, <1>2, <2>1 DEF Shape, Omitted, Bare, Remaining
  <2>3. Selecting'
    BY <1>1, <1>2, <2>1, <2>2, Lengths DEF Selecting
  <2> QED
    BY <1>1, <2>2, <2>3 DEF Account, Starting, Filling, Searching, ChainFits
<1> QED
  BY <1>4, <1>5

LEMMA ShareAccount ==
  ASSUME Account, Share
  PROVE  Account'
<1>1. /\ Shape /\ Selecting /\ at = "select" /\ at' = "fill" /\ next' = 1 /\ extra' = FairShare
      /\ UNCHANGED <<deliveries, selected, rows, body>>
  BY DEF Account, Share
<1>2. Bare(1) /\ Remaining \in Nat /\ Len(selected) \in Nat /\ Len(rows) = Len(selected)
  BY <1>1, Lengths DEF Selecting, Shape
<1>3. extra' \in Nat /\ Len(selected) * extra' <= Remaining
  <2>1. CASE selected = <<>>
    BY <1>1, <1>2, <2>1 DEF FairShare
  <2>2. CASE selected # <<>>
    <3>1. Len(selected) > 0
      BY <1>1, <2>2 DEF Shape
    <3> QED
      BY <1>1, <1>2, <2>2, <3>1, SharesFit DEF FairShare
  <2> QED
    BY <2>1, <2>2
<1>4. Shape' /\ Bare(1)' /\ Remaining' = Remaining
  BY <1>1, <1>2 DEF Shape, Bare, Omitted, Remaining
<1>5. (Len(rows) + 1 - next)' = Len(selected)
  BY <1>1, <1>2
<1>6. Filling'
  BY <1>1, <1>2, <1>3, <1>4, <1>5 DEF Filling
<1> QED
  BY <1>1, <1>4, <1>6 DEF Account, Starting, Selecting, Searching, ChainFits

-----------------------------------------------------------------------------
(* A row within its budget takes its own share only.                        *)
LEMMA FillAccount ==
  ASSUME Account, at \in {"fill", "search"}, next <= Len(rows),
         NEW line \in RowType, line.length <= Budget, Fill(line)
  PROVE  Account'
<1>1. /\ Shape /\ Filling /\ at' = "fill" /\ next' = next + 1
      /\ rows' = [rows EXCEPT ![next] = line]
      /\ body' = body - rows[next].length + line.length
      /\ UNCHANGED <<deliveries, selected, extra>>
  BY DEF Account, Fill
<1>2. /\ next \in 1..Len(rows) /\ extra \in Nat /\ Bare(next) /\ Remaining \in Int
      /\ (Len(rows) + 1 - next) * extra <= Remaining
  BY <1>1 DEF Filling
<1>3. Len(rows) \in Nat /\ Len(rows) = Len(selected) /\ rows[next] \in RowType /\ body \in Int
  BY <1>1, <1>2 DEF Shape
<1>4. rows[next].length \in Nat /\ line.length \in Nat /\ line.length <= rows[next].length + extra
  BY <1>3 DEF RowType, Budget
<1>5. Len(rows') = Len(rows) /\ Omitted' = Omitted
  BY <1>1 DEF Shape, Omitted
<1>6. Shape'
  BY <1>1, <1>2, <1>3, <1>4, <1>5 DEF Shape
<1>7. Bare(next)'
  <2> SUFFICES ASSUME NEW k \in next + 1..Len(rows)
               PROVE  rows'[k].length = deliveries[selected[k]].least
    BY <1>1, <1>5 DEF Bare
  <2>1. k \in next..Len(rows) /\ k \in 1..Len(rows) /\ k # next
    BY <1>2, <1>3
  <2>2. rows'[k] = rows[k]
    BY <1>1, <1>2, <2>1 DEF Shape
  <2> QED
    BY <1>2, <2>1, <2>2 DEF Bare
<1>8. Remaining' = Remaining + rows[next].length - line.length
  <2>1. Frame(Omitted) \in Nat /\ Note \in Nat /\ MaxChars \in Nat
    BY <1>1, Lengths
  <2>2. /\ Remaining = MaxChars - Frame(Omitted) - Note - body
        /\ Remaining' = MaxChars - Frame(Omitted) - Note - body'
    BY <1>5 DEF Remaining
  <2>3. body' = body - rows[next].length + line.length
    BY <1>1
  <2> DEFINE f == Frame(Omitted)
             x == rows[next].length
             y == line.length
  <2>4. f \in Nat /\ x \in Nat /\ y \in Nat /\ body \in Int
    BY <1>3, <1>4, <2>1
  <2>5. Remaining = MaxChars - f - Note - body /\ Remaining' = MaxChars - f - Note - (body - x + y)
    BY <2>2, <2>3
  <2> HIDE DEF f, x, y
  <2>6. Remaining' = Remaining + x - y
    BY <2>1, <2>4, <2>5
  <2> QED
    BY <2>6 DEF x, y
<1>9. (Len(rows) + 1 - next) * extra = (Len(rows) + 1 - (next + 1)) * extra + extra
  BY <1>2, <1>3
<1>10. Remaining' \in Int /\ (Len(rows) + 1 - (next + 1)) * extra <= Remaining'
  <2> DEFINE rest == (Len(rows) + 1 - (next + 1)) * extra
  <2>1. rest \in Int
    BY <1>2, <1>3
  <2>2. rest + extra <= Remaining
    BY <1>2, <1>9
  <2> HIDE DEF rest
  <2>3. rest <= Remaining'
    BY <1>2, <1>4, <1>8, <2>1, <2>2
  <2> QED
    BY <1>2, <1>4, <1>8, <2>3 DEF rest
<1>11. Filling'
  BY <1>1, <1>2, <1>3, <1>5, <1>7, <1>10 DEF Filling
<1> QED
  BY <1>1, <1>6, <1>11 DEF Account, Starting, Selecting, Searching, ChainFits

LEMMA KeptRow ==
  ASSUME Account, at \in {"fill", "search"}, next <= Len(rows)
  PROVE  /\ next \in 1..Len(rows) /\ extra \in Nat
         /\ Filled \in Delivery /\ rows[next].length = Filled.least
<1>1. Shape /\ Filling
  BY DEF Account
<1>2. next \in 1..Len(rows) /\ extra \in Nat /\ Bare(next)
  BY <1>1 DEF Filling
<1>3. selected[next] \in 1..Len(deliveries) /\ Len(rows) \in Nat
  BY <1>1, <1>2 DEF Shape
<1> QED
  BY <1>1, <1>2, <1>3, DeliveryType DEF Filled, Bare

LEMMA FillCompleteAccount ==
  ASSUME Account, FillComplete
  PROVE  Account'
<1>1. at = "fill" /\ next <= Len(rows) /\ Filled.full <= Budget /\ Fill(Row(Filled.full, TRUE))
  BY DEF FillComplete
<1>2. Row(Filled.full, TRUE) \in RowType /\ Row(Filled.full, TRUE).length = Filled.full
  BY <1>1, KeptRow DEF Row, RowType, Delivery
<1> QED
  BY <1>1, <1>2, FillAccount

LEMMA BeginSearchAccount ==
  ASSUME Account, BeginSearch
  PROVE  Account'
<1>1. /\ at = "fill" /\ at' = "search" /\ next <= Len(rows) /\ low' = 0 /\ high' = MaxWidth
      /\ UNCHANGED <<deliveries, next, selected, rows, body, extra>>
  BY DEF BeginSearch
<1>2. Shape' /\ Filling'
  BY <1>1 DEF Account, Shape, Filling, Bare, Omitted, Remaining
<1>3. Cut(Filled, 0) <= Budget
  BY <1>1, KeptRow DEF Cut, Budget, Delivery
<1>4. Searching'
  BY <1>1, <1>3, ChainAssumption DEF Searching, Filled, Budget
<1> QED
  BY <1>1, <1>2, <1>4 DEF Account, Starting, Selecting, ChainFits

(* Whatever the search tries, it goes on from a width that fits.            *)
LEMMA NarrowAccount ==
  ASSUME Account, Narrow
  PROVE  Account'
<1>1. /\ at = "search" /\ at' = "search" /\ low < high
      /\ UNCHANGED <<deliveries, next, selected, rows, body, extra>>
  BY DEF Narrow
<1>2. /\ next <= Len(rows) /\ low \in 0..MaxWidth /\ high \in Int /\ high <= MaxWidth
      /\ Cut(Filled, low) <= Budget
  BY <1>1 DEF Account, Searching
<1>3. Middle \in 0..MaxWidth /\ Middle <= high
  BY <1>1, <1>2, ChainAssumption DEF Middle
<1>4. Shape' /\ Filling'
  BY <1>1 DEF Account, Shape, Filling, Bare, Omitted, Remaining
<1>5. Filled' = Filled /\ Budget' = Budget
  BY <1>1 DEF Filled, Budget
<1>6. CASE Cut(Filled, Middle) <= Budget
  <2>1. low' = Middle /\ high' = high
    BY <1>6 DEF Narrow
  <2> QED
    BY <1>1, <1>2, <1>3, <1>4, <1>5, <1>6, <2>1 DEF Account, Starting, Selecting, Searching, ChainFits
<1>7. CASE ~(Cut(Filled, Middle) <= Budget)
  <2>1. low' = low /\ high' = Middle - 1
    BY <1>7 DEF Narrow
  <2>2. high' \in Int /\ high' <= MaxWidth
    BY <1>3, <2>1, ChainAssumption
  <2> QED
    BY <1>1, <1>2, <1>4, <1>5, <2>1, <2>2 DEF Account, Starting, Selecting, Searching, ChainFits
<1> QED
  BY <1>6, <1>7

LEMMA FillCutAccount ==
  ASSUME Account, FillCut
  PROVE  Account'
<1>1. at = "search" /\ Fill(Row(Cut(Filled, low), FALSE))
  BY DEF FillCut
<1>2. next <= Len(rows) /\ low \in 0..MaxWidth /\ Cut(Filled, low) <= Budget
  BY <1>1 DEF Account, Searching
<1>3. Row(Cut(Filled, low), FALSE) \in RowType /\ Row(Cut(Filled, low), FALSE).length = Cut(Filled, low)
  BY <1>1, <1>2, KeptRow, CutType DEF Row, RowType
<1> QED
  BY <1>1, <1>2, <1>3, FillAccount

LEMMA EncodeAccount ==
  ASSUME Account, Encode
  PROVE  Account'
<1>1. /\ at = "fill" /\ at' = "done" /\ next > Len(rows)
      /\ UNCHANGED <<deliveries, next, selected, rows, body, extra>>
  BY DEF Encode
<1>2. /\ next \in 1..Len(rows) + 1 /\ extra \in Nat /\ Remaining \in Int
      /\ (Len(rows) + 1 - next) * extra <= Remaining
  BY <1>1 DEF Account, Filling
<1>3. Shape /\ body \in Int /\ Len(rows) \in Nat
  BY <1>1 DEF Account, Shape
<1>4. (Len(rows) + 1 - next) * extra = 0
  BY <1>1, <1>2, <1>3
<1>5. 0 <= Remaining
  BY <1>2, <1>4
<1>6. Frame(Omitted) + Note + body <= MaxChars
  BY <1>3, <1>5, Lengths DEF Remaining
<1>7. Frame(Omitted) + (IF Truncated THEN Note ELSE 0) + body <= MaxChars
  BY <1>3, <1>6, Lengths
<1>8. ChainFits'
  BY <1>1, <1>7 DEF ChainFits, Omitted, Truncated
<1> QED
  BY <1>1, <1>8 DEF Account, Starting, Selecting, Filling, Searching

-----------------------------------------------------------------------------
LEMMA AccountStep == Account /\ [ChainNext]_chainVars => Account'
<1> SUFFICES ASSUME Account, [ChainNext]_chainVars
             PROVE  Account'
  OBVIOUS
<1>1. CASE ChainNext
  BY <1>1, MeasureAccount, SelectAccount, ShareAccount, FillCompleteAccount, BeginSearchAccount,
     NarrowAccount, FillCutAccount, EncodeAccount DEF ChainNext
<1>2. CASE UNCHANGED chainVars
  BY <1>2 DEF chainVars, Account, Shape, Starting, Selecting, Filling, Searching, ChainFits, Bare,
     Omitted, Truncated, Filled, Budget, Remaining
<1> QED
  BY <1>1, <1>2

\* What boundedHandoffChain returns is within the budget, for every budget, all
\* deliveries and all lengths of their cut texts.
THEOREM ChainKeepsBudget == ChainSpec => []ChainFits
<1>1. Account => ChainFits
  BY DEF Account
<1> QED
  BY AccountInit, AccountStep, <1>1, PTL DEF ChainSpec
-----------------------------------------------------------------------------
(***************************************************************************)
(* The length of joined rows.  The recursion over the rows is taken apart  *)
(* once, by least counterexamples; from then on a sum is known by what a   *)
(* further row, or another length of one row, makes of it.                 *)
(***************************************************************************)
\* f gives the totals of the first n lengths.
TotalsTo(n, lengths, f) ==
  f \in [0..n -> Nat] /\ f[0] = 0 /\ \A k \in 1..n : f[k] = f[k - 1] + lengths[k]

LEMMA TotalsExist ==
  ASSUME NEW lengths \in Seq(Nat), NEW n \in 0..Len(lengths)
  PROVE  \E f : TotalsTo(n, lengths, f)
<1> DEFINE Missing == {k \in 0..Len(lengths) : \A f : ~TotalsTo(k, lengths, f)}
<1>1. SUFFICES ASSUME Missing # {} PROVE FALSE
  BY Zenon
<1>2. Len(lengths) \in Nat
  OBVIOUS
<1>3. PICK k \in Missing : \A j \in Missing : k <= j
  <2>1. Missing \in SUBSET Nat
    BY <1>2
  <2> HIDE DEF Missing
  <2> QED BY <1>1, <2>1, Least
<1>4. k # 0
  <2>1. TotalsTo(0, lengths, [i \in 0..0 |-> 0])
    BY DEF TotalsTo
  <2> QED BY <2>1
<1>5. k \in 1..Len(lengths) /\ k - 1 \in 0..Len(lengths)
  BY <1>2, <1>4
<1>6. PICK f : TotalsTo(k - 1, lengths, f)
  BY <1>3, <1>5
<1> DEFINE g == [i \in 0..k |-> IF i = k THEN f[k - 1] + lengths[k] ELSE f[i]]
<1>7. f \in [0..(k - 1) -> Nat] /\ f[0] = 0 /\ (\A i \in 1..(k - 1) : f[i] = f[i - 1] + lengths[i])
      /\ lengths[k] \in Nat /\ f[k - 1] \in Nat
  BY <1>5, <1>6, ElementOfSeq DEF TotalsTo
<1>8. g \in [0..k -> Nat] /\ g[0] = 0
  BY <1>4, <1>5, <1>7
<1>9. \A i \in 1..k : g[i] = g[i - 1] + lengths[i]
  <2> SUFFICES ASSUME NEW i \in 1..k PROVE g[i] = g[i - 1] + lengths[i]
    OBVIOUS
  <2>1. k \in Nat /\ i \in 0..k /\ i - 1 \in 0..k /\ i - 1 # k
    BY <1>5
  <2>2. g[i - 1] = f[i - 1] /\ g[i] = IF i = k THEN f[k - 1] + lengths[k] ELSE f[i]
    BY <2>1
  <2>3. i # k => i \in 1..(k - 1)
    BY <2>1
  <2> HIDE DEF g
  <2> QED
    BY <1>7, <2>2, <2>3
<1>10. TotalsTo(k, lengths, g)
  BY <1>8, <1>9 DEF TotalsTo
<1> QED
  BY <1>3, <1>10

LEMMA TotalsAre ==
  ASSUME NEW lengths \in Seq(Nat)
  PROVE  TotalsTo(Len(lengths), lengths, Totals(lengths))
<1>1. PICK f : TotalsTo(Len(lengths), lengths, f)
  BY TotalsExist
<1> DEFINE Sums(g) == [n \in 0..Len(lengths) |-> IF n = 0 THEN 0 ELSE g[n - 1] + lengths[n]]
<1>2. f = Sums(f)
  BY <1>1 DEF TotalsTo
<1>3. Totals(lengths) = CHOOSE g : g = Sums(g)
  BY DEF Totals
<1>4. Totals(lengths) = Sums(Totals(lengths))
  <2> HIDE DEF Sums
  <2> QED BY <1>2, <1>3
<1> DEFINE T == Totals(lengths)
           Wrong == {n \in 0..Len(lengths) : T[n] \notin Nat}
<1> HIDE DEF T
<1>5. T = [n \in 0..Len(lengths) |-> IF n = 0 THEN 0 ELSE T[n - 1] + lengths[n]]
  BY <1>4 DEF T
<1>6. Wrong = {}
  <2> SUFFICES ASSUME Wrong # {} PROVE FALSE
    OBVIOUS
  <2>1. PICK n \in Wrong : \A k \in Wrong : n <= k
    <3>1. Wrong \in SUBSET Nat
      OBVIOUS
    <3> HIDE DEF Wrong
    <3> QED BY <3>1, Least
  <2>2. n # 0
    BY <1>5
  <2>3. n \in 1..Len(lengths) /\ n - 1 \in 0..Len(lengths) /\ n - 1 \notin Wrong
    BY <2>1, <2>2
  <2>4. T[n - 1] \in Nat /\ lengths[n] \in Nat
    BY <2>3, ElementOfSeq
  <2>5. T[n] = T[n - 1] + lengths[n]
    <3>1. n \in 0..Len(lengths) /\ n # 0
      BY <2>2, <2>3
    <3> QED
      BY <1>5, <3>1
  <2> QED
    BY <2>1, <2>4, <2>5
<1>7. T \in [0..Len(lengths) -> Nat]
  BY <1>5, <1>6
<1>8. T[0] = 0 /\ \A k \in 1..Len(lengths) : T[k] = T[k - 1] + lengths[k]
  BY <1>5
<1> QED
  BY <1>7, <1>8 DEF TotalsTo, T

(* Lengths that begin alike have the same totals there.                     *)
LEMMA TotalsAgree ==
  ASSUME NEW s \in Seq(Nat), NEW t \in Seq(Nat), NEW n \in 0..Len(s), n <= Len(t),
         \A k \in 1..n : s[k] = t[k]
  PROVE  Totals(s)[n] = Totals(t)[n]
<1> DEFINE S == Totals(s)
           T == Totals(t)
           Wrong == {k \in 0..n : S[k] # T[k]}
<1>1. TotalsTo(Len(s), s, S) /\ TotalsTo(Len(t), t, T)
  BY TotalsAre
<1> HIDE DEF S, T
<1>2. SUFFICES ASSUME Wrong # {} PROVE FALSE
  BY DEF S, T
<1>3. PICK k \in Wrong : \A j \in Wrong : k <= j
  <2>1. Wrong \in SUBSET Nat
    OBVIOUS
  <2> HIDE DEF Wrong
  <2> QED BY <1>2, <2>1, Least
<1>4. k # 0
  BY <1>1 DEF TotalsTo
<1>5. k \in 1..n /\ k - 1 \in 0..n /\ k - 1 \notin Wrong /\ k \in 1..Len(s) /\ k \in 1..Len(t)
  BY <1>3, <1>4
<1>6. S[k] = S[k - 1] + s[k] /\ T[k] = T[k - 1] + t[k] /\ S[k - 1] = T[k - 1]
  BY <1>1, <1>5 DEF TotalsTo
<1> QED
  BY <1>3, <1>5, <1>6

LEMMA JoinedType ==
  ASSUME NEW s \in Seq(Nat)
  PROVE  Joined(s) \in Nat
<1>1. Totals(s)[Len(s)] \in Nat /\ Len(s) \in Nat
  BY TotalsAre DEF TotalsTo
<1> QED
  BY <1>1, EmptySeq DEF Joined

LEMMA JoinedNone == Joined(<<>>) = 0
<1>1. <<>> \in Seq(Nat) /\ Len(<<>>) = 0
  OBVIOUS
<1>2. Totals(<<>>)[0] = 0
  BY <1>1, TotalsAre DEF TotalsTo
<1> QED
  BY <1>1, <1>2 DEF Joined

(* One more row.                                                            *)
LEMMA JoinedOneMore ==
  ASSUME NEW s \in Seq(Nat), NEW x \in Nat
  PROVE  Joined(Append(s, x)) = Joined(s) + Comma(Len(s)) + x
<1> DEFINE t == Append(s, x)
           n == Len(s)
<1>1. /\ t \in Seq(Nat) /\ Len(t) = n + 1 /\ n \in Nat /\ t[n + 1] = x /\ t # <<>>
      /\ (s = <<>> <=> n = 0) /\ \A k \in 1..n : t[k] = s[k]
  OBVIOUS
<1> HIDE DEF t
<1>2. Totals(t)[n] = Totals(s)[n]
  BY <1>1, TotalsAgree
<1>3. Totals(t)[n + 1] = Totals(t)[n] + x
  <2>1. n + 1 \in 1..Len(t) /\ (n + 1) - 1 = n
    BY <1>1
  <2> QED
    BY <1>1, <2>1, TotalsAre DEF TotalsTo
<1>4. Totals(s)[n] \in Nat
  BY <1>1, TotalsAre DEF TotalsTo
<1>5. Joined(t) = Totals(t)[n + 1] + n
  BY <1>1, <1>2, <1>3, <1>4 DEF Joined
<1>6. Joined(s) + Comma(n) = Totals(s)[n] + n
  BY <1>1, <1>4 DEF Joined, Comma
<1>7. Joined(s) \in Nat /\ Comma(n) \in Nat
  BY <1>1, JoinedType DEF Comma
<1>8. Joined(t) = Joined(s) + Comma(n) + x
  BY <1>1, <1>2, <1>3, <1>4, <1>5, <1>6, <1>7
<1> QED
  BY <1>8 DEF t

(* Another length of one row.                                               *)
LEMMA JoinedExcept ==
  ASSUME NEW s \in Seq(Nat), NEW i \in 1..Len(s), NEW x \in Nat
  PROVE  Joined([s EXCEPT ![i] = x]) = Joined(s) - s[i] + x
<1> DEFINE t == [s EXCEPT ![i] = x]
           S == Totals(s)
           T == Totals(t)
<1>1. t \in Seq(Nat) /\ Len(t) = Len(s) /\ \A k \in 1..Len(s) : t[k] = IF k = i THEN x ELSE s[k]
  OBVIOUS
<1> HIDE DEF t
<1>2. TotalsTo(Len(s), s, S) /\ TotalsTo(Len(s), t, T) /\ s[i] \in Nat
  BY <1>1, TotalsAre, ElementOfSeq
<1>3. T[i - 1] = S[i - 1]
  <2>1. i - 1 \in 0..Len(t) /\ i - 1 <= Len(s) /\ \A k \in 1..(i - 1) : t[k] = s[k]
    BY <1>1
  <2> QED
    BY <1>1, <2>1, TotalsAgree
<1> HIDE DEF S, T
<1> DEFINE Wrong == {k \in i..Len(s) : T[k] # S[k] - s[i] + x}
<1>4. Wrong = {}
  <2> SUFFICES ASSUME Wrong # {} PROVE FALSE
    OBVIOUS
  <2>1. PICK k \in Wrong : \A j \in Wrong : k <= j
    <3>1. Wrong \in SUBSET Nat
      OBVIOUS
    <3> HIDE DEF Wrong
    <3> QED BY <3>1, Least
  <2>2. k \in 1..Len(s) /\ k - 1 \in 0..Len(s)
    BY <2>1
  <2>3. /\ S[k] = S[k - 1] + s[k] /\ T[k] = T[k - 1] + t[k] /\ S[k - 1] \in Nat /\ T[k - 1] \in Nat
        /\ s[k] \in Nat
    BY <1>2, <2>2, ElementOfSeq DEF TotalsTo
  <2>4. CASE k = i
    <3>1. t[k] = x
      BY <1>1, <2>2, <2>4
    <3>2. T[k] = S[k] - s[i] + x
      BY <1>2, <1>3, <2>3, <2>4, <3>1
    <3> QED
      BY <2>1, <3>2
  <2>5. CASE k # i
    <3>1. k - 1 \in i..Len(s) /\ k - 1 \notin Wrong /\ t[k] = s[k]
      BY <1>1, <2>1, <2>2, <2>5
    <3>2. T[k - 1] = S[k - 1] - s[i] + x
      BY <3>1
    <3>3. T[k] = S[k] - s[i] + x
      <4>1. T[k] = (S[k - 1] - s[i] + x) + s[k] /\ S[k] = S[k - 1] + s[k]
        BY <2>3, <3>1, <3>2
      <4>2. s[i] \in Nat /\ S[k - 1] \in Nat /\ s[k] \in Nat
        BY <1>2, <2>3
      <4> QED
        BY <4>1, <4>2
    <3> QED
      BY <2>1, <3>3
  <2> QED
    BY <2>4, <2>5
<1>5. T[Len(s)] = S[Len(s)] - s[i] + x /\ S[Len(s)] \in Nat
  <2>1. Len(s) \in i..Len(s) /\ Len(s) \in 0..Len(s)
    BY <1>2
  <2>2. S[Len(s)] \in Nat
    BY <1>2, <2>1 DEF TotalsTo
  <2> QED
    BY <1>4, <2>1, <2>2
<1>6. s # <<>> /\ t # <<>> /\ Len(s) \in Nat
  BY <1>1
<1> QED
  BY <1>1, <1>2, <1>5, <1>6 DEF Joined, S, T, t

-----------------------------------------------------------------------------
(***************************************************************************)
(* The chain is fair.  While rows are kept, the chain has nothing but      *)
(* identities, and whoever was left out stays left out: a row that is kept *)
(* is longer with its comma than the number of omitted rows gets shorter.  *)
(* Then every row is filled up to the same share.                          *)
(***************************************************************************)
LeastLengths == [i \in DOMAIN selected |-> deliveries[selected[i]].least]
RowLengths == [i \in DOMAIN rows |-> rows[i].length]

TooLong == at \in {"select", "fill", "search"} => ~(Frame(0) + Complete <= MaxChars)

\* What the next row would make of the chain, before its own length.
Before == Frame(Omitted - 1) + Note + BareLength + Comma(Len(selected))

LeftOut(n) == \A i \in 1..n : i \notin Range(selected) => Before + deliveries[i].least > MaxChars

Keeping ==
  at = "select" =>
    /\ body = BareLength
    /\ LeftOut(next - 1)
    /\ (\E i \in 1..next - 1 : i \notin Range(selected)) => Len(selected) < next - 1

\* The row is within its share, and complete if that is enough.
WithinShare(k) ==
  LET d == deliveries[selected[k]]
  IN /\ rows[k].length <= d.least + extra
     /\ rows[k].complete <=> d.full <= d.least + extra

Dividing ==
  at \in {"fill", "search"} =>
    /\ body = Joined(RowLengths)
    /\ LeftOut(Len(deliveries))
    /\ selected # <<>> => extra = ShareOf
    /\ \A k \in 1..next - 1 : WithinShare(k)
    /\ at = "search" => Filled.full > Budget

FairInv == Account /\ TooLong /\ Keeping /\ Dividing /\ ChainIsFair

LEMMA FunctionIsSeq ==
  ASSUME NEW n \in Nat, NEW f \in [1..n -> Nat]
  PROVE  f \in Seq(Nat) /\ Len(f) = n
<1>1. f \in Seq(Nat)
  BY SeqDef
<1> QED
  BY <1>1, LenProperties

LEMMA LengthsType ==
  ASSUME Shape
  PROVE  /\ LeastLengths \in Seq(Nat) /\ Len(LeastLengths) = Len(selected)
         /\ RowLengths \in Seq(Nat) /\ Len(RowLengths) = Len(rows)
         /\ \A i \in 1..Len(selected) : /\ selected[i] \in 1..Len(deliveries)
                                        /\ LeastLengths[i] = deliveries[selected[i]].least
                                        /\ RowLengths[i] = rows[i].length
<1>1. /\ selected \in Seq(1..Len(deliveries)) /\ rows \in Seq(RowType) /\ Len(rows) = Len(selected)
      /\ Len(selected) \in Nat /\ DOMAIN selected = 1..Len(selected) /\ DOMAIN rows = 1..Len(selected)
  BY DEF Shape
<1>2. ASSUME NEW i \in 1..Len(selected)
      PROVE  /\ selected[i] \in 1..Len(deliveries) /\ rows[i].length \in Nat
             /\ deliveries[selected[i]].least \in Nat
  <2>1. selected[i] \in 1..Len(deliveries) /\ rows[i] \in RowType
    BY <1>1
  <2>2. deliveries[selected[i]] \in Delivery
    BY <2>1, DeliveryType
  <2> QED
    BY <2>1, <2>2 DEF RowType, Delivery
<1>3. LeastLengths \in [1..Len(selected) -> Nat] /\ RowLengths \in [1..Len(selected) -> Nat]
  BY <1>1, <1>2 DEF LeastLengths, RowLengths
<1>4. LeastLengths \in Seq(Nat) /\ RowLengths \in Seq(Nat)
      /\ Len(LeastLengths) = Len(selected) /\ Len(RowLengths) = Len(selected)
  BY <1>1, <1>3, FunctionIsSeq
<1> QED
  BY <1>1, <1>2, <1>4 DEF LeastLengths, RowLengths

LEMMA BareIsJoined == BareLength = Joined(LeastLengths)
  BY DEF BareLength, LeastLengths

LEMMA BareType == ASSUME Shape PROVE BareLength \in Nat
  BY LengthsType, BareIsJoined, JoinedType

LEMMA FairStarts == ChainInit => FairInv
<1>1. ChainInit => Account
  BY AccountInit
<1>2. ChainInit => TooLong /\ Keeping /\ Dividing /\ ChainIsFair
  BY DEF ChainInit, TooLong, Keeping, Dividing, ChainIsFair
<1> QED
  BY <1>1, <1>2 DEF FairInv

LEMMA MeasureFair ==
  ASSUME FairInv, Measure
  PROVE  TooLong' /\ Keeping' /\ Dividing' /\ ChainIsFair'
<1>1. /\ Account /\ Shape /\ selected = <<>> /\ rows = <<>> /\ body = 0 /\ next = 1
      /\ deliveries' = deliveries /\ next' = next
  BY DEF FairInv, Account, Starting, Measure
<1>2. CASE Frame(0) + Complete <= MaxChars
  <2>1. at' = "done" /\ body' = Complete /\ Omitted' = 0 /\ Truncated' = FALSE
        /\ selected' = [i \in DOMAIN deliveries |-> i]
        /\ rows' = [i \in DOMAIN deliveries |-> Row(deliveries[i].full, TRUE)]
    BY <1>1, <1>2, CompleteChain DEF Measure
  <2>2. [i \in DOMAIN rows' |-> rows'[i].length] = [i \in DOMAIN deliveries |-> deliveries[i].full]
    BY <2>1 DEF Row
  <2>3. body' = Joined([i \in DOMAIN rows' |-> rows'[i].length])
    BY <2>1, <2>2 DEF Complete
  <2>4. DOMAIN deliveries' \ Range(selected') = {}
    BY <1>1, <2>1 DEF Range
  <2>5. ChainIsFair'
    BY <2>1, <2>3, <2>4 DEF ChainIsFair
  <2> QED
    BY <2>1, <2>5 DEF TooLong, Keeping, Dividing
<1>3. CASE ~(Frame(0) + Complete <= MaxChars)
  <2>1. at' = "select" /\ UNCHANGED <<selected, rows, body>>
    BY <1>3 DEF Measure
  <2>2. BareLength' = 0
    <3>1. LeastLengths' = <<>>
      BY <1>1, <2>1 DEF LeastLengths
    <3> QED
      BY <3>1, JoinedNone DEF BareLength, LeastLengths
  <2>3. Keeping'
    BY <1>1, <2>1, <2>2 DEF Keeping, LeftOut
  <2>4. TooLong'
    BY <1>1, <1>3 DEF TooLong, Complete
  <2> QED
    BY <2>1, <2>3, <2>4 DEF Dividing, ChainIsFair
<1> QED
  BY <1>2, <1>3

(* A row that is kept makes the chain longer than it makes the number of    *)
(* omitted rows shorter.                                                    *)
LEMMA KeptMakesLonger ==
  ASSUME Shape, NEW omitted \in 2..Len(deliveries), NEW least \in Nat, NEW bare \in Nat, NEW n \in Nat
  PROVE  Frame(omitted - 1) + Note + bare + Comma(n)
           <= Frame(omitted - 2) + Note + (bare + Comma(n) + least) + Comma(n + 1)
<1>1. Len(deliveries) \in Nat /\ Note \in Nat /\ \A k \in 0..Len(deliveries) : Frame(k) \in Nat
  BY Lengths
<1>2. omitted - 1 \in 1..Len(deliveries) /\ (omitted - 1) - 1 = omitted - 2
      /\ omitted - 1 \in 0..Len(deliveries) /\ omitted - 2 \in 0..Len(deliveries)
  BY <1>1
<1>3. Frame(omitted - 1) <= Frame(omitted - 2) + 1
  BY <1>2, ChainAssumption DEF Shape
<1>4. Frame(omitted - 1) \in Nat /\ Frame(omitted - 2) \in Nat
  BY <1>1, <1>2
<1>5. Comma(n + 1) = 1 /\ Comma(n) \in Nat
  BY DEF Comma
<1>6. ASSUME NEW a \in Nat, NEW b \in Nat, NEW c \in Nat, NEW d \in Nat, a <= b + 1
      PROVE  a + d + bare + c <= b + d + (bare + c + least) + 1
  BY <1>6
<1> QED
  BY <1>1, <1>3, <1>4, <1>5, <1>6

LEMMA SelectFair ==
  ASSUME FairInv, Select
  PROVE  TooLong' /\ Keeping' /\ Dividing' /\ ChainIsFair'
<1>1. /\ Account /\ Shape /\ Selecting /\ at = "select" /\ at' = "select" /\ next <= Len(deliveries)
      /\ next' = next + 1 /\ deliveries' = deliveries
  BY DEF FairInv, Account, Select
<1>2. /\ next \in 1..Len(deliveries) /\ Len(selected) < next /\ Len(deliveries) \in Nat
      /\ next \in Nat /\ Len(selected) \in Nat /\ Note \in Nat /\ MaxChars \in Nat
  BY <1>1, Lengths DEF Selecting
<1>3. /\ body = BareLength /\ LeftOut(next - 1)
      /\ (\E i \in 1..next - 1 : i \notin Range(selected)) => Len(selected) < next - 1
  BY <1>1 DEF FairInv, Keeping
<1>4. deliveries[next].least \in Nat /\ BareLength \in Nat
  BY <1>1, <1>2, DeliveryType, BareType DEF Delivery
<1>5. TooLong' /\ Dividing' /\ ChainIsFair'
  BY <1>1 DEF FairInv, TooLong, Dividing, ChainIsFair, Complete
<1> DEFINE with == body + Comma(Len(selected)) + deliveries[next].least
<1>6. CASE Frame(Omitted - 1) + Note + with <= MaxChars
  <2>1. selected' = Append(selected, next) /\ body' = with
    BY <1>6 DEF Select, Keep
  <2>2. selected \in Seq(1..Len(deliveries)) /\ Len(selected') = Len(selected) + 1 /\ Omitted' = Omitted - 1
        /\ (\A i \in 1..Len(selected) : selected'[i] = selected[i]) /\ selected'[Len(selected) + 1] = next
    BY <1>1, <2>1 DEF Shape, Omitted
  <2>3. LeastLengths' = Append(LeastLengths, deliveries[next].least)
    <3>1. DOMAIN selected' = 1..Len(selected) + 1 /\ DOMAIN selected = 1..Len(selected)
      BY <2>1, <2>2
    <3>2. LeastLengths' = [i \in 1..Len(selected) + 1 |-> deliveries[selected'[i]].least]
      BY <1>1, <3>1 DEF LeastLengths
    <3>3. Append(LeastLengths, deliveries[next].least)
            = [i \in 1..Len(selected) + 1 |-> IF i <= Len(selected) THEN LeastLengths[i] ELSE deliveries[next].least]
      BY <1>1, <1>4, LengthsType
    <3>4. \A i \in 1..Len(selected) + 1 : deliveries[selected'[i]].least
            = IF i <= Len(selected) THEN LeastLengths[i] ELSE deliveries[next].least
      <4>1. ASSUME NEW i \in 1..Len(selected)
            PROVE  deliveries[selected'[i]].least = LeastLengths[i]
        <5>1. selected'[i] = selected[i]
          BY <2>2
        <5>2. deliveries[selected[i]].least = LeastLengths[i]
          BY <1>1, LengthsType
        <5> QED
          BY <5>1, <5>2
      <4>2. deliveries[selected'[Len(selected) + 1]].least = deliveries[next].least
        BY <2>2
      <4>3. ASSUME NEW i \in 1..Len(selected) + 1
            PROVE  (i <= Len(selected) => i \in 1..Len(selected))
                   /\ (~(i <= Len(selected)) => i = Len(selected) + 1)
        BY <1>2, <4>3
      <4> QED
        BY <4>1, <4>2, <4>3
    <3> QED
      BY <3>2, <3>3, <3>4
  <2>4. BareLength' = BareLength + Comma(Len(selected)) + deliveries[next].least
    <3>1. BareLength' = Joined(LeastLengths')
      BY DEF BareLength, LeastLengths
    <3>2. Joined(Append(LeastLengths, deliveries[next].least))
            = Joined(LeastLengths) + Comma(Len(LeastLengths)) + deliveries[next].least
      BY <1>1, <1>4, LengthsType, JoinedOneMore
    <3>3. Len(LeastLengths) = Len(selected)
      BY <1>1, LengthsType
    <3> QED
      BY <2>3, <3>1, <3>2, <3>3, BareIsJoined
  <2>5. Range(selected') = Range(selected) \union {next}
    <3>1. DOMAIN selected' = 1..Len(selected) + 1 /\ DOMAIN selected = 1..Len(selected)
      BY <2>1, <2>2
    <3>2. \A i \in 1..Len(selected) + 1 :
             (i \in 1..Len(selected) /\ selected'[i] = selected[i]) \/ (i = Len(selected) + 1 /\ selected'[i] = next)
      BY <1>2, <2>2
    <3>3. 1..Len(selected) \subseteq 1..Len(selected) + 1 /\ Len(selected) + 1 \in 1..Len(selected) + 1
      BY <1>2
    <3> QED
      BY <2>2, <3>1, <3>2, <3>3, Zenon DEF Range
  <2>6. ASSUME NEW i \in 1..next, i \notin Range(selected')
        PROVE  i \in 1..next - 1 /\ i \notin Range(selected)
    BY <1>2, <2>5, <2>6
  <2>7. ASSUME NEW i \in 1..next, i \notin Range(selected')
        PROVE  Before' + deliveries[i].least > MaxChars
    <3>1. i \in 1..next - 1 /\ i \notin Range(selected)
      BY <2>6, <2>7
    <3>2. Before + deliveries[i].least > MaxChars
      BY <1>3, <3>1 DEF LeftOut
    <3>3. Omitted \in 2..Len(deliveries)
      <4>1. Len(selected) < next - 1
        BY <1>3, <3>1
      <4> QED
        BY <1>2, <4>1 DEF Omitted
    <3>4. Before = Frame(Omitted - 1) + Note + BareLength + Comma(Len(selected))
      BY DEF Before
    <3>5. Before' = Frame(Omitted - 2) + Note + (BareLength + Comma(Len(selected)) + deliveries[next].least)
                      + Comma(Len(selected) + 1)
      <4>1. Omitted' - 1 = Omitted - 2
        BY <2>2, <3>3
      <4> QED
        BY <2>2, <2>4, <4>1 DEF Before
    <3>6. Before <= Before'
      BY <1>1, <1>2, <1>4, <3>3, <3>4, <3>5, KeptMakesLonger
    <3>7. Before \in Nat /\ Before' \in Nat
      <4>1. Frame(Omitted - 1) \in Nat /\ Frame(Omitted - 2) \in Nat
        BY <1>1, <1>2, <3>3, Lengths
      <4>2. Comma(Len(selected)) \in Nat /\ Comma(Len(selected) + 1) \in Nat
        BY DEF Comma
      <4>3. ASSUME NEW a \in Nat, NEW n \in Nat, NEW b \in Nat, NEW c \in Nat, NEW d \in Nat, NEW e \in Nat
            PROVE  a + n + b + c \in Nat /\ a + n + (b + c + e) + d \in Nat
        OBVIOUS
      <4> QED
        BY <1>2, <1>4, <3>4, <3>5, <4>1, <4>2, <4>3
    <3>8. deliveries[i].least \in Nat
      BY <1>1, <1>2, <3>1, DeliveryType DEF Delivery
    <3> QED
      BY <1>2, <3>2, <3>6, <3>7, <3>8
  <2>8. (\E i \in 1..next : i \notin Range(selected')) => Len(selected') < next
    BY <1>2, <1>3, <2>2, <2>6
  <2>9. body' = BareLength' /\ next' - 1 = next
    BY <1>1, <1>2, <1>3, <2>1, <2>4
  <2>10. Keeping'
    <3>1. LeftOut(next - 1)'
      BY <1>1, <2>7, <2>9 DEF LeftOut
    <3> QED
      BY <1>1, <2>8, <2>9, <3>1 DEF Keeping
  <2> QED
    BY <1>5, <2>10
<1>7. CASE ~(Frame(Omitted - 1) + Note + with <= MaxChars)
  <2>1. UNCHANGED <<selected, rows, body>>
    BY <1>7 DEF Select, Keep
  <2>2. Before' = Before /\ BareLength' = BareLength /\ next' - 1 = next
    BY <1>1, <1>2, <2>1 DEF Before, Omitted, BareLength
  <2>3. Before + deliveries[next].least > MaxChars
    <3>1. Before + deliveries[next].least = Frame(Omitted - 1) + Note + with
      <4>1. Omitted - 1 \in 0..Len(deliveries)
        BY <1>2 DEF Omitted
      <4>2. Frame(Omitted - 1) \in Nat /\ Comma(Len(selected)) \in Nat
        BY <1>1, <4>1, Lengths DEF Comma
      <4>3. Before = Frame(Omitted - 1) + Note + BareLength + Comma(Len(selected))
        BY DEF Before
      <4> DEFINE f == Frame(Omitted - 1)
                 c == Comma(Len(selected))
                 l == deliveries[next].least
      <4>4. f \in Nat /\ c \in Nat /\ l \in Nat /\ Note \in Nat /\ BareLength \in Nat
        BY <1>2, <1>4, <4>2
      <4>5. Before = f + Note + BareLength + c /\ with = BareLength + c + l
        BY <1>3, <4>3
      <4> HIDE DEF with, f, c, l
      <4>6. Before + l = f + Note + with
        BY <4>4, <4>5
      <4> QED
        BY <4>6 DEF f, l
    <3>2. Frame(Omitted - 1) + Note + with \in Nat
      <4>1. Omitted - 1 \in 0..Len(deliveries)
        BY <1>2 DEF Omitted
      <4>2. Frame(Omitted - 1) \in Nat /\ Comma(Len(selected)) \in Nat
        BY <1>1, <4>1, Lengths DEF Comma
      <4>3. with \in Nat
        BY <1>3, <1>4, <4>2
      <4> HIDE DEF with
      <4> QED
        BY <1>2, <4>2, <4>3
    <3> QED
      BY <1>2, <1>7, <3>1, <3>2
  <2>4. LeftOut(next - 1)'
    <3> SUFFICES ASSUME NEW i \in 1..next, i \notin Range(selected)
                 PROVE  Before + deliveries[i].least > MaxChars
      <4>1. next' - 1 = next /\ selected' = selected /\ Before' = Before /\ deliveries' = deliveries
        BY <1>1, <2>1, <2>2
      <4> QED
        BY <4>1 DEF LeftOut
    <3>1. i = next \/ i \in 1..next - 1
      BY <1>2
    <3> QED
      BY <1>3, <2>3, <3>1 DEF LeftOut
  <2>5. Keeping'
    <3>1. body' = BareLength' /\ Len(selected') < next /\ next' - 1 = next
      BY <1>2, <1>3, <2>1, <2>2
    <3> QED
      BY <2>4, <3>1 DEF Keeping
  <2> QED
    BY <1>5, <2>5
<1> QED
  BY <1>6, <1>7

LEMMA ShareFair ==
  ASSUME FairInv, Share
  PROVE  TooLong' /\ Keeping' /\ Dividing' /\ ChainIsFair'
<1>1. /\ Account /\ Shape /\ Selecting /\ at = "select" /\ at' = "fill" /\ next' = 1 /\ extra' = FairShare
      /\ UNCHANGED <<deliveries, selected, rows, body>> /\ next > Len(deliveries)
  BY DEF FairInv, Account, Share
<1>2. body = BareLength /\ LeftOut(next - 1)
  BY <1>1 DEF FairInv, Keeping
<1>3. next - 1 = Len(deliveries)
  BY <1>1, Lengths DEF Selecting
<1>4. RowLengths = LeastLengths
  <2>1. Bare(1)
    BY <1>1 DEF Selecting
  <2> QED
    BY <1>1, <2>1 DEF Bare, RowLengths, LeastLengths, Shape
<1>5. body' = Joined(RowLengths)'
  BY <1>1, <1>2, <1>4, BareIsJoined DEF RowLengths
<1>6. selected # <<>> => extra' = ShareOf
  BY <1>1, <1>2 DEF FairShare, Remaining, ShareOf
<1>7. ShareOf' = ShareOf /\ LeftOut(Len(deliveries))'
  BY <1>1, <1>2, <1>3 DEF ShareOf, Omitted, BareLength, LeftOut, Before
<1>8. Dividing'
  BY <1>1, <1>5, <1>6, <1>7 DEF Dividing
<1>9. TooLong'
  BY <1>1 DEF FairInv, TooLong, Complete
<1> QED
  BY <1>1, <1>8, <1>9 DEF Keeping, ChainIsFair

(* A row is filled up to its share.                                         *)
LEMMA FillFair ==
  ASSUME FairInv, at \in {"fill", "search"}, next <= Len(rows),
         NEW line \in RowType, line.length <= Budget, line.complete <=> Filled.full <= Budget, Fill(line)
  PROVE  TooLong' /\ Keeping' /\ Dividing' /\ ChainIsFair'
<1>1. /\ Account /\ Shape /\ at' = "fill" /\ next' = next + 1
      /\ rows' = [rows EXCEPT ![next] = line]
      /\ body' = body - rows[next].length + line.length
      /\ UNCHANGED <<deliveries, selected, extra>>
  BY DEF FairInv, Account, Fill
<1>2. next \in 1..Len(rows) /\ Filled \in Delivery /\ rows[next].length = Filled.least /\ Filled = deliveries[selected[next]]
  BY KeptRow DEF FairInv, Filled
<1>3. /\ body = Joined(RowLengths) /\ LeftOut(Len(deliveries)) /\ (selected # <<>> => extra = ShareOf)
      /\ \A k \in 1..next - 1 : WithinShare(k)
  BY DEF FairInv, Dividing
<1>4. /\ rows \in Seq(RowType) /\ Len(rows) = Len(selected) /\ Len(rows) \in Nat /\ rows' \in Seq(RowType)
      /\ Len(rows') = Len(rows) /\ DOMAIN rows = 1..Len(rows) /\ DOMAIN rows' = 1..Len(rows)
      /\ \A k \in 1..Len(rows) : rows'[k] = IF k = next THEN line ELSE rows[k]
  BY <1>1, <1>2 DEF Shape
<1>5. body' = Joined(RowLengths)'
  <2>1. RowLengths' = [RowLengths EXCEPT ![next] = line.length]
    BY <1>2, <1>4 DEF RowLengths
  <2>2. /\ RowLengths \in Seq(Nat) /\ next \in 1..Len(RowLengths) /\ RowLengths[next] = rows[next].length
        /\ line.length \in Nat
    BY <1>1, <1>2, <1>4, LengthsType DEF RowType
  <2>3. Joined([RowLengths EXCEPT ![next] = line.length]) = Joined(RowLengths) - RowLengths[next] + line.length
    BY <2>2, JoinedExcept
  <2> QED
    BY <1>1, <1>3, <2>1, <2>2, <2>3
<1>6. ShareOf' = ShareOf /\ LeftOut(Len(deliveries))'
  BY <1>1, <1>3 DEF ShareOf, Omitted, BareLength, LeftOut, Before
<1>7. \A k \in 1..next' - 1 : WithinShare(k)'
  <2> SUFFICES ASSUME NEW k \in 1..next PROVE WithinShare(k)'
    BY <1>1, <1>2
  <2>1. k \in 1..Len(rows) /\ (k = next \/ k \in 1..next - 1)
    BY <1>2, <1>4
  <2>2. CASE k = next
    BY <1>1, <1>2, <1>4, <2>1, <2>2 DEF WithinShare, Budget
  <2>3. CASE k \in 1..next - 1
    <3>1. rows'[k] = rows[k]
      BY <1>2, <1>4, <2>1, <2>3
    <3> QED
      BY <1>1, <1>3, <2>3, <3>1 DEF WithinShare
  <2> QED
    BY <2>1, <2>2, <2>3
<1>8. Dividing'
  BY <1>1, <1>3, <1>5, <1>6, <1>7 DEF Dividing
<1>9. TooLong'
  BY <1>1 DEF FairInv, TooLong, Complete
<1> QED
  BY <1>1, <1>8, <1>9 DEF Keeping, ChainIsFair

LEMMA FillStepsFair ==
  ASSUME FairInv, FillComplete \/ FillCut
  PROVE  TooLong' /\ Keeping' /\ Dividing' /\ ChainIsFair'
<1>1. Account
  BY DEF FairInv
<1>2. CASE FillComplete
  <2>1. at = "fill" /\ next <= Len(rows) /\ Filled.full <= Budget /\ Fill(Row(Filled.full, TRUE))
    BY <1>2 DEF FillComplete
  <2>2. Row(Filled.full, TRUE) \in RowType /\ Row(Filled.full, TRUE).length = Filled.full
        /\ Row(Filled.full, TRUE).complete = TRUE
    BY <1>1, <2>1, KeptRow DEF Row, RowType, Delivery
  <2> QED
    BY <2>1, <2>2, FillFair
<1>3. CASE FillCut
  <2>1. at = "search" /\ Fill(Row(Cut(Filled, low), FALSE))
    BY <1>3 DEF FillCut
  <2>2. next <= Len(rows) /\ low \in 0..MaxWidth /\ Cut(Filled, low) <= Budget /\ Filled.full > Budget
    BY <1>1, <2>1 DEF FairInv, Dividing, Account, Searching
  <2> DEFINE line == Row(Cut(Filled, low), FALSE)
  <2>3. line \in RowType /\ line.length = Cut(Filled, low) /\ line.complete = FALSE
    BY <1>1, <2>1, <2>2, KeptRow, CutType DEF Row, RowType
  <2>4. ~(Filled.full <= Budget)
    <3>1. Filled \in Delivery /\ rows[next].length = Filled.least /\ extra \in Nat
      BY <1>1, <2>1, <2>2, KeptRow
    <3> QED
      BY <2>2, <3>1 DEF Budget, Delivery
  <2>5. Fill(line) /\ line.length <= Budget /\ (line.complete <=> Filled.full <= Budget)
    BY <2>1, <2>2, <2>3, <2>4
  <2> HIDE DEF line
  <2> QED
    BY <2>1, <2>2, <2>3, <2>5, FillFair
<1> QED
  BY <1>2, <1>3

LEMMA SearchFair ==
  ASSUME FairInv, BeginSearch \/ Narrow
  PROVE  TooLong' /\ Keeping' /\ Dividing' /\ ChainIsFair'
<1>1. /\ at \in {"fill", "search"} /\ at' = "search"
      /\ UNCHANGED <<deliveries, next, selected, rows, body, extra>>
  BY DEF BeginSearch, Narrow
<1>2. Filled.full > Budget
  BY DEF BeginSearch, Narrow, FairInv, Dividing
<1>3. Dividing'
  BY <1>1, <1>2 DEF FairInv, Dividing, RowLengths, LeftOut, Before, ShareOf, Omitted, BareLength,
     WithinShare, Filled, Budget
<1>4. TooLong'
  BY <1>1 DEF FairInv, TooLong, Complete
<1> QED
  BY <1>1, <1>3, <1>4 DEF Keeping, ChainIsFair

LEMMA EncodeFair ==
  ASSUME FairInv, Encode
  PROVE  TooLong' /\ Keeping' /\ Dividing' /\ ChainIsFair'
<1>1. /\ at = "fill" /\ at' = "done" /\ next > Len(rows)
      /\ UNCHANGED <<deliveries, next, selected, rows, body, extra>>
  BY DEF Encode
<1>2. /\ body = Joined(RowLengths) /\ LeftOut(Len(deliveries)) /\ (selected # <<>> => extra = ShareOf)
      /\ (\A k \in 1..next - 1 : WithinShare(k)) /\ ~(Frame(0) + Complete <= MaxChars)
  BY <1>1 DEF FairInv, Dividing, TooLong
<1>3. /\ Shape /\ next \in 1..Len(rows) + 1 /\ DOMAIN selected = 1..Len(rows) /\ DOMAIN deliveries = 1..Len(deliveries)
      /\ Len(rows) \in Nat /\ selected \in Seq(1..Len(deliveries))
  <2>1. Shape /\ next \in 1..Len(rows) + 1
    BY <1>1 DEF FairInv, Account, Filling
  <2>2. deliveries \in Seq(Delivery)
    BY <2>1, ChainAssumption DEF Shape
  <2> QED
    BY <2>1, <2>2 DEF Shape
<1>4. \A i \in DOMAIN selected : selected # <<>> /\ WithinShare(i)
  BY <1>1, <1>2, <1>3
<1>5. ChainIsFair'
  <2>1. body = Joined([i \in DOMAIN rows |-> rows[i].length])
    BY <1>2 DEF RowLengths
  <2>2. \A i \in DOMAIN deliveries \ Range(selected) :
          Frame(Omitted - 1) + Note + BareLength + Comma(Len(selected)) + deliveries[i].least > MaxChars
    BY <1>2, <1>3 DEF LeftOut, Before
  <2>3. \A i \in DOMAIN selected :
          LET d == deliveries[selected[i]]
          IN /\ rows[i].length <= d.least + ShareOf
             /\ rows[i].complete <=> d.full <= d.least + ShareOf
    BY <1>2, <1>4 DEF WithinShare
  <2>4. /\ Omitted' = Omitted /\ BareLength' = BareLength /\ ShareOf' = ShareOf /\ Complete' = Complete
        /\ Truncated' = Truncated
    BY <1>1 DEF Omitted, Truncated, BareLength, ShareOf, Complete
  <2> QED
    BY <1>1, <1>2, <2>1, <2>2, <2>3, <2>4 DEF ChainIsFair
<1> QED
  BY <1>1, <1>5 DEF TooLong, Keeping, Dividing

LEMMA FairStep == FairInv /\ [ChainNext]_chainVars => FairInv'
<1> SUFFICES ASSUME FairInv, [ChainNext]_chainVars
             PROVE  FairInv'
  OBVIOUS
<1>1. Account'
  BY AccountStep DEF FairInv
<1>2. TooLong' /\ Keeping' /\ Dividing' /\ ChainIsFair'
  <2>1. CASE ChainNext
    BY <2>1, MeasureFair, SelectFair, ShareFair, FillStepsFair, SearchFair, EncodeFair DEF ChainNext
  <2>2. CASE UNCHANGED chainVars
    <3>1. UNCHANGED <<deliveries, at, next, selected, rows, body, extra, low, high>>
      BY <2>2 DEF chainVars
    <3>2. TooLong'
      BY <3>1 DEF FairInv, TooLong, Complete
    <3>3. Keeping'
      BY <3>1 DEF FairInv, Keeping, LeftOut, Before, Omitted, BareLength
    <3>4. Dividing'
      BY <3>1 DEF FairInv, Dividing, RowLengths, LeftOut, Before, ShareOf, Omitted, BareLength, WithinShare, Filled, Budget
    <3>5. ChainIsFair'
      BY <3>1 DEF FairInv, ChainIsFair, Complete, Omitted, BareLength, ShareOf, Truncated
    <3> QED
      BY <3>2, <3>3, <3>4, <3>5
  <2> QED
    BY <2>1, <2>2
<1> QED
  BY <1>1, <1>2 DEF FairInv

\* Whoever is left out does not fit even with its identity, and whoever is kept has a
\* row within the same share of what is left: no early verbose member displaces a
\* later one.
THEOREM ChainIsAlwaysFair == ChainSpec => []ChainIsFair
<1>1. FairInv => ChainIsFair
  BY DEF FairInv
<1> QED
  BY FairStarts, FairStep, <1>1, PTL DEF ChainSpec

-----------------------------------------------------------------------------
(***************************************************************************)
(* How a run ends.                                                         *)
(***************************************************************************)
\* The stages of a run that its own dispatch carries out, and those in which
\* nothing more is carried out.
Dispatching == {"putting", "planning", "members", "verdict", "settling", "skipping", "returning", "catching"}
Gone == {"idle", "done", "rejected", "dead"}

\* The run will not write a fresh row any more.
Over(r) ==
  \/ pc[r] \in {"returning", "finally", "pruning", "handling", "done", "rejected", "dead"}
  \/ pc[r] = "waiting" /\ r \in outer
  \/ pc[r] = "catching" /\ row[r] \notin Active

\* Where the controllers and the writes that nobody awaits are.
Controlled(r) ==
  /\ pc[r] \in Dispatching \union {"finally"} => map[r] = "inner"
  /\ pc[r] \in Gone \union {"accepted", "pruning"} => map[r] = "none"
  /\ pc[r] = "waiting" => map[r] # "inner"
  /\ r \in pending => pc[r] = "waiting" /\ map[r] = "outer"
  /\ unawaited[r] # {} => pc[r] \in {"waiting", "handling", "rejected", "done"}
  /\ pc[r] \in {"accepted", "waiting", "handling", "rejected"} \/ unawaited[r] # {} => r \in Background

\* What the row is while the run goes on.
Staged(r) ==
  /\ pc[r] = "idle" => row[r] = "absent"
  /\ pc[r] = "accepted" => row[r] = "queued"
  /\ pc[r] = "waiting" => /\ row[r] \in {"queued", "failed", "cancelled", "absent"}
                          /\ r \in outer \/ (row[r] = "queued" /\ unawaited[r] = {})
  /\ pc[r] = "putting" => row[r] \in {"absent", "queued"}
  /\ pc[r] = "planning" => row[r] = "planning"
  /\ pc[r] \in {"members", "verdict", "settling", "skipping"} => row[r] = "running"
  /\ pc[r] \in {"settling", "returning"} => verdict[r] \in {"completed", "partial", "failed", "cancelled"}
  /\ pc[r] = "returning" => row[r] \in {verdict[r], "absent"}
  /\ pc[r] = "catching" => row[r] # "interrupted"
  /\ pc[r] = "finally" /\ ~setting.store => row[r] \notin Active

Owned(r) ==
  /\ row[r] \in Active /\ r \notin toReconcile /\ host # "down" /\ ~setting.store =>
       map[r] # "none" \/ pc[r] = "accepted" \/ unawaited[r] # {}
  /\ r \in toReconcile => row[r] \in Active /\ pc[r] \in Gone /\ unawaited[r] = {}
  /\ host = "down" => pc[r] \in Gone /\ unawaited[r] = {}
  /\ host \in {"down", "ready"} => r \notin toReconcile
  /\ (\E s \in Runs : r \in doomed[s]) => row[r] \notin Active /\ Over(r)

\* What the row, the member and the dispatch tell of the end of the run.
Told(r) ==
  /\ result[r] \in Settled =>
       pc[r] \in {"finally", "pruning", "done", "dead"} /\ row[r] \in {result[r], "absent"} /\ unawaited[r] = {}
  /\ result[r] # "none" => pc[r] \in {"finally", "pruning", "handling", "done", "dead"}
  /\ row[r] = "interrupted" => pc[r] \in {"dead", "rejected", "done"}
  /\ pc[r] \in {"verdict", "settling"} => member[r] \notin Unfinished
  /\ pc[r] \in {"accepted", "waiting"} \/ unawaited[r] # {} => member[r] # "running"
  /\ "failed" \in unawaited[r] => setting.job
  /\ row[r] \in Settled /\ ~setting.job => member[r] \notin Unfinished

\* What a cancel that was acknowledged leads to.
Honoured(r) ==
  r \in honoured =>
    /\ row[r] \notin {"completed", "partial"} /\ (r \in Foreground => row[r] # "failed")
    /\ pc[r] \notin {"idle", "accepted"}
    /\ pc[r] \in Dispatching => Aborted(r)
    /\ pc[r] = "waiting" => r \in outer
    /\ pc[r] \in {"settling", "returning"} => verdict[r] = "cancelled"

RunInv(r) == Controlled(r) /\ Staged(r) /\ Owned(r) /\ Told(r) /\ Honoured(r)

LifeInv == TypeOK /\ setting \in Settings /\ \A r \in Runs : RunInv(r)
-----------------------------------------------------------------------------
(* What a step leaves of a run, or of everything but its row.                *)
Elsewhere(s) ==
  /\ pc'[s] = pc[s] /\ map'[s] = map[s] /\ unawaited'[s] = unawaited[s]
  /\ verdict'[s] = verdict[s] /\ result'[s] = result[s]
  /\ (s \in inner' <=> s \in inner) /\ (s \in outer' <=> s \in outer) /\ (s \in pending' <=> s \in pending)
  /\ (s \in honoured' <=> s \in honoured) /\ (s \in toReconcile' <=> s \in toReconcile)

Same(s) == row'[s] = row[s] /\ member'[s] = member[s] /\ Elsewhere(s)

\* A retention pass may only choose what nobody carries on.
DoomedRightly(s) ==
  \A t \in Runs : s \in doomed'[t] => (row[s] \notin Active /\ Over(s))

LEMMA SettledIsOver ==
  ASSUME LifeInv, NEW r \in Runs, row[r] \in Settled
  PROVE  Over(r) /\ row[r] \notin Active
<1>1. pc[r] \in Stages /\ Staged(r)
  BY DEF LifeInv, TypeOK, RunInv
<1> QED
  BY <1>1 DEF Over, Staged, Stages, Settled, Active

LEMMA SameStays ==
  ASSUME LifeInv, NEW s \in Runs, Same(s), UNCHANGED <<host, setting>>, DoomedRightly(s)
  PROVE  RunInv(s)'
<1>1. RunInv(s)
  BY DEF LifeInv
<1>2. Controlled(s)' /\ Staged(s)'
  BY <1>1 DEF RunInv, Controlled, Staged, Same, Elsewhere
<1>3. Over(s) => Over(s)'
  BY DEF Over, Same, Elsewhere
<1>4. Owned(s)'
  BY <1>1, <1>3 DEF RunInv, Owned, Same, Elsewhere, DoomedRightly
<1>5. Told(s)'
  BY <1>1 DEF RunInv, Told, Same, Elsewhere
<1>6. Honoured(s)'
  BY <1>1 DEF RunInv, Honoured, Aborted, Same, Elsewhere
<1> QED
  BY <1>2, <1>4, <1>5, <1>6 DEF RunInv

LEMMA DoomedStays ==
  ASSUME LifeInv, NEW s \in Runs, \A t \in Runs : doomed'[t] \subseteq doomed[t]
  PROVE  DoomedRightly(s)
  BY DEF LifeInv, RunInv, Owned, DoomedRightly

(* A row that nobody carries on is deleted.                                  *)
LEMMA DeletedStays ==
  ASSUME LifeInv, NEW s \in Runs, row'[s] = "absent", member'[s] = "pending", Elsewhere(s),
         row[s] \notin Active, Over(s), UNCHANGED <<host, setting>>, DoomedRightly(s)
  PROVE  RunInv(s)'
<1>1. RunInv(s)
  BY DEF LifeInv
<1>2. Controlled(s)'
  BY <1>1 DEF RunInv, Controlled, Elsewhere
<1>3. Staged(s)'
  BY <1>1 DEF RunInv, Staged, Elsewhere, Over, Active
<1>4. Over(s)'
  BY DEF Over, Elsewhere, Active
<1>5. Owned(s)'
  BY <1>1, <1>4 DEF RunInv, Owned, Elsewhere, Active
<1>6. Told(s)'
  BY <1>1 DEF RunInv, Told, Elsewhere, Over, Settled
<1>7. Honoured(s)'
  BY <1>1 DEF RunInv, Honoured, Aborted, Elsewhere
<1> QED
  BY <1>2, <1>3, <1>5, <1>6, <1>7 DEF RunInv

(* A step of one run.                                                        *)
LEMMA OneMoves ==
  ASSUME LifeInv, NEW r \in Runs, TypeOK', RunInv(r)', UNCHANGED <<host, setting>>,
         \A s \in Runs \ {r} : Same(s), \A t \in Runs : doomed'[t] \subseteq doomed[t]
  PROVE  LifeInv'
<1>1. \A s \in Runs \ {r} : RunInv(s)'
  BY SameStays, DoomedStays
<1> QED
  BY <1>1 DEF LifeInv

(* A step that changes nothing but a row and its member, by a write.         *)
LEMMA Written ==
  ASSUME TypeOK, NEW r \in Runs, NEW status, SettleWith(r, status)
  PROVE  /\ row'[r] = IF row[r] = "absent" THEN "absent" ELSE status
         /\ member'[r] = IF row[r] # "absent" /\ member[r] \in Unfinished THEN status ELSE member[r]
         /\ \A s \in Runs \ {r} : row'[s] = row[s] /\ member'[s] = member[s]
         /\ status \in {"failed", "cancelled", "interrupted"} =>
              row' \in [Runs -> Active \union Settled \union {"absent"}] /\ member' \in [Runs -> MemberStatus]
<1>1. row \in [Runs -> Active \union Settled \union {"absent"}] /\ member \in [Runs -> MemberStatus]
  BY DEF TypeOK
<1>2. row' = [row EXCEPT ![r] = IF @ = "absent" THEN @ ELSE status]
  BY DEF SettleWith, SetStatus
<1>3. member' = [member EXCEPT ![r] = IF row[r] # "absent" /\ @ \in Unfinished THEN status ELSE @]
  BY DEF SettleWith
<1>4. status \in {"failed", "cancelled", "interrupted"} => row' \in [Runs -> Active \union Settled \union {"absent"}]
  BY <1>1, <1>2 DEF Settled
<1>5. status \in {"failed", "cancelled", "interrupted"} => member' \in [Runs -> MemberStatus]
  BY <1>1, <1>3 DEF MemberStatus
<1> QED
  BY <1>1, <1>2, <1>3, <1>4, <1>5

LEMMA Tried ==
  ASSUME TypeOK, NEW r \in Runs, NEW status \in {"failed", "cancelled"}, TrySettle(r, status)
  PROVE  /\ \/ /\ row'[r] = IF row[r] = "absent" THEN "absent" ELSE status
               /\ member'[r] = IF row[r] # "absent" /\ member[r] \in Unfinished THEN status ELSE member[r]
            \/ setting.store /\ row'[r] = row[r] /\ member'[r] = member[r]
         /\ \A s \in Runs \ {r} : row'[s] = row[s] /\ member'[s] = member[s]
         /\ row' \in [Runs -> Active \union Settled \union {"absent"}] /\ member' \in [Runs -> MemberStatus]
<1>1. CASE SettleWith(r, status)
  BY <1>1, Written
<1>2. CASE setting.store /\ UNCHANGED <<row, member>>
  BY <1>2 DEF TypeOK
<1> QED
  BY <1>1, <1>2 DEF TrySettle

LEMMA Fresh ==
  ASSUME TypeOK, NEW r \in Runs, NEW status \in Active, PutFresh(r, status)
  PROVE  /\ row'[r] = status /\ member'[r] = "pending"
         /\ \A s \in Runs \ {r} : row'[s] = row[s] /\ member'[s] = member[s]
         /\ row' \in [Runs -> Active \union Settled \union {"absent"}] /\ member' \in [Runs -> MemberStatus]
         /\ older' \in [Runs -> SUBSET Runs]
<1>1. row \in [Runs -> Active \union Settled \union {"absent"}] /\ member \in [Runs -> MemberStatus]
      /\ older \in [Runs -> SUBSET Runs]
  BY DEF TypeOK
<1>2. row' = [row EXCEPT ![r] = status] /\ member' = [member EXCEPT ![r] = "pending"]
  BY DEF PutFresh
<1>3. older' = [s \in Runs |-> IF s = r THEN {t \in Runs \ {r} : row[t] # "absent"} ELSE older[s] \ {r}]
  BY DEF PutFresh
<1>4. older' \in [Runs -> SUBSET Runs]
  BY <1>1, <1>3
<1>5. member' \in [Runs -> MemberStatus]
  BY <1>1, <1>2 DEF MemberStatus, Unfinished
<1> QED
  BY <1>1, <1>2, <1>4, <1>5

LEMMA Deleted ==
  ASSUME TypeOK, NEW S, Delete(S)
  PROVE  /\ \A s \in Runs : s \in S => row'[s] = "absent" /\ member'[s] = "pending"
         /\ \A s \in Runs : s \notin S => row'[s] = row[s] /\ member'[s] = member[s]
         /\ row' \in [Runs -> Active \union Settled \union {"absent"}] /\ member' \in [Runs -> MemberStatus]
         /\ older' \in [Runs -> SUBSET Runs]
<1>1. row \in [Runs -> Active \union Settled \union {"absent"}] /\ member \in [Runs -> MemberStatus]
      /\ older \in [Runs -> SUBSET Runs]
  BY DEF TypeOK
<1>2. /\ row' = [s \in Runs |-> IF s \in S THEN "absent" ELSE row[s]]
      /\ member' = [s \in Runs |-> IF s \in S THEN "pending" ELSE member[s]]
      /\ older' = [s \in Runs |-> IF s \in S THEN {} ELSE older[s] \ S]
  BY DEF Delete
<1>3. older' \in [Runs -> SUBSET Runs]
  BY <1>1, <1>2
<1>4. member' \in [Runs -> MemberStatus]
  BY <1>1, <1>2 DEF MemberStatus, Unfinished
<1> QED
  BY <1>1, <1>2, <1>3, <1>4
-----------------------------------------------------------------------------
(***************************************************************************)
(* One step after the other: what it does to one run and, when rows are    *)
(* deleted, to the others.                                                 *)
(***************************************************************************)
LEMMA AcceptKeeps ==
  ASSUME LifeInv, NEW r \in Runs, Accept(r)
  PROVE  LifeInv'
<1>1. RunInv(r) /\ TypeOK /\ setting \in Settings
  BY DEF LifeInv
<1>2. /\ row'[r] = "queued" /\ member'[r] = "pending"
      /\ \A s \in Runs \ {r} : row'[s] = row[s] /\ member'[s] = member[s]
      /\ row' \in [Runs -> Active \union Settled \union {"absent"}] /\ member' \in [Runs -> MemberStatus]
      /\ older' \in [Runs -> SUBSET Runs]
  BY <1>1, Fresh DEF Accept, Active
<1>3. /\ r \in Background /\ host # "down" /\ pc[r] = "idle" /\ pc'[r] = "accepted"
      /\ \A s \in Runs \ {r} : pc'[s] = pc[s]
      /\ UNCHANGED <<map, inner, outer, pending, unawaited, verdict, result, doomed, honoured, toReconcile, host, crashes, setting>>
  BY <1>1 DEF Accept, Goto, signalVars, hostVars, TypeOK
<1>4. TypeOK'
  BY <1>1, <1>2, <1>3 DEF Accept, Goto, TypeOK, Stages
<1>5. Controlled(r)'
  BY <1>1, <1>2, <1>3 DEF RunInv, Controlled, Dispatching, Gone
<1>6. Staged(r)'
  BY <1>1, <1>2, <1>3 DEF Staged
<1>7. Owned(r)'
  BY <1>1, <1>2, <1>3 DEF RunInv, Owned, Over, Staged, Active
<1>8. Told(r)'
  BY <1>1, <1>2, <1>3 DEF RunInv, Told, Settled
<1>9. Honoured(r)'
  BY <1>1, <1>2, <1>3 DEF RunInv, Honoured
<1> QED
  BY <1>2, <1>3, <1>4, <1>5, <1>6, <1>7, <1>8, <1>9, OneMoves DEF RunInv, Same, Elsewhere

LEMMA RefuseAcceptanceKeeps ==
  ASSUME LifeInv, NEW r \in Runs, RefuseAcceptance(r)
  PROVE  LifeInv'
<1>1. RunInv(r) /\ TypeOK /\ setting \in Settings
  BY DEF LifeInv
<1>2. /\ r \in Background /\ host # "down" /\ pc[r] = "idle" /\ pc'[r] = "rejected"
      /\ \A s \in Runs \ {r} : pc'[s] = pc[s]
      /\ UNCHANGED <<row, member, older, map, inner, outer, pending, unawaited, verdict, result, doomed, honoured, toReconcile, host, crashes, setting>>
  BY <1>1 DEF RefuseAcceptance, Goto, rowVars, signalVars, hostVars, TypeOK
<1>3. TypeOK'
  BY <1>1, <1>2 DEF RefuseAcceptance, Goto, TypeOK, Stages
<1>4. Controlled(r)'
  BY <1>1, <1>2 DEF RunInv, Controlled, Dispatching, Gone
<1>5. Staged(r)'
  BY <1>1, <1>2 DEF Staged
<1>6. Owned(r)'
  BY <1>1, <1>2 DEF RunInv, Owned, Over, Gone
<1>7. Told(r)'
  BY <1>1, <1>2 DEF RunInv, Told
<1>8. Honoured(r)'
  BY <1>1, <1>2 DEF RunInv, Honoured
<1> QED
  BY <1>2, <1>3, <1>4, <1>5, <1>6, <1>7, <1>8, OneMoves DEF RunInv, Same, Elsewhere

LEMMA RegisterKeeps ==
  ASSUME LifeInv, NEW r \in Runs, Register(r)
  PROVE  LifeInv'
<1>1. RunInv(r) /\ TypeOK /\ setting \in Settings
  BY DEF LifeInv
<1>2. /\ pc[r] = "accepted" /\ pc'[r] = "waiting"
      /\ map'[r] = "outer" /\ pending' = pending \union {r}
      /\ \A s \in Runs \ {r} : pc'[s] = pc[s] /\ map'[s] = map[s]
      /\ UNCHANGED <<row, member, older, inner, outer, unawaited, verdict, result, doomed, honoured, toReconcile, host, crashes, setting>>
  BY <1>1 DEF Register, Goto, rowVars, hostVars, TypeOK
<1>3. TypeOK'
  BY <1>1, <1>2 DEF Register, Goto, TypeOK, Stages
<1>4. Controlled(r)'
  BY <1>1, <1>2 DEF RunInv, Controlled, Dispatching, Gone
<1>5. Staged(r)'
  BY <1>1, <1>2 DEF RunInv, Staged, Controlled
<1>6. Owned(r)'
  BY <1>1, <1>2 DEF RunInv, Owned, Over, Gone
<1>7. Told(r)'
  BY <1>1, <1>2 DEF RunInv, Told
<1>8. Honoured(r)'
  BY <1>1, <1>2 DEF RunInv, Honoured
<1> QED
  BY <1>2, <1>3, <1>4, <1>5, <1>6, <1>7, <1>8, OneMoves DEF RunInv, Same, Elsewhere

LEMMA RejectJobKeeps ==
  ASSUME LifeInv, NEW r \in Runs, RejectJob(r)
  PROVE  LifeInv'
<1>1. RunInv(r) /\ TypeOK /\ setting \in Settings
  BY DEF LifeInv
<1>2. /\ setting.job /\ pc[r] = "accepted" /\ outer' = outer \union {r}
      /\ unawaited'[r] = unawaited[r] \union {"failed"}
      /\ pc'[r] \in {"rejected", "handling"}
      /\ \A s \in Runs \ {r} : pc'[s] = pc[s] /\ unawaited'[s] = unawaited[s]
      /\ UNCHANGED <<row, member, older, map, inner, pending, verdict, result, doomed, honoured, toReconcile, host, crashes, setting>>
  BY <1>1 DEF RejectJob, Goto, rowVars, hostVars, TypeOK
<1>3. TypeOK'
  BY <1>1, <1>2 DEF RejectJob, Goto, TypeOK, Stages
<1>4. Controlled(r)'
  BY <1>1, <1>2 DEF RunInv, Controlled, Dispatching
<1>5. Staged(r)'
  BY <1>1, <1>2 DEF Staged
<1>6. Owned(r)'
  BY <1>1, <1>2 DEF RunInv, Owned, Over, Gone
<1>7. Told(r)'
  BY <1>1, <1>2 DEF RunInv, Told
<1>8. Honoured(r)'
  BY <1>1, <1>2 DEF RunInv, Honoured
<1> QED
  BY <1>2, <1>3, <1>4, <1>5, <1>6, <1>7, <1>8, OneMoves DEF RunInv, Same, Elsewhere

LEMMA StartJobKeeps ==
  ASSUME LifeInv, NEW r \in Runs, StartJob(r)
  PROVE  LifeInv'
<1>1. RunInv(r) /\ TypeOK /\ setting \in Settings
  BY DEF LifeInv
<1>2. /\ pc[r] = "waiting" /\ pending' = pending \ {r}
      /\ \/ pc'[r] = "handling" /\ map'[r] = map[r]
         \/ r \notin outer /\ pc'[r] = "putting" /\ map'[r] = "inner"
      /\ \A s \in Runs \ {r} : pc'[s] = pc[s] /\ map'[s] = map[s]
      /\ UNCHANGED <<row, member, older, inner, outer, unawaited, verdict, result, doomed, honoured, toReconcile, host, crashes, setting>>
  BY <1>1 DEF StartJob, Goto, rowVars, hostVars, TypeOK
<1>3. TypeOK'
  BY <1>1, <1>2 DEF StartJob, Goto, TypeOK, Stages
<1>4. Controlled(r)'
  BY <1>1, <1>2 DEF RunInv, Controlled, Dispatching, Gone, Staged
<1>5. Staged(r)'
  BY <1>1, <1>2 DEF RunInv, Staged
<1>6. Owned(r)'
  BY <1>1, <1>2 DEF RunInv, Owned, Over, Gone
<1>7. Told(r)'
  BY <1>1, <1>2 DEF RunInv, Told
<1>8. Honoured(r)'
  BY <1>1, <1>2 DEF RunInv, Honoured, Aborted
<1> QED
  BY <1>2, <1>3, <1>4, <1>5, <1>6, <1>7, <1>8, OneMoves DEF RunInv, Same, Elsewhere

LEMMA HandleJobErrorKeeps ==
  ASSUME LifeInv, NEW r \in Runs, HandleJobError(r)
  PROVE  LifeInv'
<1>1. RunInv(r) /\ TypeOK /\ setting \in Settings
  BY DEF LifeInv
<1>2. /\ \E status \in {"failed", "cancelled"} :
           \/ /\ row'[r] = IF row[r] = "absent" THEN "absent" ELSE status
              /\ member'[r] = IF row[r] # "absent" /\ member[r] \in Unfinished THEN status ELSE member[r]
           \/ setting.store /\ row'[r] = row[r] /\ member'[r] = member[r]
      /\ \A s \in Runs \ {r} : row'[s] = row[s] /\ member'[s] = member[s]
      /\ row' \in [Runs -> Active \union Settled \union {"absent"}] /\ member' \in [Runs -> MemberStatus]
  BY <1>1, Tried DEF HandleJobError
<1>3. /\ pc[r] = "handling" /\ pc'[r] = "done" /\ map'[r] = "none"
      /\ inner' = inner \ {r} /\ outer' = outer \ {r}
      /\ \A s \in Runs \ {r} : pc'[s] = pc[s] /\ map'[s] = map[s]
      /\ UNCHANGED <<older, pending, unawaited, verdict, result, doomed, honoured, toReconcile, host, crashes, setting>>
  BY <1>1 DEF HandleJobError, Goto, hostVars, TypeOK, Forget
<1>4. TypeOK'
  BY <1>1, <1>2, <1>3 DEF HandleJobError, Goto, TypeOK, Stages
<1>5. Controlled(r)'
  BY <1>1, <1>2, <1>3 DEF RunInv, Controlled, Dispatching
<1>6. Staged(r)'
  BY <1>1, <1>2, <1>3 DEF Staged
<1>7. Owned(r)'
  BY <1>1, <1>2, <1>3 DEF RunInv, Owned, Over, Gone, Active
<1>8. Told(r)'
  BY <1>1, <1>2, <1>3 DEF RunInv, Told, Unfinished
<1>9. Honoured(r)'
  BY <1>1, <1>2, <1>3, RunsAssumption DEF RunInv, Honoured, Dispatching, Controlled
<1> QED
  BY <1>2, <1>3, <1>4, <1>5, <1>6, <1>7, <1>8, <1>9, OneMoves DEF RunInv, Same, Elsewhere

LEMMA BeginKeeps ==
  ASSUME LifeInv, NEW r \in Runs, Begin(r)
  PROVE  LifeInv'
<1>1. RunInv(r) /\ TypeOK /\ setting \in Settings
  BY DEF LifeInv
<1>2. /\ r \in Foreground /\ host = "ready" /\ pc[r] = "idle" /\ pc'[r] = "putting" /\ map'[r] = "inner"
      /\ \A s \in Runs \ {r} : pc'[s] = pc[s] /\ map'[s] = map[s]
      /\ UNCHANGED <<row, member, older, inner, outer, pending, unawaited, verdict, result, doomed, honoured, toReconcile, host, crashes, setting>>
  BY <1>1 DEF Begin, Goto, rowVars, hostVars, TypeOK
<1>3. TypeOK'
  BY <1>1, <1>2 DEF Begin, Goto, TypeOK, Stages
<1>4. Controlled(r)'
  BY <1>1, <1>2 DEF RunInv, Controlled, Gone
<1>5. Staged(r)'
  BY <1>1, <1>2 DEF RunInv, Staged
<1>6. Owned(r)'
  BY <1>1, <1>2 DEF RunInv, Owned, Over
<1>7. Told(r)'
  BY <1>1, <1>2 DEF RunInv, Told
<1>8. Honoured(r)'
  BY <1>1, <1>2 DEF RunInv, Honoured
<1> QED
  BY <1>2, <1>3, <1>4, <1>5, <1>6, <1>7, <1>8, OneMoves DEF RunInv, Same, Elsewhere

LEMMA PutRowKeeps ==
  ASSUME LifeInv, NEW r \in Runs, PutRow(r)
  PROVE  LifeInv'
<1>1. RunInv(r) /\ TypeOK /\ setting \in Settings
  BY DEF LifeInv
<1>2. /\ \/ row'[r] = "planning" /\ pc'[r] = "planning"
         \/ row'[r] = "running" /\ pc'[r] = "members"
      /\ member'[r] = "pending"
      /\ \A s \in Runs \ {r} : row'[s] = row[s] /\ member'[s] = member[s]
      /\ row' \in [Runs -> Active \union Settled \union {"absent"}] /\ member' \in [Runs -> MemberStatus]
      /\ older' \in [Runs -> SUBSET Runs]
  BY <1>1, Fresh DEF PutRow, Active, Goto, TypeOK
<1>3. /\ pc[r] = "putting"
      /\ \A s \in Runs \ {r} : pc'[s] = pc[s]
      /\ UNCHANGED <<map, inner, outer, pending, unawaited, verdict, result, doomed, honoured, toReconcile, host, crashes, setting>>
  BY <1>1 DEF PutRow, Goto, signalVars, hostVars, TypeOK
<1>4. TypeOK'
  BY <1>1, <1>2, <1>3 DEF PutRow, Goto, TypeOK, Stages
<1>5. Controlled(r)'
  BY <1>1, <1>2, <1>3 DEF RunInv, Controlled, Dispatching, Gone
<1>6. Staged(r)'
  BY <1>1, <1>2, <1>3 DEF Staged
<1>7. Owned(r)'
  <2>1. map[r] = "inner" /\ ~Over(r) /\ pc[r] \notin Gone
    BY <1>1, <1>3 DEF RunInv, Controlled, Dispatching, Over
  <2>2. map'[r] = "inner" /\ \A s \in Runs : r \notin doomed'[s]
    BY <1>1, <1>3, <2>1 DEF RunInv, Owned
  <2> QED
    BY <1>1, <1>3, <2>1, <2>2 DEF RunInv, Owned
<1>8. Told(r)'
  BY <1>1, <1>2, <1>3 DEF RunInv, Told, Settled
<1>9. Honoured(r)'
  BY <1>1, <1>2, <1>3 DEF RunInv, Honoured, Aborted, Dispatching
<1> QED
  BY <1>2, <1>3, <1>4, <1>5, <1>6, <1>7, <1>8, <1>9, OneMoves DEF RunInv, Same, Elsewhere

LEMMA PlanKeeps ==
  ASSUME LifeInv, NEW r \in Runs, Plan(r)
  PROVE  LifeInv'
<1>1. RunInv(r) /\ TypeOK /\ setting \in Settings
  BY DEF LifeInv
<1>2. /\ pc[r] = "planning" /\ pc'[r] \in {"members", "skipping"}
      /\ row'[r] = IF row[r] = "absent" THEN "absent" ELSE "running"
      /\ \A s \in Runs \ {r} : row'[s] = row[s] /\ pc'[s] = pc[s]
      /\ UNCHANGED <<member, older, map, inner, outer, pending, unawaited, verdict, result, doomed, honoured, toReconcile, host, crashes, setting>>
  BY <1>1 DEF Plan, Goto, signalVars, hostVars, TypeOK, SetStatus
<1>3. TypeOK'
  BY <1>1, <1>2 DEF Plan, Goto, TypeOK, Stages, SetStatus, Active
<1>4. Controlled(r)'
  BY <1>1, <1>2 DEF RunInv, Controlled, Dispatching, Gone
<1>5. Staged(r)'
  BY <1>1, <1>2 DEF RunInv, Staged
<1>6. Owned(r)'
  BY <1>1, <1>2 DEF RunInv, Owned, Gone, Staged, Active
<1>7. Told(r)'
  BY <1>1, <1>2 DEF RunInv, Told, Settled
<1>8. Honoured(r)'
  BY <1>1, <1>2 DEF RunInv, Honoured, Aborted, Dispatching
<1> QED
  BY <1>2, <1>3, <1>4, <1>5, <1>6, <1>7, <1>8, OneMoves DEF RunInv, Same, Elsewhere

LEMMA SettleSkipKeeps ==
  ASSUME LifeInv, NEW r \in Runs, SettleSkip(r)
  PROVE  LifeInv'
<1>1. RunInv(r) /\ TypeOK /\ setting \in Settings
  BY DEF LifeInv
<1>2. /\ pc[r] = "skipping" /\ pc'[r] = "finally" /\ result'[r] = "skipped"
      /\ row'[r] = IF row[r] = "absent" THEN "absent" ELSE "skipped"
      /\ member'[r] = IF row[r] = "absent" THEN member[r] ELSE "skipped"
      /\ \A s \in Runs \ {r} : row'[s] = row[s] /\ member'[s] = member[s] /\ pc'[s] = pc[s] /\ result'[s] = result[s]
      /\ UNCHANGED <<older, map, inner, outer, pending, unawaited, verdict, doomed, honoured, toReconcile, host, crashes, setting>>
  BY <1>1 DEF SettleSkip, SkipRow, Goto, signalVars, hostVars, TypeOK, SetStatus
<1>3. TypeOK'
  BY <1>1, <1>2 DEF SettleSkip, SkipRow, Goto, TypeOK, Stages, SetStatus, Settled, MemberStatus
<1>4. Controlled(r)'
  BY <1>1, <1>2 DEF RunInv, Controlled, Dispatching, Gone
<1>5. Staged(r)'
  BY <1>1, <1>2 DEF Staged, Active
<1>6. Owned(r)'
  BY <1>1, <1>2 DEF RunInv, Owned, Over, Gone, Active
<1>7. Told(r)'
  BY <1>1, <1>2 DEF RunInv, Told, Controlled, Unfinished
<1>8. Honoured(r)'
  BY <1>1, <1>2 DEF Honoured, Dispatching
<1> QED
  BY <1>2, <1>3, <1>4, <1>5, <1>6, <1>7, <1>8, OneMoves DEF RunInv, Same, Elsewhere

LEMMA StartMemberKeeps ==
  ASSUME LifeInv, NEW r \in Runs, StartMember(r)
  PROVE  LifeInv'
<1>1. RunInv(r) /\ TypeOK /\ setting \in Settings
  BY DEF LifeInv
<1>2. /\ pc[r] = "members" /\ member'[r] = "running"
      /\ \A s \in Runs \ {r} : member'[s] = member[s]
      /\ UNCHANGED <<row, older, pc, map, inner, outer, pending, unawaited, verdict, result, doomed, honoured, toReconcile, host, crashes, setting>>
  BY <1>1 DEF StartMember, signalVars, runVars, hostVars, TypeOK
<1>3. TypeOK'
  BY <1>1, <1>2 DEF StartMember, TypeOK, MemberStatus, Unfinished
<1>4. Controlled(r)'
  BY <1>1, <1>2 DEF RunInv, Controlled
<1>5. Staged(r)'
  BY <1>1, <1>2 DEF RunInv, Staged
<1>6. Owned(r)'
  BY <1>1, <1>2 DEF RunInv, Owned, Over
<1>7. Told(r)'
  BY <1>1, <1>2 DEF RunInv, Told, Controlled, Staged, Settled
<1>8. Honoured(r)'
  BY <1>1, <1>2 DEF RunInv, Honoured, Aborted
<1> QED
  BY <1>2, <1>3, <1>4, <1>5, <1>6, <1>7, <1>8, OneMoves DEF RunInv, Same, Elsewhere

LEMMA EndMemberKeeps ==
  ASSUME LifeInv, NEW r \in Runs, EndMember(r)
  PROVE  LifeInv'
<1>1. RunInv(r) /\ TypeOK /\ setting \in Settings
  BY DEF LifeInv
<1>2. /\ pc[r] = "members" /\ pc'[r] = "verdict" /\ member'[r] \in {"cancelled", "completed", "failed"}
      /\ \A s \in Runs \ {r} : member'[s] = member[s] /\ pc'[s] = pc[s]
      /\ UNCHANGED <<row, older, map, inner, outer, pending, unawaited, verdict, result, doomed, honoured, toReconcile, host, crashes, setting>>
  BY <1>1 DEF EndMember, Goto, signalVars, hostVars, TypeOK
<1>3. TypeOK'
  BY <1>1, <1>2 DEF EndMember, Goto, TypeOK, Stages, MemberStatus
<1>4. Controlled(r)'
  BY <1>1, <1>2 DEF RunInv, Controlled, Dispatching, Gone
<1>5. Staged(r)'
  BY <1>1, <1>2 DEF RunInv, Staged
<1>6. Owned(r)'
  BY <1>1, <1>2 DEF RunInv, Owned, Over, Gone
<1>7. Told(r)'
  BY <1>1, <1>2 DEF RunInv, Told, Unfinished
<1>8. Honoured(r)'
  BY <1>1, <1>2 DEF RunInv, Honoured, Aborted, Dispatching
<1> QED
  BY <1>2, <1>3, <1>4, <1>5, <1>6, <1>7, <1>8, OneMoves DEF RunInv, Same, Elsewhere

LEMMA DecideKeeps ==
  ASSUME LifeInv, NEW r \in Runs, Decide(r)
  PROVE  LifeInv'
<1>1. RunInv(r) /\ TypeOK /\ setting \in Settings
  BY DEF LifeInv
<1>2. /\ pc[r] = "verdict" /\ pc'[r] = "settling" /\ verdict'[r] \in {"completed", "partial", "failed", "cancelled"}
      /\ Aborted(r) => verdict'[r] = "cancelled"
      /\ \A s \in Runs \ {r} : verdict'[s] = verdict[s] /\ pc'[s] = pc[s]
      /\ UNCHANGED <<row, member, older, map, inner, outer, pending, unawaited, result, doomed, honoured, toReconcile, host, crashes, setting>>
  BY <1>1 DEF Decide, Goto, rowVars, signalVars, hostVars, TypeOK
<1>3. TypeOK'
  BY <1>1, <1>2 DEF Decide, Goto, TypeOK, Stages, Settled
<1>4. Controlled(r)'
  BY <1>1, <1>2 DEF RunInv, Controlled, Dispatching, Gone
<1>5. Staged(r)'
  BY <1>1, <1>2 DEF RunInv, Staged
<1>6. Owned(r)'
  BY <1>1, <1>2 DEF RunInv, Owned, Over, Gone
<1>7. Told(r)'
  BY <1>1, <1>2 DEF RunInv, Told
<1>8. Honoured(r)'
  BY <1>1, <1>2 DEF RunInv, Honoured, Aborted, Dispatching
<1> QED
  BY <1>2, <1>3, <1>4, <1>5, <1>6, <1>7, <1>8, OneMoves DEF RunInv, Same, Elsewhere

LEMMA SettleKeeps ==
  ASSUME LifeInv, NEW r \in Runs, Settle(r)
  PROVE  LifeInv'
<1>1. RunInv(r) /\ TypeOK /\ setting \in Settings
  BY DEF LifeInv
<1>2. /\ pc[r] = "settling" /\ pc'[r] = "returning"
      /\ row'[r] = IF row[r] = "absent" THEN "absent" ELSE verdict[r]
      /\ \A s \in Runs \ {r} : row'[s] = row[s] /\ pc'[s] = pc[s]
      /\ UNCHANGED <<member, older, map, inner, outer, pending, unawaited, verdict, result, doomed, honoured, toReconcile, host, crashes, setting>>
  BY <1>1 DEF Settle, Goto, signalVars, hostVars, TypeOK, SetStatus
<1>3. TypeOK'
  BY <1>1, <1>2 DEF Settle, Goto, TypeOK, Stages, SetStatus, RunInv, Staged
<1>4. Controlled(r)'
  BY <1>1, <1>2 DEF RunInv, Controlled, Dispatching, Gone
<1>5. Staged(r)'
  BY <1>1, <1>2 DEF RunInv, Staged
<1>6. Owned(r)'
  BY <1>1, <1>2 DEF RunInv, Owned, Gone, Staged, Active
<1>7. Told(r)'
  BY <1>1, <1>2 DEF RunInv, Told, Staged
<1>8. Honoured(r)'
  BY <1>1, <1>2 DEF RunInv, Honoured, Aborted, Dispatching
<1> QED
  BY <1>2, <1>3, <1>4, <1>5, <1>6, <1>7, <1>8, OneMoves DEF RunInv, Same, Elsewhere

LEMMA ReturnKeeps ==
  ASSUME LifeInv, NEW r \in Runs, Return(r)
  PROVE  LifeInv'
<1>1. RunInv(r) /\ TypeOK /\ setting \in Settings
  BY DEF LifeInv
<1>2. /\ pc[r] = "returning" /\ verdict'[r] = "none"
      /\ \/ row[r] = "absent" /\ pc'[r] = "catching" /\ result'[r] = result[r]
         \/ row[r] # "absent" /\ pc'[r] = "finally" /\ result'[r] = verdict[r]
      /\ \A s \in Runs \ {r} : verdict'[s] = verdict[s] /\ result'[s] = result[s] /\ pc'[s] = pc[s]
      /\ UNCHANGED <<row, member, older, map, inner, outer, pending, unawaited, doomed, honoured, toReconcile, host, crashes, setting>>
  BY <1>1 DEF Return, Goto, rowVars, signalVars, hostVars, TypeOK
<1>3. TypeOK'
  BY <1>1, <1>2 DEF Return, Goto, TypeOK, Stages
<1>4. Controlled(r)'
  BY <1>1, <1>2 DEF RunInv, Controlled, Dispatching, Gone
<1>5. Staged(r)'
  BY <1>1, <1>2 DEF RunInv, Staged, Active
<1>6. Owned(r)'
  BY <1>1, <1>2 DEF RunInv, Owned, Over, Gone
<1>7. Told(r)'
  BY <1>1, <1>2 DEF RunInv, Told, Controlled, Staged
<1>8. Honoured(r)'
  BY <1>1, <1>2 DEF RunInv, Honoured, Aborted, Dispatching
<1> QED
  BY <1>2, <1>3, <1>4, <1>5, <1>6, <1>7, <1>8, OneMoves DEF RunInv, Same, Elsewhere

(* A settling write that took effect leaves a settled row to the catch block. *)
LEMMA ThrowKeeps ==
  ASSUME LifeInv, NEW r \in Runs, Throw(r)
  PROVE  LifeInv'
<1>1. RunInv(r) /\ TypeOK /\ setting \in Settings
  BY DEF LifeInv
<1>2. /\ pc[r] \in {"putting", "planning", "members", "verdict", "settling", "skipping"} /\ pc'[r] = "catching" /\ verdict'[r] = "none"
      /\ \A s \in Runs \ {r} : verdict'[s] = verdict[s] /\ pc'[s] = pc[s]
      /\ UNCHANGED <<older, map, inner, outer, pending, unawaited, result, doomed, honoured, toReconcile, host, crashes, setting>>
  BY <1>1 DEF Throw, Goto, signalVars, hostVars, TypeOK
<1>3. /\ \/ row'[r] = row[r] /\ member'[r] = member[r]
         \/ pc[r] = "settling" /\ row'[r] = verdict[r] /\ member'[r] = member[r]
         \/ pc[r] = "skipping" /\ row'[r] = "skipped" /\ member'[r] = "skipped"
      /\ \A s \in Runs \ {r} : row'[s] = row[s] /\ member'[s] = member[s]
      /\ row' \in [Runs -> Active \union Settled \union {"absent"}] /\ member' \in [Runs -> MemberStatus]
  <2>1. pc[r] \in {"settling", "skipping"} => row[r] = "running"
    BY <1>1 DEF RunInv, Staged
  <2>2. pc[r] = "settling" => verdict[r] \in Settled
    BY <1>1 DEF RunInv, Staged, Settled
  <2>3. CASE UNCHANGED <<row, member>>
    BY <1>1, <2>3 DEF TypeOK
  <2>4. CASE pc[r] = "settling" /\ SetStatus(r, verdict[r]) /\ UNCHANGED member
    BY <1>1, <2>1, <2>2, <2>4 DEF TypeOK, SetStatus
  <2>5. CASE pc[r] = "skipping" /\ SkipRow(r)
    BY <1>1, <2>1, <2>5 DEF TypeOK, SkipRow, SetStatus, Settled, MemberStatus
  <2> QED
    BY <2>3, <2>4, <2>5 DEF Throw
<1>4. TypeOK'
  BY <1>1, <1>2, <1>3 DEF Throw, Goto, TypeOK, Stages
<1>5. Controlled(r)'
  BY <1>1, <1>2 DEF RunInv, Controlled, Dispatching, Gone
<1>6. Staged(r)'
  BY <1>1, <1>2, <1>3 DEF RunInv, Staged
<1>7. Owned(r)'
  BY <1>1, <1>2, <1>3 DEF RunInv, Owned, Staged, Over, Gone, Active
<1>8. Told(r)'
  BY <1>1, <1>2, <1>3 DEF RunInv, Told, Staged, Unfinished, Settled
<1>9. Honoured(r)'
  BY <1>1, <1>2, <1>3 DEF RunInv, Honoured, Aborted, Dispatching
<1> QED
  BY <1>2, <1>3, <1>4, <1>5, <1>6, <1>7, <1>8, <1>9, OneMoves DEF RunInv, Same, Elsewhere

LEMMA CatchKeeps ==
  ASSUME LifeInv, NEW r \in Runs, Catch(r)
  PROVE  LifeInv'
<1>1. RunInv(r) /\ TypeOK /\ setting \in Settings
  BY DEF LifeInv
<1>2. /\ \E status \in {IF Aborted(r) THEN "cancelled" ELSE "failed"} :
           \/ /\ row'[r] = IF row[r] = "absent" THEN "absent" ELSE status
              /\ member'[r] = IF row[r] # "absent" /\ member[r] \in Unfinished THEN status ELSE member[r]
           \/ setting.store /\ row'[r] = row[r] /\ member'[r] = member[r]
      /\ \A s \in Runs \ {r} : row'[s] = row[s] /\ member'[s] = member[s]
      /\ row' \in [Runs -> Active \union Settled \union {"absent"}] /\ member' \in [Runs -> MemberStatus]
  BY <1>1, Tried DEF Catch
<1>3. /\ pc[r] = "catching" /\ pc'[r] = "finally" /\ result'[r] = "threw"
      /\ \A s \in Runs \ {r} : pc'[s] = pc[s] /\ result'[s] = result[s]
      /\ UNCHANGED <<older, map, inner, outer, pending, unawaited, verdict, doomed, honoured, toReconcile, host, crashes, setting>>
  BY <1>1 DEF Catch, Goto, signalVars, hostVars, TypeOK
<1>4. TypeOK'
  BY <1>1, <1>2, <1>3 DEF Catch, Goto, TypeOK, Stages
<1>5. Controlled(r)'
  BY <1>1, <1>2, <1>3 DEF RunInv, Controlled, Dispatching, Gone
<1>6. Staged(r)'
  BY <1>1, <1>2, <1>3 DEF Staged, Active
<1>7. Owned(r)'
  BY <1>1, <1>2, <1>3 DEF RunInv, Owned, Over, Gone, Staged, Active, Settled
<1>8. Told(r)'
  BY <1>1, <1>2, <1>3 DEF RunInv, Told, Unfinished, Settled
<1>9. Honoured(r)'
  BY <1>1, <1>2, <1>3 DEF RunInv, Honoured, Dispatching
<1> QED
  BY <1>2, <1>3, <1>4, <1>5, <1>6, <1>7, <1>8, <1>9, OneMoves DEF RunInv, Same, Elsewhere

LEMMA EndDispatchKeeps ==
  ASSUME LifeInv, NEW r \in Runs, EndDispatch(r)
  PROVE  LifeInv'
<1>1. RunInv(r) /\ TypeOK /\ setting \in Settings
  BY DEF LifeInv
<1>2. /\ pc[r] = "pruning" /\ doomed'[r] = {}
      /\ \/ r \in Background /\ result[r] = "threw" /\ pc'[r] = "handling" /\ UNCHANGED <<inner, outer>>
         \/ pc'[r] = "done" /\ inner' = inner \ {r} /\ outer' = outer \ {r}
      /\ \A s \in Runs \ {r} : doomed'[s] = doomed[s] /\ pc'[s] = pc[s]
      /\ UNCHANGED <<row, member, older, map, pending, unawaited, verdict, result, honoured, toReconcile, host, crashes, setting>>
  BY <1>1 DEF EndDispatch, Goto, rowVars, hostVars, TypeOK, Forget
<1>3. TypeOK'
  BY <1>1, <1>2 DEF EndDispatch, Goto, TypeOK, Stages
<1>4. Controlled(r)'
  BY <1>1, <1>2 DEF RunInv, Controlled, Dispatching
<1>5. Staged(r)'
  BY <1>1, <1>2 DEF Staged
<1>6. Owned(r)'
  BY <1>1, <1>2 DEF RunInv, Owned, Over, Gone
<1>7. Told(r)'
  BY <1>1, <1>2 DEF RunInv, Told, Settled
<1>8. Honoured(r)'
  BY <1>1, <1>2 DEF RunInv, Honoured, Dispatching
<1> QED
  BY <1>2, <1>3, <1>4, <1>5, <1>6, <1>7, <1>8, OneMoves DEF RunInv, Same, Elsewhere

LEMMA CancelRunKeeps ==
  ASSUME LifeInv, NEW r \in Runs, CancelRun(r)
  PROVE  LifeInv'
<1>1. RunInv(r) /\ TypeOK /\ setting \in Settings
  BY DEF LifeInv
<1>2. /\ host # "down" /\ map[r] \in {"inner", "outer"}
      /\ r \in inner' \union outer' /\ inner \subseteq inner' /\ outer \subseteq outer' /\ (map[r] = "outer" => r \in outer')
      /\ inner' \subseteq inner \union {r} /\ outer' \subseteq outer \union {r}
      /\ honoured' = IF pc[r] \in BeforeVerdict THEN honoured \union {r} ELSE honoured
      /\ \/ r \in pending /\ pending' = pending \ {r} /\ map'[r] = "none" /\ unawaited'[r] = unawaited[r] \union {"cancelled"}
         \/ UNCHANGED <<pending, map, unawaited>>
      /\ \A s \in Runs \ {r} : map'[s] = map[s] /\ unawaited'[s] = unawaited[s]
      /\ UNCHANGED <<row, member, older, pc, verdict, result, doomed, toReconcile, host, crashes, setting>>
  BY <1>1 DEF CancelRun, rowVars, hostVars, TypeOK
<1>3. TypeOK'
  BY <1>1, <1>2 DEF CancelRun, TypeOK
<1>4. Controlled(r)'
  BY <1>1, <1>2 DEF RunInv, Controlled
<1>5. Staged(r)'
  BY <1>1, <1>2 DEF RunInv, Staged, Controlled
<1>6. Owned(r)'
  BY <1>1, <1>2 DEF RunInv, Owned, Over, Controlled
<1>7. Told(r)'
  BY <1>1, <1>2 DEF RunInv, Told, Controlled
<1>8. Honoured(r)'
  BY <1>1, <1>2, RunsAssumption DEF RunInv, Honoured, Aborted, BeforeVerdict, Staged, Controlled
<1> QED
  BY <1>2, <1>3, <1>4, <1>5, <1>6, <1>7, <1>8, OneMoves DEF RunInv, Same, Elsewhere

LEMMA AbortOuterKeeps ==
  ASSUME LifeInv, NEW r \in Runs, AbortOuter(r)
  PROVE  LifeInv'
<1>1. RunInv(r) /\ TypeOK /\ setting \in Settings
  BY DEF LifeInv
<1>2. /\ outer' = outer \union {r} /\ pc[r] \notin {"idle", "accepted", "done", "rejected", "dead"}
      /\ UNCHANGED <<row, member, older, pc, map, inner, pending, unawaited, verdict, result, doomed, honoured, toReconcile, host, crashes, setting>>
  BY <1>1 DEF AbortOuter, rowVars, runVars, hostVars
<1>3. TypeOK'
  BY <1>1, <1>2 DEF TypeOK
<1>4. Controlled(r)'
  BY <1>1, <1>2 DEF RunInv, Controlled
<1>5. Staged(r)'
  BY <1>1, <1>2 DEF RunInv, Staged
<1>6. Owned(r)'
  BY <1>1, <1>2 DEF RunInv, Owned, Over
<1>7. Told(r)'
  BY <1>1, <1>2 DEF RunInv, Told
<1>8. Honoured(r)'
  BY <1>1, <1>2 DEF RunInv, Honoured, Aborted
<1> QED
  BY <1>2, <1>3, <1>4, <1>5, <1>6, <1>7, <1>8, OneMoves DEF RunInv, Same, Elsewhere

(* A write that nobody awaits: the rejected job's, or the pending cancel's. *)
LEMMA CommitUnawaitedKeeps ==
  ASSUME LifeInv, NEW r \in Runs, NEW status \in unawaited[r], CommitUnawaited(r, status)
  PROVE  LifeInv'
<1>1. RunInv(r) /\ TypeOK /\ setting \in Settings /\ status \in {"failed", "cancelled"}
  BY DEF LifeInv, TypeOK
<1>2. /\ unawaited'[r] = unawaited[r] \ {status}
      /\ \/ /\ row'[r] = IF row[r] = "absent" THEN "absent" ELSE status
            /\ member'[r] = IF status = "cancelled" /\ row[r] # "absent" /\ member[r] = "pending"
                              THEN status ELSE member[r]
         \/ setting.store /\ row'[r] = row[r] /\ member'[r] = member[r]
      /\ \A s \in Runs \ {r} : row'[s] = row[s] /\ member'[s] = member[s] /\ unawaited'[s] = unawaited[s]
      /\ UNCHANGED <<older, pc, map, inner, outer, pending, verdict, result, doomed, honoured, toReconcile, host, crashes, setting>>
  BY <1>1 DEF CommitUnawaited, SetStatus, TypeOK, signalVars, hostVars
<1>3. TypeOK'
  <2>1. row' \in [Runs -> Active \union Settled \union {"absent"}]
    BY <1>1 DEF CommitUnawaited, SetStatus, TypeOK, Settled
  <2>2. member' \in [Runs -> MemberStatus]
    BY <1>1 DEF CommitUnawaited, TypeOK, MemberStatus
  <2>3. unawaited' \in [Runs -> SUBSET {"failed", "cancelled"}]
    BY <1>1 DEF CommitUnawaited, TypeOK
  <2> QED
    BY <1>1, <1>2, <2>1, <2>2, <2>3 DEF TypeOK
<1>4. Controlled(r)'
  BY <1>1, <1>2 DEF RunInv, Controlled
<1>5. Staged(r)'
  BY <1>1, <1>2 DEF RunInv, Staged, Controlled
<1>6. row[r] \notin Active => row'[r] \notin Active
  BY <1>1, <1>2 DEF Active
<1>7. Owned(r)'
  <2>1. row'[r] \in Active /\ ~setting.store => FALSE
    BY <1>1, <1>2 DEF Active
  <2>2. Over(r) => Over(r)'
    BY <1>2, <1>6 DEF Over
  <2>3. r \notin toReconcile /\ host # "down"
    BY <1>1 DEF RunInv, Owned
  <2> QED
    BY <1>1, <1>2, <1>6, <2>1, <2>2, <2>3 DEF RunInv, Owned
<1>8. Told(r)'
  BY <1>1, <1>2 DEF RunInv, Told, Controlled, Settled, Unfinished
<1>9. Honoured(r)'
  BY <1>1, <1>2, RunsAssumption DEF RunInv, Honoured, Aborted, Controlled
<1> QED
  BY <1>2, <1>3, <1>4, <1>5, <1>7, <1>8, <1>9, OneMoves DEF RunInv, Same, Elsewhere

LEMMA PrunableIsOver ==
  ASSUME LifeInv, NEW expired
  PROVE  Prunable(expired) \subseteq Runs /\ \A s \in Prunable(expired) : row[s] \notin Active /\ Over(s)
  BY SettledIsOver DEF Prunable, SettledRows

(* The controller goes, and the run takes its snapshot for retention.        *)
LEMMA FinishKeeps ==
  ASSUME LifeInv, NEW r \in Runs, Finish(r)
  PROVE  LifeInv'
<1>1. RunInv(r) /\ TypeOK /\ setting \in Settings
  BY DEF LifeInv
<1>2. PICK expired \in Expired : doomed' = [doomed EXCEPT ![r] = Prunable(expired)]
  BY DEF Finish
<1>3. /\ pc[r] = "finally" /\ pc'[r] = "pruning" /\ map'[r] = "none"
      /\ \A s \in Runs \ {r} : pc'[s] = pc[s] /\ map'[s] = map[s]
      /\ inner' \subseteq inner /\ inner \ {r} \subseteq inner'
      /\ outer' \subseteq outer /\ outer \ {r} \subseteq outer'
      /\ UNCHANGED <<row, member, older, pending, unawaited, verdict, result, honoured,
                     toReconcile, host, crashes, setting>>
  BY <1>1 DEF Finish, Goto, rowVars, hostVars, TypeOK
<1>4. \A s \in Runs, t \in Runs : s \in doomed'[t] => row[s] \notin Active /\ Over(s)
  <2>1. \A s \in Runs, t \in Runs : s \in doomed'[t] => s \in doomed[t] \/ s \in Prunable(expired)
    BY <1>1, <1>2 DEF TypeOK
  <2> QED
    BY <2>1, PrunableIsOver DEF LifeInv, RunInv, Owned
<1>5. TypeOK'
  <2>1. doomed' \in [Runs -> SUBSET Runs]
    BY <1>1, <1>2, PrunableIsOver DEF TypeOK
  <2>2. pc' \in [Runs -> Stages] /\ map' \in [Runs -> {"none", "inner", "outer"}]
    BY <1>1 DEF Finish, Goto, TypeOK, Stages
  <2> QED
    BY <1>1, <1>3, <2>1, <2>2 DEF TypeOK
<1>6. Controlled(r)' /\ Staged(r)'
  BY <1>1, <1>3 DEF RunInv, Controlled, Staged, Dispatching, Gone
<1>7. Owned(r)'
  BY <1>1, <1>3, <1>4 DEF RunInv, Owned, Staged, Over, Gone
<1>8. Told(r)' /\ Honoured(r)'
  BY <1>1, <1>3 DEF RunInv, Told, Honoured, Dispatching
<1>9. \A s \in Runs \ {r} : RunInv(s)'
  BY <1>3, <1>4, SameStays DEF Same, Elsewhere, DoomedRightly
<1> QED
  BY <1>1, <1>3, <1>5, <1>6, <1>7, <1>8, <1>9 DEF LifeInv, RunInv

(* Deletions: of one row by a retention pass, or by clear.                   *)
LEMMA DeletionKeeps ==
  ASSUME LifeInv, NEW S, Delete(S), \A s \in Runs : s \in S => row[s] \notin Active /\ Over(s),
         UNCHANGED <<pc, map, inner, outer, pending, unawaited, verdict, result, honoured, toReconcile, host, crashes, setting>>,
         doomed' \in [Runs -> SUBSET Runs], \A t \in Runs : doomed'[t] \subseteq doomed[t]
  PROVE  LifeInv'
<1>1. /\ \A s \in Runs : s \in S => row'[s] = "absent" /\ member'[s] = "pending"
      /\ \A s \in Runs : s \notin S => row'[s] = row[s] /\ member'[s] = member[s]
      /\ row' \in [Runs -> Active \union Settled \union {"absent"}] /\ member' \in [Runs -> MemberStatus]
      /\ older' \in [Runs -> SUBSET Runs]
  BY Deleted DEF LifeInv
<1>2. TypeOK'
  BY <1>1 DEF LifeInv, TypeOK
<1>3. \A s \in Runs : Elsewhere(s)
  BY DEF Elsewhere
<1>4. ASSUME NEW s \in Runs PROVE RunInv(s)'
  <2>1. DoomedRightly(s)
    BY DoomedStays
  <2>2. CASE s \in S
    BY <1>1, <1>3, <2>1, <2>2, DeletedStays
  <2>3. CASE s \notin S
    BY <1>1, <1>3, <2>1, <2>3, SameStays DEF Same
  <2> QED
    BY <2>2, <2>3
<1> QED
  BY <1>2, <1>4 DEF LifeInv

LEMMA PruneKeeps ==
  ASSUME LifeInv, NEW r \in Runs, Prune(r)
  PROVE  LifeInv'
<1>1. PICK s \in doomed[r] : Delete({s}) /\ doomed' = [doomed EXCEPT ![r] = @ \ {s}]
  BY DEF Prune
<1>2. s \in Runs /\ doomed' \in [Runs -> SUBSET Runs] /\ \A t \in Runs : doomed'[t] \subseteq doomed[t]
  BY <1>1 DEF LifeInv, TypeOK
<1>3. row[s] \notin Active /\ Over(s)
  BY <1>1, <1>2 DEF LifeInv, RunInv, Owned
<1> QED
  BY <1>1, <1>2, <1>3, DeletionKeeps DEF Prune, signalVars, hostVars

LEMMA ClearKeeps ==
  ASSUME LifeInv, NEW r \in Runs, Clear(r)
  PROVE  LifeInv'
<1>1. doomed \in [Runs -> SUBSET Runs]
  BY DEF LifeInv, TypeOK
<1>2. row[r] \notin Active /\ Over(r)
  BY SettledIsOver DEF Clear
<1> QED
  BY <1>1, <1>2, DeletionKeeps DEF Clear, signalVars, runVars, hostVars
-----------------------------------------------------------------------------
(* The host dies, starts again and looks for what it left.                   *)
LEMMA CrashKeeps ==
  ASSUME LifeInv, Crash
  PROVE  LifeInv'
<1>1. TypeOK /\ setting \in Settings
  BY DEF LifeInv
<1>2. /\ host' = "down" /\ toReconcile' = {} /\ inner' \subseteq inner /\ outer' \subseteq outer /\ pending' = {}
      /\ UNCHANGED <<row, member, older, honoured, result, setting>>
      /\ \A s \in Runs : /\ pc'[s] = IF pc[s] \in {"idle", "done", "rejected"} THEN pc[s] ELSE "dead"
                         /\ map'[s] = "none" /\ unawaited'[s] = {} /\ doomed'[s] = {} /\ verdict'[s] = "none"
  BY DEF Crash, Forget, rowVars
<1>3. TypeOK'
  <2>1. pc' \in [Runs -> Stages]
    BY <1>1 DEF Crash, TypeOK, Stages
  <2>2. /\ map' \in [Runs -> {"none", "inner", "outer"}] /\ unawaited' \in [Runs -> SUBSET {"failed", "cancelled"}]
        /\ verdict' \in [Runs -> Settled \union {"none"}] /\ doomed' \in [Runs -> SUBSET Runs] /\ crashes' \in Nat
    BY <1>1 DEF Crash, TypeOK
  <2> QED
    BY <1>1, <1>2, <2>1, <2>2 DEF TypeOK
<1>4. ASSUME NEW s \in Runs PROVE RunInv(s)'
  <2>1. RunInv(s)
    BY DEF LifeInv
  <2>2. Controlled(s)' /\ Staged(s)'
    BY <1>2, <2>1 DEF RunInv, Controlled, Staged, Dispatching, Gone
  <2>3. Owned(s)'
    BY <1>2, <2>1 DEF RunInv, Owned, Gone
  <2>4. Told(s)' /\ Honoured(s)'
    BY <1>2, <2>1 DEF RunInv, Told, Honoured, Dispatching
  <2> QED
    BY <2>2, <2>3, <2>4 DEF RunInv
<1> QED
  BY <1>1, <1>2, <1>3, <1>4 DEF LifeInv

LEMMA RestartKeeps ==
  ASSUME LifeInv, Restart
  PROVE  LifeInv'
<1>1. TypeOK /\ setting \in Settings
  BY DEF LifeInv
<1>2. /\ host = "down" /\ host' = "recovering" /\ toReconcile' = {s \in Runs : row[s] \in Active}
      /\ UNCHANGED <<row, member, older, pc, map, inner, outer, pending, unawaited, verdict, result, doomed, honoured,
                     crashes, setting>>
  BY DEF Restart, rowVars, signalVars, runVars
<1>3. TypeOK'
  BY <1>1, <1>2 DEF TypeOK
<1>4. ASSUME NEW s \in Runs PROVE RunInv(s)'
  <2>1. RunInv(s)
    BY DEF LifeInv
  <2>2. Controlled(s)' /\ Staged(s)' /\ Told(s)' /\ Honoured(s)'
    BY <1>2, <2>1 DEF RunInv, Controlled, Staged, Told, Honoured, Aborted
  <2>3. Owned(s)'
    BY <1>2, <2>1 DEF RunInv, Owned, Over
  <2> QED
    BY <2>2, <2>3 DEF RunInv
<1> QED
  BY <1>1, <1>2, <1>3, <1>4 DEF LifeInv

LEMMA ReconcileKeeps ==
  ASSUME LifeInv, NEW r \in Runs, Reconcile(r)
  PROVE  LifeInv'
<1>1. RunInv(r) /\ TypeOK /\ setting \in Settings
  BY DEF LifeInv
<1>2. /\ row'[r] = IF row[r] = "absent" THEN "absent" ELSE "interrupted"
      /\ member'[r] = IF row[r] # "absent" /\ member[r] \in Unfinished THEN "interrupted" ELSE member[r]
      /\ \A s \in Runs \ {r} : row'[s] = row[s] /\ member'[s] = member[s]
      /\ row' \in [Runs -> Active \union Settled \union {"absent"}] /\ member' \in [Runs -> MemberStatus]
  BY <1>1, Written DEF Reconcile
<1>3. /\ r \in toReconcile /\ toReconcile' = toReconcile \ {r}
      /\ UNCHANGED <<older, pc, map, inner, outer, pending, unawaited, verdict, result, doomed, honoured, host, crashes, setting>>
  BY DEF Reconcile, signalVars, runVars
<1>4. TypeOK'
  BY <1>1, <1>2, <1>3 DEF TypeOK
<1>5. row[r] \in Active /\ row[r] # "absent" /\ pc[r] \in Gone /\ unawaited[r] = {} /\ row'[r] = "interrupted"
  BY <1>1, <1>2, <1>3 DEF RunInv, Owned, Active
<1>6. pc[r] \in {"done", "rejected", "dead"}
  BY <1>1, <1>5 DEF RunInv, Staged, Gone
<1>7. Controlled(r)' /\ Staged(r)'
  BY <1>1, <1>3, <1>5, <1>6 DEF RunInv, Controlled, Staged
<1>8. Owned(r)'
  BY <1>1, <1>3, <1>5 DEF RunInv, Owned, Active, Over
<1>9. Told(r)'
  BY <1>1, <1>2, <1>3, <1>5, <1>6 DEF RunInv, Told, Active, Settled, Unfinished
<1>10. Honoured(r)'
  BY <1>1, <1>3, <1>5, <1>6 DEF RunInv, Honoured, Dispatching
<1> QED
  BY <1>2, <1>3, <1>4, <1>7, <1>8, <1>9, <1>10, OneMoves DEF RunInv, Same, Elsewhere

LEMMA RecoveredKeeps ==
  ASSUME LifeInv, Recovered
  PROVE  LifeInv'
<1>1. TypeOK /\ setting \in Settings
  BY DEF LifeInv
<1>2. PICK expired \in Expired : Delete(Prunable(expired))
  BY DEF Recovered
<1>3. /\ host = "recovering" /\ host' = "ready" /\ toReconcile = {}
      /\ UNCHANGED <<pc, map, inner, outer, pending, unawaited, verdict, result, doomed, honoured, toReconcile, crashes, setting>>
  BY DEF Recovered, signalVars, runVars
<1>4. /\ \A s \in Runs : s \in Prunable(expired) => row'[s] = "absent" /\ member'[s] = "pending"
      /\ \A s \in Runs : s \notin Prunable(expired) => row'[s] = row[s] /\ member'[s] = member[s]
      /\ row' \in [Runs -> Active \union Settled \union {"absent"}] /\ member' \in [Runs -> MemberStatus]
      /\ older' \in [Runs -> SUBSET Runs]
  BY <1>1, <1>2, Deleted
<1>5. TypeOK'
  BY <1>1, <1>3, <1>4 DEF TypeOK
<1>6. ASSUME NEW s \in Runs PROVE RunInv(s)'
  <2>1. RunInv(s)
    BY DEF LifeInv
  <2>2. \/ s \in Prunable(expired) /\ row'[s] = "absent" /\ member'[s] = "pending" /\ row[s] \notin Active /\ Over(s)
        \/ row'[s] = row[s] /\ member'[s] = member[s]
    BY <1>4, PrunableIsOver
  <2>3. Controlled(s)'
    BY <1>3, <2>1 DEF RunInv, Controlled
  <2>4. Staged(s)'
    BY <1>3, <2>1, <2>2 DEF RunInv, Staged, Over, Active
  <2>5. Over(s) => Over(s)'
    BY <1>3, <2>2 DEF Over, Active
  <2>6. Owned(s)'
    BY <1>3, <2>1, <2>2, <2>5 DEF RunInv, Owned, Active
  <2>7. Told(s)'
    BY <1>3, <2>1, <2>2 DEF RunInv, Told, Over, Settled
  <2>8. Honoured(s)'
    BY <1>3, <2>1, <2>2 DEF RunInv, Honoured, Aborted
  <2> QED
    BY <2>3, <2>4, <2>6, <2>7, <2>8 DEF RunInv
<1> QED
  BY <1>1, <1>3, <1>5, <1>6 DEF LifeInv
-----------------------------------------------------------------------------
LEMMA LifeInvStarts == Init => LifeInv
<1> SUFFICES ASSUME Init PROVE LifeInv
  OBVIOUS
<1>1. TypeOK /\ setting \in Settings
  BY DEF Init, TypeOK, Stages, MemberStatus, Unfinished
<1>2. ASSUME NEW r \in Runs PROVE RunInv(r)
  <2>1. /\ row[r] = "absent" /\ member[r] = "pending" /\ pc[r] = "idle" /\ map[r] = "none" /\ unawaited[r] = {}
        /\ result[r] = "none" /\ r \notin pending /\ r \notin honoured /\ toReconcile = {} /\ host = "ready"
        /\ \A s \in Runs : doomed[s] = {}
    BY DEF Init
  <2> QED
    BY <2>1 DEF RunInv, Controlled, Staged, Owned, Told, Honoured, Dispatching, Gone, Active, Settled
<1> QED
  BY <1>1, <1>2 DEF LifeInv

LEMMA LifeInvKept == LifeInv /\ [Next]_vars => LifeInv'
<1> SUFFICES ASSUME LifeInv, [Next]_vars PROVE LifeInv'
  OBVIOUS
<1>1. ASSUME NEW r \in Runs, Body(r) PROVE LifeInv'
  BY <1>1, PutRowKeeps, PlanKeeps, SettleSkipKeeps, StartMemberKeeps, EndMemberKeeps, DecideKeeps, SettleKeeps,
     ReturnKeeps, ThrowKeeps, CatchKeeps, FinishKeeps, PruneKeeps, EndDispatchKeeps DEF Body
<1>2. ASSUME NEW r \in Runs, JobSteps(r) PROVE LifeInv'
  BY <1>2, RegisterKeeps, RejectJobKeeps, StartJobKeeps, HandleJobErrorKeeps DEF JobSteps
<1>3. ASSUME NEW r \in Runs, Demand(r) \/ User(r) PROVE LifeInv'
  BY <1>3, BeginKeeps, AcceptKeeps, RefuseAcceptanceKeeps, CancelRunKeeps, AbortOuterKeeps, ClearKeeps DEF Demand, User
<1>4. CASE UNCHANGED vars
  BY <1>4 DEF vars, rowVars, signalVars, runVars, hostVars, LifeInv, TypeOK, RunInv, Controlled, Staged, Owned, Told,
     Honoured, Over, Aborted
<1>5. ASSUME NEW r \in Runs, Carry(r) PROVE LifeInv'
  BY <1>1, <1>2, <1>5, CommitUnawaitedKeeps DEF Carry
<1>6. CASE Recover
  BY <1>6, RestartKeeps, RecoveredKeeps, ReconcileKeeps DEF Recover
<1> QED
  BY <1>3, <1>4, <1>5, <1>6, CrashKeeps DEF Next, Quiescent

THEOREM LifeInvHolds == Spec => []LifeInv
  BY LifeInvStarts, LifeInvKept, PTL DEF Spec

\* Whoever is looking for the owner of an active row finds one: a controller, its
\* registration, a write on its way or the startup pass.
THEOREM ActiveRowsAreOwned == Spec => []ActiveRowIsOwned
<1>1. LifeInv => ActiveRowIsOwned
  BY DEF LifeInv, RunInv, Owned, ActiveRowIsOwned
<1> QED
  BY <1>1, LifeInvHolds, PTL

\* The dispatch, the row, its member, the coroutine and the user who cancelled tell the
\* same about the end of a run.
THEOREM RunsEndAlike == Spec => []StatusesAgree
<1>1. LifeInv => ResultMatchesRow /\ InterruptedMeansDead
  BY DEF LifeInv, RunInv, Told, ResultMatchesRow, InterruptedMeansDead
<1>2. LifeInv => SettledRowSettledMember
  BY DEF LifeInv, RunInv, Told, SettledRowSettledMember
<1>3. LifeInv => CancelHonoured
  <2> SUFFICES ASSUME LifeInv, NEW r \in honoured
               PROVE  row[r] \notin {"completed", "partial"} /\ (r \in Foreground => row[r] # "failed")
    BY DEF CancelHonoured
  <2>1. r \in Runs
    BY DEF LifeInv, TypeOK
  <2> QED
    BY <2>1 DEF LifeInv, RunInv, Honoured
<1> QED
  BY <1>1, <1>2, <1>3, LifeInvHolds, PTL DEF StatusesAgree
-----------------------------------------------------------------------------
(* How a row may change in a step.  The catch block alone may meet a settled  *)
(* row of its own dispatch.                                                  *)
Forward(r) ==
  /\ row[r] \in Active => row'[r] # "absent"
  /\ row[r] \in Settled => row'[r] \in Settled \union {"absent"}
  /\ row[r] \in Settled /\ r \in Foreground =>
       \/ row'[r] \in {row[r], "absent"}
       \/ result[r] = "none" /\ result'[r] = "threw" /\ row'[r] \in {"failed", "cancelled"}

LEMMA UntouchedForward ==
  ASSUME TypeOK, NEW r \in Runs, row'[r] = row[r]
  PROVE  Forward(r)
  BY DEF Forward, Active, Settled

\* A deletion takes rows that nobody carries on.
LEMMA DeletionForward ==
  ASSUME TypeOK, NEW S, Delete(S), \A s \in Runs : s \in S => row[s] \notin Active, NEW r \in Runs
  PROVE  Forward(r)
<1>1. CASE r \in S
  BY <1>1, Deleted DEF Forward
<1>2. CASE r \notin S
  BY <1>2, Deleted, UntouchedForward
<1> QED
  BY <1>1, <1>2

\* A write of a run that is not over meets an active row; of one that is, a
\* background run's.
LEMMA WriteForward ==
  ASSUME LifeInv, NEW r \in Runs, NEW s \in Runs, s # r => row'[s] = row[s],
         s = r => \/ row[r] \notin Settled /\ (row[r] \in Active => row'[r] # "absent")
                  \/ row'[r] = row[r]
                  \/ r \in Background /\ row[r] \in Settled /\ row'[r] \in Settled
  PROVE  Forward(s)
<1>1. CASE s # r
  BY <1>1, UntouchedForward DEF LifeInv
<1>2. CASE s = r
  BY <1>2, RunsAssumption DEF Forward, Active, Settled
<1> QED
  BY <1>1, <1>2

LEMMA StepsForward ==
  ASSUME LifeInv, [Next]_vars, NEW s \in Runs
  PROVE  Forward(s)
<1>1. TypeOK
  BY DEF LifeInv
<1>2. CASE UNCHANGED row
  BY <1>1, <1>2, UntouchedForward
<1>3. ASSUME NEW r \in Runs, Accept(r) \/ PutRow(r) PROVE Forward(s)
  <2>1. row[r] \notin Settled
    BY <1>3 DEF Accept, PutRow, LifeInv, RunInv, Staged, Settled
  <2>2. row'[r] \in Active /\ (s # r => row'[s] = row[s])
    BY <1>1, <1>3, Fresh DEF Accept, PutRow, Active
  <2> QED
    BY <2>1, <2>2, WriteForward DEF Active
<1>4. ASSUME NEW r \in Runs,
             \/ Plan(r) \/ SettleSkip(r) \/ Settle(r)
             \/ Throw(r) /\ pc[r] \in {"settling", "skipping"}
      PROVE  Forward(s)
  <2>1. row[r] \in {"planning", "running"}
    BY <1>4 DEF Plan, SettleSkip, Settle, LifeInv, RunInv, Staged
  <2>2. /\ s # r => row'[s] = row[s]
        /\ row'[r] \in {"running", "skipped", "completed", "partial", "failed", "cancelled"}
    <3>1. pc[r] = "settling" => verdict[r] \in {"completed", "partial", "failed", "cancelled"}
      BY DEF LifeInv, RunInv, Staged
    <3>2. CASE Plan(r) \/ SettleSkip(r) \/ Settle(r)
      BY <1>1, <2>1, <3>1, <3>2 DEF Plan, SettleSkip, SkipRow, Settle, SetStatus, TypeOK
    <3>3. CASE Throw(r) /\ pc[r] \in {"settling", "skipping"}
      <4>1. CASE UNCHANGED row
        BY <3>3, <4>1 DEF LifeInv, RunInv, Staged
      <4>2. CASE pc[r] = "settling" /\ SetStatus(r, verdict[r])
        BY <1>1, <2>1, <3>1, <4>2 DEF SetStatus, TypeOK
      <4>3. CASE SkipRow(r)
        BY <1>1, <2>1, <4>3 DEF SkipRow, SetStatus, TypeOK
      <4> QED
        BY <3>3, <4>1, <4>2, <4>3 DEF Throw
    <3> QED
      BY <1>4, <3>2, <3>3
  <2> QED
    BY <2>1, <2>2, WriteForward DEF Settled
<1>5. ASSUME NEW r \in Runs, Catch(r) PROVE Forward(s)
  <2>1. CASE s # r
    BY <1>1, <1>5, <2>1, Tried, UntouchedForward DEF Catch
  <2>2. CASE s = r
    <3>1. result[r] = "none" /\ result'[r] = "threw"
      BY <1>1, <1>5 DEF Catch, LifeInv, RunInv, Told, TypeOK
    <3>2. row'[r] \in {row[r], "failed", "cancelled"} /\ (row[r] = "absent" => row'[r] = "absent")
      BY <1>1, <1>5, Tried DEF Catch
    <3> QED
      BY <2>2, <3>1, <3>2 DEF Forward, Active, Settled
  <2> QED
    BY <2>1, <2>2
<1>6. ASSUME NEW r \in Runs, NEW status \in {"failed", "cancelled"}, r \in Background,
             s # r => row'[s] = row[s], row'[r] \in {row[r], status}, row[r] = "absent" => row'[r] = "absent"
      PROVE  Forward(s)
  <2>1. status \in Settled /\ row[r] \in Active \union Settled \union {"absent"}
    BY <1>1 DEF TypeOK, Settled
  <2> QED
    BY <1>6, <2>1, WriteForward DEF Settled
<1>7. ASSUME NEW r \in Runs, HandleJobError(r) PROVE Forward(s)
  <2>1. r \in Background
    BY <1>7 DEF HandleJobError, LifeInv, RunInv, Controlled
  <2>2. PICK status \in {"failed", "cancelled"} : TrySettle(r, status)
    BY <1>7 DEF HandleJobError
  <2> QED
    BY <1>1, <1>6, <2>1, <2>2, Tried
<1>8. ASSUME NEW r \in Runs, NEW status \in unawaited[r], CommitUnawaited(r, status) PROVE Forward(s)
  <2>1. r \in Background /\ status \in {"failed", "cancelled"}
    BY <1>1 DEF LifeInv, RunInv, Controlled, TypeOK
  <2> QED
    BY <1>1, <1>6, <1>8, <2>1 DEF CommitUnawaited, SetStatus, TypeOK
<1>9. ASSUME NEW r \in Runs, Prune(r) \/ Clear(r) PROVE Forward(s)
  <2>1. \A t \in Runs : t \in doomed[r] => row[t] \notin Active
    BY DEF LifeInv, RunInv, Owned
  <2>2. row[r] \in Settled => row[r] \notin Active
    BY SettledIsOver
  <2> QED
    BY <1>1, <1>9, <2>1, <2>2, DeletionForward DEF Prune, Clear
<1>10. CASE Recovered
  BY <1>1, <1>10, PrunableIsOver, DeletionForward DEF Recovered
<1>11. ASSUME NEW r \in Runs, Reconcile(r) PROVE Forward(s)
  <2>1. row[r] \in Active /\ row[r] \notin Settled
    BY <1>11 DEF Reconcile, LifeInv, RunInv, Owned, Active, Settled
  <2>2. (s # r => row'[s] = row[s]) /\ row'[r] # "absent"
    BY <1>1, <1>11, <2>1, Written DEF Reconcile, Active
  <2> QED
    BY <2>1, <2>2, WriteForward
<1>12. ASSUME NEW r \in Runs,
              \/ Throw(r) /\ pc[r] \notin {"settling", "skipping"}
              \/ StartMember(r) \/ EndMember(r) \/ Decide(r) \/ Return(r) \/ Finish(r) \/ EndDispatch(r)
              \/ Register(r) \/ RejectJob(r) \/ StartJob(r) \/ Begin(r) \/ RefuseAcceptance(r)
              \/ CancelRun(r) \/ AbortOuter(r)
       PROVE  Forward(s)
  BY <1>2, <1>12 DEF StartMember, EndMember, Decide, Return, Throw, Finish, EndDispatch, Register, RejectJob,
     StartJob, Begin, RefuseAcceptance, CancelRun, AbortOuter, rowVars
<1>13. CASE Crash \/ Restart \/ UNCHANGED vars
  BY <1>2, <1>13 DEF Crash, Restart, vars, rowVars
<1> QED
  BY <1>3, <1>4, <1>5, <1>7, <1>8, <1>9, <1>10, <1>11, <1>12, <1>13
     DEF Next, Carry, Body, JobSteps, Demand, User, Recover, Quiescent

\* Clear and retention never delete an active row, a settled row is never made active
\* again, and what a foreground run settled with is final but for a dispatch that throws
\* after its settling write took effect.
THEOREM RowsOnlyMoveForward == Spec => RowsMoveForward
<1>1. LifeInv /\ [Next]_vars =>
        [\A r \in Runs :
           /\ row[r] \in Active => row'[r] # "absent"
           /\ row[r] \in Settled => row'[r] \in Settled \union {"absent"}
           /\ row[r] \in Settled /\ r \in Foreground =>
                \/ row'[r] \in {row[r], "absent"}
                \/ result[r] = "none" /\ result'[r] = "threw" /\ row'[r] \in {"failed", "cancelled"}]_vars
  BY StepsForward DEF Forward
<1> QED
  BY <1>1, LifeInvHolds, PTL DEF Spec, RowsMoveForward
=============================================================================
