----------------------- MODULE MemberSchedulerProofs -----------------------
(***************************************************************************)
(* The member phase keeps its promises for every plan, every number of     *)
(* members, every limit, policy and budget: the verdict is true, members   *)
(* start only when they may, and the budget is overshot by no more than    *)
(* what was under way.  Two arguments carry the proof: a dependency lies   *)
(* in an earlier wave than its member, which rests on the waves being well *)
(* defined; and what may still be charged for is paid for in advance.      *)
(***************************************************************************)
EXTENDS MemberScheduler, Integers, FiniteSetTheorems, WellFoundedInduction, TLAPS

(***************************************************************************)
(* Numbers.  A set of naturals has a least element and, when it is         *)
(* bounded, a greatest: the induction over the members' numbers rests on   *)
(* the first, the depth of a wave and the size of a batch on the second.   *)
(***************************************************************************)
LEMMA Least ==
  ASSUME NEW S \in SUBSET Nat, S # {}
  PROVE  \E x \in S : \A y \in S : x <= y
<1>1. \E x \in S : \A y \in S : <<y, x>> \notin OpToRel(<, Nat)
  BY WFMin, NatLessThanWellFounded
<1>2. \A x, y \in Nat : y < x => <<y, x>> \in OpToRel(<, Nat)
  BY DEF OpToRel
<1>3. \E x \in S : \A y \in S : ~(y < x)
  BY <1>1, <1>2, Zenon
<1> QED
  BY <1>3
LEMMA Greatest ==
  ASSUME NEW S \in SUBSET Nat, S # {}, NEW b \in Nat, \A y \in S : y <= b
  PROVE  Max(S) \in S /\ \A y \in S : y <= Max(S)
<1> DEFINE Bounds == {n \in Nat : \A y \in S : y <= n}
<1>0. Bounds # {} /\ Bounds \in SUBSET Nat
  OBVIOUS
<1>1. PICK x \in Bounds : \A z \in Bounds : x <= z
  <2> HIDE DEF Bounds
  <2> QED BY <1>0, Least
<1>2. x \in S
  <2> SUFFICES ASSUME x \notin S PROVE FALSE
    OBVIOUS
  <2>1. PICK y \in S : TRUE
    OBVIOUS
  <2>2. y <= x /\ y # x /\ x \in Nat
    BY <1>1
  <2>3. x - 1 \in Nat
    BY <2>2
  <2>4. x - 1 \in Bounds
    BY <1>1, <2>3
  <2> QED
    BY <1>1, <2>2, <2>4
<1> QED
  BY <1>1, <1>2 DEF Max

-----------------------------------------------------------------------------
(***************************************************************************)
(* The waves.  The recursion over the dependencies ends because these have *)
(* smaller numbers, so that there is a function of the members with the    *)
(* depth of each, and a dependency's is smaller than its member's.         *)
(***************************************************************************)
Ready(f, m) == IF squad.deps[m] = {} THEN 0 ELSE 1 + Max({f[d] : d \in squad.deps[m]})

\* f gives the first n members their depth.
WavesTo(n, f) == f \in [1..n -> Nat] /\ \A m \in 1..n : f[m] = Ready(f, m) /\ f[m] < m

LEMMA DepsAreEarlier ==
  ASSUME squad \in Squads, NEW m \in Members
  PROVE  squad.deps[m] \subseteq 1..(m - 1)
BY SquadsAssumption DEF Members

LEMMA ReadyType ==
  ASSUME squad \in Squads, NEW m \in Members, NEW n \in Nat, m <= n + 1,
         NEW f \in [1..n -> Nat], \A d \in 1..n : f[d] < d
  PROVE  /\ Ready(f, m) \in Nat /\ Ready(f, m) < m
         /\ \A d \in squad.deps[m] : f[d] < Ready(f, m)
<1> DEFINE S == {f[d] : d \in squad.deps[m]}
<1>1. squad.deps[m] \subseteq 1..(m - 1) /\ m \in Nat
  BY DepsAreEarlier, SquadsAssumption DEF Members
<1>2. CASE squad.deps[m] = {}
  BY <1>1, <1>2, SquadsAssumption DEF Ready, Members
<1>3. CASE squad.deps[m] # {}
  <2>0. \A d \in squad.deps[m] : d \in 1..n /\ d <= m - 1
    BY <1>1
  <2>1. S \in SUBSET Nat /\ S # {}
    BY <2>0, <1>3
  <2>2. \A y \in S : y <= m /\ y < m - 1
    BY <2>0, <1>1
  <2>3. Max(S) \in S /\ \A y \in S : y <= Max(S)
    <3> HIDE DEF S
    <3> QED BY <2>1, <2>2, <1>1, Greatest
  <2>4. \A d \in squad.deps[m] : f[d] \in S
    OBVIOUS
  <2>5. Ready(f, m) = 1 + Max(S)
    BY <1>3 DEF Ready
  <2> DEFINE x == Max(S)
  <2>6. x \in Nat /\ x < m - 1 /\ \A d \in squad.deps[m] : f[d] \in Nat /\ f[d] <= x
    <3> HIDE DEF S
    <3> QED BY <2>1, <2>2, <2>3, <2>4
  <2>7. Ready(f, m) = 1 + x
    BY <2>5
  <2> HIDE DEF x
  <2> QED
    BY <1>1, <2>6, <2>7
<1> QED
  BY <1>2, <1>3

LEMMA ReadyDepends ==
  ASSUME squad \in Squads, NEW m \in Members, NEW f, NEW g,
         \A d \in 1..(m - 1) : f[d] = g[d]
  PROVE  Ready(f, m) = Ready(g, m)
<1>1. \A d \in squad.deps[m] : f[d] = g[d]
  BY DepsAreEarlier
<1>2. {f[d] : d \in squad.deps[m]} = {g[d] : d \in squad.deps[m]}
  BY <1>1
<1> QED
  BY <1>2 DEF Ready

LEMMA WavesExist ==
  ASSUME squad \in Squads
  PROVE  \E f : WavesTo(N, f)
<1> DEFINE Missing == {n \in 0..N : \A f : ~WavesTo(n, f)}
<1>1. SUFFICES ASSUME Missing # {} PROVE FALSE
  <2>1. N \in 0..N
    BY SquadsAssumption
  <2> QED BY <2>1, Zenon
<1>2. PICK n \in Missing : \A k \in Missing : n <= k
  <2>1. Missing \in SUBSET Nat
    BY SquadsAssumption
  <2> HIDE DEF Missing
  <2> QED BY <1>1, <2>1, Least
<1>3. n # 0
  <2>1. WavesTo(0, [m \in 1..0 |-> 0])
    BY DEF WavesTo
  <2> QED BY <2>1
<1>4. n \in Members /\ n - 1 \in 0..N /\ n - 1 \in Nat /\ n \in Nat
  BY <1>3, SquadsAssumption DEF Members
<1>5. PICK f : WavesTo(n - 1, f)
  BY <1>2, <1>4
<1> DEFINE g == [m \in 1..n |-> IF m = n THEN Ready(f, n) ELSE f[m]]
<1>6. /\ f \in [1..(n - 1) -> Nat] /\ \A d \in 1..(n - 1) : f[d] < d
      /\ \A m \in 1..(n - 1) : f[m] = Ready(f, m)
  BY <1>5 DEF WavesTo
<1>7. Ready(f, n) \in Nat /\ Ready(f, n) < n
  BY <1>4, <1>6, ReadyType
<1>8. g \in [1..n -> Nat]
  BY <1>4, <1>6, <1>7
<1>9. \A m \in 1..n : m \in Members /\ \A d \in 1..(m - 1) : f[d] = g[d]
  BY <1>4, SquadsAssumption DEF Members
<1>10. \A m \in 1..n : Ready(g, m) = Ready(f, m)
  <2> HIDE DEF g
  <2> QED BY <1>9, ReadyDepends
<1>11. \A m \in 1..n : g[m] = Ready(g, m) /\ g[m] < m
  <2>1. \A m \in 1..n : g[m] = Ready(f, m) /\ g[m] < m
    BY <1>4, <1>6, <1>7
  <2> QED BY <2>1, <1>10
<1>12. WavesTo(n, g)
  BY <1>8, <1>11 DEF WavesTo
<1> QED
  BY <1>2, <1>12

LEMMA WavesOrdered ==
  ASSUME squad \in Squads
  PROVE  \A m \in Members : /\ Wave[m] \in Nat
                            /\ \A d \in squad.deps[m] : d \in Members /\ Wave[d] < Wave[m]
<1>1. PICK f : WavesTo(N, f)
  BY WavesExist
<1>2. f = [m \in Members |-> Ready(f, m)]
  BY <1>1 DEF WavesTo, Members
<1>3. Wave = [m \in Members |-> Ready(Wave, m)]
  BY <1>2 DEF Wave, Ready
<1> DEFINE Late == {m \in Members : ~(Wave[m] \in Nat /\ Wave[m] < m)}
<1>4. Late = {}
  <2> SUFFICES ASSUME Late # {} PROVE FALSE
    OBVIOUS
  <2>1. PICK m \in Late : \A k \in Late : m <= k
    <3>1. Late \in SUBSET Nat
      BY DEF Members
    <3> HIDE DEF Late
    <3> QED BY <3>1, Least
  <2>2. m \in Members /\ m \in Nat /\ m - 1 \in Nat /\ m <= (m - 1) + 1
    BY DEF Members
  <2> DEFINE g == [d \in 1..(m - 1) |-> Wave[d]]
  <2>3. \A d \in 1..(m - 1) : Wave[d] \in Nat /\ Wave[d] < d
    BY <2>1, <2>2, SquadsAssumption DEF Members
  <2>4. g \in [1..(m - 1) -> Nat] /\ (\A d \in 1..(m - 1) : g[d] < d) /\ (\A d \in 1..(m - 1) : Wave[d] = g[d])
    BY <2>3
  <2> HIDE DEF g
  <2>5. Ready(g, m) \in Nat /\ Ready(g, m) < m
    BY <2>2, <2>4, ReadyType
  <2>6. Ready(Wave, m) = Ready(g, m)
    BY <2>2, <2>4, ReadyDepends
  <2>7. Wave[m] = Ready(Wave, m)
    BY <1>3, <2>2
  <2> QED
    BY <2>1, <2>5, <2>6, <2>7
<1>5. Wave \in [1..N -> Nat] /\ \A d \in 1..N : Wave[d] < d
  BY <1>3, <1>4 DEF Members
<1> QED
  <2> TAKE m \in Members
  <2>1. m <= N + 1 /\ N \in Nat
    BY SquadsAssumption DEF Members
  <2>2. \A d \in squad.deps[m] : Wave[d] < Ready(Wave, m)
    BY <1>5, <2>1, ReadyType
  <2>3. Wave[m] = Ready(Wave, m)
    BY <1>3
  <2> QED
    BY <1>5, <2>2, <2>3, SquadsAssumption DEF Members
-----------------------------------------------------------------------------
(***************************************************************************)
(* The inductive invariant.                                                *)
(***************************************************************************)
\* Every member has one place: not yet batched, in the batch, collected, or
\* passed over under "stop".  Results of an earlier run are collected at once.
Placed ==
  /\ batch \intersect left = {} /\ batch \intersect delivered = {}
  /\ left \intersect delivered \subseteq squad.reused
  /\ squad.reused \subseteq delivered
  /\ squad.policy # "stop" => left \union batch \union delivered = Members
  /\ Cardinality(batch) <= squad.limit

\* The phases after a failure that may be tried again.
Reconsidered == {"failed", "diagnosing", "judging", "retrying"}

\* What the phase of a member says of its result and of its row, where the
\* catch block may have settled the rows of members that are still under way.
MemberInv(m) ==
  /\ m \in squad.reused => phase[m] = "idle" /\ outcome[m] = "completed" /\ row[m] = "completed"
  /\ phase[m] = "idle" => m \notin batch
  /\ phase[m] = "idle" /\ m \notin squad.reused =>
       m \notin delivered /\ outcome[m] = "none" /\ row[m] \notin {"running", "completed"}
  /\ phase[m] # "idle" => m \in batch \/ (m \in delivered /\ phase[m] = "ended")
  /\ phase[m] = "ended" => outcome[m] \in Outcomes /\ row[m] = outcome[m]
  /\ phase[m] \notin {"idle", "ended"} => outcome[m] # "completed" /\ row[m] # "completed"
  /\ phase[m] \in Reconsidered => outcome[m] \in {"failed", "timed-out"} /\ row[m] = outcome[m]

\* The error of a member is what ends the dispatch without a verdict.
Failed == \E m \in batch : phase[m] = "rejected"

CompletedRows == {m \in Members : row[m] = "completed"}

\* A verdict says what the rows say, and all of them are settled.
VerdictHolds ==
  /\ batch = {}
  /\ \A m \in Members : row[m] \notin Unfinished
  /\ verdict = "completed" => CompletedRows = Members
  /\ verdict = "failed" => CompletedRows = {}
  /\ verdict = "partial" => CompletedRows # {}

StageInv ==
  /\ stage \in {"batching", "filling"} => batch = {}
  /\ stage \in {"batching", "awaiting"} /\ squad.policy = "stop" => \A m \in delivered : outcome[m] = "completed"
  /\ stage \in {"batching", "awaiting", "filling", "catching"} => verdict = "none"
  /\ stage = "settling" => verdict # "none"
  /\ verdict # "none" => VerdictHolds
  /\ stage = "catching" \/ (stage \in {"finally", "done"} /\ verdict = "none") => Failed
  /\ ~registered => stage = "done"

\* The members that may still report a token for an attempt or a diagnosis.
ChargingPhases == {"starting", "first", "diagnosing", "retrying", "second"}
Charging(phases) == {m \in Members : phases[m] \in ChargingPhases}

\* Whatever was begun was begun on a budget that was not spent.
Budgeted ==
  squad.budget # NoBudget /\ squad.budget > 0 =>
    spent + Cardinality(Charging(phase)) < squad.budget + squad.limit

SchedulerInv == TypeOK /\ Placed /\ (\A m \in Members : MemberInv(m)) /\ StageInv /\ Budgeted

-----------------------------------------------------------------------------
(***************************************************************************)
(* What a batch is: at most as many members as may run at once, none of    *)
(* which depends on a member that was not yet batched.                     *)
(***************************************************************************)
LEMMA SquadType ==
  ASSUME squad \in Squads
  PROVE  /\ N \in Nat /\ Members \in SUBSET Nat /\ IsFiniteSet(Members)
         /\ squad.limit \in Nat /\ squad.limit > 0
         /\ squad.reused \subseteq Members
         /\ squad.budget # NoBudget => squad.budget \in Nat
         /\ squad.policy \in Policies
<1>1. IsFiniteSet(1..N)
  BY SquadsAssumption, FS_Interval
<1> QED
  BY <1>1, SquadsAssumption DEF Members

LEMMA BatchesAreBounded ==
  ASSUME TypeOK
  PROVE  /\ NextBatch \subseteq left
         /\ IsFiniteSet(NextBatch) /\ Cardinality(NextBatch) <= squad.limit
<1>1. squad \in Squads /\ left \subseteq Members
  BY DEF TypeOK
<1>2. /\ Members \in SUBSET Nat /\ IsFiniteSet(Members)
      /\ squad.limit \in Nat /\ squad.limit > 0 /\ N \in Nat
  BY <1>1, SquadType
<1>3. NextBatch \subseteq left /\ CurrentWave \subseteq Members
  BY <1>1 DEF NextBatch, CurrentWave
<1>4. IsFiniteSet(NextBatch)
  BY <1>1, <1>2, <1>3, FS_Subset
<1>5. CASE NextBatch = {}
  BY <1>2, <1>3, <1>4, <1>5, FS_EmptySet
<1>6. CASE NextBatch # {}
  <2>1. NextBatch \in SUBSET Nat /\ \A m \in NextBatch : m <= N
    BY <1>1, <1>2, <1>3 DEF Members
  <2>2. PICK x \in NextBatch : \A m \in NextBatch : m <= x
    BY <1>2, <1>6, <2>1, Greatest
  <2> DEFINE Smaller == {n \in CurrentWave : n < x}
  <2>3. Cardinality(Smaller) < squad.limit /\ x \in Nat
    BY <2>1, <2>2 DEF NextBatch
  <2>4. IsFiniteSet(Smaller)
    BY <1>2, <1>3, FS_Subset
  <2>5. Cardinality(Smaller) \in Nat
    BY <2>4, FS_CardinalityType
  <2>6. NextBatch \subseteq Smaller \union {x}
    <3>1. \A m \in NextBatch : m \in CurrentWave /\ (m < x \/ m = x)
      BY <2>1, <2>2 DEF NextBatch
    <3> QED BY <3>1
  <2> HIDE DEF Smaller
  <2>7. IsFiniteSet(Smaller \union {x}) /\ Cardinality(Smaller \union {x}) <= Cardinality(Smaller) + 1
    <3>1. /\ IsFiniteSet(Smaller \union {x})
          /\ Cardinality(Smaller \union {x}) = IF x \in Smaller THEN Cardinality(Smaller) ELSE Cardinality(Smaller) + 1
      BY <2>4, FS_AddElement
    <3> QED BY <2>5, <3>1
  <2>8. Cardinality(NextBatch) <= Cardinality(Smaller \union {x}) /\ Cardinality(NextBatch) \in Nat
    BY <1>4, <2>6, <2>7, FS_Subset, FS_CardinalityType
  <2>9. Cardinality(Smaller \union {x}) \in Nat
    BY <2>7, FS_CardinalityType
  <2> QED
    BY <1>2, <1>3, <1>4, <2>3, <2>5, <2>7, <2>8, <2>9
<1> QED
  BY <1>5, <1>6

LEMMA BatchesAreReady ==
  ASSUME TypeOK, NEW m \in NextBatch, NEW d \in squad.deps[m]
  PROVE  d \in Members /\ d \notin left
<1>1. squad \in Squads /\ left \subseteq Members
  BY DEF TypeOK
<1>2. m \in left /\ \A n \in left : Wave[m] <= Wave[n]
  BY DEF NextBatch, CurrentWave
<1>3. d \in Members /\ Wave[d] \in Nat /\ Wave[m] \in Nat /\ Wave[d] < Wave[m]
  BY <1>1, <1>2, WavesOrdered
<1> QED
  BY <1>2, <1>3

-----------------------------------------------------------------------------
LEMMA InitHolds ==
  ASSUME Init
  PROVE  SchedulerInv
<1>1. squad \in Squads /\ squad.reused \subseteq Members
  BY SquadType DEF Init
<1>2. TypeOK
  BY <1>1 DEF Init, TypeOK, Phases, Quiet, Outcomes, Unfinished
<1>3. Placed
  BY <1>1, SquadType, FS_EmptySet DEF Init, Placed
<1>4. ASSUME NEW m \in Members PROVE MemberInv(m)
  BY <1>1 DEF Init, MemberInv, Reconsidered
<1>5. StageInv
  BY <1>1 DEF Init, StageInv
<1>6. Budgeted
  <2>1. Charging(phase) = {}
    BY DEF Init, Charging, ChargingPhases
  <2>2. Cardinality(Charging(phase)) = 0
    BY <2>1, FS_EmptySet
  <2>3. squad.limit \in Nat /\ squad.limit > 0 /\ (squad.budget # NoBudget => squad.budget \in Nat) /\ spent = 0
    BY <1>1, SquadType DEF Init
  <2> QED
    BY <2>2, <2>3 DEF Budgeted
<1> QED
  BY <1>2, <1>3, <1>4, <1>5, <1>6 DEF SchedulerInv

-----------------------------------------------------------------------------
(***************************************************************************)
(* The budget: an action either begins nothing that is charged beyond what *)
(* it takes over, or begins it on a budget that is not spent.              *)
(***************************************************************************)
LEMMA ChargingType ==
  ASSUME squad \in Squads, NEW f
  PROVE  IsFiniteSet(Charging(f)) /\ Cardinality(Charging(f)) \in Nat
<1>1. IsFiniteSet(Members) /\ Charging(f) \subseteq Members
  BY SquadType DEF Charging
<1> QED
  BY <1>1, FS_Subset, FS_CardinalityType

LEMMA ChargingMoves ==
  ASSUME squad \in Squads, NEW f, NEW g, NEW m \in Members,
         \A n \in Members \ {m} : g[n] = f[n]
  PROVE  Cardinality(Charging(g)) + (IF f[m] \in ChargingPhases THEN 1 ELSE 0)
           = Cardinality(Charging(f)) + (IF g[m] \in ChargingPhases THEN 1 ELSE 0)
<1>1. Charging(f) \ {m} = Charging(g) \ {m}
  BY DEF Charging
<1>2. (m \in Charging(f) <=> f[m] \in ChargingPhases) /\ (m \in Charging(g) <=> g[m] \in ChargingPhases)
  BY DEF Charging
<1>3. /\ IsFiniteSet(Charging(f)) /\ Cardinality(Charging(f)) \in Nat
      /\ IsFiniteSet(Charging(g)) /\ Cardinality(Charging(g)) \in Nat
  BY ChargingType
<1>4. /\ Cardinality(Charging(f) \ {m}) = IF m \in Charging(f) THEN Cardinality(Charging(f)) - 1 ELSE Cardinality(Charging(f))
      /\ Cardinality(Charging(g) \ {m}) = IF m \in Charging(g) THEN Cardinality(Charging(g)) - 1 ELSE Cardinality(Charging(g))
  BY <1>3, FS_RemoveElement
<1> DEFINE a == Cardinality(Charging(f))
           b == Cardinality(Charging(g))
           rest == Cardinality(Charging(f) \ {m})
<1>5. a \in Nat /\ b \in Nat
  BY <1>3
<1>6. rest = IF f[m] \in ChargingPhases THEN a - 1 ELSE a
  BY <1>2, <1>4
<1>7. rest = IF g[m] \in ChargingPhases THEN b - 1 ELSE b
  BY <1>1, <1>2, <1>4
<1> HIDE DEF a, b, rest
<1> QED
  <2>1. b + (IF f[m] \in ChargingPhases THEN 1 ELSE 0) = a + (IF g[m] \in ChargingPhases THEN 1 ELSE 0)
    BY <1>5, <1>6, <1>7
  <2> QED BY <2>1 DEF a, b

LEMMA BegunOnBudget ==
  ASSUME TypeOK, ~OverBudget, spent' = spent, squad' = squad,
         IsFiniteSet(batch'), Placed', \A m \in Members : MemberInv(m)'
  PROVE  Budgeted'
<1>1. Charging(phase') \subseteq batch'
  BY DEF Charging, MemberInv, ChargingPhases
<1>2. Cardinality(Charging(phase')) <= Cardinality(batch') /\ Cardinality(batch') \in Nat
  BY <1>1, FS_Subset, FS_CardinalityType
<1>3. squad \in Squads /\ spent \in Nat
  BY DEF TypeOK
<1>4. Cardinality(Charging(phase')) \in Nat
  BY <1>3, ChargingType
<1>5. squad.limit \in Nat /\ (squad.budget # NoBudget => squad.budget \in Nat)
  BY <1>3, SquadType
<1>6. Cardinality(batch') <= squad.limit
  BY DEF Placed
<1> QED
  BY <1>2, <1>3, <1>4, <1>5, <1>6 DEF Budgeted, OverBudget

-----------------------------------------------------------------------------
(***************************************************************************)
(* The coroutine of a member, which changes nothing but what it is told of *)
(* its own member.                                                         *)
(***************************************************************************)
Elsewhere(m) ==
  /\ UNCHANGED <<squad, stage, left, batch, delivered, halt, aborted, registered, verdict, status>>
  /\ \A n \in Members \ {m} : phase'[n] = phase[n] /\ outcome'[n] = outcome[n] /\ row'[n] = row[n]

\* Where a coroutine may go from each of its phases.
Moves(p, q) ==
  \/ p = "starting" /\ q = "first"
  \/ p = "first" /\ q \in {"ended", "failed"}
  \/ p = "failed" /\ q \in {"ended", "judging", "diagnosing"}
  \/ p = "diagnosing" /\ q \in {"judging", "ended"}
  \/ p = "judging" /\ q \in {"ended", "retrying"}
  \/ p = "retrying" /\ q \in {"rejected", "second"}
  \/ p = "second" /\ q = "ended"

\* What a step of the coroutine leaves as the member's result and status.
Leaves(m) ==
  \/ /\ phase[m] \in {"first", "second"} /\ outcome'[m] \in Outcomes /\ row'[m] = outcome'[m]
     /\ phase'[m] = "failed" => outcome'[m] \in {"failed", "timed-out"}
  \/ phase[m] \in {"starting", "retrying"} /\ phase'[m] \in {"first", "second"} /\ outcome'[m] = outcome[m] /\ row'[m] = "running"
  \/ /\ phase[m] \in Reconsidered /\ phase'[m] \in Reconsidered \union {"ended", "rejected"}
     /\ outcome'[m] = outcome[m] /\ row'[m] = row[m]

\* A charged attempt is taken over, reported and over, or begun on a budget.
Charges(m) ==
  \/ phase[m] \in ChargingPhases /\ phase'[m] \notin ChargingPhases /\ spent' \in {spent, spent + 1}
  \/ (phase[m] \in ChargingPhases \/ phase'[m] \notin ChargingPhases) /\ spent' = spent
  \/ ~OverBudget /\ spent' = spent

LEMMA CoroutineSteps ==
  ASSUME TypeOK, NEW m \in Members, Coroutine(m)
  PROVE  TypeOK' /\ Elsewhere(m) /\ Moves(phase[m], phase'[m]) /\ Leaves(m) /\ Charges(m)
<1>0. /\ m \in DOMAIN phase /\ m \in DOMAIN outcome /\ m \in DOMAIN row
      /\ phase \in [Members -> Phases] /\ outcome \in [Members -> Outcomes \union {"none"}]
      /\ row \in [Members -> Outcomes \union Unfinished \union {"skipped"}] /\ spent \in Nat
  BY DEF TypeOK
<1>1. CASE MarkRunning(m)
  <2>1. Elsewhere(m) /\ phase[m] = "starting" /\ phase'[m] = "first" /\ outcome' = outcome /\ row'[m] = "running" /\ spent' = spent
    BY <1>0, <1>1 DEF MarkRunning, Goto, Elsewhere, planVars, runVars
  <2>2. TypeOK'
    BY <1>0, <1>1 DEF MarkRunning, Goto, planVars, runVars, TypeOK, Phases, Unfinished
  <2> QED
    BY <2>1, <2>2 DEF Moves, Leaves, Charges, ChargingPhases
<1>2. CASE EndFirst(m)
  <2>1. PICK o \in AttemptOutcomes :
          /\ outcome' = [outcome EXCEPT ![m] = o] /\ row' = [row EXCEPT ![m] = o]
          /\ Goto(m, IF o \in {"completed", "cancelled"} \/ aborted \/ squad.policy # "retry-once"
                       THEN "ended" ELSE "failed")
    BY <1>2 DEF EndFirst
  <2>2. o \in Outcomes /\ (phase'[m] = "failed" => o \in {"failed", "timed-out"})
    BY <1>0, <2>1 DEF AttemptOutcomes, Outcomes, Goto
  <2>3. Elsewhere(m) /\ phase[m] = "first" /\ phase'[m] \in {"ended", "failed"} /\ outcome'[m] = o /\ row'[m] = o
    BY <1>0, <1>2, <2>1 DEF EndFirst, Goto, Elsewhere, planVars, runVars
  <2>4. spent' \in {spent, spent + 1}
    BY <1>0, <1>2 DEF EndFirst, Report
  <2>5. TypeOK'
    <3>1. spent' \in Nat
      BY <1>0, <2>4
    <3>2. phase' \in [Members -> Phases]
      BY <1>0, <2>1 DEF Goto, Phases, Quiet
    <3> QED
      BY <1>0, <1>2, <2>1, <2>2, <3>1, <3>2 DEF EndFirst, planVars, runVars, TypeOK
  <2> QED
    BY <2>2, <2>3, <2>4, <2>5 DEF Moves, Leaves, Charges, ChargingPhases
<1>3. CASE Diagnose(m)
  <2>1. /\ Elsewhere(m) /\ phase[m] = "failed" /\ phase'[m] \in {"ended", "judging", "diagnosing"}
        /\ outcome' = outcome /\ row' = row /\ spent' = spent
        /\ phase'[m] = "diagnosing" => ~OverBudget
    BY <1>0, <1>3 DEF Diagnose, Goto, Elsewhere, planVars, runVars
  <2>2. TypeOK'
    BY <1>0, <1>3 DEF Diagnose, Goto, planVars, runVars, TypeOK, Phases, Quiet
  <2> QED
    BY <2>1, <2>2 DEF Moves, Leaves, Charges, ChargingPhases, Reconsidered
<1>4. CASE EndDiagnosis(m)
  <2>1. /\ Elsewhere(m) /\ phase[m] = "diagnosing" /\ phase'[m] \in {"ended", "judging"}
        /\ outcome' = outcome /\ row' = row
    BY <1>0, <1>4 DEF EndDiagnosis, Goto, Elsewhere, planVars, runVars
  <2>2. spent' \in {spent, spent + 1}
    BY <1>0, <1>4 DEF EndDiagnosis, Report
  <2>3. TypeOK'
    <3>1. spent' \in Nat
      BY <1>0, <2>2
    <3> QED
      BY <1>0, <1>4, <3>1 DEF EndDiagnosis, Goto, planVars, runVars, TypeOK, Phases, Quiet
  <2> QED
    BY <2>1, <2>2, <2>3 DEF Moves, Leaves, Charges, ChargingPhases, Reconsidered
<1>5. CASE Judge(m)
  <2>1. /\ Elsewhere(m) /\ phase[m] = "judging" /\ phase'[m] \in {"ended", "retrying"}
        /\ outcome' = outcome /\ row' = row /\ spent' = spent
        /\ phase'[m] = "retrying" => ~OverBudget
    BY <1>0, <1>5 DEF Judge, Goto, Elsewhere, planVars, runVars
  <2>2. TypeOK'
    BY <1>0, <1>5 DEF Judge, Goto, planVars, runVars, TypeOK, Phases, Quiet
  <2> QED
    BY <2>1, <2>2 DEF Moves, Leaves, Charges, ChargingPhases, Reconsidered
<1>6. CASE StartSecond(m)
  <2>1. /\ Elsewhere(m) /\ phase[m] = "retrying" /\ outcome' = outcome /\ spent' = spent
        /\ \/ phase'[m] = "rejected" /\ row' = row
           \/ phase'[m] = "second" /\ row'[m] = "running"
    <3>0. phase[m] = "retrying" /\ UNCHANGED <<outcome, spent, planVars, runVars>>
      BY <1>6 DEF StartSecond
    <3>1. CASE Goto(m, "rejected") /\ UNCHANGED row
      BY <1>0, <3>0, <3>1 DEF Goto, Elsewhere, planVars, runVars
    <3>2. CASE row' = [row EXCEPT ![m] = "running"] /\ Goto(m, "second")
      BY <1>0, <3>0, <3>2 DEF Goto, Elsewhere, planVars, runVars
    <3> QED BY <1>6, <3>1, <3>2 DEF StartSecond
  <2>2. TypeOK'
    BY <1>0, <1>6 DEF StartSecond, Goto, planVars, runVars, TypeOK, Phases, Quiet, Unfinished
  <2> QED
    BY <2>1, <2>2 DEF Moves, Leaves, Charges, ChargingPhases, Reconsidered
<1>7. CASE EndSecond(m)
  <2>1. PICK o \in AttemptOutcomes : outcome' = [outcome EXCEPT ![m] = o] /\ row' = [row EXCEPT ![m] = o]
    BY <1>7 DEF EndSecond
  <2>2. o \in Outcomes
    BY DEF AttemptOutcomes, Outcomes
  <2>3. Elsewhere(m) /\ phase[m] = "second" /\ phase'[m] = "ended" /\ outcome'[m] = o /\ row'[m] = o
    BY <1>0, <1>7, <2>1 DEF EndSecond, Goto, Elsewhere, planVars, runVars
  <2>4. spent' \in {spent, spent + 1}
    BY <1>0, <1>7 DEF EndSecond, Report
  <2>5. TypeOK'
    <3>1. spent' \in Nat
      BY <1>0, <2>4
    <3>2. phase' \in [Members -> Phases]
      BY <1>0, <1>7 DEF EndSecond, Goto, Phases, Quiet
    <3> QED
      BY <1>0, <1>7, <2>1, <2>2, <3>1, <3>2 DEF EndSecond, planVars, runVars, TypeOK
  <2> QED
    BY <2>2, <2>3, <2>4, <2>5 DEF Moves, Leaves, Charges, ChargingPhases
<1> QED
  BY <1>1, <1>2, <1>3, <1>4, <1>5, <1>6, <1>7 DEF Coroutine

LEMMA LessAfter ==
  ASSUME NEW s \in Nat, NEW t \in Nat, NEW a \in Nat, NEW b \in Nat, NEW x \in Nat, NEW y \in Nat,
         t + b <= s + a, s + a < x + y
  PROVE  t + b < x + y
OBVIOUS

LEMMA CoroutineKeeps ==
  ASSUME SchedulerInv, NEW m \in Members, Coroutine(m)
  PROVE  SchedulerInv'
<1>1. TypeOK' /\ Elsewhere(m) /\ Moves(phase[m], phase'[m]) /\ Leaves(m) /\ Charges(m) /\ TypeOK
  BY CoroutineSteps DEF SchedulerInv
<1>2. MemberInv(m) /\ Placed /\ StageInv /\ Budgeted
  BY DEF SchedulerInv
<1>3. phase[m] \notin {"idle", "ended", "rejected"} /\ phase'[m] # "idle"
  BY <1>1 DEF Moves
<1>4. m \in batch /\ m \notin delivered /\ m \notin squad.reused
  BY <1>2, <1>3 DEF MemberInv, Placed
<1>5. Placed'
  BY <1>1, <1>2 DEF Placed, Elsewhere
<1>6. MemberInv(m)'
  <2>1. outcome[m] # "completed" /\ row[m] # "completed"
        /\ (phase[m] \in Reconsidered => outcome[m] \in {"failed", "timed-out"} /\ row[m] = outcome[m])
    BY <1>2, <1>3 DEF MemberInv
  <2>2. squad' = squad /\ batch' = batch /\ delivered' = delivered
    BY <1>1 DEF Elsewhere
  <2>3. CASE phase[m] \in {"first", "second"}
    BY <1>1, <1>3, <1>4, <2>2, <2>3 DEF MemberInv, Leaves, Moves, Reconsidered
  <2>4. CASE phase[m] \in {"starting", "retrying"} /\ phase'[m] \in {"first", "second"}
    BY <1>1, <1>3, <1>4, <2>1, <2>2, <2>4 DEF MemberInv, Leaves, Reconsidered
  <2>5. CASE phase[m] \in Reconsidered /\ phase'[m] \notin {"first", "second"}
    BY <1>1, <1>3, <1>4, <2>1, <2>2, <2>5 DEF MemberInv, Leaves, Reconsidered, Outcomes
  <2> QED
    BY <1>1, <2>3, <2>4, <2>5 DEF Leaves, Reconsidered
<1>7. ASSUME NEW n \in Members \ {m} PROVE MemberInv(n)'
  <2>1. MemberInv(n)
    BY DEF SchedulerInv
  <2> QED
    BY <1>1, <2>1 DEF MemberInv, Elsewhere
<1>8. StageInv'
  <2>1. batch # {} /\ ~VerdictHolds
    BY <1>4 DEF VerdictHolds
  <2>2. \A n \in delivered : outcome'[n] = outcome[n]
    BY <1>1, <1>4 DEF Elsewhere, TypeOK
  <2>3. Failed => Failed'
    BY <1>1, <1>3 DEF Failed, Elsewhere, TypeOK
  <2>4. verdict = "none"
    BY <1>2, <2>1 DEF StageInv
  <2> QED
    BY <1>1, <1>2, <2>1, <2>2, <2>3, <2>4 DEF StageInv, Elsewhere
<1>9. Budgeted'
  <2>0. squad' = squad /\ squad \in Squads /\ IsFiniteSet(batch')
    BY <1>1, SquadType, FS_Subset DEF Elsewhere, TypeOK
  <2>1. CASE ~OverBudget /\ spent' = spent
    BY <1>1, <1>5, <1>6, <1>7, <2>0, <2>1, BegunOnBudget
  <2>2. CASE ~(~OverBudget /\ spent' = spent)
    <3> DEFINE a == Cardinality(Charging(phase))
               b == Cardinality(Charging(phase'))
    <3>1. a \in Nat /\ b \in Nat
      BY <2>0, ChargingType
    <3>2. b + (IF phase[m] \in ChargingPhases THEN 1 ELSE 0) = a + (IF phase'[m] \in ChargingPhases THEN 1 ELSE 0)
      BY <1>1, <2>0, ChargingMoves DEF Elsewhere
    <3>3. spent \in Nat /\ spent' \in Nat
      BY <1>1 DEF TypeOK
    <3> HIDE DEF a, b
    <3>4. spent' + b <= spent + a
      BY <1>1, <2>2, <3>1, <3>2, <3>3 DEF Charges
    <3>5. squad.limit \in Nat /\ (squad.budget # NoBudget => squad.budget \in Nat)
      BY <2>0, SquadType
    <3>6. squad.budget # NoBudget /\ squad.budget > 0 => spent + a < squad.budget + squad.limit
      BY <1>2 DEF Budgeted, a
    <3>7. squad.budget # NoBudget /\ squad.budget > 0 => spent' + b < squad.budget + squad.limit
      <4> SUFFICES ASSUME squad.budget # NoBudget, squad.budget > 0 PROVE spent' + b < squad.budget + squad.limit
        OBVIOUS
      <4>1. squad.budget \in Nat /\ squad.limit \in Nat /\ spent + a < squad.budget + squad.limit
        BY <3>5, <3>6
      <4> QED
        BY <3>1, <3>3, <3>4, <4>1, LessAfter
    <3> QED
      BY <2>0, <3>7 DEF Budgeted, b
  <2> QED
    BY <2>1, <2>2
<1> QED
  BY <1>1, <1>5, <1>6, <1>7, <1>8, <1>9 DEF SchedulerInv

-----------------------------------------------------------------------------
(***************************************************************************)
(* The dispatch.                                                           *)
(***************************************************************************)
LEMMA BudgetUntouched ==
  ASSUME Budgeted, phase' = phase, spent' = spent, squad' = squad
  PROVE  Budgeted'
BY DEF Budgeted

LEMMA HaltBeforeKeeps ==
  ASSUME SchedulerInv, HaltBefore
  PROVE  SchedulerInv'
<1>1. UNCHANGED <<memberVars, squad, left, batch, delivered, aborted, registered, verdict, status>>
      /\ stage = "batching" /\ stage' = "filling" /\ halt' \in {"cancelled", "budget"}
  BY DEF HaltBefore
<1>2. TypeOK'
  BY <1>1 DEF SchedulerInv, TypeOK, memberVars
<1>3. Placed'
  BY <1>1 DEF SchedulerInv, Placed
<1>4. ASSUME NEW m \in Members PROVE MemberInv(m)'
  BY <1>1 DEF SchedulerInv, MemberInv, memberVars
<1>5. StageInv'
  BY <1>1 DEF SchedulerInv, StageInv, memberVars
<1>6. Budgeted'
  BY <1>1, BudgetUntouched DEF SchedulerInv, memberVars
<1> QED
  BY <1>2, <1>3, <1>4, <1>5, <1>6 DEF SchedulerInv

LEMMA StartBatchKeeps ==
  ASSUME SchedulerInv, StartBatch
  PROVE  SchedulerInv'
<1> DEFINE fresh == NextBatch \ squad.reused
           runnable == {m \in fresh : squad.policy = "stop" => \A d \in squad.deps[m] : outcome[d] = "completed"}
<1>1. /\ stage = "batching" /\ stage' = "awaiting" /\ batch' = runnable /\ left' = left \ NextBatch
      /\ row' = [m \in Members |-> IF m \in fresh \ runnable THEN "skipped" ELSE row[m]]
      /\ ~OverBudget
      /\ UNCHANGED <<outcome, spent, squad, delivered, halt, aborted, registered, verdict, status>>
  BY DEF StartBatch
<1>2. PICK denied \in SUBSET runnable :
        phase' = [m \in Members |-> IF m \notin runnable THEN phase[m]
                                    ELSE IF m \in denied THEN "rejected" ELSE "starting"]
  BY DEF StartBatch
<1>3. runnable \subseteq fresh /\ fresh \subseteq NextBatch /\ NextBatch \subseteq left /\ fresh \intersect squad.reused = {}
  BY BatchesAreBounded DEF SchedulerInv
<1>3a. fresh \subseteq runnable \/ squad.policy = "stop"
  OBVIOUS
<1>4. IsFiniteSet(runnable) /\ Cardinality(runnable) <= squad.limit
  <2>1. IsFiniteSet(NextBatch) /\ Cardinality(NextBatch) <= squad.limit /\ squad \in Squads
    BY BatchesAreBounded DEF SchedulerInv, TypeOK
  <2>2. IsFiniteSet(runnable) /\ Cardinality(runnable) <= Cardinality(NextBatch)
    BY <1>3, <2>1, FS_Subset
  <2>3. Cardinality(runnable) \in Nat /\ Cardinality(NextBatch) \in Nat /\ squad.limit \in Nat
    BY <2>1, <2>2, FS_CardinalityType, SquadType
  <2> HIDE DEF runnable
  <2> QED BY <2>1, <2>2, <2>3
<1>5. batch = {} /\ verdict = "none" /\ registered
  BY <1>1 DEF SchedulerInv, StageInv, TypeOK
<1> HIDE DEF fresh, runnable
<1>6. TypeOK'
  <2>1. phase' \in [Members -> Phases]
    BY <1>2 DEF SchedulerInv, TypeOK, Phases, Quiet
  <2>2. row' \in [Members -> Outcomes \union Unfinished \union {"skipped"}]
    BY <1>1 DEF SchedulerInv, TypeOK
  <2> QED
    BY <1>1, <1>3, <2>1, <2>2 DEF SchedulerInv, TypeOK
<1>7. Placed'
  <2>1. Placed /\ left \subseteq Members
    BY DEF SchedulerInv, TypeOK
  <2>2. batch' \intersect left' = {} /\ left' \subseteq left /\ batch' \subseteq left \ squad.reused
    BY <1>1, <1>3
  <2>3. squad.policy # "stop" => left' \union batch' \union delivered = left \union delivered \union (NextBatch \intersect squad.reused)
    BY <1>1, <1>3, <1>3a, <2>1 DEF fresh, Placed
  <2>4. squad.policy # "stop" => left' \union batch' \union delivered = Members
    BY <1>3, <1>5, <2>1, <2>3 DEF Placed
  <2> QED
    BY <1>1, <1>4, <2>1, <2>2, <2>4 DEF Placed
<1>8. ASSUME NEW m \in Members PROVE MemberInv(m)'
  <2>0. MemberInv(m) /\ batch = {} /\ Placed
    BY <1>5 DEF SchedulerInv
  <2>1. CASE m \in runnable
    <3>1. phase[m] = "idle"
      <4>1. m \in left /\ m \notin squad.reused /\ m \notin delivered
        BY <1>3, <2>0, <2>1 DEF Placed
      <4> QED BY <2>0, <4>1 DEF MemberInv
    <3>2. phase'[m] \in {"rejected", "starting"} /\ row'[m] = row[m] /\ outcome'[m] = outcome[m] /\ m \in batch'
      BY <1>1, <1>2, <2>1
    <3>3. m \notin squad.reused
      BY <1>3, <2>1
    <3> QED
      BY <1>1, <2>0, <3>1, <3>2, <3>3 DEF MemberInv, Reconsidered
  <2>2. CASE m \notin runnable
    <3>1. phase'[m] = phase[m] /\ outcome'[m] = outcome[m] /\ m \notin batch'
      BY <1>1, <1>2, <2>2
    <3>2. row'[m] = row[m] \/ (m \in fresh /\ row'[m] = "skipped")
      BY <1>1
    <3>3. m \in fresh => phase[m] = "idle" /\ m \notin squad.reused
      <4>1. m \in fresh => m \in left /\ m \notin squad.reused /\ m \notin delivered
        BY <1>3, <2>0 DEF Placed
      <4> QED BY <2>0, <4>1 DEF MemberInv
    <3> QED
      BY <1>1, <2>0, <3>1, <3>2, <3>3 DEF MemberInv, Reconsidered
  <2> QED
    BY <2>1, <2>2
<1>9. StageInv'
  BY <1>1, <1>5 DEF SchedulerInv, StageInv
<1>10. Budgeted'
  BY <1>1, <1>4, <1>7, <1>8, BegunOnBudget DEF SchedulerInv
<1> QED
  BY <1>6, <1>7, <1>8, <1>9, <1>10 DEF SchedulerInv

LEMMA CollectKeeps ==
  ASSUME SchedulerInv, Collect
  PROVE  SchedulerInv'
<1>1. /\ stage = "awaiting" /\ \A m \in batch : phase[m] = "ended"
      /\ delivered' = delivered \union batch /\ batch' = {}
      /\ UNCHANGED <<memberVars, squad, left, aborted, registered, verdict, status>>
      /\ halt' \in {"none", "cancelled", "budget", "failure"} /\ stage' \in {"batching", "filling"}
  BY DEF Collect, SchedulerInv, TypeOK
<1>2. TypeOK'
  BY <1>1 DEF SchedulerInv, TypeOK, memberVars
<1>3. Placed'
  <2>1. Placed /\ squad \in Squads
    BY DEF SchedulerInv, TypeOK
  <2>2. Cardinality({}) = 0 /\ squad.limit \in Nat
    BY <2>1, FS_EmptySet, SquadType
  <2> QED
    BY <1>1, <2>1, <2>2 DEF Placed
<1>4. ASSUME NEW m \in Members PROVE MemberInv(m)'
  BY <1>1 DEF SchedulerInv, MemberInv, memberVars
<1>5. StageInv'
  <2>1. StageInv /\ TypeOK
    BY DEF SchedulerInv
  <2>2. stage' = "batching" /\ squad.policy = "stop" => \A m \in delivered' : outcome'[m] = "completed"
    BY <1>1, <2>1 DEF Collect, StageInv, memberVars
  <2> QED
    BY <1>1, <2>1, <2>2 DEF StageInv
<1>6. Budgeted'
  BY <1>1, BudgetUntouched DEF SchedulerInv, memberVars
<1> QED
  BY <1>2, <1>3, <1>4, <1>5, <1>6 DEF SchedulerInv

LEMMA RejectKeeps ==
  ASSUME SchedulerInv, Reject
  PROVE  SchedulerInv'
<1>1. UNCHANGED <<memberVars, planVars, aborted, registered, verdict, status>>
      /\ stage = "awaiting" /\ stage' = "catching" /\ Failed
  BY DEF Reject, Failed
<1>2. TypeOK'
  BY <1>1 DEF SchedulerInv, TypeOK, memberVars, planVars
<1>3. Placed'
  BY <1>1 DEF SchedulerInv, Placed, planVars
<1>4. ASSUME NEW m \in Members PROVE MemberInv(m)'
  BY <1>1 DEF SchedulerInv, MemberInv, memberVars, planVars
<1>5. StageInv'
  BY <1>1 DEF SchedulerInv, StageInv, memberVars, planVars, Failed
<1>6. Budgeted'
  BY <1>1, BudgetUntouched DEF SchedulerInv, memberVars, planVars
<1> QED
  BY <1>2, <1>3, <1>4, <1>5, <1>6 DEF SchedulerInv

LEMMA FillUnexecutedKeeps ==
  ASSUME SchedulerInv, FillUnexecuted
  PROVE  SchedulerInv'
<1>1. UNCHANGED <<phase, outcome, spent, planVars, runVars>> /\ stage = "filling"
  BY DEF FillUnexecuted
<1>2. PICK m \in Members \ delivered :
        row[m] = "pending" /\ row' = [row EXCEPT ![m] = IF aborted THEN "cancelled" ELSE "skipped"]
  BY DEF FillUnexecuted
<1>3. /\ \A n \in Members \ {m} : row'[n] = row[n]
      /\ row'[m] \in {"cancelled", "skipped"}
  BY <1>2 DEF SchedulerInv, TypeOK
<1>4. TypeOK'
  <2>1. row' \in [Members -> Outcomes \union Unfinished \union {"skipped"}]
    BY <1>2 DEF SchedulerInv, TypeOK, Outcomes
  <2> QED
    BY <1>1, <2>1 DEF SchedulerInv, TypeOK, planVars, runVars
<1>5. Placed'
  BY <1>1 DEF SchedulerInv, Placed, planVars
<1>6. phase[m] = "idle" /\ m \notin squad.reused
  BY <1>1, <1>2 DEF SchedulerInv, StageInv, MemberInv, Placed
<1>7. ASSUME NEW n \in Members PROVE MemberInv(n)'
  <2>1. MemberInv(n)
    BY DEF SchedulerInv
  <2>2. row'[n] = row[n] \/ (n = m /\ row'[n] \in {"cancelled", "skipped"})
    BY <1>3
  <2> QED
    BY <1>1, <1>6, <2>1, <2>2 DEF MemberInv, planVars, Reconsidered
<1>8. StageInv'
  BY <1>1 DEF SchedulerInv, StageInv, planVars, runVars, Failed
<1>9. Budgeted'
  BY <1>1, BudgetUntouched DEF SchedulerInv, planVars
<1> QED
  BY <1>4, <1>5, <1>7, <1>8, <1>9 DEF SchedulerInv

LEMMA DecideKeeps ==
  ASSUME SchedulerInv, Decide
  PROVE  SchedulerInv'
<1> DEFINE completed == {m \in delivered : outcome[m] = "completed"}
<1>1. /\ UNCHANGED <<memberVars, planVars, aborted, registered, status>>
      /\ stage = "filling" /\ stage' = "settling" /\ \A m \in Members \ delivered : row[m] # "pending"
  BY DEF Decide
<1>2. /\ verdict' \in {"completed", "failed", "partial", "cancelled"}
      /\ verdict' = "completed" => completed = Members
      /\ verdict' = "failed" => completed = {}
      /\ verdict' = "partial" => completed # {} 
  BY DEF Decide
<1>3. batch = {} /\ delivered \subseteq Members
  BY <1>1 DEF SchedulerInv, StageInv, TypeOK
<1>4. \A m \in Members : row[m] = "completed" <=> m \in delivered /\ outcome[m] = "completed"
  <2> TAKE m \in Members
  <2>1. MemberInv(m) /\ m \notin batch /\ squad.reused \subseteq delivered
    BY <1>3 DEF SchedulerInv, Placed
  <2> QED
    BY <2>1 DEF MemberInv
<1>5. CompletedRows = completed
  BY <1>3, <1>4 DEF CompletedRows
<1>6. \A m \in Members : row[m] \notin Unfinished
  <2> TAKE m \in Members
  <2>1. MemberInv(m) /\ m \notin batch
    BY <1>3 DEF SchedulerInv
  <2>2. m \notin delivered => row[m] # "pending"
    BY <1>1
  <2>3. m \in squad.reused => row[m] = "completed"
    BY <2>1 DEF MemberInv
  <2>4. phase[m] = "ended" => row[m] \in Outcomes
    BY <2>1 DEF MemberInv
  <2>5. phase[m] = "idle" /\ m \notin squad.reused => row[m] \notin Unfinished
    BY <2>1, <2>2 DEF MemberInv, Unfinished
  <2>6. phase[m] \in {"idle", "ended"}
    BY <2>1 DEF MemberInv
  <2> QED
    BY <2>3, <2>4, <2>5, <2>6 DEF Unfinished, Outcomes
<1>7. TypeOK'
  BY <1>1, <1>2 DEF SchedulerInv, TypeOK, memberVars, planVars
<1>8. Placed'
  BY <1>1 DEF SchedulerInv, Placed, planVars
<1>9. ASSUME NEW m \in Members PROVE MemberInv(m)'
  BY <1>1 DEF SchedulerInv, MemberInv, memberVars, planVars
<1>10. VerdictHolds'
  <2>1. CompletedRows' = CompletedRows
    BY <1>1 DEF CompletedRows, memberVars
  <2> HIDE DEF completed
  <2> QED
    BY <1>1, <1>2, <1>3, <1>5, <1>6, <2>1 DEF VerdictHolds, memberVars, planVars
<1>11. StageInv'
  BY <1>1, <1>2, <1>3, <1>10 DEF SchedulerInv, StageInv, memberVars, planVars
<1>12. Budgeted'
  BY <1>1, BudgetUntouched DEF SchedulerInv, memberVars, planVars
<1> QED
  BY <1>7, <1>8, <1>9, <1>11, <1>12 DEF SchedulerInv

LEMMA SettleKeeps ==
  ASSUME SchedulerInv, Settle
  PROVE  SchedulerInv'
<1>1. UNCHANGED <<memberVars, planVars, aborted, registered, verdict>>
      /\ stage = "settling" /\ stage' = "finally" /\ status' = verdict
  BY DEF Settle
<1>2. TypeOK' /\ verdict # "none"
  BY <1>1 DEF SchedulerInv, StageInv, TypeOK, memberVars, planVars
<1>3. Placed'
  BY <1>1 DEF SchedulerInv, Placed, planVars
<1>4. ASSUME NEW m \in Members PROVE MemberInv(m)'
  BY <1>1 DEF SchedulerInv, MemberInv, memberVars, planVars
<1>5. StageInv'
  <2>1. VerdictHolds' <=> VerdictHolds
    BY <1>1 DEF VerdictHolds, CompletedRows, memberVars, planVars
  <2> QED
    BY <1>1, <1>2, <2>1 DEF SchedulerInv, StageInv, memberVars, planVars
<1>6. Budgeted'
  BY <1>1, BudgetUntouched DEF SchedulerInv, memberVars, planVars
<1> QED
  BY <1>2, <1>3, <1>4, <1>5, <1>6 DEF SchedulerInv

LEMMA CatchKeeps ==
  ASSUME SchedulerInv, Catch
  PROVE  SchedulerInv'
<1>1. /\ UNCHANGED <<phase, outcome, spent, planVars, aborted, registered, verdict>>
      /\ stage = "catching" /\ stage' = "finally" /\ status' \in {"cancelled", "failed"}
      /\ row' = [m \in Members |-> IF row[m] \in Unfinished THEN status' ELSE row[m]]
  BY DEF Catch
<1>2. TypeOK'
  <2>1. row' \in [Members -> Outcomes \union Unfinished \union {"skipped"}]
    BY <1>1 DEF SchedulerInv, TypeOK, Outcomes
  <2> QED
    BY <1>1, <2>1 DEF SchedulerInv, TypeOK, planVars
<1>3. Placed'
  BY <1>1 DEF SchedulerInv, Placed, planVars
<1>4. ASSUME NEW m \in Members PROVE MemberInv(m)'
  <2>1. MemberInv(m)
    BY DEF SchedulerInv
  <2>2. row'[m] = row[m] \/ (row[m] \in Unfinished /\ row'[m] \in {"cancelled", "failed"})
    BY <1>1
  <2> QED
    BY <1>1, <2>1, <2>2 DEF MemberInv, planVars, Unfinished, Outcomes, Reconsidered
<1>5. StageInv'
  BY <1>1 DEF SchedulerInv, StageInv, planVars, Failed
<1>6. Budgeted'
  BY <1>1, BudgetUntouched DEF SchedulerInv, planVars
<1> QED
  BY <1>2, <1>3, <1>4, <1>5, <1>6 DEF SchedulerInv

LEMMA FinishOrCancelKeeps ==
  ASSUME SchedulerInv, Finish \/ Cancel
  PROVE  SchedulerInv'
<1>1. /\ UNCHANGED <<memberVars, planVars, verdict, status>>
      /\ \/ stage = "finally" /\ stage' = "done" /\ UNCHANGED aborted /\ registered' = FALSE
         \/ aborted' = TRUE /\ UNCHANGED <<stage, registered>>
  BY DEF Finish, Cancel
<1>2. TypeOK'
  BY <1>1 DEF SchedulerInv, TypeOK, memberVars, planVars
<1>3. Placed'
  BY <1>1 DEF SchedulerInv, Placed, planVars
<1>4. ASSUME NEW m \in Members PROVE MemberInv(m)'
  BY <1>1 DEF SchedulerInv, MemberInv, memberVars, planVars
<1>5. StageInv'
  <2>1. (VerdictHolds' <=> VerdictHolds) /\ (Failed' <=> Failed)
    BY <1>1 DEF VerdictHolds, Failed, CompletedRows, memberVars, planVars
  <2> QED
    BY <1>1, <2>1 DEF SchedulerInv, StageInv, memberVars, planVars
<1>6. Budgeted'
  BY <1>1, BudgetUntouched DEF SchedulerInv, memberVars, planVars
<1> QED
  BY <1>2, <1>3, <1>4, <1>5, <1>6 DEF SchedulerInv

LEMMA UnchangedKeeps ==
  ASSUME SchedulerInv, UNCHANGED vars
  PROVE  SchedulerInv'
<1>1. UNCHANGED <<memberVars, planVars, runVars>>
  BY DEF vars
<1>2. TypeOK'
  BY <1>1 DEF SchedulerInv, TypeOK, memberVars, planVars, runVars
<1>3. Placed'
  BY <1>1 DEF SchedulerInv, Placed, planVars
<1>4. ASSUME NEW m \in Members PROVE MemberInv(m)'
  BY <1>1 DEF SchedulerInv, MemberInv, memberVars, planVars
<1>5. StageInv'
  <2>1. (VerdictHolds' <=> VerdictHolds) /\ (Failed' <=> Failed)
    BY <1>1 DEF VerdictHolds, Failed, CompletedRows, memberVars, planVars, runVars
  <2> QED
    BY <1>1, <2>1 DEF SchedulerInv, StageInv, memberVars, planVars, runVars
<1>6. Budgeted'
  BY <1>1, BudgetUntouched DEF SchedulerInv, memberVars, planVars
<1> QED
  BY <1>2, <1>3, <1>4, <1>5, <1>6 DEF SchedulerInv

LEMMA NextKeeps ==
  ASSUME SchedulerInv, [Next]_vars
  PROVE  SchedulerInv'
<1>1. CASE Dispatch
  BY <1>1, HaltBeforeKeeps, StartBatchKeeps, CollectKeeps, RejectKeeps, FillUnexecutedKeeps, DecideKeeps,
     SettleKeeps, CatchKeeps, FinishOrCancelKeeps DEF Dispatch
<1>2. CASE \E m \in Members : Coroutine(m)
  BY <1>2, CoroutineKeeps
<1> QED
  BY <1>1, <1>2, FinishOrCancelKeeps, UnchangedKeeps DEF Next, Quiescent

\* Whatever the plan, the limits, the policy, the answers of the members and the
\* moment of a cancel: members have one place, their rows say what their
\* coroutines know, and the verdict what the rows say.
THEOREM SchedulerInvHolds == Spec => []SchedulerInv
<1>1. Init => SchedulerInv
  BY InitHolds
<1>2. SchedulerInv /\ [Next]_vars => SchedulerInv'
  BY NextKeeps
<1> QED
  BY <1>1, <1>2, PTL DEF Spec

\* Once a verdict is recorded as the status of the run, it tells the truth about
\* the members, all of which are settled; and while a member is under way a
\* cancel reaches it, unless the error of another member ended the dispatch.
THEOREM TheVerdictIsTrue == Spec => []StatusMatchesMembers
<1>1. SchedulerInv => StatusMatchesMembers
  <2> SUFFICES ASSUME SchedulerInv PROVE StatusMatchesMembers
    OBVIOUS
  <2>1. TypeOK /\ StageInv
    BY DEF SchedulerInv
  <2>2. MembersAreCancellable
    <3>1. SUFFICES ASSUME NEW m \in Members, phase[m] \notin Quiet, ~registered PROVE Failed
      BY <2>1 DEF MembersAreCancellable, Live, Failed, TypeOK
    <3>2. m \in batch
      BY <3>1 DEF SchedulerInv, MemberInv, Quiet
    <3>3. verdict = "none"
      BY <2>1, <3>2 DEF StageInv, VerdictHolds
    <3> QED
      BY <2>1, <3>1, <3>3 DEF StageInv
  <2>3. verdict # "none" /\ status = verdict => VerdictHolds
    BY <2>1 DEF StageInv
  <2> QED
    BY <2>1, <2>2, <2>3 DEF StatusMatchesMembers, VerdictHolds, CompletedRows
<1> QED
  BY <1>1, SchedulerInvHolds, PTL

\* No run overshoots its budget by more than what was under way when it ran out.
THEOREM TheBudgetIsNearlyKept == Spec => []BudgetOvershootBounded
<1>1. SchedulerInv => BudgetOvershootBounded
  <2> SUFFICES ASSUME SchedulerInv, squad.budget # NoBudget, squad.budget > 0
               PROVE  spent < squad.budget + squad.limit
    BY DEF BudgetOvershootBounded
  <2>1. spent + Cardinality(Charging(phase)) < squad.budget + squad.limit /\ squad \in Squads /\ spent \in Nat
    BY DEF SchedulerInv, Budgeted, TypeOK
  <2>2. Cardinality(Charging(phase)) \in Nat /\ squad.budget \in Nat /\ squad.limit \in Nat
    BY <2>1, ChargingType, SquadType
  <2> QED
    BY <2>1, <2>2
<1> QED
  BY <1>1, SchedulerInvHolds, PTL

\* A member is started only when every result it depends on was collected, when
\* nothing failed under "stop", when the run is not cancelled, and never beyond
\* the limit; and what completed stays completed.
THEOREM MembersStartWhenTheyMay == Spec => StartsAreAllowed
<1> DEFINE Allowed ==
      \A m \in Members :
        /\ phase[m] = "idle" /\ phase'[m] # "idle" => StartAllowed(m)
        /\ row[m] = "completed" => row'[m] = "completed"
<1>1. SchedulerInv /\ SchedulerInv' /\ [Next]_vars => Allowed \/ UNCHANGED vars
  <2> SUFFICES ASSUME SchedulerInv, SchedulerInv', Next, NEW m \in Members
               PROVE  /\ phase[m] = "idle" /\ phase'[m] # "idle" => StartAllowed(m)
                      /\ row[m] = "completed" => row'[m] = "completed"
    OBVIOUS
  <2>0. MemberInv(m) /\ TypeOK /\ StageInv /\ Placed
    BY DEF SchedulerInv
  <2>1. CASE StartBatch
    <3>1. row[m] = "completed" => row'[m] = "completed"
      <4>1. row[m] = "completed" => m \notin NextBatch \ squad.reused
        BY <2>0, <2>1, BatchesAreBounded DEF StartBatch, MemberInv, Placed, StageInv
      <4> QED
        BY <2>1, <4>1 DEF StartBatch
    <3>2. SUFFICES ASSUME phase[m] = "idle", phase'[m] # "idle" PROVE StartAllowed(m)
      BY <3>1
    <3>3. m \in batch' /\ m \in NextBatch /\ ~aborted /\ delivered' = delivered /\ batch = {} /\ squad' = squad
      BY <2>0, <2>1, <3>2 DEF StartBatch, StageInv
    <3>4. squad.deps[m] \subseteq delivered
      <4> SUFFICES ASSUME NEW d \in squad.deps[m] PROVE d \in delivered
        OBVIOUS
      <4>1. d \in Members /\ d \notin left
        BY <2>0, <3>3, BatchesAreReady
      <4>2. squad.policy = "stop" => outcome[d] = "completed"
        BY <2>1, <3>3 DEF StartBatch
      <4>3. MemberInv(d)
        BY <4>1 DEF SchedulerInv
      <4>4. CASE squad.policy = "stop"
        BY <2>0, <3>3, <4>2, <4>3, <4>4 DEF MemberInv, Placed
      <4>5. CASE squad.policy # "stop"
        BY <2>0, <3>3, <4>1, <4>5 DEF Placed
      <4> QED
        BY <4>4, <4>5
    <3>5. Cardinality(Live') <= squad.limit
      <4>1. Live' \subseteq batch'
        BY DEF Live, SchedulerInv, MemberInv, Quiet
      <4>2. Cardinality(batch') <= squad.limit /\ batch' \subseteq Members /\ squad \in Squads
        BY <2>0, <3>3 DEF SchedulerInv, Placed, TypeOK
      <4>3. IsFiniteSet(batch') /\ squad.limit \in Nat
        BY <4>2, SquadType, FS_Subset
      <4>4. IsFiniteSet(Live') /\ Cardinality(Live') <= Cardinality(batch')
        BY <4>1, <4>3, FS_Subset
      <4>5. Cardinality(Live') \in Nat /\ Cardinality(batch') \in Nat
        BY <4>3, <4>4, FS_CardinalityType
      <4> QED
        BY <4>2, <4>3, <4>4, <4>5
    <3> QED
      BY <2>0, <2>1, <3>3, <3>4, <3>5 DEF StartAllowed, StageInv, StartBatch
  <2>2. CASE \E n \in Members : Coroutine(n)
    <3>1. PICK n \in Members : Coroutine(n)
      BY <2>2
    <3>2. Elsewhere(n) /\ Moves(phase[n], phase'[n])
      BY <2>0, <3>1, CoroutineSteps
    <3>3. CASE n = m
      BY <2>0, <3>2, <3>3 DEF Moves, MemberInv
    <3>4. CASE n # m
      BY <3>2, <3>4 DEF Elsewhere
    <3> QED
      BY <3>3, <3>4
  <2>3. CASE FillUnexecuted
    BY <2>0, <2>3 DEF FillUnexecuted, TypeOK
  <2>4. CASE Catch
    BY <2>0, <2>4 DEF Catch, TypeOK, Unfinished
  <2>5. CASE HaltBefore \/ Collect \/ Reject \/ Decide \/ Settle \/ Finish \/ Cancel \/ Quiescent
    BY <2>5 DEF HaltBefore, Collect, Reject, Decide, Settle, Finish, Cancel, Quiescent, vars, memberVars
  <2> QED
    BY <2>1, <2>2, <2>3, <2>4, <2>5 DEF Next, Dispatch
<1> QED
  BY <1>1, SchedulerInvHolds, PTL DEF Spec, StartsAreAllowed
=============================================================================
