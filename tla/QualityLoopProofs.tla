------------------------- MODULE QualityLoopProofs -------------------------
(***************************************************************************)
(* Proofs about QualityLoop.  Its tokens are counted by four parties that  *)
(* agree only now and then: the children (spent), the meter of the child   *)
(* under way (used and its samples), the loop (consumed and its rounds)    *)
(* and the durable row with its live channels.  The inductive invariant    *)
(* IInv says for each stage which of them already know of which tokens:    *)
(* Meters relates the samples to the child, Listing and Following the list *)
(* of the loop and the row's, Counting and Adding the loop's count to what *)
(* was spent and to the sum over the rounds, Showing and Silence what a    *)
(* poll sees, Within the count to the budget.  Each of its parts is shown  *)
(* to survive every step in a lemma of its own.                            *)
(***************************************************************************)
EXTENDS QualityLoop, WellFoundedInduction, TLAPS

(***************************************************************************)
(* The types, and what the stage of the run says of each part of the       *)
(* state.                                                                  *)
(***************************************************************************)
Running == {"planner", "review", "repair", "draining planner", "draining review", "draining repair"}
Planning == {"starting planner", "planner", "draining planner", "planned"}
Reviewing == {"starting review", "review", "draining review", "reviewed"}
Repairing == {"starting repair", "repair", "draining repair", "repaired"}
BeforeLoop == Planning \union {"skipping", "members"}
Heading == Reviewing \union {"checking"}

Round == [approved : BOOLEAN, usage : Nat, repair : Seq(Nat)]
Results == [ok : BOOLEAN, approved : BOOLEAN, usage : Nat]
Rows == [status : {"running", "completed", "partial", "cancelled", "failed", "skipped"},
         plan : {"none", "planner", "fallback"}, planned : Nat, progress : {"none", "reviewing", "repairing"},
         round : Nat, usage : Nat, rounds : Seq(Round)]

Types ==
  /\ setting \in Settings
  /\ aborted \in BOOLEAN /\ silent \in BOOLEAN
  /\ consumed \in Nat /\ spent \in Nat /\ index \in Nat
  /\ result \in Results
  /\ rounds \in Seq(Round) /\ entry \in Round
  /\ row \in Rows

\* While the child of a kind runs or drains, only its channel shows anything,
\* and nothing that its last sample does not cover.  Once it is over, the
\* channel shows no more than its result.
Metered(kind, draining, after) ==
  /\ stage \in {kind, draining} =>
       /\ channel = kind
       /\ \A i \in 1..Len(pending) : pending[i].channel = kind /\ pending[i].usage <= last
       /\ live[kind] <= last
  /\ stage = draining => last = used - baseline
  /\ stage = after => live[kind] <= result.usage
  /\ stage \in {kind, draining, after} => \A c \in Channels \ {kind} : live[c] = 0

MeterTypes ==
  /\ channel \in Channels
  /\ used \in Nat /\ baseline \in Nat /\ last \in Nat
  /\ baseline <= used /\ used - baseline <= MaxTokens /\ last <= used - baseline
  /\ pending \in Seq([channel : Channels, usage : Nat])
  /\ live \in [Channels -> 0..MaxTokens]

Idle ==
  /\ stage \notin Running => pending = <<>>
  /\ stage \notin Running \union {"planned", "reviewed", "repaired", "failing"} => \A c \in Channels : live[c] = 0

Meters ==
  /\ MeterTypes /\ Idle
  /\ Metered("planner", "draining planner", "planned")
  /\ Metered("review", "draining review", "reviewed")
  /\ Metered("repair", "draining repair", "repaired")

(***************************************************************************)
(* The rounds: all but the last are repaired and not approved, and the     *)
(* durable row follows the list of the loop.                               *)
(***************************************************************************)
Repaired(r) == r.repair # NoRepair /\ ~r.approved

Listing ==
  /\ index \in 0..setting.maxRounds
  /\ Len(rounds) <= setting.maxRounds + 1 /\ Len(row.rounds) <= setting.maxRounds + 1
  /\ \A i \in 1..Len(rounds) : i < Len(rounds) => Repaired(rounds[i])
  /\ stage \in BeforeLoop => index = 0 /\ rounds = <<>>
  /\ stage \in Heading \union {"opening"} \union Repairing =>
       Len(rounds) = index /\ \A i \in 1..Len(rounds) : Repaired(rounds[i])
  /\ stage \in {"closing", "recording", "charging"} => Len(rounds) = index + 1
  /\ stage = "closing" => rounds[index + 1] = entry /\ entry.repair = NoRepair
  /\ stage \in {"closing", "opening"} => entry.usage = result.usage
  /\ stage \in {"opening", "recording", "charging"} \union Repairing =>
       index < setting.maxRounds /\ ~entry.approved /\ entry.repair = NoRepair
  /\ stage \in {"recording", "charging"} =>
       /\ rounds[index + 1].repair = <<result.usage>> /\ rounds[index + 1].usage = entry.usage
       /\ Repaired(rounds[index + 1])
  /\ stage \in {"synthesis", "settling"} =>
       (rounds # <<>> /\ rounds[Len(rounds)].approved =>
          rounds[Len(rounds)].repair = NoRepair /\ index = Len(rounds) - 1)

Following ==
  /\ stage = "settled" <=> row.status # "running"
  /\ stage \in Planning => row.plan = "none" /\ row.planned = 0 /\ row.usage = 0
  /\ setting.planner = "none" => row.plan = "none" /\ stage \notin Planning
  /\ stage \in BeforeLoop \union {"checking", "opening", "charging", "synthesis", "settling"} \union Reviewing =>
       row.rounds = rounds
  /\ stage = "closing" => Len(row.rounds) = index /\ \A i \in 1..index : row.rounds[i] = rounds[i]
  /\ stage \in Repairing => row.rounds = Append(rounds, entry)
  /\ stage = "recording" =>
       /\ Len(row.rounds) = index + 1 /\ row.rounds[index + 1] = entry
       /\ \A i \in 1..index : row.rounds[i] = rounds[i]
  /\ stage \in Reviewing \union {"closing", "opening"} => row.progress = "reviewing" /\ row.round = index + 1
  /\ stage \in Repairing \union {"recording"} => row.progress = "repairing" /\ row.round = index + 1
  /\ row.status = "completed" =>
       /\ setting.allCompleted
       /\ row.rounds # <<>> /\ row.rounds[Len(row.rounds)].approved
       /\ row.rounds[Len(row.rounds)].repair = NoRepair /\ index = Len(row.rounds) - 1

(***************************************************************************)
(* The tokens: what the loop knows of, what its child holds back and what  *)
(* was really spent.                                                       *)
(***************************************************************************)
Beyond == setting.before + row.planned + setting.members

Counting ==
  /\ stage = "starting planner" => spent = 0
  /\ stage \in {"planner", "draining planner"} => spent = used - baseline
  /\ stage = "planned" => spent = result.usage
  /\ stage \in {"skipping", "members"} => spent = row.planned /\ row.usage = row.planned
  /\ stage \in {"checking", "starting review", "closing", "opening", "starting repair", "synthesis", "settling"} =>
       consumed = setting.before + spent
  /\ stage \in {"review", "draining review", "repair", "draining repair"} =>
       consumed + (used - baseline) = setting.before + spent
  /\ stage \in {"reviewed", "repaired", "recording", "charging"} => consumed + result.usage = setting.before + spent
  /\ stage \in Heading \union {"closing", "opening", "recording", "charging", "synthesis", "settling"} \union Repairing =>
       row.usage <= consumed

\* Before the run settles this follows from the counts, so only its last two
\* stages have to say it.
Showing == stage \in {"failing", "settled"} => Shown <= setting.before + spent

Adding ==
  /\ stage \in Heading \union {"closing", "synthesis", "settling"} => consumed = Beyond + QualityUsage
  /\ stage \in {"opening"} \union Repairing => consumed = Beyond + QualityUsage + entry.usage
  /\ stage \in {"recording", "charging"} => consumed + result.usage = Beyond + QualityUsage
  /\ row.status \in {"completed", "partial", "skipped"} => row.usage = spent

Within == stage \in {"starting review", "opening", "starting repair"} => ~OverBudget(consumed)

(***************************************************************************)
(* The coverage: a child that ended without a sample is a zero that the    *)
(* row shows, or the result the loop is about to record.                   *)
(***************************************************************************)
Unmetered ==
  \/ row.plan # "none" /\ row.planned = 0
  \/ \E i \in 1..Len(row.rounds) : row.rounds[i].usage = 0 \/ row.rounds[i].repair = <<0>>

Unrecorded ==
  stage \in {"planned", "reviewed", "closing", "opening", "repaired", "recording"} /\ result.usage = 0

Silence ==
  /\ silent /\ stage \notin {"failing", "settled"} => Unmetered \/ Unrecorded
  /\ silent /\ row.status \in {"completed", "partial", "skipped"} => Unmetered
  /\ stage = "failing" => CoverageIsHonest

IInv == stage \in Stages /\ Types /\ Meters /\ Listing /\ Following /\ Counting /\ Showing /\ Adding /\ Within /\ Silence

-----------------------------------------------------------------------------
\* What the settings, the row and a round are, for citing.
LEMMA SettingType ==
  ASSUME Types
  PROVE  /\ setting.maxRounds \in 0..2 /\ setting.before \in Nat /\ setting.members \in Nat
         /\ setting.planner \in {"none", "routed", "unrouted"} /\ setting.allCompleted \in BOOLEAN
         /\ setting.budget \in Nat \union {NoBudget}
  BY SettingsAssumption DEF Types

LEMMA RowType ==
  ASSUME Types
  PROVE  /\ row.planned \in Nat /\ row.round \in Nat /\ row.usage \in Nat /\ row.rounds \in Seq(Round)
         /\ result.ok \in BOOLEAN /\ result.approved \in BOOLEAN /\ result.usage \in Nat
  BY DEF Types, Rows, Results

LEMMA RoundType ==
  ASSUME NEW s \in Seq(Round), NEW i \in 1..Len(s)
  PROVE  s[i] \in Round /\ s[i].approved \in BOOLEAN /\ s[i].usage \in Nat /\ s[i].repair \in Seq(Nat)
<1>1. s[i] \in Round
  OBVIOUS
<1> QED
  BY <1>1 DEF Round

\* What a round costs, and what the rounds cost together.
LEMMA CostType ==
  ASSUME NEW r \in Round
  PROVE  Cost(r) \in Nat
<1>1. r.usage \in Nat /\ r.repair \in Seq(Nat)
  BY DEF Round
<1>2. CASE r.repair = NoRepair
  BY <1>1, <1>2 DEF Cost
<1>3. CASE r.repair # NoRepair
  <2>1. 1 \in 1..Len(r.repair)
    BY <1>1, <1>3 DEF NoRepair
  <2>2. r.repair[1] \in Nat
    BY <1>1, <2>1
  <2> QED
    BY <1>1, <1>3, <2>2 DEF Cost
<1> QED
  BY <1>2, <1>3

USE DEF Running, Planning, Reviewing, Repairing, BeforeLoop, Heading, Go, loop, history, environment, meterVars

\* The costs of rounds are sums: the recursion is taken apart once, by least
\* counterexamples.
CostsTo(n, list, f) ==
  f \in [0..n -> Nat] /\ f[0] = 0 /\ \A k \in 1..n : f[k] = f[k - 1] + Cost(list[k])

LEMMA Least ==
  ASSUME NEW S \in SUBSET Nat, S # {}
  PROVE  \E x \in S : \A y \in S : x <= y
<1>1. \E x \in S : \A y \in S : <<y, x>> \notin OpToRel(<, Nat)
  BY WFMin, NatLessThanWellFounded
<1>2. \A x, y \in Nat : y < x => <<y, x>> \in OpToRel(<, Nat)
  BY DEF OpToRel
<1>3. \E x \in S : \A y \in S : ~(y < x)
  BY <1>1, <1>2, Zenon
<1> QED
  BY <1>3

\* Least counterexample: were there none up to k, the one up to k - 1 extends.
LEMMA CostsExist ==
  ASSUME NEW list \in Seq(Round), NEW n \in 0..Len(list)
  PROVE  \E f : CostsTo(n, list, f)
<1> DEFINE Missing == {k \in 0..Len(list) : \A f : ~CostsTo(k, list, f)}
<1>1. SUFFICES ASSUME Missing # {} PROVE FALSE
  BY Zenon
<1>2. Len(list) \in Nat
  OBVIOUS
<1>3. PICK k \in Missing : \A j \in Missing : k <= j
  <2>1. Missing \in SUBSET Nat
    BY <1>2
  <2> HIDE DEF Missing
  <2> QED BY <1>1, <2>1, Least
<1>4. k # 0
  <2>1. CostsTo(0, list, [i \in 0..0 |-> 0])
    BY DEF CostsTo
  <2> QED BY <2>1
<1>5. k \in 1..Len(list) /\ k - 1 \in 0..Len(list)
  BY <1>2, <1>4
<1>6. PICK f : CostsTo(k - 1, list, f)
  BY <1>3, <1>5
<1> DEFINE c == Cost(list[k])
           g == [i \in 0..k |-> IF i = k THEN f[k - 1] + c ELSE f[i]]
<1>7. f \in [0..(k - 1) -> Nat] /\ f[0] = 0 /\ (\A i \in 1..(k - 1) : f[i] = f[i - 1] + Cost(list[i]))
      /\ c \in Nat /\ f[k - 1] \in Nat
  BY <1>5, <1>6, RoundType, CostType DEF CostsTo
<1> HIDE DEF c
<1>8. g \in [0..k -> Nat] /\ g[0] = 0
  BY <1>4, <1>5, <1>7
<1>9. ASSUME NEW i \in 1..k PROVE g[i] = g[i - 1] + Cost(list[i])
  <2>1. k \in Nat /\ i \in 0..k /\ i - 1 \in 0..k /\ i - 1 # k
    BY <1>5
  <2>2. g[i - 1] = f[i - 1] /\ g[i] = IF i = k THEN f[k - 1] + c ELSE f[i]
    BY <2>1
  <2>3. i # k => i \in 1..(k - 1)
    BY <2>1
  <2> HIDE DEF g
  <2> QED
    BY <1>7, <2>2, <2>3 DEF c
<1>10. CostsTo(k, list, g)
  <2> HIDE DEF g
  <2> QED BY <1>8, <1>9 DEF CostsTo
<1> QED
  BY <1>3, <1>10

\* So the recursive function of the model is that sum.
LEMMA CostsAre ==
  ASSUME NEW list \in Seq(Round)
  PROVE  CostsTo(Len(list), list, Costs(list))
<1>1. PICK f : CostsTo(Len(list), list, f)
  BY CostsExist
<1> DEFINE Sums(g) == [n \in 0..Len(list) |-> IF n = 0 THEN 0 ELSE g[n - 1] + Cost(list[n])]
<1>2. f = Sums(f)
  BY <1>1 DEF CostsTo
<1>3. Costs(list) = CHOOSE g : g = Sums(g)
  BY DEF Costs
<1>4. Costs(list) = Sums(Costs(list))
  <2> HIDE DEF Sums
  <2> QED BY <1>2, <1>3
<1> DEFINE T == Costs(list)
           Wrong == {n \in 0..Len(list) : T[n] \notin Nat}
<1> HIDE DEF T
<1>5. T = [n \in 0..Len(list) |-> IF n = 0 THEN 0 ELSE T[n - 1] + Cost(list[n])]
  BY <1>4 DEF T
<1>6. Wrong = {}
  <2> SUFFICES ASSUME Wrong # {} PROVE FALSE
    OBVIOUS
  <2>1. PICK n \in Wrong : \A k \in Wrong : n <= k
    <3>1. Wrong \in SUBSET Nat
      OBVIOUS
    <3> HIDE DEF Wrong
    <3> QED BY <3>1, Least
  <2>2. n # 0
    BY <1>5
  <2>3. n \in 1..Len(list) /\ n \in 0..Len(list) /\ n - 1 \in 0..Len(list) /\ n - 1 \notin Wrong
    BY <2>1, <2>2
  <2>4. T[n - 1] \in Nat /\ Cost(list[n]) \in Nat
    BY <2>3, RoundType, CostType
  <2>5. T[n] = T[n - 1] + Cost(list[n])
    BY <1>5, <2>2, <2>3
  <2> QED
    BY <2>1, <2>4, <2>5
<1>7. T \in [0..Len(list) -> Nat]
  BY <1>5, <1>6
<1>8. T[0] = 0 /\ \A k \in 1..Len(list) : T[k] = T[k - 1] + Cost(list[k])
  BY <1>5
<1> QED
  BY <1>7, <1>8 DEF CostsTo, T

LEMMA CostsType ==
  ASSUME NEW list \in Seq(Round)
  PROVE  Costs(list)[Len(list)] \in Nat
<1>1. Len(list) \in 0..Len(list)
  OBVIOUS
<1> QED
  BY <1>1, CostsAre DEF CostsTo

\* One more round adds what it costs.
LEMMA CostsOneMore ==
  ASSUME NEW list \in Seq(Round), NEW r \in Round
  PROVE  Costs(Append(list, r))[Len(list) + 1] = Costs(list)[Len(list)] + Cost(r)
<1> DEFINE more == Append(list, r)
           n == Len(list)
           S == Costs(list)
           T == Costs(more)
           Wrong == {k \in 0..n : S[k] # T[k]}
<1>1. more \in Seq(Round) /\ Len(more) = n + 1 /\ n \in Nat /\ more[n + 1] = r /\ \A k \in 1..n : more[k] = list[k]
  OBVIOUS
<1> HIDE DEF more
<1>2. CostsTo(n, list, S) /\ CostsTo(n + 1, more, T)
  BY <1>1, CostsAre
<1> HIDE DEF S, T
<1>3. Wrong = {}
  <2> SUFFICES ASSUME Wrong # {} PROVE FALSE
    OBVIOUS
  <2>1. PICK k \in Wrong : \A j \in Wrong : k <= j
    <3>1. Wrong \in SUBSET Nat
      BY <1>1
    <3> HIDE DEF Wrong
    <3> QED BY <3>1, Least
  <2>2. k # 0
    BY <1>2 DEF CostsTo
  <2>3. k \in 1..n /\ k \in 1..(n + 1) /\ k - 1 \in 0..n /\ k - 1 \notin Wrong
    BY <1>1, <2>1, <2>2
  <2>4. S[k] = S[k - 1] + Cost(list[k]) /\ T[k] = T[k - 1] + Cost(more[k]) /\ more[k] = list[k]
    BY <1>1, <1>2, <2>3 DEF CostsTo
  <2> QED
    BY <2>1, <2>3, <2>4
<1>4. n \in 0..n /\ n + 1 \in 1..(n + 1) /\ (n + 1) - 1 = n
  BY <1>1
<1>5. T[n + 1] = T[n] + Cost(r)
  BY <1>1, <1>2, <1>4 DEF CostsTo
<1> QED
  BY <1>3, <1>4, <1>5 DEF S, T, more

\* Every step keeps the types.
LEMMA TypesStep ==
  ASSUME Types, last \in Nat, [Next]_vars
  PROVE  Types'
<1>1. CASE ChildStarts("starting planner", "planner")
  BY <1>1, SettingType, RowType DEF ChildStarts, StartMeter, Types, Rows, Results
<1>2. CASE ChildStarts("starting review", "review")
  BY <1>2, SettingType, RowType DEF ChildStarts, StartMeter, Types, Rows, Results
<1>3. CASE ChildStarts("starting repair", "repair")
  BY <1>3, SettingType, RowType DEF ChildStarts, StartMeter, Types, Rows, Results
<1>4. CASE ChildDenied("starting planner", "planned")
  BY <1>4, SettingType, RowType DEF ChildDenied, Result, Types, Rows, Results
<1>5. CASE ChildDenied("starting review", "reviewed")
  BY <1>5, SettingType, RowType DEF ChildDenied, Result, Types, Rows, Results
<1>6. CASE ChildDenied("starting repair", "repaired")
  BY <1>6, SettingType, RowType DEF ChildDenied, Result, Types, Rows, Results
<1>7. CASE ChildEnds("planner", "draining planner")
  <2>1. PICK ok \in BOOLEAN, approved \in BOOLEAN : result' = Result(ok, approved, 0)
    BY <1>7 DEF ChildEnds
  <2>2. result' \in Results
    BY <2>1 DEF Result, Results
  <2> QED
    BY <1>7, <2>2 DEF ChildEnds, Types
<1>8. CASE ChildEnds("review", "draining review")
  <2>1. PICK ok \in BOOLEAN, approved \in BOOLEAN : result' = Result(ok, approved, 0)
    BY <1>8 DEF ChildEnds
  <2>2. result' \in Results
    BY <2>1 DEF Result, Results
  <2> QED
    BY <1>8, <2>2 DEF ChildEnds, Types
<1>9. CASE ChildEnds("repair", "draining repair")
  <2>1. PICK ok \in BOOLEAN, approved \in BOOLEAN : result' = Result(ok, approved, 0)
    BY <1>9 DEF ChildEnds
  <2>2. result' \in Results
    BY <2>1 DEF Result, Results
  <2> QED
    BY <1>9, <2>2 DEF ChildEnds, Types
<1>10. CASE PlannerSettles
  BY <1>10, SettingType, RowType DEF PlannerSettles, Drained, Types, Rows, Results
<1>11. CASE RecordPlan
  BY <1>11, SettingType, RowType DEF RecordPlan, ClearChannel, Types, Rows, Results
<1>12. CASE SkipRun
  BY <1>12, SettingType, RowType DEF SkipRun, Types, Rows, Results
<1>13. CASE RunMembers
  <2>1. row.planned \in Nat /\ setting.members \in Nat /\ setting.before \in Nat /\ spent \in Nat
    BY SettingType, RowType DEF Types
  <2> DEFINE a == row.planned + setting.members
             b == setting.before + row.planned + setting.members
             c == spent + setting.members
  <2>2. a \in Nat /\ b \in Nat /\ c \in Nat
    BY <2>1
  <2>3. row' = [row EXCEPT !.usage = a] /\ consumed' = b /\ spent' = c
    BY <1>13 DEF RunMembers
  <2> HIDE DEF a, b, c
  <2>4. row' \in Rows
    BY <2>2, <2>3 DEF Types, Rows
  <2> QED
    BY <1>13, <2>2, <2>3, <2>4 DEF RunMembers, Types
<1>14. CASE LeaveAtHead
  BY <1>14, SettingType, RowType DEF LeaveAtHead, Types, Rows, Results
<1>15. CASE AnnounceReview
  <2> DEFINE n == index + 1
  <2>1. n \in Nat
    BY DEF Types
  <2>2. row' = [row EXCEPT !.progress = "reviewing", !.round = n, !.usage = consumed, !.rounds = rounds]
    BY <1>15 DEF AnnounceReview
  <2> HIDE DEF n
  <2>3. row' \in Rows
    BY <2>1, <2>2 DEF Types, Rows
  <2> QED
    BY <1>15, <2>3 DEF AnnounceReview, Types
<1>16. CASE ChildSettles("draining review", "reviewed")
  BY <1>16, SettingType, RowType DEF ChildSettles, Drained, Types, Rows, Results
<1>17. CASE ChildSettles("draining repair", "repaired")
  BY <1>17, SettingType, RowType DEF ChildSettles, Drained, Types, Rows, Results
<1>18. CASE ClearReview
  <2>1. Unrepaired' \in Round /\ entry' = Unrepaired' /\ Unrepaired' = Unrepaired
    BY <1>18, RowType DEF ClearReview, Unrepaired, NoRepair, Round
  <2>2. rounds' \in {rounds, Append(rounds, entry')}
    BY <1>18 DEF ClearReview
  <2>3. rounds' \in Seq(Round)
    BY <2>1, <2>2 DEF Types
  <2> QED
    BY <1>18, <2>1, <2>3, RowType DEF ClearReview, Types
<1>19. CASE CloseReview
  BY <1>19, SettingType, RowType DEF CloseReview, Types, Rows, Results
<1>20. CASE AnnounceRepair
  <2>1. Append(rounds, entry) \in Seq(Round)
    BY DEF Types
  <2>2. row' \in Rows
    BY <1>20, <2>1, RowType DEF AnnounceRepair, Types, Rows
  <2> QED
    BY <1>20, <2>2 DEF AnnounceRepair, Types
<1>21. CASE RepairRejected
  BY <1>21, SettingType, RowType DEF RepairRejected, Types, Rows, Results
<1>22. CASE ClearRepair
  <2> DEFINE r == [entry EXCEPT !.repair = <<result.usage>>]
  <2>1. r \in Round
    <3>1. <<result.usage>> \in Seq(Nat)
      BY RowType
    <3> QED
      BY <3>1 DEF Types, Round
  <2>2. rounds' = Append(rounds, r)
    BY <1>22 DEF ClearRepair
  <2> HIDE DEF r
  <2>3. rounds' \in Seq(Round)
    BY <2>1, <2>2 DEF Types
  <2> QED
    BY <1>22, <2>3 DEF ClearRepair, Types
<1>23. CASE RecordRepair
  BY <1>23, SettingType, RowType DEF RecordRepair, Types, Rows, Results
<1>24. CASE ChargeRepair
  <2>1. consumed' \in Nat /\ index' \in Nat
    BY <1>24, RowType DEF ChargeRepair, Types
  <2>2. row' \in Rows
    BY <1>24, <2>1 DEF ChargeRepair, Types, Rows
  <2> QED
    BY <1>24, <2>1, <2>2 DEF ChargeRepair, Types
<1>25. CASE Synthesize
  BY <1>25, SettingType, RowType DEF Synthesize, Types, Rows, Results
<1>26. CASE Settle
  <2>1. SettledUsage \in Nat
    <3>1. QualityUsage \in Nat
      BY CostsType DEF QualityUsage, Types
    <3> HIDE DEF SettledUsage
    <3> QED
      BY <3>1, SettingType, RowType DEF SettledUsage
  <2>2. row' \in Rows
    BY <1>26, <2>1 DEF Settle, Types, Rows
  <2> QED
    BY <1>26, <2>2 DEF Settle, Types
<1>27. CASE FailRun
  BY <1>27, SettingType, RowType DEF FailRun, Types, Rows, Results
<1>28. CASE PublicationLands
  BY <1>28, SettingType, RowType DEF PublicationLands, Land, Types, Rows, Results
<1>29. CASE ChildSpends
  BY <1>29, SettingType, RowType DEF ChildSpends, Spend, Publish, Usage, Types, Rows, Results
<1>30. CASE WriteFails
  BY <1>30, SettingType, RowType DEF WriteFails, Types, Rows, Results
<1>31. CASE PublicationFails
  BY <1>31, SettingType, RowType DEF PublicationFails, LandFails, Types, Rows, Results
<1>32. CASE Abort
  BY <1>32, SettingType, RowType DEF Abort, Types, Rows, Results
<1>33. CASE UNCHANGED vars
  BY <1>33, SettingType, RowType DEF vars, Types, Rows, Results
<1> QED
  BY <1>1, <1>2, <1>3, <1>4, <1>5, <1>6, <1>7, <1>8, <1>9, <1>10, <1>11, <1>12, <1>13, <1>14, <1>15,
     <1>16, <1>17, <1>18, <1>19, <1>20, <1>21, <1>22, <1>23, <1>24, <1>25, <1>26, <1>27, <1>28,
     <1>29, <1>30, <1>31, <1>32, <1>33
     DEF Next, Progress, PlanStep, ReviewStep, RepairStep

\* ... and goes from one known stage to another.
LEMMA StagesStep ==
  ASSUME stage \in Stages, [Next]_vars
  PROVE  (stage \in Stages)'
<1>1. CASE ChildStarts("starting planner", "planner")
  BY <1>1 DEF ChildStarts, StartMeter, Stages
<1>2. CASE ChildStarts("starting review", "review")
  BY <1>2 DEF ChildStarts, StartMeter, Stages
<1>3. CASE ChildStarts("starting repair", "repair")
  BY <1>3 DEF ChildStarts, StartMeter, Stages
<1>4. CASE ChildDenied("starting planner", "planned")
  BY <1>4 DEF ChildDenied, Result, Stages
<1>5. CASE ChildDenied("starting review", "reviewed")
  BY <1>5 DEF ChildDenied, Result, Stages
<1>6. CASE ChildDenied("starting repair", "repaired")
  BY <1>6 DEF ChildDenied, Result, Stages
<1>7. CASE ChildEnds("planner", "draining planner")
  BY <1>7 DEF ChildEnds, StopMeter, Publish, Usage, Result, Stages
<1>8. CASE ChildEnds("review", "draining review")
  BY <1>8 DEF ChildEnds, StopMeter, Publish, Usage, Result, Stages
<1>9. CASE ChildEnds("repair", "draining repair")
  BY <1>9 DEF ChildEnds, StopMeter, Publish, Usage, Result, Stages
<1>10. CASE PlannerSettles
  BY <1>10 DEF PlannerSettles, Drained, Stages
<1>11. CASE RecordPlan
  BY <1>11 DEF RecordPlan, ClearChannel, Stages
<1>12. CASE SkipRun
  BY <1>12 DEF SkipRun, Stages
<1>13. CASE RunMembers
  BY <1>13 DEF RunMembers, Stages
<1>14. CASE LeaveAtHead
  BY <1>14 DEF LeaveAtHead, Stages
<1>15. CASE AnnounceReview
  BY <1>15 DEF AnnounceReview, Stages
<1>16. CASE ChildSettles("draining review", "reviewed")
  BY <1>16 DEF ChildSettles, Drained, Stages
<1>17. CASE ChildSettles("draining repair", "repaired")
  BY <1>17 DEF ChildSettles, Drained, Stages
<1>18. CASE ClearReview
  BY <1>18 DEF ClearReview, ClearChannel, Unrepaired, LastReview, Stages
<1>19. CASE CloseReview
  BY <1>19 DEF CloseReview, Stages
<1>20. CASE AnnounceRepair
  BY <1>20 DEF AnnounceRepair, Stages
<1>21. CASE RepairRejected
  BY <1>21 DEF RepairRejected, Stages
<1>22. CASE ClearRepair
  BY <1>22 DEF ClearRepair, ClearChannel, Stages
<1>23. CASE RecordRepair
  BY <1>23 DEF RecordRepair, Stages
<1>24. CASE ChargeRepair
  BY <1>24 DEF ChargeRepair, Stages
<1>25. CASE Synthesize
  BY <1>25 DEF Synthesize, Stages
<1>26. CASE Settle
  BY <1>26 DEF Settle, Stages
<1>27. CASE FailRun
  BY <1>27 DEF FailRun, Stages
<1>28. CASE PublicationLands
  BY <1>28 DEF PublicationLands, Land, Stages
<1>29. CASE ChildSpends
  BY <1>29 DEF ChildSpends, Spend, Publish, Usage, Stages
<1>30. CASE WriteFails
  BY <1>30 DEF WriteFails, Stages
<1>31. CASE PublicationFails
  BY <1>31 DEF PublicationFails, LandFails, Stages
<1>32. CASE Abort
  BY <1>32 DEF Abort, Stages
<1>33. CASE UNCHANGED vars
  BY <1>33 DEF vars, Stages
<1> QED
  BY <1>1, <1>2, <1>3, <1>4, <1>5, <1>6, <1>7, <1>8, <1>9, <1>10, <1>11, <1>12, <1>13, <1>14, <1>15,
     <1>16, <1>17, <1>18, <1>19, <1>20, <1>21, <1>22, <1>23, <1>24, <1>25, <1>26, <1>27, <1>28,
     <1>29, <1>30, <1>31, <1>32, <1>33
     DEF Next, Progress, PlanStep, ReviewStep, RepairStep

\* What a queued publication is, and what the queue is once its first has landed.
LEMMA SampleType ==
  ASSUME NEW s \in Seq([channel : Channels, usage : Nat]), NEW i \in 1..Len(s)
  PROVE  s[i].channel \in Channels /\ s[i].usage \in Nat
<1> DEFINE Sample == [channel : Channels, usage : Nat]
<1>1. s \in Seq(Sample)
  OBVIOUS
<1> HIDE DEF Sample
<1>2. s[i] \in Sample
  BY <1>1
<1> QED
  BY <1>2 DEF Sample

LEMMA TailOf ==
  ASSUME NEW S, NEW s \in Seq(S), s # <<>>
  PROVE  /\ Tail(s) \in Seq(S) /\ Head(s) = s[1] /\ 1 \in 1..Len(s)
         /\ \A i \in 1..Len(Tail(s)) : i + 1 \in 1..Len(s) /\ Tail(s)[i] = s[i + 1]
  OBVIOUS

\* A publication says all that the child reported until then.
LEMMA PublishSays ==
  ASSUME MeterTypes, NEW p \in Nat, baseline <= p, last <= p - baseline, Publish(p),
         \A i \in 1..Len(pending) : pending[i].channel = channel /\ pending[i].usage <= last
  PROVE  /\ last' = p - baseline
         /\ pending' \in Seq([channel : Channels, usage : Nat])
         /\ \A i \in 1..Len(pending') : pending'[i].channel = channel /\ pending'[i].usage <= p - baseline
<1>1. /\ baseline \in Nat /\ last \in Nat /\ channel \in Channels /\ pending \in Seq([channel : Channels, usage : Nat])
      /\ p - baseline \in Nat /\ Usage(p) = p - baseline
  BY DEF MeterTypes, Usage
<1>2. CASE Usage(p) \in {0, last}
  <2>1. last' = last /\ pending' = pending /\ last = p - baseline
    BY <1>1, <1>2 DEF Publish
  <2> QED
    BY <1>1, <2>1
<1>3. CASE Usage(p) \notin {0, last}
  <2> DEFINE e == [channel |-> channel, usage |-> p - baseline]
  <2>1. last' = p - baseline /\ pending' = Append(pending, e)
    BY <1>1, <1>3 DEF Publish
  <2>2. e \in [channel : Channels, usage : Nat] /\ e.channel = channel /\ e.usage = p - baseline
    BY <1>1
  <2> HIDE DEF e
  <2>3. pending' \in Seq([channel : Channels, usage : Nat]) /\ Len(pending') = Len(pending) + 1
        /\ pending'[Len(pending) + 1] = e /\ \A i \in 1..Len(pending) : pending'[i] = pending[i]
    BY <1>1, <2>1, <2>2
  <2>4. ASSUME NEW i \in 1..Len(pending')
        PROVE  pending'[i].channel = channel /\ pending'[i].usage <= p - baseline
    <3>1. CASE i = Len(pending) + 1
      BY <1>1, <2>2, <2>3, <3>1
    <3>2. CASE i # Len(pending) + 1
      <4>1. i \in 1..Len(pending)
        BY <1>1, <2>3, <3>2
      <4>2. pending[i].usage \in Nat
        BY <1>1, <4>1, SampleType
      <4> QED
        BY <1>1, <2>3, <4>1, <4>2
    <3> QED
      BY <3>1, <3>2
  <2> QED
    BY <2>1, <2>3, <2>4
<1> QED
  BY <1>2, <1>3

\* The meter: every step keeps what the samples say of the child under way.
LEMMA MetersStep ==
  ASSUME stage \in Stages, Types, Meters, [Next]_vars
  PROVE  Meters'
<1>1. CASE ChildStarts("starting planner", "planner")
  <2>1. PICK h \in Nat : used' = h /\ baseline' = h
    BY <1>1, TokensAssumption DEF ChildStarts, StartMeter
  <2>2. /\ stage' = "planner" /\ channel' = "planner" /\ result' = result /\ channel' \in Channels /\ last' = 0 /\ pending' = <<>> /\ live' = live
        /\ live["planner"] = 0 /\ live["review"] = 0 /\ live["repair"] = 0
    BY <1>1 DEF ChildStarts, StartMeter, Meters, Idle, Channels
  <2>3. pending' \in Seq([channel : Channels, usage : Nat]) /\ Len(pending') = 0
    BY <2>2
  <2>4. /\ used' \in Nat /\ baseline' \in Nat /\ baseline' <= used' /\ used' - baseline' <= MaxTokens
        /\ last' \in Nat /\ last' <= used' - baseline'
    BY <2>1, <2>2, TokensAssumption
  <2>5. channel' \in Channels /\ live' \in [Channels -> 0..MaxTokens]
    BY <2>2 DEF Meters, MeterTypes
  <2>10. MeterTypes'
    BY <2>3, <2>4, <2>5 DEF MeterTypes
  <2>11. Idle'
    BY <2>2 DEF Idle, Channels
  <2>12. Metered("planner", "draining planner", "planned")'
    BY <2>2, <2>3 DEF Metered, Channels
  <2>13. Metered("review", "draining review", "reviewed")'
    BY <2>2, <2>3 DEF Metered, Channels
  <2>14. Metered("repair", "draining repair", "repaired")'
    BY <2>2, <2>3 DEF Metered, Channels
  <2> QED
    BY <2>10, <2>11, <2>12, <2>13, <2>14 DEF Meters
<1>2. CASE ChildStarts("starting review", "review")
  <2>1. PICK h \in Nat : used' = h /\ baseline' = h
    BY <1>2, TokensAssumption DEF ChildStarts, StartMeter
  <2>2. /\ stage' = "review" /\ channel' = "review" /\ result' = result /\ channel' \in Channels /\ last' = 0 /\ pending' = <<>> /\ live' = live
        /\ live["planner"] = 0 /\ live["review"] = 0 /\ live["repair"] = 0
    BY <1>2 DEF ChildStarts, StartMeter, Meters, Idle, Channels
  <2>3. pending' \in Seq([channel : Channels, usage : Nat]) /\ Len(pending') = 0
    BY <2>2
  <2>4. /\ used' \in Nat /\ baseline' \in Nat /\ baseline' <= used' /\ used' - baseline' <= MaxTokens
        /\ last' \in Nat /\ last' <= used' - baseline'
    BY <2>1, <2>2, TokensAssumption
  <2>5. channel' \in Channels /\ live' \in [Channels -> 0..MaxTokens]
    BY <2>2 DEF Meters, MeterTypes
  <2>10. MeterTypes'
    BY <2>3, <2>4, <2>5 DEF MeterTypes
  <2>11. Idle'
    BY <2>2 DEF Idle, Channels
  <2>12. Metered("planner", "draining planner", "planned")'
    BY <2>2, <2>3 DEF Metered, Channels
  <2>13. Metered("review", "draining review", "reviewed")'
    BY <2>2, <2>3 DEF Metered, Channels
  <2>14. Metered("repair", "draining repair", "repaired")'
    BY <2>2, <2>3 DEF Metered, Channels
  <2> QED
    BY <2>10, <2>11, <2>12, <2>13, <2>14 DEF Meters
<1>3. CASE ChildStarts("starting repair", "repair")
  <2>1. PICK h \in Nat : used' = h /\ baseline' = h
    BY <1>3, TokensAssumption DEF ChildStarts, StartMeter
  <2>2. /\ stage' = "repair" /\ channel' = "repair" /\ result' = result /\ channel' \in Channels /\ last' = 0 /\ pending' = <<>> /\ live' = live
        /\ live["planner"] = 0 /\ live["review"] = 0 /\ live["repair"] = 0
    BY <1>3 DEF ChildStarts, StartMeter, Meters, Idle, Channels
  <2>3. pending' \in Seq([channel : Channels, usage : Nat]) /\ Len(pending') = 0
    BY <2>2
  <2>4. /\ used' \in Nat /\ baseline' \in Nat /\ baseline' <= used' /\ used' - baseline' <= MaxTokens
        /\ last' \in Nat /\ last' <= used' - baseline'
    BY <2>1, <2>2, TokensAssumption
  <2>5. channel' \in Channels /\ live' \in [Channels -> 0..MaxTokens]
    BY <2>2 DEF Meters, MeterTypes
  <2>10. MeterTypes'
    BY <2>3, <2>4, <2>5 DEF MeterTypes
  <2>11. Idle'
    BY <2>2 DEF Idle, Channels
  <2>12. Metered("planner", "draining planner", "planned")'
    BY <2>2, <2>3 DEF Metered, Channels
  <2>13. Metered("review", "draining review", "reviewed")'
    BY <2>2, <2>3 DEF Metered, Channels
  <2>14. Metered("repair", "draining repair", "repaired")'
    BY <2>2, <2>3 DEF Metered, Channels
  <2> QED
    BY <2>10, <2>11, <2>12, <2>13, <2>14 DEF Meters
<1>4. CASE ChildDenied("starting planner", "planned")
  <2>1. /\ stage' = "planned" /\ live' = live /\ pending' = <<>> /\ pending = <<>> /\ result'.usage = 0
        /\ live["planner"] = 0 /\ live["review"] = 0 /\ live["repair"] = 0
    BY <1>4 DEF ChildDenied, Result, Meters, Idle, Channels
  <2>10. MeterTypes'
    BY <1>4 DEF ChildDenied, Meters, MeterTypes
  <2>11. Idle'
    BY <2>1 DEF Idle, Channels
  <2>12. Metered("planner", "draining planner", "planned")'
    BY <2>1 DEF Metered, Channels
  <2>13. Metered("review", "draining review", "reviewed")'
    BY <2>1 DEF Metered, Channels
  <2>14. Metered("repair", "draining repair", "repaired")'
    BY <2>1 DEF Metered, Channels
  <2> QED
    BY <2>10, <2>11, <2>12, <2>13, <2>14 DEF Meters
<1>5. CASE ChildDenied("starting review", "reviewed")
  <2>1. /\ stage' = "reviewed" /\ live' = live /\ pending' = <<>> /\ pending = <<>> /\ result'.usage = 0
        /\ live["planner"] = 0 /\ live["review"] = 0 /\ live["repair"] = 0
    BY <1>5 DEF ChildDenied, Result, Meters, Idle, Channels
  <2>10. MeterTypes'
    BY <1>5 DEF ChildDenied, Meters, MeterTypes
  <2>11. Idle'
    BY <2>1 DEF Idle, Channels
  <2>12. Metered("planner", "draining planner", "planned")'
    BY <2>1 DEF Metered, Channels
  <2>13. Metered("review", "draining review", "reviewed")'
    BY <2>1 DEF Metered, Channels
  <2>14. Metered("repair", "draining repair", "repaired")'
    BY <2>1 DEF Metered, Channels
  <2> QED
    BY <2>10, <2>11, <2>12, <2>13, <2>14 DEF Meters
<1>6. CASE ChildDenied("starting repair", "repaired")
  <2>1. /\ stage' = "repaired" /\ live' = live /\ pending' = <<>> /\ pending = <<>> /\ result'.usage = 0
        /\ live["planner"] = 0 /\ live["review"] = 0 /\ live["repair"] = 0
    BY <1>6 DEF ChildDenied, Result, Meters, Idle, Channels
  <2>10. MeterTypes'
    BY <1>6 DEF ChildDenied, Meters, MeterTypes
  <2>11. Idle'
    BY <2>1 DEF Idle, Channels
  <2>12. Metered("planner", "draining planner", "planned")'
    BY <2>1 DEF Metered, Channels
  <2>13. Metered("review", "draining review", "reviewed")'
    BY <2>1 DEF Metered, Channels
  <2>14. Metered("repair", "draining repair", "repaired")'
    BY <2>1 DEF Metered, Channels
  <2> QED
    BY <2>10, <2>11, <2>12, <2>13, <2>14 DEF Meters
<1>7. CASE ChildEnds("planner", "draining planner")
  <2>1. /\ MeterTypes /\ stage \in {"planner", "review", "repair"} /\ channel = stage
        /\ Publish(used) /\ UNCHANGED <<channel, used, baseline, live>>
        /\ (\A i \in 1..Len(pending) : pending[i].channel = channel /\ pending[i].usage <= last)
        /\ live[stage] <= last /\ \A c \in Channels \ {stage} : live[c] = 0
    BY <1>7 DEF ChildEnds, StopMeter, Meters, Metered
  <2>2. used \in Nat /\ baseline \in Nat /\ last \in Nat /\ baseline <= used /\ last <= used - baseline
        /\ live[stage] \in Nat
    BY <2>1 DEF MeterTypes, Channels
  <2>3. /\ last' = used - baseline
        /\ pending' \in Seq([channel : Channels, usage : Nat])
        /\ \A i \in 1..Len(pending') : pending'[i].channel = channel /\ pending'[i].usage <= used - baseline
    BY <2>1, <2>2, PublishSays
  <2>4. live[stage] <= used - baseline
    BY <2>1, <2>2
  <2>10. MeterTypes'
    BY <2>1, <2>2, <2>3 DEF MeterTypes
  <2>11. Idle'
    BY <1>7 DEF ChildEnds, Idle
  <2>12. Metered("planner", "draining planner", "planned")'
    BY <1>7, <2>1, <2>3, <2>4 DEF ChildEnds, Metered
  <2>13. Metered("review", "draining review", "reviewed")'
    BY <1>7, <2>1, <2>3, <2>4 DEF ChildEnds, Metered
  <2>14. Metered("repair", "draining repair", "repaired")'
    BY <1>7, <2>1, <2>3, <2>4 DEF ChildEnds, Metered
  <2> QED
    BY <2>10, <2>11, <2>12, <2>13, <2>14 DEF Meters
<1>8. CASE ChildEnds("review", "draining review")
  <2>1. /\ MeterTypes /\ stage \in {"planner", "review", "repair"} /\ channel = stage
        /\ Publish(used) /\ UNCHANGED <<channel, used, baseline, live>>
        /\ (\A i \in 1..Len(pending) : pending[i].channel = channel /\ pending[i].usage <= last)
        /\ live[stage] <= last /\ \A c \in Channels \ {stage} : live[c] = 0
    BY <1>8 DEF ChildEnds, StopMeter, Meters, Metered
  <2>2. used \in Nat /\ baseline \in Nat /\ last \in Nat /\ baseline <= used /\ last <= used - baseline
        /\ live[stage] \in Nat
    BY <2>1 DEF MeterTypes, Channels
  <2>3. /\ last' = used - baseline
        /\ pending' \in Seq([channel : Channels, usage : Nat])
        /\ \A i \in 1..Len(pending') : pending'[i].channel = channel /\ pending'[i].usage <= used - baseline
    BY <2>1, <2>2, PublishSays
  <2>4. live[stage] <= used - baseline
    BY <2>1, <2>2
  <2>10. MeterTypes'
    BY <2>1, <2>2, <2>3 DEF MeterTypes
  <2>11. Idle'
    BY <1>8 DEF ChildEnds, Idle
  <2>12. Metered("planner", "draining planner", "planned")'
    BY <1>8, <2>1, <2>3, <2>4 DEF ChildEnds, Metered
  <2>13. Metered("review", "draining review", "reviewed")'
    BY <1>8, <2>1, <2>3, <2>4 DEF ChildEnds, Metered
  <2>14. Metered("repair", "draining repair", "repaired")'
    BY <1>8, <2>1, <2>3, <2>4 DEF ChildEnds, Metered
  <2> QED
    BY <2>10, <2>11, <2>12, <2>13, <2>14 DEF Meters
<1>9. CASE ChildEnds("repair", "draining repair")
  <2>1. /\ MeterTypes /\ stage \in {"planner", "review", "repair"} /\ channel = stage
        /\ Publish(used) /\ UNCHANGED <<channel, used, baseline, live>>
        /\ (\A i \in 1..Len(pending) : pending[i].channel = channel /\ pending[i].usage <= last)
        /\ live[stage] <= last /\ \A c \in Channels \ {stage} : live[c] = 0
    BY <1>9 DEF ChildEnds, StopMeter, Meters, Metered
  <2>2. used \in Nat /\ baseline \in Nat /\ last \in Nat /\ baseline <= used /\ last <= used - baseline
        /\ live[stage] \in Nat
    BY <2>1 DEF MeterTypes, Channels
  <2>3. /\ last' = used - baseline
        /\ pending' \in Seq([channel : Channels, usage : Nat])
        /\ \A i \in 1..Len(pending') : pending'[i].channel = channel /\ pending'[i].usage <= used - baseline
    BY <2>1, <2>2, PublishSays
  <2>4. live[stage] <= used - baseline
    BY <2>1, <2>2
  <2>10. MeterTypes'
    BY <2>1, <2>2, <2>3 DEF MeterTypes
  <2>11. Idle'
    BY <1>9 DEF ChildEnds, Idle
  <2>12. Metered("planner", "draining planner", "planned")'
    BY <1>9, <2>1, <2>3, <2>4 DEF ChildEnds, Metered
  <2>13. Metered("review", "draining review", "reviewed")'
    BY <1>9, <2>1, <2>3, <2>4 DEF ChildEnds, Metered
  <2>14. Metered("repair", "draining repair", "repaired")'
    BY <1>9, <2>1, <2>3, <2>4 DEF ChildEnds, Metered
  <2> QED
    BY <2>10, <2>11, <2>12, <2>13, <2>14 DEF Meters
<1>10. CASE PlannerSettles
  <2>1. pending = <<>> /\ result'.usage = last /\ live["planner"] <= last /\ \A c \in Channels \ {"planner"} : live[c] = 0
    BY <1>10 DEF PlannerSettles, Drained, Types, Results, Meters, Metered
  <2>10. MeterTypes'
    BY <1>10 DEF PlannerSettles, Meters, MeterTypes
  <2>11. Idle'
    BY <1>10, <2>1 DEF PlannerSettles, Idle
  <2>12. Metered("planner", "draining planner", "planned")'
    BY <1>10, <2>1 DEF PlannerSettles, Metered
  <2>13. Metered("review", "draining review", "reviewed")'
    BY <1>10, <2>1 DEF PlannerSettles, Metered
  <2>14. Metered("repair", "draining repair", "repaired")'
    BY <1>10, <2>1 DEF PlannerSettles, Metered
  <2> QED
    BY <2>10, <2>11, <2>12, <2>13, <2>14 DEF Meters
<1>11. CASE RecordPlan
  BY <1>11, RowType, TokensAssumption DEF RecordPlan, ClearChannel, Meters, MeterTypes, Idle, Metered, Channels
<1>12. CASE SkipRun
  BY <1>12, RowType, TokensAssumption DEF SkipRun, Meters, MeterTypes, Idle, Metered, Channels
<1>13. CASE RunMembers
  BY <1>13, RowType, TokensAssumption DEF RunMembers, Meters, MeterTypes, Idle, Metered, Channels
<1>14. CASE LeaveAtHead
  BY <1>14, RowType, TokensAssumption DEF LeaveAtHead, Meters, MeterTypes, Idle, Metered, Channels
<1>15. CASE AnnounceReview
  BY <1>15, RowType, TokensAssumption DEF AnnounceReview, Meters, MeterTypes, Idle, Metered, Channels
<1>16. CASE ChildSettles("draining review", "reviewed")
  <2>1. pending = <<>> /\ result'.usage = last /\ live["review"] <= last /\ \A c \in Channels \ {"review"} : live[c] = 0
    BY <1>16 DEF ChildSettles, Drained, Meters, Metered
  <2>10. MeterTypes'
    BY <1>16 DEF ChildSettles, Meters, MeterTypes
  <2>11. Idle'
    BY <1>16, <2>1 DEF ChildSettles, Idle
  <2>12. Metered("planner", "draining planner", "planned")'
    BY <1>16, <2>1 DEF ChildSettles, Metered
  <2>13. Metered("review", "draining review", "reviewed")'
    BY <1>16, <2>1 DEF ChildSettles, Metered
  <2>14. Metered("repair", "draining repair", "repaired")'
    BY <1>16, <2>1 DEF ChildSettles, Metered
  <2> QED
    BY <2>10, <2>11, <2>12, <2>13, <2>14 DEF Meters
<1>17. CASE ChildSettles("draining repair", "repaired")
  <2>1. pending = <<>> /\ result'.usage = last /\ live["repair"] <= last /\ \A c \in Channels \ {"repair"} : live[c] = 0
    BY <1>17 DEF ChildSettles, Drained, Meters, Metered
  <2>10. MeterTypes'
    BY <1>17 DEF ChildSettles, Meters, MeterTypes
  <2>11. Idle'
    BY <1>17, <2>1 DEF ChildSettles, Idle
  <2>12. Metered("planner", "draining planner", "planned")'
    BY <1>17, <2>1 DEF ChildSettles, Metered
  <2>13. Metered("review", "draining review", "reviewed")'
    BY <1>17, <2>1 DEF ChildSettles, Metered
  <2>14. Metered("repair", "draining repair", "repaired")'
    BY <1>17, <2>1 DEF ChildSettles, Metered
  <2> QED
    BY <2>10, <2>11, <2>12, <2>13, <2>14 DEF Meters
<1>18. CASE ClearReview
  BY <1>18, RowType, TokensAssumption DEF ClearReview, ClearChannel, Unrepaired, LastReview, Meters, MeterTypes, Idle,
     Metered, Channels
<1>19. CASE CloseReview
  BY <1>19, RowType, TokensAssumption DEF CloseReview, Meters, MeterTypes, Idle, Metered, Channels
<1>20. CASE AnnounceRepair
  BY <1>20, RowType, TokensAssumption DEF AnnounceRepair, Meters, MeterTypes, Idle, Metered, Channels
<1>21. CASE RepairRejected
  BY <1>21, RowType, TokensAssumption DEF RepairRejected, Meters, MeterTypes, Idle, Metered, Channels
<1>22. CASE ClearRepair
  BY <1>22, RowType, TokensAssumption DEF ClearRepair, ClearChannel, Meters, MeterTypes, Idle, Metered, Channels
<1>23. CASE RecordRepair
  BY <1>23, RowType, TokensAssumption DEF RecordRepair, Meters, MeterTypes, Idle, Metered, Channels
<1>24. CASE ChargeRepair
  BY <1>24, RowType, TokensAssumption DEF ChargeRepair, Meters, MeterTypes, Idle, Metered, Channels
<1>25. CASE Synthesize
  BY <1>25, RowType, TokensAssumption DEF Synthesize, Meters, MeterTypes, Idle, Metered, Channels
<1>26. CASE Settle
  BY <1>26, RowType, TokensAssumption DEF Settle, Meters, MeterTypes, Idle, Metered, Channels
<1>27. CASE FailRun
  BY <1>27, RowType, TokensAssumption DEF FailRun, Meters, MeterTypes, Idle, Metered, Channels
<1>28. CASE PublicationLands
  <2>1. /\ MeterTypes /\ pending # <<>> /\ UNCHANGED <<channel, used, baseline, last, stage, result>>
        /\ live' = [live EXCEPT ![Head(pending).channel] = Head(pending).usage] /\ pending' = Tail(pending)
    BY <1>28 DEF PublicationLands, Land, Meters
  <2>2. /\ stage \in Running /\ channel \in {"planner", "review", "repair"}
        /\ \A i \in 1..Len(pending) : pending[i].channel = channel /\ pending[i].usage <= last
        /\ live[channel] <= last /\ (\A c \in Channels \ {channel} : live[c] = 0)
    BY <1>28, <2>1 DEF Meters, Metered, Idle
  <2>3. /\ 1 \in 1..Len(pending) /\ Head(pending) = pending[1] /\ pending[1].usage \in Nat
        /\ pending' \in Seq([channel : Channels, usage : Nat])
        /\ \A i \in 1..Len(pending') : i + 1 \in 1..Len(pending) /\ pending'[i] = pending[i + 1]
    BY <2>1, TailOf, SampleType DEF MeterTypes
  <2>4. pending[1].channel = channel /\ pending[1].usage \in Nat /\ pending[1].usage <= last
    BY <2>2, <2>3
  <2>5. live' = [live EXCEPT ![channel] = pending[1].usage]
    BY <2>1, <2>3, <2>4
  <2>6. /\ live'[channel] = pending[1].usage /\ \A c \in Channels \ {channel} : live'[c] = 0
    BY <2>1, <2>2, <2>5 DEF MeterTypes
  <2>7. pending[1].usage \in 0..MaxTokens
    BY <2>1, <2>4, TokensAssumption DEF MeterTypes
  <2>8. \A i \in 1..Len(pending') : pending'[i].channel = channel /\ pending'[i].usage <= last
    BY <2>2, <2>3
  <2>10. MeterTypes'
    BY <2>1, <2>3, <2>5, <2>7 DEF MeterTypes
  <2>11. Idle'
    BY <2>1, <2>2 DEF Idle
  <2>12. Metered("planner", "draining planner", "planned")'
    BY <2>1, <2>2, <2>4, <2>6, <2>8 DEF Meters, Metered
  <2>13. Metered("review", "draining review", "reviewed")'
    BY <2>1, <2>2, <2>4, <2>6, <2>8 DEF Meters, Metered
  <2>14. Metered("repair", "draining repair", "repaired")'
    BY <2>1, <2>2, <2>4, <2>6, <2>8 DEF Meters, Metered
  <2> QED
    BY <2>10, <2>11, <2>12, <2>13, <2>14 DEF Meters
<1>29. CASE ChildSpends
  <2>1. /\ MeterTypes /\ stage \in {"planner", "review", "repair"} /\ channel = stage
        /\ used' = used + 1 /\ used - baseline < MaxTokens /\ UNCHANGED <<channel, baseline, live, stage, result>>
        /\ (\A i \in 1..Len(pending) : pending[i].channel = channel /\ pending[i].usage <= last)
        /\ live[stage] <= last /\ \A c \in Channels \ {stage} : live[c] = 0
    BY <1>29 DEF ChildSpends, Spend, Meters, Metered, Channels
  <2>2. used \in Nat /\ baseline \in Nat /\ last \in Nat /\ baseline <= used /\ last <= used - baseline
        /\ live[stage] \in Nat /\ used + 1 \in Nat /\ baseline <= used + 1 /\ last <= (used + 1) - baseline
        /\ (used + 1) - baseline <= MaxTokens /\ pending \in Seq([channel : Channels, usage : Nat])
    BY <2>1, TokensAssumption DEF MeterTypes, Channels
  <2>3. /\ last' \in Nat /\ last' <= (used + 1) - baseline /\ last <= last'
        /\ pending' \in Seq([channel : Channels, usage : Nat])
        /\ \A i \in 1..Len(pending') : pending'[i].channel = channel /\ pending'[i].usage <= last'
    <3>1. Publish(used + 1) \/ UNCHANGED <<last, pending>>
      BY <1>29, <2>1 DEF ChildSpends, Spend
    <3>2. CASE Publish(used + 1)
      <4>1. /\ last' = (used + 1) - baseline
            /\ pending' \in Seq([channel : Channels, usage : Nat])
            /\ \A i \in 1..Len(pending') : pending'[i].channel = channel /\ pending'[i].usage <= (used + 1) - baseline
        BY <2>1, <2>2, <3>2, PublishSays
      <4> QED
        BY <2>2, <4>1
    <3>3. CASE UNCHANGED <<last, pending>>
      BY <2>1, <2>2, <3>3
    <3> QED
      BY <3>1, <3>2, <3>3
  <2>4. live[stage] <= last'
    BY <2>1, <2>2, <2>3
  <2>10. MeterTypes'
    BY <2>1, <2>2, <2>3 DEF MeterTypes
  <2>11. Idle'
    BY <2>1 DEF Idle
  <2>12. Metered("planner", "draining planner", "planned")'
    BY <1>29, <2>1, <2>3, <2>4 DEF Metered
  <2>13. Metered("review", "draining review", "reviewed")'
    BY <1>29, <2>1, <2>3, <2>4 DEF Metered
  <2>14. Metered("repair", "draining repair", "repaired")'
    BY <1>29, <2>1, <2>3, <2>4 DEF Metered
  <2> QED
    BY <2>10, <2>11, <2>12, <2>13, <2>14 DEF Meters
<1>30. CASE WriteFails
  BY <1>30, RowType, TokensAssumption DEF WriteFails, Meters, MeterTypes, Idle, Metered, Channels
<1>31. CASE PublicationFails
  <2>1. /\ MeterTypes /\ pending # <<>> /\ UNCHANGED <<channel, used, baseline, last, live, stage, result>>
        /\ pending' = Tail(pending)
    BY <1>31 DEF PublicationFails, LandFails, Meters
  <2>2. /\ stage \in Running /\ channel \in {"planner", "review", "repair"}
        /\ \A i \in 1..Len(pending) : pending[i].channel = channel /\ pending[i].usage <= last
        /\ live[channel] <= last /\ (\A c \in Channels \ {channel} : live[c] = 0)
    BY <1>31, <2>1 DEF Meters, Metered, Idle
  <2>3. /\ pending' \in Seq([channel : Channels, usage : Nat])
        /\ \A i \in 1..Len(pending') : i + 1 \in 1..Len(pending) /\ pending'[i] = pending[i + 1]
    BY <2>1, TailOf DEF MeterTypes
  <2>4. \A i \in 1..Len(pending') : pending'[i].channel = channel /\ pending'[i].usage <= last
    BY <2>2, <2>3
  <2>10. MeterTypes'
    BY <2>1, <2>3 DEF MeterTypes
  <2>11. Idle'
    BY <2>1, <2>2 DEF Idle
  <2>12. Metered("planner", "draining planner", "planned")'
    BY <2>1, <2>2, <2>4 DEF Meters, Metered
  <2>13. Metered("review", "draining review", "reviewed")'
    BY <2>1, <2>2, <2>4 DEF Meters, Metered
  <2>14. Metered("repair", "draining repair", "repaired")'
    BY <2>1, <2>2, <2>4 DEF Meters, Metered
  <2> QED
    BY <2>10, <2>11, <2>12, <2>13, <2>14 DEF Meters
<1>32. CASE Abort
  BY <1>32, RowType, TokensAssumption DEF Abort, Meters, MeterTypes, Idle, Metered, Channels
<1>33. CASE UNCHANGED vars
  BY <1>33, RowType, TokensAssumption DEF vars, Meters, MeterTypes, Idle, Metered, Channels
<1> QED
  BY <1>1, <1>2, <1>3, <1>4, <1>5, <1>6, <1>7, <1>8, <1>9, <1>10, <1>11, <1>12, <1>13, <1>14, <1>15,
     <1>16, <1>17, <1>18, <1>19, <1>20, <1>21, <1>22, <1>23, <1>24, <1>25, <1>26, <1>27, <1>28,
     <1>29, <1>30, <1>31, <1>32, <1>33
     DEF Next, Progress, PlanStep, ReviewStep, RepairStep

\* What the writes make of the row.
LEMMA RecordPlanRow ==
  ASSUME Types, RecordPlan
  PROVE  /\ row'.status = row.status /\ row'.plan = (IF result.ok THEN "planner" ELSE "fallback") /\ row'.planned = result.usage /\ row'.progress = row.progress
         /\ row'.round = row.round /\ row'.usage = result.usage /\ row'.rounds = row.rounds
  BY DEF RecordPlan, Types, Rows

LEMMA SkipRunRow ==
  ASSUME Types, SkipRun
  PROVE  /\ row'.status = "skipped" /\ row'.plan = row.plan /\ row'.planned = row.planned /\ row'.progress = row.progress
         /\ row'.round = row.round /\ row'.usage = row.planned /\ row'.rounds = row.rounds
  BY DEF SkipRun, Types, Rows

LEMMA RunMembersRow ==
  ASSUME Types, RunMembers
  PROVE  /\ row'.status = row.status /\ row'.plan = row.plan /\ row'.planned = row.planned /\ row'.progress = row.progress
         /\ row'.round = row.round /\ row'.usage = row.planned + setting.members /\ row'.rounds = row.rounds
  BY DEF RunMembers, Types, Rows

LEMMA AnnounceReviewRow ==
  ASSUME Types, AnnounceReview
  PROVE  /\ row'.status = row.status /\ row'.plan = row.plan /\ row'.planned = row.planned /\ row'.progress = "reviewing"
         /\ row'.round = index + 1 /\ row'.usage = consumed /\ row'.rounds = rounds
  BY DEF AnnounceReview, Types, Rows

LEMMA CloseReviewRow ==
  ASSUME Types, CloseReview
  PROVE  /\ row'.status = row.status /\ row'.plan = row.plan /\ row'.planned = row.planned /\ row'.progress = row.progress
         /\ row'.round = row.round /\ row'.usage = consumed /\ row'.rounds = rounds
  BY DEF CloseReview, Types, Rows

LEMMA AnnounceRepairRow ==
  ASSUME Types, AnnounceRepair
  PROVE  /\ row'.status = row.status /\ row'.plan = row.plan /\ row'.planned = row.planned /\ row'.progress = "repairing"
         /\ row'.round = row.round /\ row'.usage = consumed /\ row'.rounds = Append(rounds, entry)
<1> DEFINE list == Append(rounds, entry)
<1>1. row' = [row EXCEPT !.progress = "repairing", !.usage = consumed, !.rounds = list]
  BY DEF AnnounceRepair
<1> HIDE DEF list
<1>2. /\ row'.status = row.status /\ row'.plan = row.plan /\ row'.planned = row.planned
      /\ row'.progress = "repairing" /\ row'.round = row.round /\ row'.usage = consumed /\ row'.rounds = list
  BY <1>1 DEF Types, Rows
<1> QED
  BY <1>2 DEF list

LEMMA RecordRepairRow ==
  ASSUME Types, RecordRepair
  PROVE  /\ row'.status = row.status /\ row'.plan = row.plan /\ row'.planned = row.planned /\ row'.progress = row.progress
         /\ row'.round = row.round /\ row'.usage = row.usage /\ row'.rounds = rounds
  BY DEF RecordRepair, Types, Rows

LEMMA ChargeRepairRow ==
  ASSUME Types, ChargeRepair
  PROVE  /\ row'.status = row.status /\ row'.plan = row.plan /\ row'.planned = row.planned /\ row'.progress = row.progress
         /\ row'.round = row.round /\ row'.usage = consumed' /\ row'.rounds = row.rounds
  BY DEF ChargeRepair, Types, Rows

LEMMA FailRunRow ==
  ASSUME Types, FailRun
  PROVE  /\ row'.status = (IF aborted THEN "cancelled" ELSE "failed") /\ row'.plan = row.plan /\ row'.planned = row.planned /\ row'.progress = "none"
         /\ row'.round = 0 /\ row'.usage = row.usage /\ row'.rounds = row.rounds
  BY DEF FailRun, Types, Rows

LEMMA SettleRow ==
  ASSUME Types, Settle
  PROVE  /\ row'.status \in {"cancelled", "completed", "partial"}
         /\ row'.status = "completed" => setting.allCompleted /\ Approved
         /\ row'.plan = row.plan /\ row'.planned = row.planned /\ row'.usage = SettledUsage /\ row'.rounds = rounds
  BY DEF Settle, Types, Rows

\* What a list with one more round is.
LEMMA OneMore ==
  ASSUME NEW s \in Seq(Round), NEW r \in Round
  PROVE  /\ Append(s, r) \in Seq(Round) /\ Len(Append(s, r)) = Len(s) + 1 /\ Append(s, r)[Len(s) + 1] = r
         /\ \A i \in 1..Len(s) : Append(s, r)[i] = s[i]
  OBVIOUS

\* What the end of a review and the end of a repair add to the list.
LEMMA ClearReviewLists ==
  ASSUME Types, ClearReview
  PROVE  /\ entry' \in Round /\ entry'.approved = result.approved /\ entry'.usage = result.usage
         /\ entry'.repair = NoRepair /\ Cost(entry') = result.usage
         /\ \/ rounds' = Append(rounds, entry') /\ stage' = "closing"
            \/ rounds' = rounds /\ stage' = "opening" /\ ~LastReview(consumed')
<1>1. entry' = [approved |-> result.approved, usage |-> result.usage, repair |-> NoRepair]
  BY DEF ClearReview, Unrepaired
<1>2. entry' \in Round /\ entry'.approved = result.approved /\ entry'.usage = result.usage /\ entry'.repair = NoRepair
  BY <1>1, RowType DEF Round, NoRepair
<1>3. Cost(entry') = result.usage
  BY <1>2, RowType DEF Cost
<1> QED
  BY <1>2, <1>3 DEF ClearReview

LEMMA ClearRepairLists ==
  ASSUME Types, ClearRepair
  PROVE  \E r \in Round :
            /\ r.approved = entry.approved /\ r.usage = entry.usage /\ r.repair = <<result.usage>>
            /\ Cost(r) = entry.usage + result.usage
            /\ rounds' = Append(rounds, r)
<1> DEFINE r == [entry EXCEPT !.repair = <<result.usage>>]
<1>1. r \in Round /\ r.approved = entry.approved /\ r.usage = entry.usage /\ r.repair = <<result.usage>>
  <2>1. <<result.usage>> \in Seq(Nat)
    BY RowType
  <2> QED
    BY <2>1 DEF Types, Round
<1>2. Cost(r) = entry.usage + result.usage
  <2>1. r.repair # NoRepair /\ r.repair[1] = result.usage
    BY <1>1 DEF NoRepair
  <2> QED
    BY <1>1, <2>1 DEF Cost
<1>3. rounds' = Append(rounds, r)
  BY DEF ClearRepair
<1> QED
  BY <1>1, <1>2, <1>3

\* The list of the loop: every step keeps it, and all but its last round repaired.
LEMMA ListingStep ==
  ASSUME Types, Listing, Following, [Next]_vars
  PROVE  Listing'
<1>1. CASE ChildStarts("starting planner", "planner")
  BY <1>1, SettingType, RowType DEF ChildStarts, StartMeter, Listing, Repaired
<1>2. CASE ChildStarts("starting review", "review")
  BY <1>2, SettingType, RowType DEF ChildStarts, StartMeter, Listing, Repaired
<1>3. CASE ChildStarts("starting repair", "repair")
  BY <1>3, SettingType, RowType DEF ChildStarts, StartMeter, Listing, Repaired
<1>4. CASE ChildDenied("starting planner", "planned")
  BY <1>4, SettingType, RowType DEF ChildDenied, Result, Listing, Repaired
<1>5. CASE ChildDenied("starting review", "reviewed")
  BY <1>5, SettingType, RowType DEF ChildDenied, Result, Listing, Repaired
<1>6. CASE ChildDenied("starting repair", "repaired")
  BY <1>6, SettingType, RowType DEF ChildDenied, Result, Listing, Repaired
<1>7. CASE ChildEnds("planner", "draining planner")
  BY <1>7, SettingType, RowType DEF ChildEnds, StopMeter, Publish, Usage, Result, Listing, Repaired
<1>8. CASE ChildEnds("review", "draining review")
  BY <1>8, SettingType, RowType DEF ChildEnds, StopMeter, Publish, Usage, Result, Listing, Repaired
<1>9. CASE ChildEnds("repair", "draining repair")
  BY <1>9, SettingType, RowType DEF ChildEnds, StopMeter, Publish, Usage, Result, Listing, Repaired
<1>10. CASE PlannerSettles
  BY <1>10, SettingType, RowType DEF PlannerSettles, Drained, Listing, Repaired
<1>11. CASE RecordPlan
  BY <1>11, SettingType, RowType, RecordPlanRow DEF RecordPlan, ClearChannel, Listing, Repaired
<1>12. CASE SkipRun
  BY <1>12, SettingType, RowType, SkipRunRow DEF SkipRun, Listing, Repaired
<1>13. CASE RunMembers
  BY <1>13, SettingType, RowType, RunMembersRow DEF RunMembers, Listing, Repaired
<1>14. CASE LeaveAtHead
  BY <1>14, SettingType, RowType DEF LeaveAtHead, Listing, Repaired
<1>15. CASE AnnounceReview
  <2>1. Len(rounds) = index /\ index \in Nat /\ row'.rounds = rounds
    BY <1>15, AnnounceReviewRow DEF AnnounceReview, Listing, Types
  <2> QED
    BY <1>15, <2>1, SettingType DEF AnnounceReview, Listing
<1>16. CASE ChildSettles("draining review", "reviewed")
  BY <1>16, SettingType, RowType DEF ChildSettles, Drained, Listing, Repaired
<1>17. CASE ChildSettles("draining repair", "repaired")
  BY <1>17, SettingType, RowType DEF ChildSettles, Drained, Listing, Repaired
<1>18. CASE ClearReview
  <2>1. Len(rounds) = index /\ (\A i \in 1..Len(rounds) : Repaired(rounds[i])) /\ index \in 0..setting.maxRounds
    BY <1>18 DEF ClearReview, Listing
  <2>2. row' = row /\ index' = index /\ setting' = setting /\ result' = result
    BY <1>18 DEF ClearReview
  <2>3. CASE rounds' = Append(rounds, entry') /\ stage' = "closing"
    <3>1. Len(rounds') = index + 1 /\ rounds'[index + 1] = entry' /\ \A i \in 1..index : rounds'[i] = rounds[i]
      BY <1>18, <2>1, <2>3, ClearReviewLists, OneMore DEF Types
    <3>2. \A i \in 1..Len(rounds') : i < Len(rounds') => Repaired(rounds'[i])
      BY <2>1, <3>1
    <3>3. Len(rounds') <= setting.maxRounds + 1 /\ Len(row.rounds) <= setting.maxRounds + 1
      <4>1. setting.maxRounds \in Nat /\ index \in Nat /\ index <= setting.maxRounds
        BY <2>1, SettingType
      <4>2. Len(row.rounds) <= setting.maxRounds + 1
        BY DEF Listing
      <4> QED
        BY <3>1, <4>1, <4>2
    <3>4. entry'.repair = NoRepair /\ entry'.usage = result.usage
      BY <1>18, ClearReviewLists
    <3> QED
      BY <2>1, <2>2, <2>3, <3>1, <3>2, <3>3, <3>4 DEF Listing
  <2>4. CASE rounds' = rounds /\ stage' = "opening" /\ ~LastReview(consumed')
    <3>1. ~result.approved /\ index < setting.maxRounds
      BY <2>1, <2>4, SettingType DEF LastReview
    <3>2. entry'.approved = result.approved /\ entry'.repair = NoRepair /\ entry'.usage = result.usage
      BY <1>18, ClearReviewLists
    <3> QED
      BY <2>1, <2>2, <2>4, <3>1, <3>2 DEF Listing
  <2> QED
    BY <1>18, <2>3, <2>4, ClearReviewLists
<1>19. CASE CloseReview
  BY <1>19, SettingType, RowType, CloseReviewRow DEF CloseReview, Listing, Repaired
<1>20. CASE AnnounceRepair
  <2>1. Len(rounds) = index /\ index < setting.maxRounds /\ index \in Nat /\ setting.maxRounds \in Nat
    <3>1. stage = "opening"
      BY <1>20 DEF AnnounceRepair
    <3> QED
      BY <3>1, SettingType DEF Listing
  <2>2. rounds \in Seq(Round) /\ entry \in Round /\ row'.rounds = Append(rounds, entry)
    BY <1>20, AnnounceRepairRow DEF Types
  <2>3. Len(row'.rounds) <= setting.maxRounds + 1
    BY <2>1, <2>2, OneMore
  <2>4. /\ stage = "opening" /\ stage' = "starting repair"
        /\ UNCHANGED <<index, rounds, entry, result, setting>>
    BY <1>20 DEF AnnounceRepair
  <2> QED
    BY <2>1, <2>3, <2>4 DEF Listing
<1>21. CASE RepairRejected
  BY <1>21, SettingType, RowType DEF RepairRejected, Listing, Repaired
<1>22. CASE ClearRepair
  <2>1. /\ Len(rounds) = index /\ (\A i \in 1..Len(rounds) : Repaired(rounds[i]))
        /\ index \in 0..setting.maxRounds /\ index < setting.maxRounds /\ ~entry.approved /\ entry.repair = NoRepair
    BY <1>22 DEF ClearRepair, Listing
  <2>2. row' = row /\ index' = index /\ setting' = setting /\ result' = result /\ entry' = entry /\ stage' = "recording"
    BY <1>22 DEF ClearRepair
  <2>3. PICK r \in Round :
          /\ r.approved = entry.approved /\ r.usage = entry.usage /\ r.repair = <<result.usage>>
          /\ rounds' = Append(rounds, r)
    BY <1>22, ClearRepairLists
  <2>4. Len(rounds') = index + 1 /\ rounds'[index + 1] = r /\ \A i \in 1..index : rounds'[i] = rounds[i]
    BY <2>1, <2>3, OneMore DEF Types
  <2>5. Repaired(r)
    BY <2>1, <2>3 DEF Repaired, NoRepair
  <2>6. \A i \in 1..Len(rounds') : Repaired(rounds'[i])
    BY <2>1, <2>4, <2>5
  <2> QED
    <3>1. Len(rounds') <= setting.maxRounds + 1 /\ Len(row.rounds) <= setting.maxRounds + 1
      <4>1. setting.maxRounds \in Nat /\ index \in Nat /\ index < setting.maxRounds
        BY <2>1, SettingType
      <4>2. Len(row.rounds) <= setting.maxRounds + 1
        BY DEF Listing
      <4> QED
        BY <2>4, <4>1, <4>2
    <3>2. r.usage = entry.usage /\ r.repair = <<result.usage>>
      BY <2>3
    <3> QED
      BY <2>1, <2>2, <2>4, <2>5, <2>6, <3>1, <3>2 DEF Listing
<1>23. CASE RecordRepair
  BY <1>23, SettingType, RowType, RecordRepairRow DEF RecordRepair, Listing, Repaired
<1>24. CASE ChargeRepair
  <2>1. /\ Len(rounds) = index + 1 /\ Repaired(rounds[index + 1]) /\ index \in Nat /\ index < setting.maxRounds
        /\ \A i \in 1..Len(rounds) : i < Len(rounds) => Repaired(rounds[i])
    BY <1>24 DEF ChargeRepair, Listing
  <2>2. \A i \in 1..Len(rounds) : Repaired(rounds[i])
    BY <2>1
  <2>3. row'.rounds = row.rounds /\ rounds' = rounds /\ entry' = entry /\ result' = result /\ setting' = setting
    BY <1>24, ChargeRepairRow DEF ChargeRepair
  <2>4. \/ index' = index + 1 /\ stage' = "checking"
        \/ index' = index /\ stage' = "synthesis"
    BY <1>24 DEF ChargeRepair
  <2>5. ~rounds[Len(rounds)].approved
    BY <2>1 DEF Repaired
  <2>6. setting.maxRounds \in Nat /\ index \in Nat
    BY <2>1, SettingType
  <2>7. Len(rounds) <= setting.maxRounds + 1 /\ Len(row.rounds) <= setting.maxRounds + 1 /\ Len(rounds) \in Nat
    <3>1. Len(rounds) <= setting.maxRounds + 1 /\ Len(row.rounds) <= setting.maxRounds + 1
      BY DEF Listing
    <3> QED
      BY <3>1 DEF Types
  <2>8. CASE index' = index + 1 /\ stage' = "checking"
    <3>1. index' \in 0..setting.maxRounds
      BY <2>1, <2>6, <2>8
    <3> QED
      BY <2>1, <2>2, <2>3, <2>7, <2>8, <3>1 DEF Listing
  <2>9. CASE index' = index /\ stage' = "synthesis"
    <3>1. index' \in 0..setting.maxRounds
      BY <2>1, <2>6, <2>9
    <3> QED
      BY <2>1, <2>2, <2>3, <2>5, <2>7, <2>9, <3>1 DEF Listing
  <2> QED
    BY <2>4, <2>8, <2>9
<1>25. CASE Synthesize
  BY <1>25, SettingType, RowType DEF Synthesize, Listing, Repaired
<1>26. CASE Settle
  BY <1>26, SettingType, RowType, SettleRow DEF Settle, Listing, Repaired
<1>27. CASE FailRun
  BY <1>27, SettingType, RowType, FailRunRow DEF FailRun, Listing, Repaired
<1>28. CASE PublicationLands
  BY <1>28, SettingType, RowType DEF PublicationLands, Land, Listing, Repaired
<1>29. CASE ChildSpends
  BY <1>29, SettingType, RowType DEF ChildSpends, Spend, Publish, Usage, Listing, Repaired
<1>30. CASE WriteFails
  BY <1>30, SettingType, RowType DEF WriteFails, Listing, Repaired
<1>31. CASE PublicationFails
  BY <1>31, SettingType, RowType DEF PublicationFails, LandFails, Listing, Repaired
<1>32. CASE Abort
  BY <1>32, SettingType, RowType DEF Abort, Listing, Repaired
<1>33. CASE UNCHANGED vars
  BY <1>33, SettingType, RowType DEF vars, Listing, Repaired
<1> QED
  BY <1>1, <1>2, <1>3, <1>4, <1>5, <1>6, <1>7, <1>8, <1>9, <1>10, <1>11, <1>12, <1>13, <1>14, <1>15,
     <1>16, <1>17, <1>18, <1>19, <1>20, <1>21, <1>22, <1>23, <1>24, <1>25, <1>26, <1>27, <1>28,
     <1>29, <1>30, <1>31, <1>32, <1>33
     DEF Next, Progress, PlanStep, ReviewStep, RepairStep

\* The row: every step keeps it as far behind the list as its stage says.
LEMMA FollowingStep ==
  ASSUME Types, Listing, Following, [Next]_vars
  PROVE  Following'
<1>1. CASE ChildStarts("starting planner", "planner")
  BY <1>1, SettingType, RowType DEF ChildStarts, StartMeter, Following, Listing
<1>2. CASE ChildStarts("starting review", "review")
  BY <1>2, SettingType, RowType DEF ChildStarts, StartMeter, Following, Listing
<1>3. CASE ChildStarts("starting repair", "repair")
  BY <1>3, SettingType, RowType DEF ChildStarts, StartMeter, Following, Listing
<1>4. CASE ChildDenied("starting planner", "planned")
  BY <1>4, SettingType, RowType DEF ChildDenied, Result, Following, Listing
<1>5. CASE ChildDenied("starting review", "reviewed")
  BY <1>5, SettingType, RowType DEF ChildDenied, Result, Following, Listing
<1>6. CASE ChildDenied("starting repair", "repaired")
  BY <1>6, SettingType, RowType DEF ChildDenied, Result, Following, Listing
<1>7. CASE ChildEnds("planner", "draining planner")
  BY <1>7, SettingType, RowType DEF ChildEnds, StopMeter, Publish, Usage, Result, Following, Listing
<1>8. CASE ChildEnds("review", "draining review")
  BY <1>8, SettingType, RowType DEF ChildEnds, StopMeter, Publish, Usage, Result, Following, Listing
<1>9. CASE ChildEnds("repair", "draining repair")
  BY <1>9, SettingType, RowType DEF ChildEnds, StopMeter, Publish, Usage, Result, Following, Listing
<1>10. CASE PlannerSettles
  BY <1>10, SettingType, RowType DEF PlannerSettles, Drained, Following, Listing
<1>11. CASE RecordPlan
  BY <1>11, SettingType, RowType, RecordPlanRow DEF RecordPlan, ClearChannel, Following, Listing
<1>12. CASE SkipRun
  BY <1>12, SettingType, RowType, SkipRunRow DEF SkipRun, Following, Listing
<1>13. CASE RunMembers
  BY <1>13, SettingType, RowType, RunMembersRow DEF RunMembers, Following, Listing
<1>14. CASE LeaveAtHead
  BY <1>14, SettingType, RowType DEF LeaveAtHead, Following, Listing
<1>15. CASE AnnounceReview
  BY <1>15, SettingType, RowType, AnnounceReviewRow DEF AnnounceReview, Following, Listing
<1>16. CASE ChildSettles("draining review", "reviewed")
  BY <1>16, SettingType, RowType DEF ChildSettles, Drained, Following, Listing
<1>17. CASE ChildSettles("draining repair", "repaired")
  BY <1>17, SettingType, RowType DEF ChildSettles, Drained, Following, Listing
<1>18. CASE ClearReview
  <2>1. /\ stage = "reviewed" /\ row.rounds = rounds /\ row.status = "running" /\ row.progress = "reviewing"
        /\ row.round = index + 1 /\ Len(rounds) = index
        /\ (setting.planner = "none" => row.plan = "none") /\ UNCHANGED <<row, index, setting>>
    BY <1>18 DEF ClearReview, Following, Listing
  <2>2. CASE rounds' = Append(rounds, entry') /\ stage' = "closing"
    <3>1. \A i \in 1..index : row.rounds[i] = rounds'[i]
      BY <1>18, <2>1, <2>2, ClearReviewLists, OneMore DEF Types
    <3> QED
      BY <2>1, <2>2, <3>1 DEF Following
  <2>3. CASE rounds' = rounds /\ stage' = "opening"
    BY <2>1, <2>3 DEF Following
  <2> QED
    BY <1>18, <2>2, <2>3, ClearReviewLists
<1>19. CASE CloseReview
  BY <1>19, SettingType, RowType, CloseReviewRow DEF CloseReview, Following, Listing
<1>20. CASE AnnounceRepair
  BY <1>20, SettingType, RowType, AnnounceRepairRow DEF AnnounceRepair, Following, Listing
<1>21. CASE RepairRejected
  BY <1>21, SettingType, RowType DEF RepairRejected, Following, Listing
<1>22. CASE ClearRepair
  BY <1>22, SettingType, RowType DEF ClearRepair, ClearChannel, Following, Listing
<1>23. CASE RecordRepair
  BY <1>23, SettingType, RowType, RecordRepairRow DEF RecordRepair, Following, Listing
<1>24. CASE ChargeRepair
  BY <1>24, SettingType, RowType, ChargeRepairRow DEF ChargeRepair, Following, Listing
<1>25. CASE Synthesize
  BY <1>25, SettingType, RowType DEF Synthesize, Following, Listing
<1>26. CASE Settle
  <2>1. /\ stage' = "settled" /\ row'.rounds = rounds /\ row'.plan = row.plan
        /\ UNCHANGED <<index, rounds, entry, setting>> /\ row'.status # "running"
        /\ (setting.planner = "none" => row.plan = "none")
        /\ (rounds # <<>> /\ rounds[Len(rounds)].approved =>
               rounds[Len(rounds)].repair = NoRepair /\ index = Len(rounds) - 1)
    BY <1>26, SettleRow DEF Settle, Following, Listing
  <2>2. ASSUME row'.status = "completed"
        PROVE  setting.allCompleted /\ rounds # <<>> /\ rounds[Len(rounds)].approved
    <3>1. rounds # <<>> /\ Last(rounds).approved /\ setting.allCompleted
      BY <1>26, <2>2, SettleRow DEF Approved
    <3> QED
      BY <3>1 DEF Last
  <2> QED
    BY <2>1, <2>2 DEF Following
<1>27. CASE FailRun
  BY <1>27, SettingType, RowType, FailRunRow DEF FailRun, Following, Listing
<1>28. CASE PublicationLands
  BY <1>28, SettingType, RowType DEF PublicationLands, Land, Following, Listing
<1>29. CASE ChildSpends
  BY <1>29, SettingType, RowType DEF ChildSpends, Spend, Publish, Usage, Following, Listing
<1>30. CASE WriteFails
  BY <1>30, SettingType, RowType DEF WriteFails, Following, Listing
<1>31. CASE PublicationFails
  BY <1>31, SettingType, RowType DEF PublicationFails, LandFails, Following, Listing
<1>32. CASE Abort
  BY <1>32, SettingType, RowType DEF Abort, Following, Listing
<1>33. CASE UNCHANGED vars
  BY <1>33, SettingType, RowType DEF vars, Following, Listing
<1> QED
  BY <1>1, <1>2, <1>3, <1>4, <1>5, <1>6, <1>7, <1>8, <1>9, <1>10, <1>11, <1>12, <1>13, <1>14, <1>15,
     <1>16, <1>17, <1>18, <1>19, <1>20, <1>21, <1>22, <1>23, <1>24, <1>25, <1>26, <1>27, <1>28,
     <1>29, <1>30, <1>31, <1>32, <1>33
     DEF Next, Progress, PlanStep, ReviewStep, RepairStep

\* The arithmetic of the counts, for any numbers.
LEMMA Moving ==
  ASSUME NEW a \in Nat, NEW b \in Nat, NEW c \in Nat, NEW d \in Nat
  PROVE  /\ a + b = c + d => (a + b) + 0 = c + d
         /\ (a + b) + c = a + (b + c) /\ (a + b) + c = (a + c) + b /\ a <= a + b
         /\ a + (b + c) = d + c => a + b = d
  OBVIOUS

\* A child that starts has used nothing: its meter subtracts what it inherited.
LEMMA NothingUsed ==
  ASSUME NEW kind, StartMeter(kind)
  PROVE  used' - baseline' = 0
<1>1. PICK h \in Nat : used' = h /\ baseline' = h
  BY TokensAssumption DEF StartMeter
<1> QED
  BY <1>1

\* The count of the loop: every step keeps it apart from what was really spent by
\* what the child under way holds.
LEMMA CountingStep ==
  ASSUME Types, Meters, Counting, [Next]_vars
  PROVE  Counting'
<1>1. CASE ChildStarts("starting planner", "planner")
  <2>1. stage' = "planner" /\ spent' = 0 /\ used' - baseline' = 0 /\ UNCHANGED <<row, setting, consumed, result>>
    BY <1>1, NothingUsed DEF ChildStarts, Counting
  <2> QED
    BY <2>1 DEF Counting
<1>2. CASE ChildStarts("starting review", "review")
  <2>1. stage' = "review" /\ used' - baseline' = 0 /\ UNCHANGED <<row, setting, consumed, result, spent>>
    BY <1>2, NothingUsed DEF ChildStarts
  <2>2. consumed = setting.before + spent /\ row.usage <= consumed
    BY <1>2 DEF ChildStarts, Counting
  <2>3. consumed \in Nat /\ consumed + 0 = consumed
    BY DEF Types
  <2> QED
    BY <2>1, <2>2, <2>3 DEF Counting
<1>3. CASE ChildStarts("starting repair", "repair")
  <2>1. stage' = "repair" /\ used' - baseline' = 0 /\ UNCHANGED <<row, setting, consumed, result, spent>>
    BY <1>3, NothingUsed DEF ChildStarts
  <2>2. consumed = setting.before + spent /\ row.usage <= consumed
    BY <1>3 DEF ChildStarts, Counting
  <2>3. consumed \in Nat /\ consumed + 0 = consumed
    BY DEF Types
  <2> QED
    BY <2>1, <2>2, <2>3 DEF Counting
<1>4. CASE ChildDenied("starting planner", "planned")
  BY <1>4, SettingType, RowType DEF ChildDenied, Result, Counting, Meters, MeterTypes, Idle, Metered, Channels
<1>5. CASE ChildDenied("starting review", "reviewed")
  <2>1. stage' = "reviewed" /\ result'.usage = 0 /\ UNCHANGED <<row, setting, consumed, spent>>
    BY <1>5 DEF ChildDenied, Result
  <2>2. consumed = setting.before + spent /\ row.usage <= consumed
    BY <1>5 DEF ChildDenied, Counting
  <2>3. consumed \in Nat /\ consumed + 0 = consumed
    BY DEF Types
  <2> QED
    BY <2>1, <2>2, <2>3 DEF Counting
<1>6. CASE ChildDenied("starting repair", "repaired")
  <2>1. stage' = "repaired" /\ result'.usage = 0 /\ UNCHANGED <<row, setting, consumed, spent>>
    BY <1>6 DEF ChildDenied, Result
  <2>2. consumed = setting.before + spent /\ row.usage <= consumed
    BY <1>6 DEF ChildDenied, Counting
  <2>3. consumed \in Nat /\ consumed + 0 = consumed
    BY DEF Types
  <2> QED
    BY <2>1, <2>2, <2>3 DEF Counting
<1>7. CASE ChildEnds("planner", "draining planner")
  BY <1>7, SettingType, RowType DEF ChildEnds, StopMeter, Publish, Usage, Result, Counting, Meters, MeterTypes, Idle,
     Metered, Channels
<1>8. CASE ChildEnds("review", "draining review")
  BY <1>8, SettingType, RowType DEF ChildEnds, StopMeter, Publish, Usage, Result, Counting, Meters, MeterTypes, Idle,
     Metered, Channels
<1>9. CASE ChildEnds("repair", "draining repair")
  BY <1>9, SettingType, RowType DEF ChildEnds, StopMeter, Publish, Usage, Result, Counting, Meters, MeterTypes, Idle,
     Metered, Channels
<1>10. CASE PlannerSettles
  <2>1. stage' = "planned" /\ result'.usage = used - baseline /\ UNCHANGED <<row, setting, consumed, spent>>
    BY <1>10 DEF PlannerSettles, Types, Results, Meters, Metered
  <2>2. spent = used - baseline
    BY <1>10 DEF PlannerSettles, Counting
  <2> QED
    BY <2>1, <2>2 DEF Counting
<1>11. CASE RecordPlan
  <2>1. /\ stage' \in {"members", "skipping"} /\ row'.planned = result.usage /\ row'.usage = result.usage
        /\ spent' = result.usage
    BY <1>11, RecordPlanRow DEF RecordPlan, Counting
  <2> QED
    BY <2>1 DEF Counting
<1>12. CASE SkipRun
  <2>1. stage' = "settled"
    BY <1>12 DEF SkipRun
  <2> QED
    BY <2>1 DEF Counting
<1>13. CASE RunMembers
  <2> DEFINE p == row.planned
             m == setting.members
             b == setting.before
  <2>1. /\ stage' = "checking" /\ spent' = p + m /\ row'.usage = p + m /\ consumed' = b + p + m /\ setting' = setting
    BY <1>13, RunMembersRow DEF RunMembers, Counting
  <2>2. p \in Nat /\ m \in Nat /\ b \in Nat
    BY SettingType, RowType
  <2> HIDE DEF p, m, b
  <2>3. consumed' = b + spent' /\ row'.usage <= consumed'
    BY <2>1, <2>2
  <2> QED
    BY <2>1, <2>3 DEF Counting, b
<1>14. CASE LeaveAtHead
  BY <1>14, SettingType, RowType DEF LeaveAtHead, Counting, Meters, MeterTypes, Idle, Metered, Channels
<1>15. CASE AnnounceReview
  <2>1. stage' = "starting review" /\ row'.usage = consumed /\ UNCHANGED <<setting, consumed, spent>>
    BY <1>15, AnnounceReviewRow DEF AnnounceReview
  <2>2. consumed = setting.before + spent
    BY <1>15 DEF AnnounceReview, Counting
  <2>3. row'.usage <= consumed'
    <3>1. consumed \in Nat
      BY DEF Types
    <3>2. consumed <= consumed
      BY <3>1
    <3>3. row'.usage = consumed /\ consumed' = consumed
      BY <2>1
    <3> QED
      BY <3>2, <3>3
  <2> QED
    BY <2>1, <2>2, <2>3 DEF Counting
<1>16. CASE ChildSettles("draining review", "reviewed")
  <2>1. stage' = "reviewed" /\ result'.usage = used - baseline /\ UNCHANGED <<row, setting, consumed, spent>>
    BY <1>16 DEF ChildSettles, Meters, Metered
  <2>2. consumed + (used - baseline) = setting.before + spent /\ row.usage <= consumed
    BY <1>16 DEF ChildSettles, Counting
  <2> QED
    BY <2>1, <2>2 DEF Counting
<1>17. CASE ChildSettles("draining repair", "repaired")
  <2>1. stage' = "repaired" /\ result'.usage = used - baseline /\ UNCHANGED <<row, setting, consumed, spent>>
    BY <1>17 DEF ChildSettles, Meters, Metered
  <2>2. consumed + (used - baseline) = setting.before + spent /\ row.usage <= consumed
    BY <1>17 DEF ChildSettles, Counting
  <2> QED
    BY <2>1, <2>2 DEF Counting
<1>18. CASE ClearReview
  <2>1. /\ consumed' = consumed + result.usage /\ UNCHANGED <<setting, row, spent>>
        /\ stage' \in {"closing", "opening"}
    BY <1>18, ClearReviewLists DEF ClearReview
  <2>2. consumed + result.usage = setting.before + spent /\ row.usage <= consumed
    BY <1>18 DEF ClearReview, Counting
  <2>3. row.usage <= consumed + result.usage
    <3>1. row.usage \in Nat /\ consumed \in Nat /\ result.usage \in Nat
      BY RowType DEF Types
    <3> QED
      BY <2>2, <3>1
  <2> QED
    BY <2>1, <2>2, <2>3 DEF Counting
<1>19. CASE CloseReview
  <2>1. stage' = "synthesis" /\ row'.usage = consumed /\ UNCHANGED <<setting, consumed, spent>>
    BY <1>19, CloseReviewRow DEF CloseReview
  <2>2. consumed = setting.before + spent
    BY <1>19 DEF CloseReview, Counting
  <2>3. row'.usage <= consumed'
    <3>1. consumed \in Nat
      BY DEF Types
    <3>2. consumed <= consumed
      BY <3>1
    <3>3. row'.usage = consumed /\ consumed' = consumed
      BY <2>1
    <3> QED
      BY <3>2, <3>3
  <2> QED
    BY <2>1, <2>2, <2>3 DEF Counting
<1>20. CASE AnnounceRepair
  <2>1. stage' = "starting repair" /\ row'.usage = consumed /\ UNCHANGED <<setting, consumed, spent>>
    BY <1>20, AnnounceRepairRow DEF AnnounceRepair
  <2>2. consumed = setting.before + spent
    BY <1>20 DEF AnnounceRepair, Counting
  <2>3. row'.usage <= consumed'
    <3>1. consumed \in Nat
      BY DEF Types
    <3>2. consumed <= consumed
      BY <3>1
    <3>3. row'.usage = consumed /\ consumed' = consumed
      BY <2>1
    <3> QED
      BY <3>2, <3>3
  <2> QED
    BY <2>1, <2>2, <2>3 DEF Counting
<1>21. CASE RepairRejected
  BY <1>21, SettingType, RowType DEF RepairRejected, Counting, Meters, MeterTypes, Idle, Metered, Channels
<1>22. CASE ClearRepair
  <2>1. stage' = "recording" /\ UNCHANGED <<setting, row, spent, consumed, result>>
    BY <1>22 DEF ClearRepair
  <2>2. consumed + result.usage = setting.before + spent /\ row.usage <= consumed
    BY <1>22 DEF ClearRepair, Counting
  <2> QED
    BY <2>1, <2>2 DEF Counting
<1>23. CASE RecordRepair
  <2>1. stage' = "charging" /\ row'.usage = row.usage /\ UNCHANGED <<setting, spent, consumed, result>>
    BY <1>23, RecordRepairRow DEF RecordRepair
  <2>2. consumed + result.usage = setting.before + spent /\ row.usage <= consumed
    BY <1>23 DEF RecordRepair, Counting
  <2> QED
    BY <2>1, <2>2 DEF Counting
<1>24. CASE ChargeRepair
  <2>1. /\ consumed' = consumed + result.usage /\ UNCHANGED <<setting, spent>> /\ row'.usage = consumed'
        /\ stage' \in {"checking", "synthesis"}
    BY <1>24, ChargeRepairRow DEF ChargeRepair
  <2>2. consumed + result.usage = setting.before + spent
    BY <1>24 DEF ChargeRepair, Counting
  <2>3. row'.usage <= consumed'
    <3>1. consumed' \in Nat
      BY <2>1, RowType DEF Types
    <3> QED
      BY <2>1, <3>1
  <2> QED
    BY <2>1, <2>2, <2>3 DEF Counting
<1>25. CASE Synthesize
  BY <1>25, SettingType, RowType DEF Synthesize, Counting, Meters, MeterTypes, Idle, Metered, Channels
<1>26. CASE Settle
  <2>1. stage' = "settled"
    BY <1>26 DEF Settle
  <2> QED
    BY <2>1 DEF Counting
<1>27. CASE FailRun
  <2>1. stage' = "settled"
    BY <1>27 DEF FailRun
  <2> QED
    BY <2>1 DEF Counting
<1>28. CASE PublicationLands
  <2>1. UNCHANGED <<setting, stage, consumed, row, spent, result, used, baseline>>
    BY <1>28 DEF PublicationLands, Land
  <2> QED
    BY <2>1 DEF Counting
<1>29. CASE ChildSpends
  <2>1. /\ stage \in {"planner", "review", "repair"} /\ used' = used + 1 /\ spent' = spent + 1
        /\ UNCHANGED <<setting, stage, consumed, row, result, baseline>>
    BY <1>29 DEF ChildSpends, Spend, Channels
  <2>2. /\ used \in Nat /\ baseline \in Nat /\ spent \in Nat /\ consumed \in Nat /\ setting.before \in Nat
    BY SettingType DEF Meters, MeterTypes, Types
  <2>3. stage = "planner" => spent' = used' - baseline'
    BY <2>1, <2>2 DEF Counting
  <2>4. stage # "planner" => consumed + (used - baseline) = setting.before + spent
    BY <2>1 DEF Counting
  <2> DEFINE b == setting.before
  <2>5. b \in Nat /\ (stage # "planner" => consumed + (used - baseline) = b + spent)
    BY <2>2, <2>4
  <2> HIDE DEF b
  <2>6. stage # "planner" => consumed + (used' - baseline') = b + spent'
    BY <2>1, <2>2, <2>5
  <2>7. stage # "planner" => row.usage <= consumed
    BY <2>1 DEF Counting
  <2> QED
    BY <2>1, <2>3, <2>6, <2>7 DEF Counting, b
<1>30. CASE WriteFails
  <2>1. stage' = "failing"
    BY <1>30 DEF WriteFails
  <2> QED
    BY <2>1 DEF Counting
<1>31. CASE PublicationFails
  <2>1. UNCHANGED <<setting, stage, consumed, row, spent, result, used, baseline>>
    BY <1>31 DEF PublicationFails, LandFails
  <2> QED
    BY <2>1 DEF Counting
<1>32. CASE Abort
  <2>1. UNCHANGED <<setting, stage, consumed, row, spent, result, used, baseline>>
    BY <1>32 DEF Abort
  <2> QED
    BY <2>1 DEF Counting
<1>33. CASE UNCHANGED vars
  BY <1>33, SettingType, RowType DEF vars, Counting, Meters, MeterTypes, Idle, Metered, Channels
<1> QED
  BY <1>1, <1>2, <1>3, <1>4, <1>5, <1>6, <1>7, <1>8, <1>9, <1>10, <1>11, <1>12, <1>13, <1>14, <1>15,
     <1>16, <1>17, <1>18, <1>19, <1>20, <1>21, <1>22, <1>23, <1>24, <1>25, <1>26, <1>27, <1>28,
     <1>29, <1>30, <1>31, <1>32, <1>33
     DEF Next, Progress, PlanStep, ReviewStep, RepairStep

\* Until the run settles, the row and the live channels show no more than what
\* was spent.
LEMMA ShownIsSpent ==
  ASSUME stage \in Stages, Types, Meters, Following, Counting, Showing
  PROVE  Shown <= setting.before + spent
<1> DEFINE u == row.usage
           p == live["planner"]
           v == live["review"]
           r == live["repair"]
           b == setting.before
           d == used - baseline
           g == result.usage
<1>1. /\ u \in Nat /\ p \in Nat /\ v \in Nat /\ r \in Nat /\ b \in Nat /\ d \in Nat /\ g \in Nat
      /\ consumed \in Nat /\ spent \in Nat /\ last \in Nat /\ last <= d
  <2>1. u \in Nat /\ g \in Nat /\ b \in Nat /\ consumed \in Nat /\ spent \in Nat
    BY SettingType, RowType DEF Types
  <2>2. MeterTypes
    BY DEF Meters
  <2>3. d \in Nat /\ last \in Nat /\ last <= d
    BY <2>2 DEF MeterTypes
  <2>4. p \in Nat /\ v \in Nat /\ r \in Nat
    BY <2>2, TokensAssumption DEF MeterTypes, Channels
  <2> QED
    BY <2>1, <2>3, <2>4
<1>2. Shown = u + p + v + r
  BY DEF Shown
<1>3. CASE stage \in {"planner", "draining planner", "planned"}
  <2>1. u = 0 /\ v = 0 /\ r = 0 /\ ((p <= last /\ spent = d) \/ (p <= g /\ spent = g))
    BY <1>3 DEF Meters, Metered, Following, Counting, Channels
  <2> HIDE DEF u, p, v, r, b, d, g
  <2> QED
    BY <1>1, <1>2, <2>1 DEF b
<1>4. CASE stage \in {"review", "draining review", "reviewed"}
  <2>1. u <= consumed /\ p = 0 /\ r = 0 /\ ((v <= last /\ consumed + d = b + spent) \/ (v <= g /\ consumed + g = b + spent))
    BY <1>4 DEF Meters, Metered, Counting, Channels
  <2> HIDE DEF u, p, v, r, b, d, g
  <2> QED
    BY <1>1, <1>2, <2>1 DEF b
<1>5. CASE stage \in {"repair", "draining repair", "repaired"}
  <2>1. u <= consumed /\ p = 0 /\ v = 0 /\ ((r <= last /\ consumed + d = b + spent) \/ (r <= g /\ consumed + g = b + spent))
    BY <1>5 DEF Meters, Metered, Counting, Channels
  <2> HIDE DEF u, p, v, r, b, d, g
  <2> QED
    BY <1>1, <1>2, <2>1 DEF b
<1>6. CASE stage \in {"starting planner", "skipping", "members"}
  <2>1. p = 0 /\ v = 0 /\ r = 0
    BY <1>6 DEF Meters, Idle, Channels
  <2>2. u = 0 \/ u = spent
    BY <1>6 DEF Following, Counting
  <2> HIDE DEF u, p, v, r, b, d, g
  <2> QED
    BY <1>1, <1>2, <2>1, <2>2 DEF b
<1>7. CASE stage \in {"checking", "starting review", "closing", "opening", "starting repair", "synthesis", "settling",
                     "recording", "charging"}
  <2>1. p = 0 /\ v = 0 /\ r = 0
    BY <1>7 DEF Meters, Idle, Channels
  <2>2. u <= consumed /\ (consumed = b + spent \/ consumed + g = b + spent)
    BY <1>7 DEF Counting
  <2> HIDE DEF u, p, v, r, b, d, g
  <2> QED
    BY <1>1, <1>2, <2>1, <2>2 DEF b
<1>8. CASE stage \in {"failing", "settled"}
  BY <1>8 DEF Showing
<1> QED
  BY <1>3, <1>4, <1>5, <1>6, <1>7, <1>8 DEF Stages

\* The sum that settles the row is what was spent.
LEMMA SettledIsSpent ==
  ASSUME Types, Counting, Adding, stage = "settling"
  PROVE  SettledUsage = spent
<1> DEFINE b == setting.before
           p == row.planned
           m == setting.members
           q == QualityUsage
<1>1. b \in Nat /\ p \in Nat /\ m \in Nat /\ q \in Nat /\ spent \in Nat /\ consumed \in Nat
  BY SettingType, RowType, CostsType DEF Types, QualityUsage
<1>2. consumed = b + spent
  BY DEF Counting
<1>3. consumed = b + p + m + q
  BY DEF Adding, Beyond
<1>4. SettledUsage = p + m + q
  BY DEF SettledUsage
<1> HIDE DEF b, p, m, q
<1> QED
  BY <1>1, <1>2, <1>3, <1>4

\* The row of a run that fails: every step keeps what it shows within what was spent.
LEMMA ShowingStep ==
  ASSUME stage \in Stages, Types, Meters, Following, Counting, Adding, Showing, [Next]_vars
  PROVE  Showing'
<1>1. CASE ChildStarts("starting planner", "planner")
  BY <1>1 DEF ChildStarts, StartMeter, Showing, Shown
<1>2. CASE ChildStarts("starting review", "review")
  BY <1>2 DEF ChildStarts, StartMeter, Showing, Shown
<1>3. CASE ChildStarts("starting repair", "repair")
  BY <1>3 DEF ChildStarts, StartMeter, Showing, Shown
<1>4. CASE ChildDenied("starting planner", "planned")
  BY <1>4 DEF ChildDenied, Result, Showing, Shown
<1>5. CASE ChildDenied("starting review", "reviewed")
  BY <1>5 DEF ChildDenied, Result, Showing, Shown
<1>6. CASE ChildDenied("starting repair", "repaired")
  BY <1>6 DEF ChildDenied, Result, Showing, Shown
<1>7. CASE ChildEnds("planner", "draining planner")
  BY <1>7 DEF ChildEnds, StopMeter, Publish, Usage, Result, Showing, Shown
<1>8. CASE ChildEnds("review", "draining review")
  BY <1>8 DEF ChildEnds, StopMeter, Publish, Usage, Result, Showing, Shown
<1>9. CASE ChildEnds("repair", "draining repair")
  BY <1>9 DEF ChildEnds, StopMeter, Publish, Usage, Result, Showing, Shown
<1>10. CASE PlannerSettles
  BY <1>10 DEF PlannerSettles, Drained, Showing, Shown
<1>11. CASE RecordPlan
  <2>1. stage' \notin {"failing", "settled"}
    BY <1>11 DEF RecordPlan
  <2> QED
    BY <2>1 DEF Showing
<1>12. CASE SkipRun
  <2>1. row'.usage = spent /\ live' = live /\ setting' = setting /\ spent' = spent
    BY <1>12, SkipRunRow DEF SkipRun, Counting
  <2>2. live["planner"] = 0 /\ live["review"] = 0 /\ live["repair"] = 0
    BY <1>12 DEF SkipRun, Meters, Idle, Channels
  <2>3. spent \in Nat /\ setting.before \in Nat
    BY SettingType DEF Types
  <2>4. Shown' = spent + 0 + 0 + 0
    BY <2>1, <2>2 DEF Shown
  <2> QED
    BY <2>1, <2>3, <2>4 DEF Showing
<1>13. CASE RunMembers
  <2>1. stage' \notin {"failing", "settled"}
    BY <1>13 DEF RunMembers
  <2> QED
    BY <2>1 DEF Showing
<1>14. CASE LeaveAtHead
  BY <1>14 DEF LeaveAtHead, Showing, Shown
<1>15. CASE AnnounceReview
  <2>1. stage' \notin {"failing", "settled"}
    BY <1>15 DEF AnnounceReview
  <2> QED
    BY <2>1 DEF Showing
<1>16. CASE ChildSettles("draining review", "reviewed")
  BY <1>16 DEF ChildSettles, Drained, Showing, Shown
<1>17. CASE ChildSettles("draining repair", "repaired")
  BY <1>17 DEF ChildSettles, Drained, Showing, Shown
<1>18. CASE ClearReview
  <2>1. stage' \notin {"failing", "settled"}
    BY <1>18 DEF ClearReview
  <2> QED
    BY <2>1 DEF Showing
<1>19. CASE CloseReview
  <2>1. stage' \notin {"failing", "settled"}
    BY <1>19 DEF CloseReview
  <2> QED
    BY <2>1 DEF Showing
<1>20. CASE AnnounceRepair
  <2>1. stage' \notin {"failing", "settled"}
    BY <1>20 DEF AnnounceRepair
  <2> QED
    BY <2>1 DEF Showing
<1>21. CASE RepairRejected
  <2>1. Shown <= setting.before + spent /\ UNCHANGED <<row, live, setting, spent>>
    BY <1>21, ShownIsSpent DEF RepairRejected
  <2> QED
    BY <2>1 DEF Showing, Shown
<1>22. CASE ClearRepair
  <2>1. stage' \notin {"failing", "settled"}
    BY <1>22 DEF ClearRepair
  <2> QED
    BY <2>1 DEF Showing
<1>23. CASE RecordRepair
  <2>1. stage' \notin {"failing", "settled"}
    BY <1>23 DEF RecordRepair
  <2> QED
    BY <2>1 DEF Showing
<1>24. CASE ChargeRepair
  <2>1. stage' \notin {"failing", "settled"}
    BY <1>24 DEF ChargeRepair
  <2> QED
    BY <2>1 DEF Showing
<1>25. CASE Synthesize
  BY <1>25 DEF Synthesize, Showing, Shown
<1>26. CASE Settle
  <2>1. row'.usage = SettledUsage /\ setting' = setting /\ spent' = spent
        /\ live' = [c \in Channels |-> 0]
    BY <1>26, SettleRow DEF Settle
  <2>2. SettledUsage = spent
    BY <1>26, SettledIsSpent DEF Settle
  <2>3. spent \in Nat /\ setting.before \in Nat
    BY SettingType DEF Types
  <2>4. Shown' = spent + 0 + 0 + 0
    BY <2>1, <2>2 DEF Shown, Channels
  <2> QED
    BY <2>1, <2>3, <2>4 DEF Showing
<1>27. CASE FailRun
  <2>1. row'.usage = row.usage /\ setting' = setting /\ spent' = spent
        /\ live' = [c \in Channels |-> 0]
    BY <1>27, FailRunRow DEF FailRun
  <2> DEFINE p == live["planner"]
             v == live["review"]
             r == live["repair"]
             u == row.usage
             t == setting.before + spent
  <2>2. p \in Nat /\ v \in Nat /\ r \in Nat /\ u \in Nat /\ t \in Nat
    <3>1. MeterTypes
      BY DEF Meters
    <3>2. p \in Nat /\ v \in Nat /\ r \in Nat
      BY <3>1, TokensAssumption DEF MeterTypes, Channels
    <3> QED
      BY <3>2, SettingType, RowType DEF Types
  <2>3. u + p + v + r <= t
    BY <1>27 DEF FailRun, Showing, Shown
  <2>4. Shown' = u + 0 + 0 + 0 /\ t' = t
    BY <2>1 DEF Shown, Channels
  <2> HIDE DEF p, v, r, u
  <2>5. u + 0 + 0 + 0 <= t
    <3> HIDE DEF t
    <3> QED BY <2>2, <2>3
  <2>6. Shown' <= (setting.before + spent)'
    BY <2>4, <2>5
  <2> QED
    BY <2>6 DEF Showing
<1>28. CASE PublicationLands
  <2>1. stage \notin {"failing", "settled"} /\ stage' = stage
    BY <1>28 DEF PublicationLands, Land, Meters, Idle
  <2> QED
    BY <2>1 DEF Showing
<1>29. CASE ChildSpends
  <2>1. stage \notin {"failing", "settled"} /\ stage' = stage
    BY <1>29 DEF ChildSpends, Channels
  <2> QED
    BY <2>1 DEF Showing
<1>30. CASE WriteFails
  <2>1. Shown <= setting.before + spent /\ UNCHANGED <<row, live, setting, spent>>
    BY <1>30, ShownIsSpent DEF WriteFails
  <2> QED
    BY <2>1 DEF Showing, Shown
<1>31. CASE PublicationFails
  BY <1>31 DEF PublicationFails, LandFails, Showing, Shown
<1>32. CASE Abort
  BY <1>32 DEF Abort, Showing, Shown
<1>33. CASE UNCHANGED vars
  BY <1>33 DEF vars, Showing, Shown
<1> QED
  BY <1>1, <1>2, <1>3, <1>4, <1>5, <1>6, <1>7, <1>8, <1>9, <1>10, <1>11, <1>12, <1>13, <1>14, <1>15,
     <1>16, <1>17, <1>18, <1>19, <1>20, <1>21, <1>22, <1>23, <1>24, <1>25, <1>26, <1>27, <1>28,
     <1>29, <1>30, <1>31, <1>32, <1>33
     DEF Next, Progress, PlanStep, ReviewStep, RepairStep

\* No rounds cost nothing.
LEMMA CostsNone == Costs(<<>>)[Len(<<>>)] = 0
<1>1. <<>> \in Seq(Round) /\ Len(<<>>) = 0
  OBVIOUS
<1>2. Costs(<<>>)[0] = 0
  BY <1>1, CostsAre DEF CostsTo
<1> QED
  BY <1>1, <1>2

\* The sum over the rounds: every step keeps it equal to the count.
LEMMA AddingStep ==
  ASSUME Types, Listing, Following, Counting, Adding, [Next]_vars
  PROVE  Adding'
<1>1. CASE ChildStarts("starting planner", "planner")
  BY <1>1, SettingType, RowType DEF ChildStarts, StartMeter, Adding, Beyond, QualityUsage
<1>2. CASE ChildStarts("starting review", "review")
  BY <1>2, SettingType, RowType DEF ChildStarts, StartMeter, Adding, Beyond, QualityUsage
<1>3. CASE ChildStarts("starting repair", "repair")
  BY <1>3, SettingType, RowType DEF ChildStarts, StartMeter, Adding, Beyond, QualityUsage
<1>4. CASE ChildDenied("starting planner", "planned")
  BY <1>4, SettingType, RowType DEF ChildDenied, Result, Adding, Beyond, QualityUsage
<1>5. CASE ChildDenied("starting review", "reviewed")
  BY <1>5, SettingType, RowType DEF ChildDenied, Result, Adding, Beyond, QualityUsage
<1>6. CASE ChildDenied("starting repair", "repaired")
  BY <1>6, SettingType, RowType DEF ChildDenied, Result, Adding, Beyond, QualityUsage
<1>7. CASE ChildEnds("planner", "draining planner")
  BY <1>7, SettingType, RowType DEF ChildEnds, StopMeter, Publish, Usage, Result, Adding, Beyond, QualityUsage
<1>8. CASE ChildEnds("review", "draining review")
  BY <1>8, SettingType, RowType DEF ChildEnds, StopMeter, Publish, Usage, Result, Adding, Beyond, QualityUsage
<1>9. CASE ChildEnds("repair", "draining repair")
  BY <1>9, SettingType, RowType DEF ChildEnds, StopMeter, Publish, Usage, Result, Adding, Beyond, QualityUsage
<1>10. CASE PlannerSettles
  BY <1>10, SettingType, RowType DEF PlannerSettles, Drained, Adding, Beyond, QualityUsage
<1>11. CASE RecordPlan
  <2>1. stage' \in {"members", "skipping"} /\ row'.status = "running"
    BY <1>11, RecordPlanRow DEF RecordPlan, Following
  <2> QED
    BY <2>1 DEF Adding
<1>12. CASE SkipRun
  <2>1. stage' = "settled" /\ row'.usage = spent'
    BY <1>12, SkipRunRow DEF SkipRun, Counting
  <2> QED
    BY <2>1 DEF Adding
<1>13. CASE RunMembers
  <2> DEFINE p == row.planned
             m == setting.members
             b == setting.before
  <2>1. /\ stage' = "checking" /\ consumed' = b + p + m /\ setting' = setting /\ rounds' = rounds /\ rounds = <<>>
        /\ row'.planned = p /\ row'.status = "running"
    BY <1>13, RunMembersRow DEF RunMembers, Listing, Following
  <2>2. p \in Nat /\ m \in Nat /\ b \in Nat
    BY SettingType, RowType
  <2>3. QualityUsage' = 0
    BY <2>1, CostsNone DEF QualityUsage
  <2>4. Beyond' = b + p + m
    BY <2>1 DEF Beyond
  <2> HIDE DEF p, m, b
  <2>5. consumed' = (b + p + m) + 0
    BY <2>1, <2>2
  <2> QED
    BY <2>1, <2>3, <2>4, <2>5 DEF Adding
<1>14. CASE LeaveAtHead
  BY <1>14, SettingType, RowType DEF LeaveAtHead, Adding, Beyond, QualityUsage
<1>15. CASE AnnounceReview
  <2>1. /\ stage' = "starting review" /\ row'.planned = row.planned /\ row'.status = "running"
        /\ UNCHANGED <<setting, rounds, consumed>>
    BY <1>15, AnnounceReviewRow DEF AnnounceReview, Following
  <2>2. consumed = Beyond + QualityUsage
    BY <1>15 DEF AnnounceReview, Adding
  <2> QED
    BY <2>1, <2>2 DEF Adding, Beyond, QualityUsage
<1>16. CASE ChildSettles("draining review", "reviewed")
  BY <1>16, SettingType, RowType DEF ChildSettles, Drained, Adding, Beyond, QualityUsage
<1>17. CASE ChildSettles("draining repair", "repaired")
  BY <1>17, SettingType, RowType DEF ChildSettles, Drained, Adding, Beyond, QualityUsage
<1>18. CASE ClearReview
  <2> DEFINE q == QualityUsage
             g == result.usage
  <2>1. /\ UNCHANGED <<setting, row>> /\ row.status = "running" /\ consumed' = consumed + g
        /\ consumed = Beyond + q
    BY <1>18 DEF ClearReview, Following, Adding
  <2>2. Beyond \in Nat /\ q \in Nat /\ g \in Nat /\ consumed \in Nat
    BY SettingType, RowType, CostsType DEF Types, QualityUsage, Beyond
  <2>3. Beyond' = Beyond
    BY <2>1 DEF Beyond
  <2>4. CASE rounds' = Append(rounds, entry') /\ stage' = "closing"
    <3>1. QualityUsage' = q + g
      BY <1>18, <2>4, OneMore, CostsOneMore, ClearReviewLists DEF Types, QualityUsage
    <3> HIDE DEF q, g, Beyond, QualityUsage
    <3>2. consumed' = Beyond + (q + g)
      BY <2>1, <2>2
    <3> QED
      BY <2>1, <2>3, <2>4, <3>1, <3>2 DEF Adding
  <2>5. CASE rounds' = rounds /\ stage' = "opening"
    <3>1. QualityUsage' = q /\ entry'.usage = g
      BY <1>18, <2>5, ClearReviewLists DEF QualityUsage
    <3> HIDE DEF q, g, Beyond, QualityUsage
    <3>2. consumed' = Beyond + q + g
      BY <2>1, <2>2
    <3> QED
      BY <2>1, <2>3, <2>5, <3>1, <3>2 DEF Adding
  <2> QED
    BY <1>18, <2>4, <2>5, ClearReviewLists
<1>19. CASE CloseReview
  <2>1. /\ stage' = "synthesis" /\ row'.planned = row.planned /\ row'.status = "running"
        /\ UNCHANGED <<setting, rounds, consumed>>
    BY <1>19, CloseReviewRow DEF CloseReview, Following
  <2>2. consumed = Beyond + QualityUsage
    BY <1>19 DEF CloseReview, Adding
  <2> QED
    BY <2>1, <2>2 DEF Adding, Beyond, QualityUsage
<1>20. CASE AnnounceRepair
  <2>1. /\ stage' = "starting repair" /\ row'.planned = row.planned /\ row'.status = "running"
        /\ UNCHANGED <<setting, rounds, consumed, entry>>
    BY <1>20, AnnounceRepairRow DEF AnnounceRepair, Following
  <2>2. consumed = Beyond + QualityUsage + entry.usage
    BY <1>20 DEF AnnounceRepair, Adding
  <2> QED
    BY <2>1, <2>2 DEF Adding, Beyond, QualityUsage
<1>21. CASE RepairRejected
  BY <1>21, SettingType, RowType DEF RepairRejected, Adding, Beyond, QualityUsage
<1>22. CASE ClearRepair
  <2> DEFINE q == QualityUsage
             g == result.usage
             e == entry.usage
  <2>1. /\ UNCHANGED <<setting, row, consumed, result>> /\ row.status = "running" /\ stage' = "recording"
        /\ consumed = Beyond + q + e
    BY <1>22 DEF ClearRepair, Following, Adding
  <2>2. Beyond \in Nat /\ q \in Nat /\ g \in Nat /\ e \in Nat /\ consumed \in Nat
    BY SettingType, RowType, CostsType DEF Types, Round, QualityUsage, Beyond
  <2>3. Beyond' = Beyond
    BY <2>1 DEF Beyond
  <2>4. QualityUsage' = q + (e + g)
    <3>1. PICK r \in Round : Cost(r) = e + g /\ rounds' = Append(rounds, r)
      BY <1>22, ClearRepairLists
    <3> QED
      BY <3>1, OneMore, CostsOneMore DEF Types, QualityUsage
  <2> HIDE DEF q, e, Beyond, QualityUsage
  <2>5. consumed + g = Beyond + (q + (e + g))
    <3> HIDE DEF g
    <3> QED BY <2>1, <2>2
  <2> QED
    BY <2>1, <2>3, <2>4, <2>5 DEF Adding
<1>23. CASE RecordRepair
  <2>1. /\ stage' = "charging" /\ row'.planned = row.planned /\ row'.status = "running"
        /\ UNCHANGED <<setting, rounds, consumed, result>>
    BY <1>23, RecordRepairRow DEF RecordRepair, Following
  <2>2. consumed + result.usage = Beyond + QualityUsage
    BY <1>23 DEF RecordRepair, Adding
  <2> QED
    BY <2>1, <2>2 DEF Adding, Beyond, QualityUsage
<1>24. CASE ChargeRepair
  <2>1. /\ stage' \in {"checking", "synthesis"} /\ row'.planned = row.planned /\ row'.status = "running"
        /\ UNCHANGED <<setting, rounds>> /\ consumed' = consumed + result.usage
    BY <1>24, ChargeRepairRow DEF ChargeRepair, Following
  <2>2. consumed + result.usage = Beyond + QualityUsage
    BY <1>24 DEF ChargeRepair, Adding
  <2> QED
    BY <2>1, <2>2 DEF Adding, Beyond, QualityUsage
<1>25. CASE Synthesize
  BY <1>25, SettingType, RowType DEF Synthesize, Adding, Beyond, QualityUsage
<1>26. CASE Settle
  <2>1. stage' = "settled" /\ row'.usage = SettledUsage /\ spent' = spent
    BY <1>26, SettleRow DEF Settle
  <2>2. SettledUsage = spent
    BY <1>26, SettledIsSpent DEF Settle
  <2> QED
    BY <2>1, <2>2 DEF Adding
<1>27. CASE FailRun
  <2>1. stage' = "settled" /\ row'.status \in {"cancelled", "failed"}
    BY <1>27, FailRunRow DEF FailRun
  <2> QED
    BY <2>1 DEF Adding
<1>28. CASE PublicationLands
  BY <1>28, SettingType, RowType DEF PublicationLands, Land, Adding, Beyond, QualityUsage
<1>29. CASE ChildSpends
  <2>1. stage' = stage /\ UNCHANGED <<setting, row, consumed, rounds, entry>> /\ row.status = "running"
        /\ stage \in {"planner", "review", "repair"}
    BY <1>29 DEF ChildSpends, Channels, Following
  <2> QED
    BY <2>1 DEF Adding, Beyond, QualityUsage
<1>30. CASE WriteFails
  BY <1>30, SettingType, RowType DEF WriteFails, Adding, Beyond, QualityUsage
<1>31. CASE PublicationFails
  BY <1>31, SettingType, RowType DEF PublicationFails, LandFails, Adding, Beyond, QualityUsage
<1>32. CASE Abort
  BY <1>32, SettingType, RowType DEF Abort, Adding, Beyond, QualityUsage
<1>33. CASE UNCHANGED vars
  BY <1>33, SettingType, RowType DEF vars, Adding, Beyond, QualityUsage
<1> QED
  BY <1>1, <1>2, <1>3, <1>4, <1>5, <1>6, <1>7, <1>8, <1>9, <1>10, <1>11, <1>12, <1>13, <1>14, <1>15,
     <1>16, <1>17, <1>18, <1>19, <1>20, <1>21, <1>22, <1>23, <1>24, <1>25, <1>26, <1>27, <1>28,
     <1>29, <1>30, <1>31, <1>32, <1>33
     DEF Next, Progress, PlanStep, ReviewStep, RepairStep

\* The budget: a child is about to start only while the count is below it.
LEMMA WithinStep ==
  ASSUME Types, Listing, Within, [Next]_vars
  PROVE  Within'
<1>1. CASE ChildStarts("starting planner", "planner")
  BY <1>1, SettingType, RowType DEF ChildStarts, StartMeter, Within, OverBudget
<1>2. CASE ChildStarts("starting review", "review")
  BY <1>2, SettingType, RowType DEF ChildStarts, StartMeter, Within, OverBudget
<1>3. CASE ChildStarts("starting repair", "repair")
  BY <1>3, SettingType, RowType DEF ChildStarts, StartMeter, Within, OverBudget
<1>4. CASE ChildDenied("starting planner", "planned")
  BY <1>4, SettingType, RowType DEF ChildDenied, Result, Within, OverBudget
<1>5. CASE ChildDenied("starting review", "reviewed")
  BY <1>5, SettingType, RowType DEF ChildDenied, Result, Within, OverBudget
<1>6. CASE ChildDenied("starting repair", "repaired")
  BY <1>6, SettingType, RowType DEF ChildDenied, Result, Within, OverBudget
<1>7. CASE ChildEnds("planner", "draining planner")
  BY <1>7, SettingType, RowType DEF ChildEnds, StopMeter, Publish, Usage, Result, Within, OverBudget
<1>8. CASE ChildEnds("review", "draining review")
  BY <1>8, SettingType, RowType DEF ChildEnds, StopMeter, Publish, Usage, Result, Within, OverBudget
<1>9. CASE ChildEnds("repair", "draining repair")
  BY <1>9, SettingType, RowType DEF ChildEnds, StopMeter, Publish, Usage, Result, Within, OverBudget
<1>10. CASE PlannerSettles
  BY <1>10, SettingType, RowType DEF PlannerSettles, Drained, Within, OverBudget
<1>11. CASE RecordPlan
  BY <1>11, SettingType, RowType DEF RecordPlan, ClearChannel, Within, OverBudget
<1>12. CASE SkipRun
  BY <1>12, SettingType, RowType DEF SkipRun, Within, OverBudget
<1>13. CASE RunMembers
  BY <1>13, SettingType, RowType DEF RunMembers, Within, OverBudget
<1>14. CASE LeaveAtHead
  BY <1>14, SettingType, RowType DEF LeaveAtHead, Within, OverBudget
<1>15. CASE AnnounceReview
  BY <1>15, SettingType, RowType DEF AnnounceReview, Within, OverBudget
<1>16. CASE ChildSettles("draining review", "reviewed")
  BY <1>16, SettingType, RowType DEF ChildSettles, Drained, Within, OverBudget
<1>17. CASE ChildSettles("draining repair", "repaired")
  BY <1>17, SettingType, RowType DEF ChildSettles, Drained, Within, OverBudget
<1>18. CASE ClearReview
  BY <1>18, SettingType, RowType, ClearReviewLists DEF ClearReview, ClearChannel, Unrepaired, LastReview, Within, OverBudget
<1>19. CASE CloseReview
  BY <1>19, SettingType, RowType DEF CloseReview, Within, OverBudget
<1>20. CASE AnnounceRepair
  BY <1>20, SettingType, RowType DEF AnnounceRepair, Within, OverBudget
<1>21. CASE RepairRejected
  BY <1>21, SettingType, RowType DEF RepairRejected, Within, OverBudget
<1>22. CASE ClearRepair
  BY <1>22, SettingType, RowType DEF ClearRepair, ClearChannel, Within, OverBudget
<1>23. CASE RecordRepair
  BY <1>23, SettingType, RowType DEF RecordRepair, Within, OverBudget
<1>24. CASE ChargeRepair
  BY <1>24, SettingType, RowType DEF ChargeRepair, Within, OverBudget
<1>25. CASE Synthesize
  BY <1>25, SettingType, RowType DEF Synthesize, Within, OverBudget
<1>26. CASE Settle
  BY <1>26, SettingType, RowType DEF Settle, Within, OverBudget
<1>27. CASE FailRun
  BY <1>27, SettingType, RowType DEF FailRun, Within, OverBudget
<1>28. CASE PublicationLands
  BY <1>28, SettingType, RowType DEF PublicationLands, Land, Within, OverBudget
<1>29. CASE ChildSpends
  BY <1>29, SettingType, RowType DEF ChildSpends, Spend, Publish, Usage, Within, OverBudget
<1>30. CASE WriteFails
  BY <1>30, SettingType, RowType DEF WriteFails, Within, OverBudget
<1>31. CASE PublicationFails
  BY <1>31, SettingType, RowType DEF PublicationFails, LandFails, Within, OverBudget
<1>32. CASE Abort
  BY <1>32, SettingType, RowType DEF Abort, Within, OverBudget
<1>33. CASE UNCHANGED vars
  BY <1>33, SettingType, RowType DEF vars, Within, OverBudget
<1> QED
  BY <1>1, <1>2, <1>3, <1>4, <1>5, <1>6, <1>7, <1>8, <1>9, <1>10, <1>11, <1>12, <1>13, <1>14, <1>15,
     <1>16, <1>17, <1>18, <1>19, <1>20, <1>21, <1>22, <1>23, <1>24, <1>25, <1>26, <1>27, <1>28,
     <1>29, <1>30, <1>31, <1>32, <1>33
     DEF Next, Progress, PlanStep, ReviewStep, RepairStep

\* A zero the row shows: the run is not called fully metered.
LEMMA HonestIfUnmetered ==
  ASSUME Types, Following, Unmetered
  PROVE  CoverageIsHonest
<1> SUFFICES ASSUME ~(row.plan = "fallback" /\ setting.planner = "unrouted")
             PROVE  0 \in Expected
  BY DEF CoverageIsHonest, FullCoverage
<1>1. CASE row.plan # "none" /\ row.planned = 0
  <2>1. setting.planner # "none" /\ setting.planner \in {"none", "routed", "unrouted"}
        /\ row.plan \in {"none", "planner", "fallback"}
    BY <1>1, SettingType DEF Following, Types, Rows
  <2>2. PlannerSample = {row.planned}
    BY <1>1, <2>1 DEF PlannerSample
  <2> QED
    BY <1>1, <2>2 DEF Expected
<1>2. CASE \E i \in 1..Len(row.rounds) : row.rounds[i].usage = 0 \/ row.rounds[i].repair = <<0>>
  <2>1. PICK i \in 1..Len(row.rounds) : row.rounds[i].usage = 0 \/ row.rounds[i].repair = <<0>>
    BY <1>2
  <2>2. row.rounds[i] \in ToSet(row.rounds)
    BY RowType DEF ToSet
  <2>3. 0 \in {row.rounds[i].usage} \union ToSet(row.rounds[i].repair)
    <3>1. 0 \in ToSet(<<0>>)
      BY DEF ToSet
    <3> QED
      BY <2>1, <3>1
  <2>4. 0 \in Recorded
    BY <2>2, <2>3 DEF Recorded
  <2> QED
    BY <2>4 DEF Expected
<1> QED
  BY <1>1, <1>2 DEF Unmetered

\* A child that brought nothing, before its result is recorded.
LEMMA HonestIfUnrecorded ==
  ASSUME Types, Meters, Listing, Following, Unrecorded
  PROVE  CoverageIsHonest
<1> SUFFICES 0 \in Expected
  BY DEF CoverageIsHonest, FullCoverage
<1>1. MeterTypes /\ result.usage = 0
  BY DEF Meters, Unrecorded
<1>2. live["planner"] \in Nat /\ live["review"] \in Nat /\ live["repair"] \in Nat
  BY <1>1, TokensAssumption DEF MeterTypes, Channels
<1>3. index \in Nat /\ Len(rounds) \in Nat /\ rounds \in Seq(Round) /\ entry \in Round
  BY DEF Types
<1>4. CASE stage = "planned"
  <2>1. live["planner"] <= result.usage /\ row.plan = "none" /\ row.status = "running" /\ setting.planner # "none"
    BY <1>4 DEF Meters, Metered, Following
  <2>2. live["planner"] = 0
    BY <1>1, <1>2, <2>1
  <2>3. PlannerSample = {live["planner"]}
    BY <2>1 DEF PlannerSample
  <2> QED
    BY <2>2, <2>3 DEF Expected
<1>5. CASE stage \in {"reviewed", "closing", "opening"}
  <2>1. live["review"] <= result.usage \/ live["review"] = 0
    BY <1>5 DEF Meters, Metered, Idle, Channels
  <2>2. live["review"] = 0
    BY <1>1, <1>2, <2>1
  <2>3. row.progress = "reviewing" /\ row.round = index + 1 /\ Len(row.rounds) = index
    BY <1>5 DEF Following, Listing
  <2>4. Len(row.rounds) < row.round
    BY <1>3, <2>3
  <2> QED
    BY <2>2, <2>3, <2>4 DEF Expected
<1>6. CASE stage \in {"repaired", "recording"}
  <2>1. live["repair"] <= result.usage \/ live["repair"] = 0
    BY <1>6 DEF Meters, Metered, Idle, Channels
  <2>2. live["repair"] = 0
    BY <1>1, <1>2, <2>1
  <2>3. row.progress = "repairing" /\ row.round = index + 1 /\ entry.repair = NoRepair
    BY <1>6 DEF Following, Listing
  <2>4. row.rounds[index + 1] = entry
    <3>1. CASE stage = "repaired"
      <4>1. Len(rounds) = index /\ row.rounds = Append(rounds, entry)
        BY <3>1 DEF Following, Listing
      <4> QED
        BY <1>3, <4>1, OneMore
    <3>2. CASE stage = "recording"
      BY <3>2 DEF Following
    <3> QED
      BY <1>6, <3>1, <3>2
  <2> QED
    BY <2>2, <2>3, <2>4 DEF Expected
<1> QED
  BY <1>4, <1>5, <1>6 DEF Unrecorded

\* So the coverage is honest in every state of the invariant.
LEMMA Honest ==
  ASSUME stage \in Stages, Types, Meters, Listing, Following, Silence
  PROVE  CoverageIsHonest
<1>1. CASE ~silent
  BY <1>1 DEF CoverageIsHonest
<1>2. CASE stage = "failing"
  BY <1>2 DEF Silence
<1>3. CASE silent /\ stage = "settled" /\ row.status \in {"completed", "partial", "skipped"}
  BY <1>3, HonestIfUnmetered DEF Silence
<1>4. CASE stage = "settled" /\ row.status \notin {"completed", "partial", "skipped"}
  BY <1>4 DEF Following, CoverageIsHonest
<1>5. CASE silent /\ stage \notin {"failing", "settled"}
  BY <1>5, HonestIfUnmetered, HonestIfUnrecorded DEF Silence
<1> QED
  BY <1>1, <1>2, <1>3, <1>4, <1>5

\* The coverage: every step keeps a silent child visible.
LEMMA SilenceStep ==
  ASSUME stage \in Stages, Types, Meters, Listing, Following, Silence, [Next]_vars
  PROVE  Silence'
<1>1. CASE ChildStarts("starting planner", "planner")
  <2>1. Unmetered' = Unmetered /\ silent' = silent /\ row'.status = "running"
    BY <1>1 DEF ChildStarts, StartMeter, Unmetered, Following
  <2>2. stage \notin {"failing", "settled"} /\ ~Unrecorded /\ stage' \notin {"failing", "settled"}
    BY <1>1 DEF ChildStarts, StartMeter, Unrecorded
  <2> QED
    BY <2>1, <2>2 DEF Silence
<1>2. CASE ChildStarts("starting review", "review")
  <2>1. Unmetered' = Unmetered /\ silent' = silent /\ row'.status = "running"
    BY <1>2 DEF ChildStarts, StartMeter, Unmetered, Following
  <2>2. stage \notin {"failing", "settled"} /\ ~Unrecorded /\ stage' \notin {"failing", "settled"}
    BY <1>2 DEF ChildStarts, StartMeter, Unrecorded
  <2> QED
    BY <2>1, <2>2 DEF Silence
<1>3. CASE ChildStarts("starting repair", "repair")
  <2>1. Unmetered' = Unmetered /\ silent' = silent /\ row'.status = "running"
    BY <1>3 DEF ChildStarts, StartMeter, Unmetered, Following
  <2>2. stage \notin {"failing", "settled"} /\ ~Unrecorded /\ stage' \notin {"failing", "settled"}
    BY <1>3 DEF ChildStarts, StartMeter, Unrecorded
  <2> QED
    BY <2>1, <2>2 DEF Silence
<1>4. CASE ChildDenied("starting planner", "planned")
  <2>1. result'.usage = 0 /\ stage' \in {"planned", "reviewed", "repaired"} /\ row' = row /\ row.status = "running"
    BY <1>4 DEF ChildDenied, Result, Following
  <2> QED
    BY <2>1 DEF Silence, Unrecorded
<1>5. CASE ChildDenied("starting review", "reviewed")
  <2>1. result'.usage = 0 /\ stage' \in {"planned", "reviewed", "repaired"} /\ row' = row /\ row.status = "running"
    BY <1>5 DEF ChildDenied, Result, Following
  <2> QED
    BY <2>1 DEF Silence, Unrecorded
<1>6. CASE ChildDenied("starting repair", "repaired")
  <2>1. result'.usage = 0 /\ stage' \in {"planned", "reviewed", "repaired"} /\ row' = row /\ row.status = "running"
    BY <1>6 DEF ChildDenied, Result, Following
  <2> QED
    BY <2>1 DEF Silence, Unrecorded
<1>7. CASE ChildEnds("planner", "draining planner")
  <2>1. Unmetered' = Unmetered /\ silent' = silent /\ row'.status = "running"
    BY <1>7 DEF ChildEnds, StopMeter, Publish, Usage, Result, Unmetered, Following
  <2>2. stage \notin {"failing", "settled"} /\ ~Unrecorded /\ stage' \notin {"failing", "settled"}
    BY <1>7 DEF ChildEnds, StopMeter, Publish, Usage, Result, Unrecorded
  <2> QED
    BY <2>1, <2>2 DEF Silence
<1>8. CASE ChildEnds("review", "draining review")
  <2>1. Unmetered' = Unmetered /\ silent' = silent /\ row'.status = "running"
    BY <1>8 DEF ChildEnds, StopMeter, Publish, Usage, Result, Unmetered, Following
  <2>2. stage \notin {"failing", "settled"} /\ ~Unrecorded /\ stage' \notin {"failing", "settled"}
    BY <1>8 DEF ChildEnds, StopMeter, Publish, Usage, Result, Unrecorded
  <2> QED
    BY <2>1, <2>2 DEF Silence
<1>9. CASE ChildEnds("repair", "draining repair")
  <2>1. Unmetered' = Unmetered /\ silent' = silent /\ row'.status = "running"
    BY <1>9 DEF ChildEnds, StopMeter, Publish, Usage, Result, Unmetered, Following
  <2>2. stage \notin {"failing", "settled"} /\ ~Unrecorded /\ stage' \notin {"failing", "settled"}
    BY <1>9 DEF ChildEnds, StopMeter, Publish, Usage, Result, Unrecorded
  <2> QED
    BY <2>1, <2>2 DEF Silence
<1>10. CASE PlannerSettles
  <2>1. /\ result'.usage = last /\ silent' = (silent \/ last = 0) /\ row' = row /\ row.status = "running"
        /\ stage' \in {"planned", "reviewed", "repaired"}
    BY <1>10 DEF PlannerSettles, Following, Types, Results
  <2>2. silent => Unmetered
    BY <1>10 DEF PlannerSettles, Silence, Unrecorded
  <2>3. Unmetered' = Unmetered
    BY <2>1 DEF Unmetered
  <2> QED
    BY <2>1, <2>2, <2>3 DEF Silence, Unrecorded
<1>11. CASE RecordPlan
  <2>1. /\ row'.plan # "none" /\ row'.planned = result.usage /\ row'.rounds = row.rounds /\ row'.status = "running"
        /\ silent' = silent /\ stage' \in {"members", "skipping"}
    BY <1>11, RecordPlanRow DEF RecordPlan, Following
  <2>2. row.plan = "none" /\ (silent => Unmetered \/ result.usage = 0)
    BY <1>11 DEF RecordPlan, Following, Silence, Unrecorded
  <2>3. silent => Unmetered'
    BY <2>1, <2>2 DEF Unmetered
  <2> QED
    BY <2>1, <2>3 DEF Silence
<1>12. CASE SkipRun
  <2>1. row'.plan = row.plan /\ row'.planned = row.planned /\ row'.rounds = row.rounds /\ silent' = silent
    BY <1>12, SkipRunRow DEF SkipRun, Following
  <2>2. silent => Unmetered
    BY <1>12 DEF SkipRun, Silence, Unrecorded
  <2>3. Unmetered' = Unmetered /\ stage' # "failing"
    BY <1>12, <2>1 DEF Unmetered, SkipRun
  <2> QED
    BY <2>1, <2>2, <2>3 DEF Silence
<1>13. CASE RunMembers
  <2>1. row'.plan = row.plan /\ row'.planned = row.planned /\ row'.rounds = row.rounds /\ silent' = silent
    BY <1>13, RunMembersRow DEF RunMembers, Following
  <2>2. silent => Unmetered
    BY <1>13 DEF RunMembers, Silence, Unrecorded
  <2>3. Unmetered' = Unmetered /\ stage' # "failing"
    BY <1>13, <2>1 DEF Unmetered, RunMembers
  <2> QED
    BY <2>1, <2>2, <2>3 DEF Silence
<1>14. CASE LeaveAtHead
  <2>1. Unmetered' = Unmetered /\ silent' = silent /\ row'.status = "running"
    BY <1>14 DEF LeaveAtHead, Unmetered, Following
  <2>2. stage \notin {"failing", "settled"} /\ ~Unrecorded /\ stage' \notin {"failing", "settled"}
    BY <1>14 DEF LeaveAtHead, Unrecorded
  <2> QED
    BY <2>1, <2>2 DEF Silence
<1>15. CASE AnnounceReview
  <2>1. row'.plan = row.plan /\ row'.planned = row.planned /\ row'.rounds = row.rounds /\ silent' = silent
    BY <1>15, AnnounceReviewRow DEF AnnounceReview, Following
  <2>2. silent => Unmetered
    BY <1>15 DEF AnnounceReview, Silence, Unrecorded
  <2>3. Unmetered' = Unmetered /\ stage' # "failing"
    BY <1>15, <2>1 DEF Unmetered, AnnounceReview
  <2> QED
    BY <2>1, <2>2, <2>3 DEF Silence
<1>16. CASE ChildSettles("draining review", "reviewed")
  <2>1. /\ result'.usage = last /\ silent' = (silent \/ last = 0) /\ row' = row /\ row.status = "running"
        /\ stage' \in {"planned", "reviewed", "repaired"}
    BY <1>16 DEF ChildSettles, Following, Types, Results
  <2>2. silent => Unmetered
    BY <1>16 DEF ChildSettles, Silence, Unrecorded
  <2>3. Unmetered' = Unmetered
    BY <2>1 DEF Unmetered
  <2> QED
    BY <2>1, <2>2, <2>3 DEF Silence, Unrecorded
<1>17. CASE ChildSettles("draining repair", "repaired")
  <2>1. /\ result'.usage = last /\ silent' = (silent \/ last = 0) /\ row' = row /\ row.status = "running"
        /\ stage' \in {"planned", "reviewed", "repaired"}
    BY <1>17 DEF ChildSettles, Following, Types, Results
  <2>2. silent => Unmetered
    BY <1>17 DEF ChildSettles, Silence, Unrecorded
  <2>3. Unmetered' = Unmetered
    BY <2>1 DEF Unmetered
  <2> QED
    BY <2>1, <2>2, <2>3 DEF Silence, Unrecorded
<1>18. CASE ClearReview
  <2>1. /\ Unmetered' = Unmetered /\ silent' = silent /\ result' = result /\ row'.status = "running"
        /\ stage \in {"reviewed", "repaired"} /\ stage' \in {"closing", "opening", "recording"}
    BY <1>18, ClearReviewLists DEF ClearReview, Unmetered, Following
  <2> QED
    BY <2>1 DEF Silence, Unrecorded
<1>19. CASE CloseReview
  <2>1. /\ row'.plan = row.plan /\ row'.planned = row.planned /\ row'.rounds = rounds /\ row'.status = "running"
        /\ silent' = silent /\ stage' \notin {"failing", "settled"}
    BY <1>19, CloseReviewRow DEF CloseReview, Following
  <2>2. silent => Unmetered \/ result.usage = 0
    BY <1>19 DEF CloseReview, Silence, Unrecorded
  <2>3. index \in Nat /\ rounds \in Seq(Round) /\ entry \in Round
    BY DEF Types
  <2>4. /\ Len(rounds) = index + 1 /\ rounds[index + 1].usage = result.usage /\ Len(row.rounds) = index
        /\ \A i \in 1..index : row.rounds[i] = rounds[i]
    BY <1>19 DEF CloseReview, Listing, Following
  <2>5. ASSUME Unmetered \/ result.usage = 0
        PROVE  Unmetered'
    <3>1. CASE row.plan # "none" /\ row.planned = 0
      BY <2>1, <3>1 DEF Unmetered
    <3>2. CASE result.usage = 0
      <4>1. index + 1 \in 1..Len(row'.rounds)
        BY <2>1, <2>3, <2>4
      <4>2. row'.rounds[index + 1].usage = 0 \/ row'.rounds[index + 1].repair = <<0>>
        BY <2>1, <2>4, <3>2
      <4> QED
        BY <4>1, <4>2 DEF Unmetered
    <3>3. CASE \E i \in 1..Len(row.rounds) : row.rounds[i].usage = 0 \/ row.rounds[i].repair = <<0>>
      <4>1. PICK i \in 1..Len(row.rounds) : row.rounds[i].usage = 0 \/ row.rounds[i].repair = <<0>>
        BY <3>3
      <4>2. i \in 1..Len(row'.rounds) /\ (row'.rounds[i].usage = 0 \/ row'.rounds[i].repair = <<0>>)
        BY <2>1, <2>3, <2>4, <4>1 DEF NoRepair
      <4> QED
        BY <4>2 DEF Unmetered
    <3> QED
      BY <2>5, <3>1, <3>2, <3>3 DEF Unmetered
  <2> QED
    BY <2>1, <2>2, <2>5 DEF Silence
<1>20. CASE AnnounceRepair
  <2>1. /\ row'.plan = row.plan /\ row'.planned = row.planned /\ row'.rounds = Append(rounds, entry) /\ row'.status = "running"
        /\ silent' = silent /\ stage' \notin {"failing", "settled"}
    BY <1>20, AnnounceRepairRow DEF AnnounceRepair, Following
  <2>2. silent => Unmetered \/ result.usage = 0
    BY <1>20 DEF AnnounceRepair, Silence, Unrecorded
  <2>3. index \in Nat /\ rounds \in Seq(Round) /\ entry \in Round
    BY DEF Types
  <2>4. /\ Len(row'.rounds) = index + 1 /\ row'.rounds[index + 1].usage = result.usage /\ Len(row.rounds) = index
        /\ \A i \in 1..index : row.rounds[i] = row'.rounds[i]
    <3>1. Len(rounds) = index /\ entry.usage = result.usage /\ row.rounds = rounds
      BY <1>20 DEF AnnounceRepair, Listing, Following
    <3> QED
      BY <2>1, <2>3, <3>1, OneMore
  <2>5. ASSUME Unmetered \/ result.usage = 0
        PROVE  Unmetered'
    <3>1. CASE row.plan # "none" /\ row.planned = 0
      BY <2>1, <3>1 DEF Unmetered
    <3>2. CASE result.usage = 0
      <4>1. index + 1 \in 1..Len(row'.rounds)
        BY <2>1, <2>3, <2>4
      <4>2. row'.rounds[index + 1].usage = 0 \/ row'.rounds[index + 1].repair = <<0>>
        BY <2>1, <2>4, <3>2
      <4> QED
        BY <4>1, <4>2 DEF Unmetered
    <3>3. CASE \E i \in 1..Len(row.rounds) : row.rounds[i].usage = 0 \/ row.rounds[i].repair = <<0>>
      <4>1. PICK i \in 1..Len(row.rounds) : row.rounds[i].usage = 0 \/ row.rounds[i].repair = <<0>>
        BY <3>3
      <4>2. i \in 1..Len(row'.rounds) /\ (row'.rounds[i].usage = 0 \/ row'.rounds[i].repair = <<0>>)
        BY <2>1, <2>3, <2>4, <4>1 DEF NoRepair
      <4> QED
        BY <4>2 DEF Unmetered
    <3> QED
      BY <2>5, <3>1, <3>2, <3>3 DEF Unmetered
  <2> QED
    BY <2>1, <2>2, <2>5 DEF Silence
<1>21. CASE RepairRejected
  <2>1. stage' = "failing" /\ row' = row /\ row.status = "running" /\ UNCHANGED <<live, setting, silent>>
    BY <1>21 DEF RepairRejected, Following
  <2>2. CoverageIsHonest
    BY Honest
  <2>3. CoverageIsHonest'
    BY <2>1, <2>2 DEF CoverageIsHonest, FullCoverage, Expected, PlannerSample, Recorded
  <2> QED
    BY <2>1, <2>3 DEF Silence
<1>22. CASE ClearRepair
  <2>1. /\ Unmetered' = Unmetered /\ silent' = silent /\ result' = result /\ row'.status = "running"
        /\ stage \in {"reviewed", "repaired"} /\ stage' \in {"closing", "opening", "recording"}
    BY <1>22, ClearRepairLists DEF ClearRepair, Unmetered, Following
  <2> QED
    BY <2>1 DEF Silence, Unrecorded
<1>23. CASE RecordRepair
  <2>1. /\ row'.plan = row.plan /\ row'.planned = row.planned /\ row'.rounds = rounds /\ row'.status = "running"
        /\ silent' = silent /\ stage' \notin {"failing", "settled"}
    BY <1>23, RecordRepairRow DEF RecordRepair, Following
  <2>2. silent => Unmetered \/ result.usage = 0
    BY <1>23 DEF RecordRepair, Silence, Unrecorded
  <2>3. index \in Nat /\ rounds \in Seq(Round) /\ entry \in Round
    BY DEF Types
  <2>4. /\ Len(rounds) = index + 1 /\ rounds[index + 1].repair = <<result.usage>> /\ Len(row.rounds) = index + 1
        /\ rounds[index + 1].usage = entry.usage /\ row.rounds[index + 1] = entry /\ entry.repair = NoRepair
        /\ \A i \in 1..index : row.rounds[i] = rounds[i]
    BY <1>23 DEF RecordRepair, Listing, Following
  <2>5. ASSUME Unmetered \/ result.usage = 0
        PROVE  Unmetered'
    <3>1. CASE row.plan # "none" /\ row.planned = 0
      BY <2>1, <3>1 DEF Unmetered
    <3>2. CASE result.usage = 0
      <4>1. index + 1 \in 1..Len(row'.rounds)
        BY <2>1, <2>3, <2>4
      <4>2. row'.rounds[index + 1].usage = 0 \/ row'.rounds[index + 1].repair = <<0>>
        BY <2>1, <2>4, <3>2
      <4> QED
        BY <4>1, <4>2 DEF Unmetered
    <3>3. CASE \E i \in 1..Len(row.rounds) : row.rounds[i].usage = 0 \/ row.rounds[i].repair = <<0>>
      <4>1. PICK i \in 1..Len(row.rounds) : row.rounds[i].usage = 0 \/ row.rounds[i].repair = <<0>>
        BY <3>3
      <4>2. i \in 1..Len(row'.rounds) /\ (row'.rounds[i].usage = 0 \/ row'.rounds[i].repair = <<0>>)
        BY <2>1, <2>3, <2>4, <4>1 DEF NoRepair
      <4> QED
        BY <4>2 DEF Unmetered
    <3> QED
      BY <2>5, <3>1, <3>2, <3>3 DEF Unmetered
  <2> QED
    BY <2>1, <2>2, <2>5 DEF Silence
<1>24. CASE ChargeRepair
  <2>1. row'.plan = row.plan /\ row'.planned = row.planned /\ row'.rounds = row.rounds /\ silent' = silent
    BY <1>24, ChargeRepairRow DEF ChargeRepair, Following
  <2>2. silent => Unmetered
    BY <1>24 DEF ChargeRepair, Silence, Unrecorded
  <2>3. Unmetered' = Unmetered /\ stage' # "failing"
    BY <1>24, <2>1 DEF Unmetered, ChargeRepair
  <2> QED
    BY <2>1, <2>2, <2>3 DEF Silence
<1>25. CASE Synthesize
  <2>1. Unmetered' = Unmetered /\ silent' = silent /\ row'.status = "running"
    BY <1>25 DEF Synthesize, Unmetered, Following
  <2>2. stage \notin {"failing", "settled"} /\ ~Unrecorded /\ stage' \notin {"failing", "settled"}
    BY <1>25 DEF Synthesize, Unrecorded
  <2> QED
    BY <2>1, <2>2 DEF Silence
<1>26. CASE Settle
  <2>1. row'.plan = row.plan /\ row'.planned = row.planned /\ row'.rounds = row.rounds /\ silent' = silent
    BY <1>26, SettleRow DEF Settle, Following
  <2>2. silent => Unmetered
    BY <1>26 DEF Settle, Silence, Unrecorded
  <2>3. Unmetered' = Unmetered /\ stage' # "failing"
    BY <1>26, <2>1 DEF Unmetered, Settle
  <2> QED
    BY <2>1, <2>2, <2>3 DEF Silence
<1>27. CASE FailRun
  <2>1. stage' = "settled" /\ row'.status \in {"cancelled", "failed"}
    BY <1>27, FailRunRow DEF FailRun
  <2> QED
    BY <2>1 DEF Silence
<1>28. CASE PublicationLands
  <2>1. /\ stage' = stage /\ row' = row /\ UNCHANGED <<result, silent>> /\ stage \notin {"failing", "settled"}
        /\ row.status = "running"
    BY <1>28 DEF PublicationLands, Land, Meters, Idle, Following
  <2>2. Unmetered' = Unmetered
    BY <2>1 DEF Unmetered
  <2> QED
    BY <2>1, <2>2 DEF Silence, Unrecorded
<1>29. CASE ChildSpends
  <2>1. /\ stage' = stage /\ row' = row /\ UNCHANGED <<result, silent>> /\ stage \notin {"failing", "settled"}
        /\ row.status = "running"
    BY <1>29 DEF ChildSpends, Channels, Meters, Idle, Following
  <2>2. Unmetered' = Unmetered
    BY <2>1 DEF Unmetered
  <2> QED
    BY <2>1, <2>2 DEF Silence, Unrecorded
<1>30. CASE WriteFails
  <2>1. stage' = "failing" /\ row' = row /\ row.status = "running" /\ UNCHANGED <<live, setting, silent>>
    BY <1>30 DEF WriteFails, Following
  <2>2. CoverageIsHonest
    BY Honest
  <2>3. CoverageIsHonest'
    BY <2>1, <2>2 DEF CoverageIsHonest, FullCoverage, Expected, PlannerSample, Recorded
  <2> QED
    BY <2>1, <2>3 DEF Silence
<1>31. CASE PublicationFails
  <2>1. /\ stage' = stage /\ row' = row /\ UNCHANGED <<result, silent>> /\ stage \notin {"failing", "settled"}
        /\ row.status = "running"
    BY <1>31 DEF PublicationFails, LandFails, Meters, Idle, Following
  <2>2. Unmetered' = Unmetered
    BY <2>1 DEF Unmetered
  <2> QED
    BY <2>1, <2>2 DEF Silence, Unrecorded
<1>32. CASE Abort
  <2>1. stage' = stage /\ row' = row /\ UNCHANGED <<result, silent, live, setting>>
    BY <1>32 DEF Abort
  <2>2. Unmetered' = Unmetered /\ Unrecorded' = Unrecorded
    BY <2>1 DEF Unmetered, Unrecorded
  <2>3. CoverageIsHonest' = CoverageIsHonest
    BY <2>1 DEF CoverageIsHonest, FullCoverage, Expected, PlannerSample, Recorded
  <2> QED
    BY <2>1, <2>2, <2>3 DEF Silence
<1>33. CASE UNCHANGED vars
  <2>1. stage' = stage /\ row' = row /\ UNCHANGED <<result, silent, live, setting>>
    BY <1>33 DEF vars
  <2>2. Unmetered' = Unmetered /\ Unrecorded' = Unrecorded
    BY <2>1 DEF Unmetered, Unrecorded
  <2>3. CoverageIsHonest' = CoverageIsHonest
    BY <2>1 DEF CoverageIsHonest, FullCoverage, Expected, PlannerSample, Recorded
  <2> QED
    BY <2>1, <2>2, <2>3 DEF Silence
<1> QED
  BY <1>1, <1>2, <1>3, <1>4, <1>5, <1>6, <1>7, <1>8, <1>9, <1>10, <1>11, <1>12, <1>13, <1>14, <1>15,
     <1>16, <1>17, <1>18, <1>19, <1>20, <1>21, <1>22, <1>23, <1>24, <1>25, <1>26, <1>27, <1>28,
     <1>29, <1>30, <1>31, <1>32, <1>33
     DEF Next, Progress, PlanStep, ReviewStep, RepairStep

-----------------------------------------------------------------------------
\* The invariant holds initially, survives every step, and so always holds.
LEMMA IInvStarts == Init => IInv
<1> SUFFICES ASSUME Init PROVE IInv
  OBVIOUS
<1>1. /\ setting \in Settings /\ aborted = FALSE /\ silent = FALSE /\ stage = IF setting.planner = "none" THEN "members" ELSE "starting planner"
      /\ index = 0 /\ spent = 0 /\ consumed = setting.before /\ rounds = <<>>
  BY DEF Init
<1>2. result = [ok |-> TRUE, approved |-> FALSE, usage |-> 0] /\ entry = [approved |-> FALSE, usage |-> 0, repair |-> NoRepair]
  BY DEF Init, Result, Unrepaired
<1>3. /\ row.status = "running" /\ row.plan = "none" /\ row.planned = 0 /\ row.progress = "none" /\ row.round = 0
      /\ row.usage = 0 /\ row.rounds = <<>>
  BY DEF Init
<1>4. /\ setting.planner \in {"none", "routed", "unrouted"} /\ setting.before \in Nat /\ setting.maxRounds \in 0..2
  BY <1>1, SettingsAssumption
<1>5. stage \in {"members", "starting planner"} /\ (setting.planner = "none" => stage = "members")
  BY <1>1
<1>6. stage \in Stages
  BY <1>5 DEF Stages
<1>7. entry \in Round
  <2>1. NoRepair \in Seq(Nat)
    BY DEF NoRepair
  <2> QED
    BY <1>2, <2>1 DEF Round
<1>8. rounds \in Seq(Round) /\ row.rounds \in Seq(Round)
  <2>1. \A e : e = <<>> => e \in Seq(Round)
    OBVIOUS
  <2>2. rounds = <<>> /\ row.rounds = <<>>
    BY <1>1, <1>3
  <2> QED
    BY <2>1, <2>2
<1>9. Types
  <2>1. row \in Rows
    BY <1>8 DEF Init, Rows
  <2>2. result \in Results
    BY <1>2 DEF Results
  <2> QED
    BY <1>1, <1>4, <1>7, <1>8, <2>1, <2>2 DEF Types
<1>10. Meters
  <2>1. /\ channel = "planner" /\ used = 0 /\ baseline = 0 /\ last = 0 /\ pending = <<>>
        /\ live = [c \in Channels |-> 0]
    BY DEF Init, MeterInit
  <2>2. pending \in Seq([channel : Channels, usage : Nat])
    BY <2>1
  <2>3. MeterTypes
    BY <2>1, <2>2, TokensAssumption DEF MeterTypes, Channels
  <2>4. Idle
    BY <2>1, <1>5 DEF Idle
  <2> QED
    BY <1>5, <2>3, <2>4 DEF Meters, Metered
<1>11. Len(rounds) = 0 /\ Len(row.rounds) = 0
  BY <1>1, <1>3
<1>12. Listing
  <2>1. /\ index = 0 /\ index \in 0..setting.maxRounds
        /\ Len(rounds) <= setting.maxRounds + 1 /\ Len(row.rounds) <= setting.maxRounds + 1
    <3>1. index = 0
      BY <1>1
    <3>2. setting.maxRounds \in Nat
      BY <1>4
    <3> QED
      BY <3>1, <3>2, <1>11
  <2>2. \A i \in 1..Len(rounds) : i < Len(rounds) => Repaired(rounds[i])
    BY <1>11
  <2> QED
    BY <1>1, <1>5, <2>1, <2>2 DEF Listing
<1>13. Following
  BY <1>1, <1>3, <1>5 DEF Following
<1>14. Counting
  BY <1>1, <1>3, <1>5 DEF Counting
<1>15. Showing /\ Adding /\ Within /\ Silence
  BY <1>1, <1>3, <1>5 DEF Showing, Adding, Within, Silence
<1> QED
  BY <1>6, <1>9, <1>10, <1>12, <1>13, <1>14, <1>15 DEF IInv

LEMMA IInvStep == IInv /\ [Next]_vars => IInv'
<1> SUFFICES ASSUME IInv, [Next]_vars PROVE IInv'
  OBVIOUS
<1>1. last \in Nat
  BY DEF IInv, Meters, MeterTypes
<1> QED
  BY <1>1, StagesStep, TypesStep, MetersStep, ListingStep, FollowingStep, CountingStep, ShowingStep, AddingStep, WithinStep,
     SilenceStep DEF IInv

LEMMA IInvAlways == Spec => []IInv
  BY IInvStarts, IInvStep, PTL DEF Spec

\* What the loop says it spent, what polls show on the way and whether it calls
\* itself fully metered are all true, whatever the children report and whenever
\* (finishUsage, withoutLiveUsage, runMeteringCoverage).
THEOREM UsageIsAlwaysHonest == Spec => []UsageIsHonest
<1>1. IInv => UsageIsHonest
  <2> SUFFICES ASSUME IInv PROVE UsageIsHonest
    OBVIOUS
  <2>1. SettledUsageIsExact
    BY DEF IInv, Adding, SettledUsageIsExact
  <2>2. NeverOvercounted
    <3>1. Shown <= setting.before + spent
      BY ShownIsSpent DEF IInv
    <3>2. spent \in Nat /\ (setting.before = 0 => setting.before + spent = spent)
      BY SettingType DEF IInv, Types
    <3> QED
      BY <3>1, <3>2 DEF NeverOvercounted
  <2>3. CoverageIsHonest
    BY Honest DEF IInv
  <2> QED
    BY <2>1, <2>2, <2>3 DEF UsageIsHonest
<1> QED
  BY IInvAlways, <1>1, PTL

\* A run is completed only by a review that approved what the last repair left
\* (runQualityLoop, and the status dispatch writes).
THEOREM CompletedRunsAreApproved == Spec => []CompletedIsApproved
<1>1. IInv => CompletedIsApproved
  <2> SUFFICES ASSUME IInv PROVE CompletedIsApproved
    OBVIOUS
  <2>1. TypeOK
    <3>1. /\ row.progress \in {"none", "reviewing", "repairing"}
          /\ row.status \in {"running", "completed", "partial", "cancelled", "failed", "skipped"}
      BY DEF IInv, Types, Rows
    <3>2. live \in [Channels -> 0..MaxTokens] /\ last \in 0..MaxTokens
      <4>1. MeterTypes
        BY DEF IInv, Meters
      <4> QED
        BY <4>1, TokensAssumption DEF MeterTypes
    <3> QED
      BY <3>1, <3>2 DEF IInv, Listing, Repaired, TypeOK
  <2>2. row.status = "completed" => /\ setting.allCompleted
                                    /\ Last(row.rounds).approved /\ Last(row.rounds).repair = NoRepair
                                    /\ index = Len(row.rounds) - 1
    BY DEF IInv, Following, Last
  <2> QED
    BY <2>1, <2>2 DEF CompletedIsApproved
<1> QED
  BY IInvAlways, <1>1, PTL

\* No review and no repair is started on a budget that is spent: the head of
\* the loop and the end of a review both look at what was really spent.
THEOREM ChildrenStartWithinBudget == Spec => NoChildOnSpentBudget
<1>1. IInv /\ [Next]_vars => [stage' \in {"review", "repair"} /\ stage # stage' => ~OverBudget(setting.before + spent)]_vars
  <2> SUFFICES ASSUME IInv, Next, stage' \in {"review", "repair"}, stage # stage'
               PROVE  ~OverBudget(setting.before + spent)
    OBVIOUS
  <2>1. stage \in {"starting review", "starting repair"}
    <3>1. CASE ChildStarts("starting planner", "planner")
      BY <3>1 DEF ChildStarts
    <3>2. CASE ChildStarts("starting review", "review")
      BY <3>2 DEF ChildStarts
    <3>3. CASE ChildStarts("starting repair", "repair")
      BY <3>3 DEF ChildStarts
    <3>4. CASE ChildDenied("starting planner", "planned")
      BY <3>4 DEF ChildDenied
    <3>5. CASE ChildDenied("starting review", "reviewed")
      BY <3>5 DEF ChildDenied
    <3>6. CASE ChildDenied("starting repair", "repaired")
      BY <3>6 DEF ChildDenied
    <3>7. CASE ChildEnds("planner", "draining planner")
      BY <3>7 DEF ChildEnds
    <3>8. CASE ChildEnds("review", "draining review")
      BY <3>8 DEF ChildEnds
    <3>9. CASE ChildEnds("repair", "draining repair")
      BY <3>9 DEF ChildEnds
    <3>10. CASE PlannerSettles
      BY <3>10 DEF PlannerSettles
    <3>11. CASE RecordPlan
      BY <3>11 DEF RecordPlan
    <3>12. CASE SkipRun
      BY <3>12 DEF SkipRun
    <3>13. CASE RunMembers
      BY <3>13 DEF RunMembers
    <3>14. CASE LeaveAtHead
      BY <3>14 DEF LeaveAtHead
    <3>15. CASE AnnounceReview
      BY <3>15 DEF AnnounceReview
    <3>16. CASE ChildSettles("draining review", "reviewed")
      BY <3>16 DEF ChildSettles
    <3>17. CASE ChildSettles("draining repair", "repaired")
      BY <3>17 DEF ChildSettles
    <3>18. CASE ClearReview
      BY <3>18 DEF ClearReview
    <3>19. CASE CloseReview
      BY <3>19 DEF CloseReview
    <3>20. CASE AnnounceRepair
      BY <3>20 DEF AnnounceRepair
    <3>21. CASE RepairRejected
      BY <3>21 DEF RepairRejected
    <3>22. CASE ClearRepair
      BY <3>22 DEF ClearRepair
    <3>23. CASE RecordRepair
      BY <3>23 DEF RecordRepair
    <3>24. CASE ChargeRepair
      BY <3>24 DEF ChargeRepair
    <3>25. CASE Synthesize
      BY <3>25 DEF Synthesize
    <3>26. CASE Settle
      BY <3>26 DEF Settle
    <3>27. CASE FailRun
      BY <3>27 DEF FailRun
    <3>28. CASE PublicationLands
      BY <3>28 DEF PublicationLands
    <3>29. CASE ChildSpends
      BY <3>29 DEF ChildSpends
    <3>30. CASE WriteFails
      BY <3>30 DEF WriteFails
    <3>31. CASE PublicationFails
      BY <3>31 DEF PublicationFails
    <3>32. CASE Abort
      BY <3>32 DEF Abort
    <3> QED
      BY <3>1, <3>2, <3>3, <3>4, <3>5, <3>6, <3>7, <3>8, <3>9, <3>10, <3>11, <3>12, <3>13, <3>14, <3>15, <3>16, <3>17,
         <3>18, <3>19, <3>20, <3>21, <3>22, <3>23, <3>24, <3>25, <3>26, <3>27, <3>28, <3>29, <3>30, <3>31, <3>32 DEF
         Next, Progress, PlanStep, ReviewStep, RepairStep
  <2>2. consumed = setting.before + spent /\ ~OverBudget(consumed)
    BY <2>1 DEF IInv, Counting, Within
  <2> QED
    BY <2>2
<1> QED
  BY IInvAlways, <1>1, PTL DEF Spec, NoChildOnSpentBudget
=============================================================================
