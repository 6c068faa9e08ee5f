---------------------------- MODULE QualityLoop ----------------------------
(***************************************************************************)
(* The children of a run that are no members: the automatic planner before *)
(* the member phase (createAutomaticPlan in                                *)
(* src/src/tools/application/execution-service.ts), the quality gate after *)
(* it (runQualityLoop, runQualityReview), where reviews and repairs        *)
(* alternate, and the settling writes of dispatch.  Each child is metered  *)
(* into a live channel of the durable row and then moved into its usage.   *)
(* An action is one awaited write with the code that follows it, or one    *)
(* event of a child; in every state a poll may read the row.  The member   *)
(* phase is one step.                                                      *)
(***************************************************************************)
EXTENDS UsageMeter, SequencesExt

CONSTANTS
  Settings,    \* what a run may start the loop with, see SettingsAssumption
  NoBudget,    \* squad.tokenBudget when it is not set
  MaxFaults    \* bound of the exploration: writes that reject

ASSUME SettingsAssumption ==
  /\ NoBudget \notin Nat
  /\ \A s \in Settings :
       /\ s.maxRounds \in 0..2
       /\ s.before \in Nat             \* chain.usageBeforeRun
       /\ s.planner \in {"none", "routed", "unrouted"}   \* whether a planner runs and names its route
       /\ s.members \in Nat            \* what the members reported
       /\ s.allCompleted \in BOOLEAN   \* every selected member completed
       /\ s.budget \in Nat \union {NoBudget}

VARIABLES
  setting,   \* the chosen settings, which never change
  stage,     \* where the run is
  index,     \* the loop variable: reviews that are over and were repaired
  rounds,    \* the loop's own list of rounds
  entry,     \* the round of the review that is over
  result,    \* what the last child returned
  consumed,  \* tokens the loop knows of, with those of earlier runs
  row,       \* the durable row; planned is plan.usage
  spent,     \* tokens this run's children and members really reported (history)
  silent,    \* some child ended without a sample (history)
  aborted, faults

loop == <<index, rounds, entry, result, consumed>>
history == <<spent, silent>>
environment == <<setting, aborted, faults>>
vars == <<meterVars, loop, history, environment, stage, row>>

Result(ok, approved, usage) == [ok |-> ok, approved |-> approved, usage |-> usage]
NoRepair == <<>>   \* a repair is the sequence of its usage
Unrepaired == [approved |-> result.approved, usage |-> result.usage, repair |-> NoRepair]

Init ==
  /\ MeterInit
  /\ setting \in Settings
  /\ stage = IF setting.planner = "none" THEN "members" ELSE "starting planner"
  /\ index = 0
  /\ rounds = <<>>
  /\ result = Result(TRUE, FALSE, 0)
  /\ entry = Unrepaired
  /\ consumed = setting.before
  /\ row = [status |-> "running", plan |-> "none", planned |-> 0, progress |-> "none", round |-> 0,
             usage |-> 0, rounds |-> <<>>]
  /\ spent = 0
  /\ silent = FALSE
  /\ aborted = FALSE /\ faults = 0

Go(to) == stage' = to
OverBudget(tokens) == setting.budget # NoBudget /\ tokens >= setting.budget

-----------------------------------------------------------------------------
(***************************************************************************)
(* The planner and the member phase.                                       *)
(***************************************************************************)
\* The children of the three kinds start, spend and end alike.
ChildStarts(starting, kind) ==
  /\ stage = starting
  /\ StartMeter(kind)
  /\ Go(kind)
  /\ UNCHANGED <<loop, history, environment, row>>

\* No provider that can enforce the contract, or its start rejects.
ChildDenied(starting, after) ==
  /\ stage = starting
  /\ result' = Result(FALSE, FALSE, 0)
  /\ silent' = TRUE
  /\ Go(after)
  /\ UNCHANGED <<meterVars, index, rounds, entry, consumed, spent, environment, row>>

ChildSpends ==
  /\ stage \in Channels
  /\ Spend
  /\ spent' = spent + 1
  /\ UNCHANGED <<loop, silent, environment, stage, row>>

\* run.result settles or rejects, the child is disposed, its meter stopped.
\* A time-out, a stop reason other than completed and an answer that is no
\* verdict or no valid plan are all not ok.
ChildEnds(kind, draining) ==
  /\ stage = kind
  /\ StopMeter
  /\ \E ok, approved \in BOOLEAN :
       /\ approved => ok /\ kind = "review"
       /\ result' = Result(ok, approved, 0)
  /\ Go(draining)
  /\ UNCHANGED <<index, rounds, entry, consumed, history, environment, row>>

\* finishPlannerUsage: whatever the planner brought, its last sample is kept.
PlannerSettles ==
  /\ stage = "draining planner"
  /\ Drained
  /\ result' = [result EXCEPT !.usage = last]
  /\ silent' = (silent \/ last = 0)
  /\ Go("planned")
  /\ UNCHANGED <<meterVars, index, rounds, entry, consumed, spent, environment, row>>

\* Fault: the fallback plan does not take over what its planner spent.
RecordPlanUncharged ==
  /\ stage = "planned"
  /\ ClearChannel("planner")
  /\ LET usage == IF result.ok THEN result.usage ELSE 0
     IN row' = [row EXCEPT !.plan = IF result.ok THEN "planner" ELSE "fallback", !.planned = usage, !.usage = usage]
  /\ \E to \in {"members"} \union (IF result.ok THEN {"skipping"} ELSE {}) : Go(to)
  /\ UNCHANGED <<loop, history, environment>>

\* The plan, or the deterministic one if there is none, with the usage of the
\* planner; only a planner may decide that the team is not needed.
RecordPlan ==
  /\ stage = "planned"
  /\ ClearChannel("planner")
  /\ row' = [row EXCEPT !.plan = IF result.ok THEN "planner" ELSE "fallback",
                        !.planned = result.usage, !.usage = result.usage]
  /\ \E to \in {"members"} \union (IF result.ok THEN {"skipping"} ELSE {}) : Go(to)
  /\ UNCHANGED <<loop, history, environment>>

SkipRun ==
  /\ stage = "skipping"
  /\ row' = [row EXCEPT !.status = "skipped", !.usage = row.planned]
  /\ Go("settled")
  /\ UNCHANGED <<meterVars, loop, history, environment>>

\* The members run and are recorded; see MemberScheduler.
RunMembers ==
  /\ stage = "members"
  /\ spent' = spent + setting.members
  /\ row' = [row EXCEPT !.usage = row.planned + setting.members]
  /\ consumed' = setting.before + row.planned + setting.members
  /\ Go("checking")
  /\ UNCHANGED <<meterVars, index, rounds, entry, result, silent, environment>>

-----------------------------------------------------------------------------
(***************************************************************************)
(* A review.                                                               *)
(***************************************************************************)
\* Fault: the head of the loop looks at the budget only.
LeaveOnBudget ==
  /\ stage = "checking"
  /\ OverBudget(consumed) \/ index > setting.maxRounds
  /\ Go("synthesis")
  /\ UNCHANGED <<meterVars, loop, history, environment, row>>

\* The head of the loop: leave, or announce the review in the row.
LeaveAtHead ==
  /\ stage = "checking"
  /\ aborted \/ OverBudget(consumed) \/ index > setting.maxRounds
  /\ Go("synthesis")
  /\ UNCHANGED <<meterVars, loop, history, environment, row>>

AnnounceReview ==
  /\ stage = "checking"
  /\ ~aborted /\ ~OverBudget(consumed) /\ index <= setting.maxRounds
  /\ row' = [row EXCEPT !.progress = "reviewing", !.round = index + 1, !.usage = consumed, !.rounds = rounds]
  /\ Go("starting review")
  /\ UNCHANGED <<meterVars, loop, history, environment>>

\* The status is computed once the last publication is durable.
ChildSettles(draining, after) ==
  /\ stage = draining
  /\ Drained
  /\ result' = [ok |-> result.ok /\ ~aborted, approved |-> result.approved /\ ~aborted, usage |-> last]
  /\ silent' = (silent \/ last = 0)
  /\ Go(after)
  /\ UNCHANGED <<meterVars, index, rounds, entry, consumed, spent, environment, row>>

\* Fault: only a verdict ends the loop.
LastReviewByVerdict(tokens) == result.approved \/ ~result.ok \/ index = setting.maxRounds \/ aborted

LastReview(tokens) ==
  result.approved \/ ~result.ok \/ index = setting.maxRounds \/ aborted \/ OverBudget(tokens)

\* The live channel is cleared; the verdict decides what is written next.
ClearReview ==
  /\ stage = "reviewed"
  /\ ClearChannel("review")
  /\ consumed' = consumed + result.usage
  /\ entry' = Unrepaired
  /\ IF LastReview(consumed')
       THEN rounds' = Append(rounds, entry') /\ Go("closing")
       ELSE UNCHANGED rounds /\ Go("opening")
  /\ UNCHANGED <<index, result, history, environment, row>>

CloseReview ==
  /\ stage = "closing"
  /\ row' = [row EXCEPT !.usage = consumed, !.rounds = rounds]
  /\ Go("synthesis")
  /\ UNCHANGED <<meterVars, loop, history, environment>>
-----------------------------------------------------------------------------
(***************************************************************************)
(* A repair.                                                               *)
(***************************************************************************)
AnnounceRepair ==
  /\ stage = "opening"
  /\ row' = [row EXCEPT !.progress = "repairing", !.usage = consumed, !.rounds = Append(rounds, entry)]
  /\ Go("starting repair")
  /\ UNCHANGED <<meterVars, loop, history, environment>>

\* childToolScope throws before the child is started.
RepairRejected ==
  /\ stage = "starting repair"
  /\ Go("failing")
  /\ UNCHANGED <<meterVars, loop, history, environment, row>>

\* Fault: a repair that completes counts as an approval.
ClearRepairApproves ==
  /\ stage = "repaired"
  /\ ClearChannel("repair")
  /\ rounds' = Append(rounds, [entry EXCEPT !.approved = result.ok, !.repair = <<result.usage>>])
  /\ Go("recording")
  /\ UNCHANGED <<index, entry, result, consumed, history, environment, row>>

\* Fault: a repair is not added to the loop's own list.
ClearRepairUnlisted ==
  /\ stage = "repaired"
  /\ ClearChannel("repair")
  /\ Go("recording")
  /\ UNCHANGED <<loop, history, environment, row>>

\* The round the review opened is complete.
ClearRepair ==
  /\ stage = "repaired"
  /\ ClearChannel("repair")
  /\ rounds' = Append(rounds, [entry EXCEPT !.repair = <<result.usage>>])
  /\ Go("recording")
  /\ UNCHANGED <<index, entry, result, consumed, history, environment, row>>

RecordRepair ==
  /\ stage = "recording"
  /\ row' = [row EXCEPT !.rounds = rounds]
  /\ Go("charging")
  /\ UNCHANGED <<meterVars, loop, history, environment>>

\* A repair that did not complete ends the loop.
ChargeRepair ==
  /\ stage = "charging"
  /\ consumed' = consumed + result.usage
  /\ row' = [row EXCEPT !.usage = consumed']
  /\ IF result.ok THEN index' = index + 1 /\ Go("checking") ELSE UNCHANGED index /\ Go("synthesis")
  /\ UNCHANGED <<meterVars, rounds, entry, result, history, environment>>
-----------------------------------------------------------------------------
(***************************************************************************)
(* The end of the dispatch, and what may happen at any time.               *)
(***************************************************************************)
Synthesize ==
  /\ stage = "synthesis"
  /\ Go("settling")
  /\ UNCHANGED <<meterVars, loop, history, environment, row>>

\* The sum over the rounds the loop returned.
Cost(r) == r.usage + IF r.repair = NoRepair THEN 0 ELSE r.repair[1]
Costs(list) == LET sum[n \in 0..Len(list)] == IF n = 0 THEN 0 ELSE sum[n - 1] + Cost(list[n]) IN sum
QualityUsage == Costs(rounds)[Len(rounds)]

\* quality.approved
Approved == rounds # <<>> /\ Last(rounds).approved

SettledUsage == row.planned + setting.members + QualityUsage

Settle ==
  /\ stage = "settling"
  /\ row' = [row EXCEPT
       !.status = CASE aborted -> "cancelled"
                    [] ~aborted /\ setting.allCompleted /\ Approved -> "completed"
                    [] OTHER -> "partial",
       !.progress = "none", !.round = 0, !.usage = SettledUsage, !.rounds = rounds]
  /\ live' = [c \in Channels |-> 0]
  /\ Go("settled")
  /\ UNCHANGED <<channel, used, baseline, last, pending, loop, history, environment>>

\* The handler of dispatch: usage and rounds stay as they are.
FailRun ==
  /\ stage = "failing"
  /\ row' = [row EXCEPT !.status = IF aborted THEN "cancelled" ELSE "failed", !.progress = "none", !.round = 0]
  /\ live' = [c \in Channels |-> 0]
  /\ Go("settled")
  /\ UNCHANGED <<channel, used, baseline, last, pending, loop, history, environment>>

\* An awaited write rejects, and the loop with it.
WriteFails ==
  /\ stage \in {"planned", "skipping", "members", "checking", "reviewed", "closing", "opening", "repaired", "recording", "charging",
                "synthesis", "settling"}
  /\ stage = "checking" => ~aborted /\ ~OverBudget(consumed) /\ index <= setting.maxRounds
  /\ faults < MaxFaults
  /\ faults' = faults + 1
  /\ Go("failing")
  /\ UNCHANGED <<meterVars, loop, history, setting, aborted, row>>

PublicationLands == Land /\ UNCHANGED <<loop, history, environment, stage, row>>

PublicationFails ==
  /\ LandFails
  /\ faults < MaxFaults
  /\ faults' = faults + 1
  /\ UNCHANGED <<loop, history, setting, aborted, stage, row>>

Abort ==
  /\ ~aborted /\ stage # "settled"
  /\ aborted' = TRUE
  /\ UNCHANGED <<meterVars, loop, history, setting, faults, stage, row>>

PlanStep ==
  \/ ChildStarts("starting planner", "planner") \/ ChildDenied("starting planner", "planned")
  \/ ChildEnds("planner", "draining planner") \/ PlannerSettles
  \/ RecordPlan \/ SkipRun \/ RunMembers

ReviewStep ==
  \/ LeaveAtHead \/ AnnounceReview
  \/ ChildStarts("starting review", "review") \/ ChildDenied("starting review", "reviewed")
  \/ ChildEnds("review", "draining review") \/ ChildSettles("draining review", "reviewed")
  \/ ClearReview \/ CloseReview

RepairStep ==
  \/ AnnounceRepair \/ RepairRejected
  \/ ChildStarts("starting repair", "repair") \/ ChildDenied("starting repair", "repaired")
  \/ ChildEnds("repair", "draining repair") \/ ChildSettles("draining repair", "repaired")
  \/ ClearRepair \/ RecordRepair \/ ChargeRepair

Progress == PlanStep \/ ReviewStep \/ RepairStep \/ Synthesize \/ Settle \/ FailRun \/ PublicationLands

Next == Progress \/ ChildSpends \/ WriteFails \/ PublicationFails \/ Abort

Spec == Init /\ [][Next]_vars

\* Storage answers, the host's loop runs what is ready, and a provider ends the
\* run of a child.  (The code adds a time-out for reviews and repairs when the
\* squad has a memberTimeoutMs, and none for a planner.)
FairSpec == Spec /\ WF_vars(Progress)
-----------------------------------------------------------------------------
\* The samples of the reviews and repairs that are over.
Recorded == UNION {{r.usage} \union ToSet(r.repair) : r \in ToSet(row.rounds)}

\* Fault: only what the rounds hold is expected to be metered.
ExpectedOfRounds == Recorded

\* A planner counts as attempted while the row is in its phase and once the plan
\* says so; a fallback plan says so by the route of the planner that failed.
PlannerSample ==
  IF row.plan = "none"
    THEN IF setting.planner # "none" /\ row.status = "running" THEN {live["planner"]} ELSE {}
    ELSE IF row.plan = "planner" \/ setting.planner = "routed" THEN {row.planned} ELSE {}

\* runMeteringCoverage: the samples expected of the planner, of the rounds and of
\* the child under way.
Expected ==
  PlannerSample \union Recorded
    \union (IF row.progress = "reviewing" /\ Len(row.rounds) < row.round THEN {live["review"]} ELSE {})
    \union (IF row.progress = "repairing" /\ row.rounds[row.round].repair = NoRepair THEN {live["repair"]} ELSE {})
FullCoverage == 0 \notin Expected
-----------------------------------------------------------------------------
(***************************************************************************)
(* Properties.                                                             *)
(***************************************************************************)
Stages == {"starting planner", "planner", "draining planner", "planned", "skipping", "members",
           "checking", "starting review", "review", "draining review", "reviewed", "closing", "opening",
           "starting repair", "repair", "draining repair", "repaired", "recording", "charging",
           "synthesis", "settling", "failing", "settled"}

\* Stages, counters and rounds stay in range: at most maxRounds + 1 reviews,
\* each but the last with one repair.
TypeOK ==
  /\ stage \in Stages
  /\ index \in 0..setting.maxRounds
  /\ Len(rounds) <= setting.maxRounds + 1 /\ Len(row.rounds) <= setting.maxRounds + 1
  /\ \A i \in 1..Len(rounds) : i < Len(rounds) => rounds[i].repair # NoRepair /\ ~rounds[i].approved
  /\ row.progress \in {"none", "reviewing", "repairing"}
  /\ row.status \in {"running", "completed", "partial", "cancelled", "failed", "skipped"}
  /\ live \in [Channels -> 0..MaxTokens]
  /\ last \in 0..MaxTokens

\* What the Run Center shows: the row's usage and the live channels.
Shown == row.usage + live["planner"] + live["review"] + live["repair"]

\* No token of a chain's first run is shown twice, whatever is polled between
\* the publications, the clearing of a channel and the charge of the row.  (The
\* row of a continuation also holds what the chain spent before, execution-service.ts:1246.)
NeverOvercounted == setting.before = 0 => Shown <= spent

\* A run that settles without an error has counted all it spent, and only that.
SettledUsageIsExact == row.status \in {"completed", "partial", "skipped"} => row.usage = spent

\* No child is started once the chain has spent its budget.
NoChildOnSpentBudget ==
  [][stage' \in {"review", "repair"} /\ stage # stage' => ~OverBudget(setting.before + spent)]_vars

\* A run is completed only if the last thing that happened to its work is a
\* review that approved it: no repair came after.
CompletedIsApproved ==
  /\ TypeOK
  /\ row.status = "completed" =>
       /\ setting.allCompleted
       /\ Last(row.rounds).approved /\ Last(row.rounds).repair = NoRepair
       /\ index = Len(row.rounds) - 1

\* The row is not called fully metered when a child ended without a sample
\* (a run that an error ended may have lost the round of that child, and a
\* fallback plan the planner it replaces, if that inherited its route).
CoverageIsHonest ==
  /\ row.status \in {"running", "completed", "partial", "skipped"}
  /\ ~(row.plan = "fallback" /\ setting.planner = "unrouted")
  /\ FullCoverage
  => ~silent

\* Tokens are accounted for once: exactly at the end, never too high on the way,
\* and said to be incomplete when they are.
UsageIsHonest == SettledUsageIsExact /\ NeverOvercounted /\ CoverageIsHonest

\* The run settles.
RunSettles == <>(stage = "settled")
=============================================================================
