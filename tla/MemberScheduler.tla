-------------------------- MODULE MemberScheduler --------------------------
(***************************************************************************)
(* The member phase of one dispatch: dependency waves cut into batches, a  *)
(* coroutine per member with its attempts and its diagnosed retry, the     *)
(* failure policies, the token budget, cancellation, and the verdict       *)
(* (dispatch, runMemberWithPolicy, runMember and diagnoseRetry in          *)
(* src/src/tools/application/execution-service.ts).                        *)
(*                                                                         *)
(* Members are numbered in the plan's memberOrder, so a dependency has a   *)
(* smaller number.  Every provider-reported attempt costs one token.       *)
(***************************************************************************)
EXTENDS Naturals, FiniteSets, FiniteSetsExt

CONSTANTS
  N,            \* selected members of the plan
  Squads,       \* settings a run may have, see SquadsAssumption
  NoBudget,     \* squad.tokenBudget when it is not set
  ScopeFaults   \* TRUE when childToolScope may throw

Members == 1..N
Policies == {"continue", "stop", "retry-once"}

ASSUME SquadsAssumption ==
  /\ N \in Nat \ {0}
  /\ ScopeFaults \in BOOLEAN
  /\ NoBudget \notin Nat
  /\ \A s \in Squads :
       /\ s.deps \in [Members -> SUBSET Members]
       /\ \A m \in Members : \A d \in s.deps[m] : d < m
       /\ s.limit \in Members
       /\ s.policy \in Policies
       /\ s.budget \in Nat \union {NoBudget}
       /\ s.reused \subseteq Members

VARIABLES
  squad,      \* the settings of this run, which never change
  stage,      \* where the dispatch coroutine is
  left,       \* members not yet put into a batch
  batch,      \* members the current Promise.all waits for
  phase,      \* phase[m]: where the coroutine of member m is
  outcome,    \* outcome[m]: what m's last attempt returned
  delivered,  \* members whose result the dispatch has collected
  row,        \* row[m]: the member's status in the durable row
  spent,      \* tokens reported so far, in the durable row
  halt,       \* haltReason
  aborted,    \* runSignal.aborted
  registered, \* activeRunControllers has the run's controller
  verdict,    \* the status computed before the settling write
  status      \* the run's status in the durable row

memberVars == <<phase, outcome, row, spent>>
planVars == <<squad, left, batch, delivered, halt>>
runVars == <<stage, aborted, registered, verdict, status>>
vars == <<memberVars, planVars, runVars>>

Unfinished == {"pending", "running"}
Outcomes == {"completed", "failed", "timed-out", "cancelled"}
Quiet == {"idle", "rejected", "ended"}
Phases == Quiet \union {"starting", "first", "failed", "diagnosing", "judging", "retrying", "second"}

Init ==
  /\ squad \in Squads
  /\ stage = "batching"
  /\ left = Members
  /\ batch = {}
  /\ phase = [m \in Members |-> "idle"]
  /\ outcome = [m \in Members |-> IF m \in squad.reused THEN "completed" ELSE "none"]
  /\ delivered = squad.reused
  /\ row = [m \in Members |-> IF m \in squad.reused THEN "completed" ELSE "pending"]
  /\ spent = 0
  /\ halt = "none"
  /\ aborted = FALSE
  /\ registered = TRUE
  /\ verdict = "none"
  /\ status = "running"

\* Members whose coroutine is under way.
Live == {m \in Members : phase[m] \notin Quiet}

Goto(m, p) == phase' = [phase EXCEPT ![m] = p]

\* executionWaves: the wave in which a member becomes ready.
Wave[m \in Members] ==
  IF squad.deps[m] = {} THEN 0 ELSE 1 + Max({Wave[d] : d \in squad.deps[m]})

\* Fault: the plan's order is taken for its waves.
CurrentWaveUnordered == left

\* The part of the current wave that no batch has taken yet.
CurrentWave == {m \in left : \A n \in left : Wave[m] <= Wave[n]}

\* Fault: a batch is the whole wave.
NextBatchWhole == CurrentWave

\* wave.slice(offset, offset + concurrency)
NextBatch == {m \in CurrentWave : Cardinality({n \in CurrentWave : n < m}) < squad.limit}

OverBudget == squad.budget # NoBudget /\ spent >= squad.budget

\* A provider may report the usage of an attempt or not.
Report == \E used \in {0, 1} : spent' = spent + used

-----------------------------------------------------------------------------
(***************************************************************************)
(* The dispatch coroutine.  Every batch starts with the abort check and    *)
(* the soft budget check; reused results of an earlier run in the chain    *)
(* are not run again, nor, under "stop", a member whose dependency failed. *)
(***************************************************************************)
HaltBefore ==
  /\ stage = "batching"
  /\ left # {}
  /\ aborted \/ OverBudget
  /\ halt' = IF aborted THEN "cancelled" ELSE "budget"
  /\ stage' = "filling"
  /\ UNCHANGED <<memberVars, squad, left, batch, delivered, aborted, registered, verdict, status>>

\* A member whose tool scope cannot be enforced throws before its first
\* await; Promise.all hears of it later, when the others have started.
StartBatch ==
  /\ stage = "batching"
  /\ left # {}
  /\ ~aborted /\ ~OverBudget
  /\ LET fresh == NextBatch \ squad.reused
         runnable == {m \in fresh : squad.policy = "stop" =>
                        \A d \in squad.deps[m] : outcome[d] = "completed"}
     IN  /\ batch' = runnable
         /\ row' = [m \in Members |-> IF m \in fresh \ runnable THEN "skipped" ELSE row[m]]
         /\ \E denied \in SUBSET runnable :
              /\ ~ScopeFaults => denied = {}
              /\ phase' = [m \in Members |-> IF m \notin runnable THEN phase[m]
                                             ELSE IF m \in denied THEN "rejected" ELSE "starting"]
  /\ left' = left \ NextBatch
  /\ stage' = "awaiting"
  /\ UNCHANGED <<outcome, spent, squad, delivered, halt, aborted, registered, verdict, status>>

\* Fault: a failed member does not stop the batches.
CollectAlwaysGoesOn ==
  /\ stage = "awaiting"
  /\ \A m \in batch : phase[m] = "ended"
  /\ delivered' = delivered \union batch
  /\ halt' = IF aborted THEN "cancelled" ELSE halt
  /\ stage' = IF aborted \/ left = {} THEN "filling" ELSE "batching"
  /\ batch' = {}
  /\ UNCHANGED <<memberVars, squad, left, aborted, registered, verdict, status>>

\* Promise.all resolves.
Collect ==
  /\ stage = "awaiting"
  /\ \A m \in batch : phase[m] = "ended"
  /\ delivered' = delivered \union batch
  /\ halt' = IF aborted THEN "cancelled"
             ELSE IF squad.policy = "stop" /\ \E m \in batch : outcome[m] # "completed" THEN "failure"
             ELSE halt
  /\ stage' = IF halt' # "none" \/ left = {} THEN "filling" ELSE "batching"
  /\ batch' = {}
  /\ UNCHANGED <<memberVars, squad, left, aborted, registered, verdict, status>>

\* Promise.all rejects as soon as one member does.
Reject ==
  /\ stage = "awaiting"
  /\ \E m \in batch : phase[m] = "rejected"
  /\ stage' = "catching"
  /\ UNCHANGED <<memberVars, planVars, aborted, registered, verdict, status>>

\* One await of the loop over the members that were not executed.
FillUnexecuted ==
  /\ stage = "filling"
  /\ \E m \in Members \ delivered :
       /\ row[m] = "pending"
       /\ row' = [row EXCEPT ![m] = IF aborted THEN "cancelled" ELSE "skipped"]
  /\ UNCHANGED <<phase, outcome, spent, planVars, runVars>>

\* Fault: the verdict forgets the members that were never executed.
DecideOnDelivered ==
  /\ stage = "filling"
  /\ \A m \in Members \ delivered : row[m] # "pending"
  /\ LET completed == {m \in delivered : outcome[m] = "completed"}
     IN  verdict' = IF aborted THEN "cancelled"
                    ELSE IF completed = delivered THEN "completed"
                    ELSE IF completed = {} THEN "failed" ELSE "partial"
  /\ stage' = "settling"
  /\ UNCHANGED <<memberVars, planVars, aborted, registered, status>>

\* The quality gate (see QualityLoop) is not run after a halt; without its
\* approval a run is at most partial.
Decide ==
  /\ stage = "filling"
  /\ \A m \in Members \ delivered : row[m] # "pending"
  /\ \E approved \in BOOLEAN :
       LET completed == {m \in delivered : outcome[m] = "completed"}
       IN  verdict' = IF aborted THEN "cancelled"
                      ELSE IF completed = Members /\ (halt = "none" => approved) THEN "completed"
                      ELSE IF completed = {} THEN "failed" ELSE "partial"
  /\ stage' = "settling"
  /\ UNCHANGED <<memberVars, planVars, aborted, registered, status>>

Settle ==
  /\ stage = "settling"
  /\ status' = verdict
  /\ stage' = "finally"
  /\ UNCHANGED <<memberVars, planVars, aborted, registered, verdict>>

\* Fault: the catch block fails every member.
CatchEveryMember ==
  /\ stage = "catching"
  /\ status' = IF aborted THEN "cancelled" ELSE "failed"
  /\ row' = [m \in Members |-> status']
  /\ stage' = "finally"
  /\ UNCHANGED <<phase, outcome, spent, planVars, aborted, registered, verdict>>

\* The catch block settles the run and its unfinished members.
Catch ==
  /\ stage = "catching"
  /\ status' = IF aborted THEN "cancelled" ELSE "failed"
  /\ row' = [m \in Members |-> IF row[m] \in Unfinished THEN status' ELSE row[m]]
  /\ stage' = "finally"
  /\ UNCHANGED <<phase, outcome, spent, planVars, aborted, registered, verdict>>

Finish ==
  /\ stage = "finally"
  /\ registered' = FALSE
  /\ stage' = "done"
  /\ UNCHANGED <<memberVars, planVars, aborted, verdict, status>>

\* cancelRun, or the caller's signal while the dispatch listens to it.
Cancel ==
  /\ registered
  /\ ~aborted
  /\ aborted' = TRUE
  /\ UNCHANGED <<memberVars, planVars, stage, registered, verdict, status>>

-----------------------------------------------------------------------------
(***************************************************************************)
(* runMember and runMemberWithPolicy, one coroutine per member.            *)
(***************************************************************************)
MarkRunning(m) ==
  /\ phase[m] = "starting"
  /\ row' = [row EXCEPT ![m] = "running"]
  /\ Goto(m, "first")
  /\ UNCHANGED <<outcome, spent, planVars, runVars>>

\* What an attempt's child and its timer leave to report: a timeout wins over
\* the abort, the abort over what the child says.
AttemptOutcomes == {"timed-out"} \union (IF aborted THEN {"cancelled"} ELSE {"completed", "failed"})

\* The first attempt settles; only "retry-once" looks at it again.
EndFirst(m) ==
  /\ phase[m] = "first"
  /\ \E o \in AttemptOutcomes :
       /\ outcome' = [outcome EXCEPT ![m] = o]
       /\ row' = [row EXCEPT ![m] = o]
       /\ Goto(m, IF o \in {"completed", "cancelled"} \/ aborted \/ squad.policy # "retry-once"
                    THEN "ended" ELSE "failed")
  /\ Report
  /\ UNCHANGED <<planVars, runVars>>

\* diagnoseRetry: exhausted quota, abort and budget skip the diagnosis; a
\* startup failure needs none; otherwise a diagnosis child is started.
Diagnose(m) ==
  /\ phase[m] = "failed"
  /\ \/ Goto(m, "ended")
     \/ ~aborted /\ ~OverBudget /\ \E p \in {"judging", "diagnosing"} : Goto(m, p)
  /\ UNCHANGED <<outcome, row, spent, planVars, runVars>>

\* The diagnosis ends: a decision to retry, or any other answer or failure.
EndDiagnosis(m) ==
  /\ phase[m] = "diagnosing"
  /\ Report
  /\ \E p \in {"judging", "ended"} : Goto(m, p)
  /\ UNCHANGED <<outcome, row, planVars, runVars>>

\* Fault: the budget is not looked at again after the diagnosis.
JudgeNoBudget(m) ==
  /\ phase[m] = "judging"
  /\ Goto(m, IF aborted THEN "ended" ELSE "retrying")
  /\ UNCHANGED <<outcome, row, spent, planVars, runVars>>

\* Fault: a retry waits for a budget that never grows.
JudgeWaits(m) ==
  /\ phase[m] = "judging"
  /\ Goto(m, IF aborted THEN "ended" ELSE IF OverBudget THEN "judging" ELSE "retrying")
  /\ UNCHANGED <<outcome, row, spent, planVars, runVars>>

\* The abort and the budget are checked again before the retry is recorded.
Judge(m) ==
  /\ phase[m] = "judging"
  /\ Goto(m, IF aborted \/ OverBudget THEN "ended" ELSE "retrying")
  /\ UNCHANGED <<outcome, row, spent, planVars, runVars>>

\* The second attempt asks for its tool scope again.
StartSecond(m) ==
  /\ phase[m] = "retrying"
  /\ \/ ScopeFaults /\ Goto(m, "rejected") /\ UNCHANGED row
     \/ Goto(m, "second") /\ row' = [row EXCEPT ![m] = "running"]
  /\ UNCHANGED <<outcome, spent, planVars, runVars>>

\* The second attempt settles for good.
EndSecond(m) ==
  /\ phase[m] = "second"
  /\ \E o \in AttemptOutcomes :
       /\ outcome' = [outcome EXCEPT ![m] = o]
       /\ row' = [row EXCEPT ![m] = o]
  /\ Goto(m, "ended")
  /\ Report
  /\ UNCHANGED <<planVars, runVars>>

Coroutine(m) ==
  \/ MarkRunning(m) \/ EndFirst(m) \/ Diagnose(m) \/ EndDiagnosis(m)
  \/ Judge(m) \/ StartSecond(m) \/ EndSecond(m)

Dispatch ==
  \/ HaltBefore \/ StartBatch \/ Collect \/ Reject \/ FillUnexecuted
  \/ Decide \/ Settle \/ Catch \/ Finish

Quiescent ==
  /\ stage = "done"
  /\ Live = {}
  /\ UNCHANGED vars

Next == Dispatch \/ Cancel \/ Quiescent \/ \E m \in Members : Coroutine(m)

Spec == Init /\ [][Next]_vars

\* Ready continuations run, and every child settles; nobody has to cancel.
FairSpec == Spec /\ WF_vars(Dispatch) /\ \A m \in Members : WF_vars(Coroutine(m))

-----------------------------------------------------------------------------
TypeOK ==
  /\ squad \in Squads
  /\ stage \in {"batching", "awaiting", "filling", "settling", "catching", "finally", "done"}
  /\ left \subseteq Members /\ batch \subseteq Members /\ delivered \subseteq Members
  /\ phase \in [Members -> Phases]
  /\ outcome \in [Members -> Outcomes \union {"none"}]
  /\ row \in [Members -> Outcomes \union Unfinished \union {"skipped"}]
  /\ spent \in Nat
  /\ halt \in {"none", "cancelled", "budget", "failure"}
  /\ aborted \in BOOLEAN /\ registered \in BOOLEAN
  /\ verdict \in {"none", "completed", "failed", "partial", "cancelled"}
  /\ status \in {"running", "completed", "failed", "partial", "cancelled"}

\* A member is started only where the plan and the policy allow it: the result
\* of every dependency was collected, so that its handoff chain is complete;
\* nothing collected failed under "stop"; the run is not cancelled; and not more
\* are under way than maxConcurrency allows, diagnoses and retries included.
StartAllowed(m) ==
  /\ squad.deps[m] \subseteq delivered
  /\ squad.policy = "stop" => \A d \in delivered : outcome[d] = "completed"
  /\ ~aborted
  /\ Cardinality(Live') <= squad.limit

\* A member runs when it may, and work that completed is kept: no retry, skip,
\* cancel or rejected sibling runs the member again or overwrites its status.
StartsAreAllowed ==
  [][\A m \in Members :
       /\ phase[m] = "idle" /\ phase'[m] # "idle" => StartAllowed(m)
       /\ row[m] = "completed" => row'[m] = "completed"]_vars

\* cancelRun finds a run as long as one of its members is under way, unless the
\* error of a rejected member ended the dispatch over its siblings.
MembersAreCancellable ==
  Live # {} => registered \/ \E m \in batch : phase[m] = "rejected"

\* A run that settles normally tells the truth about its members: every
\* member is settled, "completed" means that all of them completed, "failed"
\* that none did and "partial" that some did; and until then it can be cancelled.
StatusMatchesMembers ==
  /\ TypeOK
  /\ MembersAreCancellable
  /\ verdict # "none" /\ status = verdict =>
       LET completed == {m \in Members : row[m] = "completed"}
       IN  /\ \A m \in Members : row[m] \notin Unfinished
           /\ status = "completed" => completed = Members
           /\ status = "failed" => completed = {}
           /\ status = "partial" => completed # {}

\* The budget is soft, but no attempt is started on a spent budget: the run
\* overshoots by at most what was under way when the budget ran out.
BudgetOvershootBounded ==
  squad.budget # NoBudget /\ squad.budget > 0 => spent < squad.budget + squad.limit

\* Every dispatch settles, whatever its members and the user do.
EveryDispatchSettles == <>(status # "running")
=============================================================================
