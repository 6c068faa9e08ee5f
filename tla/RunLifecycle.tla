---------------------------- MODULE RunLifecycle ----------------------------
(***************************************************************************)
(* The life of a durable run row: foreground dispatch, background          *)
(* acceptance and its job, the abort controllers, Run Center cancel and    *)
(* clear, retention, host crash and startup reconciliation                 *)
(* (src/src/tools/application/execution-service.ts, run-history.ts).       *)
(*                                                                         *)
(* A run has one representative member; MemberScheduler has them all.  A   *)
(* table write is one atomic step; what the code does after its await is a *)
(* later step, so any other task may run in between.                       *)
(***************************************************************************)
EXTENDS Naturals, FiniteSets

CONSTANTS
  Foreground,   \* runs dispatched by a conversation step or by the tool
  Background,   \* runs accepted by startBackgroundDispatch
  MaxRuns,      \* historyMaxRuns, 0 when count retention is off
  Settings,     \* [age, job, store]: whether historyMaxAgeDays is set, whether
                \* jobs.start may throw, and whether the write that settles a
                \* thrown run may fail
  MaxCrashes    \* bound: host crashes

Runs == Foreground \union Background

ASSUME RunsAssumption ==
  /\ Foreground \intersect Background = {}
  /\ IsFiniteSet(Runs)
  /\ MaxRuns \in Nat /\ MaxCrashes \in Nat
  /\ Settings \subseteq [age : BOOLEAN, job : BOOLEAN, store : BOOLEAN]

VARIABLES
  row,          \* row[r]: status of the durable row, "absent" when there is none
  member,       \* member[r]: status of the row's member
  older,        \* older[r]: the rows with an earlier startedAt than r's row
  pc,           \* pc[r]: where the coroutine of the run is
  map,          \* activeRunControllers: the controller registered for r
  inner,        \* runs whose dispatch controller is aborted
  outer,        \* runs whose caller signal (background: own controller) is aborted
  pending,      \* pendingBackgroundRuns
  unawaited,    \* unawaited[r]: statuses of writes issued and not awaited
  verdict,      \* verdict[r]: the status computed before the settling write
  result,       \* result[r]: what the dispatch returned or "threw"
  doomed,       \* doomed[r]: rows this run's retention pass still has to delete
  honoured,     \* runs whose cancel was acknowledged before their verdict
  host,         \* "ready", "recovering" or "down"
  toReconcile,  \* rows the startup pass still has to mark interrupted
  crashes,
  setting       \* the chosen settings, which never change

rowVars == <<row, member, older>>
signalVars == <<map, inner, outer, pending, honoured>>
runVars == <<pc, verdict, result, doomed, unawaited>>
hostVars == <<host, toReconcile, crashes, setting>>
vars == <<rowVars, signalVars, runVars, hostVars>>

Active == {"planning", "queued", "running"}
Settled == {"completed", "partial", "failed", "cancelled", "interrupted", "skipped"}
Unfinished == {"pending", "running"}
MemberStatus == Unfinished \union {"completed", "failed", "cancelled", "interrupted", "skipped"}
Stages == {"idle", "accepted", "waiting", "putting", "planning", "members", "verdict",
           "settling", "skipping", "returning", "catching", "finally", "pruning", "handling",
           "done", "rejected", "dead"}

Init ==
  /\ row = [r \in Runs |-> "absent"]
  /\ member = [r \in Runs |-> "pending"]
  /\ older = [r \in Runs |-> {}]
  /\ pc = [r \in Runs |-> "idle"]
  /\ map = [r \in Runs |-> "none"]
  /\ inner = {}
  /\ outer = {}
  /\ pending = {}
  /\ unawaited = [r \in Runs |-> {}]
  /\ verdict = [r \in Runs |-> "none"]
  /\ result = [r \in Runs |-> "none"]
  /\ doomed = [r \in Runs |-> {}]
  /\ honoured = {}
  /\ host = "ready"
  /\ toReconcile = {}
  /\ crashes = 0
  /\ setting \in Settings

\* runSignal = AbortSignal.any([signal, controller.signal])
Aborted(r) == r \in inner \union outer

\* The controllers of a coroutine that is gone have no reader left.
Forget(S) == inner' = inner \ S /\ outer' = outer \ S

Goto(r, stage) == pc' = [pc EXCEPT ![r] = stage]

\* runs().put: a fresh row with a pending member and a new startedAt.
PutFresh(r, status) ==
  /\ row' = [row EXCEPT ![r] = status]
  /\ member' = [member EXCEPT ![r] = "pending"]
  /\ older' = [s \in Runs |->
       IF s = r THEN {t \in Runs \ {r} : row[t] # "absent"} ELSE older[s] \ {r}]

\* table.delete of the rows in S.
Delete(S) ==
  /\ row' = [r \in Runs |-> IF r \in S THEN "absent" ELSE row[r]]
  /\ member' = [r \in Runs |-> IF r \in S THEN "pending" ELSE member[r]]
  /\ older' = [r \in Runs |-> IF r \in S THEN {} ELSE older[r] \ S]

\* updateRun: nothing when the row is gone.
SetStatus(r, status) ==
  row' = [row EXCEPT ![r] = IF @ = "absent" THEN @ ELSE status]

\* updateRun of a thrown run: unfinished members get the status of the run.
SettleWith(r, status) ==
  /\ SetStatus(r, status)
  /\ member' = [member EXCEPT ![r] =
       IF row[r] # "absent" /\ @ \in Unfinished THEN status ELSE @]

\* A write whose failure is only logged, or replaces the error being thrown.
TrySettle(r, status) ==
  \/ SettleWith(r, status)
  \/ setting.store /\ UNCHANGED <<row, member>>

-----------------------------------------------------------------------------
(***************************************************************************)
(* Background acceptance: the queued row is the acceptance boundary; the   *)
(* controller is registered only when the put has been awaited.            *)
(***************************************************************************)
Accept(r) ==
  /\ r \in Background
  /\ host # "down"
  /\ pc[r] = "idle"
  /\ PutFresh(r, "queued")
  /\ Goto(r, "accepted")
  /\ UNCHANGED <<signalVars, verdict, result, doomed, unawaited, hostVars>>

\* A check of startBackgroundDispatch or the put itself rejects: no row.
RefuseAcceptance(r) ==
  /\ r \in Background
  /\ host # "down"
  /\ pc[r] = "idle"
  /\ Goto(r, "rejected")
  /\ UNCHANGED <<rowVars, signalVars, verdict, result, doomed, unawaited, hostVars>>

\* jobs.start, or the direct starter, has taken the run.
Register(r) ==
  /\ pc[r] = "accepted"
  /\ map' = [map EXCEPT ![r] = "outer"]
  /\ pending' = pending \union {r}
  /\ Goto(r, "waiting")
  /\ UNCHANGED <<rowVars, inner, outer, honoured, verdict, result, doomed, unawaited, hostVars>>

(***************************************************************************)
(* jobs.start throws, before or after it called the starter: the controller *)
(* is aborted and dropped and a write of "failed" issued; a starter already *)
(* called ends in its own error handler.                                   *)
(***************************************************************************)
RejectJob(r) ==
  /\ setting.job
  /\ pc[r] = "accepted"
  /\ outer' = outer \union {r}
  /\ unawaited' = [unawaited EXCEPT ![r] = @ \union {"failed"}]
  /\ \E stage \in {"rejected", "handling"} : Goto(r, stage)
  /\ UNCHANGED <<rowVars, map, inner, pending, honoured, verdict, result, doomed, hostVars>>

\* The two writes nobody awaits: the rejected job's and the pending cancel's.
\* Only the cancel touches the members.
CommitUnawaited(r, status) ==
  /\ status \in unawaited[r]
  /\ unawaited' = [unawaited EXCEPT ![r] = @ \ {status}]
  /\ \/ /\ SetStatus(r, status)
        /\ member' = [member EXCEPT ![r] =
             IF status = "cancelled" /\ row[r] # "absent" /\ @ = "pending" THEN status ELSE @]
     \/ setting.store /\ UNCHANGED <<row, member>>
  /\ UNCHANGED <<older, signalVars, pc, verdict, result, doomed, hostVars>>

\* Fault: the starter does not look at the controller before it dispatches.
StartJobUnchecked(r) ==
  /\ pc[r] = "waiting"
  /\ pending' = pending \ {r}
  /\ map' = [map EXCEPT ![r] = "inner"]
  /\ Goto(r, "putting")
  /\ UNCHANGED <<rowVars, inner, outer, honoured, verdict, result, doomed, unawaited, hostVars>>

(***************************************************************************)
(* The starter runs: an aborted controller or a rejected check of dispatch *)
(* goes to the error handler; otherwise dispatch registers a controller of *)
(* its own over the starter's.                                             *)
(***************************************************************************)
StartJob(r) ==
  /\ pc[r] = "waiting"
  /\ pending' = pending \ {r}
  /\ \/ /\ Goto(r, "handling")
        /\ UNCHANGED map
     \/ /\ r \notin outer
        /\ map' = [map EXCEPT ![r] = "inner"]
        /\ Goto(r, "putting")
  /\ UNCHANGED <<rowVars, inner, outer, honoured, verdict, result, doomed, unawaited, hostVars>>

\* The error handler of the starter settles the row from the outer signal.
HandleJobError(r) ==
  /\ pc[r] = "handling"
  /\ TrySettle(r, IF r \in outer THEN "cancelled" ELSE "failed")
  /\ map' = [map EXCEPT ![r] = "none"]
  /\ Goto(r, "done")
  /\ Forget({r})
  /\ UNCHANGED <<older, pending, honoured, verdict, result, doomed,
                 unawaited, hostVars>>

-----------------------------------------------------------------------------
(***************************************************************************)
(* dispatch: the controller is registered before the row is written.       *)
(***************************************************************************)
Begin(r) ==
  /\ r \in Foreground
  /\ host = "ready"
  /\ pc[r] = "idle"
  /\ map' = [map EXCEPT ![r] = "inner"]
  /\ Goto(r, "putting")
  /\ UNCHANGED <<rowVars, inner, outer, pending, honoured, verdict, result, doomed, unawaited, hostVars>>

\* The initial row and the status update after it.
PutRow(r) ==
  /\ pc[r] = "putting"
  /\ \/ PutFresh(r, "planning") /\ Goto(r, "planning")
     \/ PutFresh(r, "running") /\ Goto(r, "members")
  /\ UNCHANGED <<signalVars, verdict, result, doomed, unawaited, hostVars>>

\* createAutomaticPlan: an aborted or failed planner yields the fallback plan.
Plan(r) ==
  /\ pc[r] = "planning"
  /\ SetStatus(r, "running")
  /\ \E stage \in {"members", "skipping"} : Goto(r, stage)
  /\ UNCHANGED <<member, older, signalVars, verdict, result, doomed, unawaited, hostVars>>

\* The write of plan.decision = "skip".
SkipRow(r) ==
  /\ SetStatus(r, "skipped")
  /\ member' = [member EXCEPT ![r] = IF row[r] = "absent" THEN @ ELSE "skipped"]

\* plan.decision = "skip": the row and its members settle as skipped.
SettleSkip(r) ==
  /\ pc[r] = "skipping"
  /\ SkipRow(r)
  /\ result' = [result EXCEPT ![r] = "skipped"]
  /\ Goto(r, "finally")
  /\ UNCHANGED <<older, signalVars, verdict, doomed, unawaited, hostVars>>

StartMember(r) ==
  /\ pc[r] = "members"
  /\ member[r] = "pending"
  /\ ~Aborted(r)
  /\ member' = [member EXCEPT ![r] = "running"]
  /\ UNCHANGED <<row, older, signalVars, runVars, hostVars>>

\* Fault: a cancelled run goes to its settling write without a verdict.
EndMemberNoVerdict(r) ==
  /\ pc[r] = "members"
  /\ member[r] = "running" \/ Aborted(r)
  /\ \E status \in (IF Aborted(r) THEN {"cancelled"} ELSE {"completed", "failed"}) :
       member' = [member EXCEPT ![r] = status]
  /\ Goto(r, IF Aborted(r) THEN "settling" ELSE "verdict")
  /\ UNCHANGED <<row, older, signalVars, verdict, result, doomed, unawaited, hostVars>>

\* The member settles, or was never started because the run was cancelled.
EndMember(r) ==
  /\ pc[r] = "members"
  /\ member[r] = "running" \/ Aborted(r)
  /\ \E status \in (IF Aborted(r) THEN {"cancelled"} ELSE {"completed", "failed"}) :
       member' = [member EXCEPT ![r] = status]
  /\ Goto(r, "verdict")
  /\ UNCHANGED <<row, older, signalVars, verdict, result, doomed, unawaited, hostVars>>

\* Fault: the verdict looks at the caller's signal only, not at runSignal.
DecideOuterOnly(r) ==
  /\ pc[r] = "verdict"
  /\ \E v \in {"completed", "partial", "failed"} :
       /\ member[r] = "completed" <=> v # "failed"
       /\ verdict' = [verdict EXCEPT ![r] = IF r \in outer THEN "cancelled" ELSE v]
  /\ Goto(r, "settling")
  /\ UNCHANGED <<rowVars, signalVars, result, doomed, unawaited, hostVars>>

\* The status is computed before the write that settles the row; "partial"
\* is a completed member whose quality gate did not approve.
Decide(r) ==
  /\ pc[r] = "verdict"
  /\ \E v \in {"completed", "partial", "failed"} :
       /\ member[r] = "completed" <=> v # "failed"
       /\ verdict' = [verdict EXCEPT ![r] = IF Aborted(r) THEN "cancelled" ELSE v]
  /\ Goto(r, "settling")
  /\ UNCHANGED <<rowVars, signalVars, result, doomed, unawaited, hostVars>>

\* Fault: the write looks at the signal again, the returned result does not.
SettleLateAbort(r) ==
  /\ pc[r] = "settling"
  /\ SetStatus(r, IF Aborted(r) THEN "cancelled" ELSE verdict[r])
  /\ Goto(r, "returning")
  /\ UNCHANGED <<member, older, signalVars, verdict, result, doomed, unawaited, hostVars>>

\* The write that settles the row.
Settle(r) ==
  /\ pc[r] = "settling"
  /\ SetStatus(r, verdict[r])
  /\ Goto(r, "returning")
  /\ UNCHANGED <<member, older, signalVars, verdict, result, doomed, unawaited, hostVars>>

\* continuationAvailability(this.runs().get(dispatchId)!) needs the row.
Return(r) ==
  /\ pc[r] = "returning"
  /\ IF row[r] = "absent"
       THEN Goto(r, "catching") /\ UNCHANGED result
       ELSE /\ result' = [result EXCEPT ![r] = verdict[r]]
            /\ Goto(r, "finally")
  /\ verdict' = [verdict EXCEPT ![r] = "none"]
  /\ UNCHANGED <<rowVars, signalVars, doomed, unawaited, hostVars>>

(***************************************************************************)
(* Any await of the body rejects: a write, a missing agent, a member batch. *)
(* A write that settles the row may have taken effect before it rejects;   *)
(* an earlier write that did is its own step and a Throw of the next stage. *)
(***************************************************************************)
Throw(r) ==
  /\ pc[r] \in {"putting", "planning", "members", "verdict", "settling", "skipping"}
  /\ \/ UNCHANGED <<row, member>>
     \/ pc[r] = "settling" /\ SetStatus(r, verdict[r]) /\ UNCHANGED member
     \/ pc[r] = "skipping" /\ SkipRow(r)
  /\ Goto(r, "catching")
  /\ verdict' = [verdict EXCEPT ![r] = "none"]
  /\ UNCHANGED <<older, signalVars, result, doomed, unawaited, hostVars>>

\* Fault: the catch block leaves the members as they were.
CatchRowOnly(r) ==
  /\ pc[r] = "catching"
  /\ SetStatus(r, IF Aborted(r) THEN "cancelled" ELSE "failed")
  /\ result' = [result EXCEPT ![r] = "threw"]
  /\ Goto(r, "finally")
  /\ UNCHANGED <<member, older, signalVars, verdict, doomed, unawaited, hostVars>>

\* The catch block; its own write may be the second storage fault.
Catch(r) ==
  /\ pc[r] = "catching"
  /\ TrySettle(r, IF Aborted(r) THEN "cancelled" ELSE "failed")
  /\ result' = [result EXCEPT ![r] = "threw"]
  /\ Goto(r, "finally")
  /\ UNCHANGED <<older, signalVars, verdict, doomed, unawaited, hostVars>>

-----------------------------------------------------------------------------
(***************************************************************************)
(* enforceRetention: the settled rows beyond the newest MaxRuns, and those *)
(* older than a cutoff.                                                    *)
(***************************************************************************)
SettledRows == {r \in Runs : row[r] \in Settled}
Newer(r) == {s \in SettledRows : r \in older[s]}
Crowded(r) == MaxRuns > 0 /\ Cardinality(Newer(r)) >= MaxRuns

\* The rows a cutoff can leave out: some row and all that are older.
Expired == IF setting.age THEN {{}} \union {{r} \union older[r] : r \in Runs} ELSE {{}}

\* Fault: retention counts and deletes every row, active ones too.
PrunableAny(expired) ==
  {r \in Runs : row[r] # "absent" /\ (Crowded(r) \/ r \in expired)}

Prunable(expired) == {r \in SettledRows : Crowded(r) \/ r \in expired}

\* finally: the controller goes (the starter of a background run still has its
\* own), then a retention pass over a snapshot.
Finish(r) ==
  /\ pc[r] = "finally"
  /\ map' = [map EXCEPT ![r] = "none"]
  /\ inner' = inner \ {r}
  /\ outer' = outer \ (Foreground \intersect {r})
  /\ \E expired \in Expired : doomed' = [doomed EXCEPT ![r] = Prunable(expired)]
  /\ Goto(r, "pruning")
  /\ UNCHANGED <<rowVars, pending, honoured, verdict, result, unawaited, hostVars>>

\* One delete of the pass.
Prune(r) ==
  /\ pc[r] = "pruning"
  /\ \E s \in doomed[r] :
       /\ Delete({s})
       /\ doomed' = [doomed EXCEPT ![r] = @ \ {s}]
  /\ UNCHANGED <<signalVars, pc, verdict, result, unawaited, hostVars>>

\* dispatch is over (a failing delete ends the pass early); a background
\* run that threw goes on to the starter's error handler.
EndDispatch(r) ==
  /\ pc[r] = "pruning"
  /\ doomed' = [doomed EXCEPT ![r] = {}]
  /\ IF r \in Background /\ result[r] = "threw"
       THEN Goto(r, "handling") /\ UNCHANGED <<inner, outer>>
       ELSE Goto(r, "done") /\ Forget({r})
  /\ UNCHANGED <<rowVars, map, pending, honoured, verdict, result, unawaited, hostVars>>

-----------------------------------------------------------------------------
BeforeVerdict == {"waiting", "putting", "planning", "members", "verdict"}

\* Fault: the pending cancel forgets to write the row.
CancelRunNoWrite(r) ==
  /\ host # "down"
  /\ map[r] # "none"
  /\ IF map[r] = "inner"
       THEN inner' = inner \union {r} /\ UNCHANGED outer
       ELSE outer' = outer \union {r} /\ UNCHANGED inner
  /\ honoured' = IF pc[r] \in BeforeVerdict THEN honoured \union {r} ELSE honoured
  /\ pending' = pending \ {r}
  /\ map' = [map EXCEPT ![r] = IF r \in pending THEN "none" ELSE @]
  /\ UNCHANGED <<rowVars, runVars, hostVars>>

(***************************************************************************)
(* cancelRun: aborts the controller the map holds; a run whose starter has *)
(* not run yet is dropped from both maps and its row written as cancelled. *)
(***************************************************************************)
CancelRun(r) ==
  /\ host # "down"
  /\ map[r] # "none"
  /\ IF map[r] = "inner"
       THEN inner' = inner \union {r} /\ UNCHANGED outer
       ELSE outer' = outer \union {r} /\ UNCHANGED inner
  /\ honoured' = IF pc[r] \in BeforeVerdict THEN honoured \union {r} ELSE honoured
  /\ IF r \in pending
       THEN /\ pending' = pending \ {r}
            /\ map' = [map EXCEPT ![r] = "none"]
            /\ unawaited' = [unawaited EXCEPT ![r] = @ \union {"cancelled"}]
       ELSE UNCHANGED <<pending, map, unawaited>>
  /\ UNCHANGED <<rowVars, pc, verdict, result, doomed, hostVars>>

\* The caller's own signal: the turn is stopped, or the job is cancelled.
AbortOuter(r) ==
  /\ pc[r] \notin {"idle", "accepted", "done", "rejected", "dead"}
  /\ r \in Foreground => pc[r] \notin {"finally", "pruning"}
  /\ outer' = outer \union {r}
  /\ UNCHANGED <<rowVars, map, inner, pending, honoured, runVars, hostVars>>

\* clearRuns, row by row; active rows keep their controller ownership.
Clear(r) ==
  /\ host # "down"
  /\ row[r] \in Settled
  /\ Delete({r})
  /\ UNCHANGED <<signalVars, runVars, hostVars>>

-----------------------------------------------------------------------------
\* The process dies: coroutines, controllers and unawaited writes are gone.
Crash ==
  /\ crashes < MaxCrashes
  /\ host # "down"
  /\ host' = "down"
  /\ crashes' = crashes + 1
  /\ toReconcile' = {}
  /\ pc' = [r \in Runs |-> IF pc[r] \in {"idle", "done", "rejected"} THEN pc[r] ELSE "dead"]
  /\ map' = [r \in Runs |-> "none"]
  /\ Forget(Runs)
  /\ pending' = {}
  /\ unawaited' = [r \in Runs |-> {}]
  /\ doomed' = [r \in Runs |-> {}]
  /\ verdict' = [r \in Runs |-> "none"]
  /\ UNCHANGED <<rowVars, honoured, result, setting>>

\* Fault: only "running" rows are recognised as orphans.
RestartRunningOnly ==
  /\ host = "down"
  /\ host' = "recovering"
  /\ toReconcile' = {r \in Runs : row[r] = "running"}
  /\ UNCHANGED <<rowVars, signalVars, runVars, crashes, setting>>

\* Fault: failed rows are taken for orphans, too.
RestartFailedToo ==
  /\ host = "down"
  /\ host' = "recovering"
  /\ toReconcile' = {r \in Runs : row[r] \in Active \union {"failed"}}
  /\ UNCHANGED <<rowVars, signalVars, runVars, crashes, setting>>

\* Service.init: the tables are attached and the pass takes its snapshot.
Restart ==
  /\ host = "down"
  /\ host' = "recovering"
  /\ toReconcile' = {r \in Runs : row[r] \in Active}
  /\ UNCHANGED <<rowVars, signalVars, runVars, crashes, setting>>

\* Fault: the pass looks for active rows when it writes, not in its snapshot.
ReconcileAnyActive(r) ==
  /\ host = "recovering"
  /\ r \in toReconcile \/ row[r] \in Active
  /\ SettleWith(r, "interrupted")
  /\ toReconcile' = toReconcile \ {r}
  /\ UNCHANGED <<older, signalVars, runVars, host, crashes, setting>>

\* One update of reconcileInterrupted.
Reconcile(r) ==
  /\ host = "recovering"
  /\ r \in toReconcile
  /\ SettleWith(r, "interrupted")
  /\ toReconcile' = toReconcile \ {r}
  /\ UNCHANGED <<older, signalVars, runVars, host, crashes, setting>>

\* The retention pass of recoverRunHistory, then tools and hooks register.
Recovered ==
  /\ host = "recovering"
  /\ toReconcile = {}
  /\ host' = "ready"
  /\ \E expired \in Expired : Delete(Prunable(expired))
  /\ UNCHANGED <<signalVars, runVars, toReconcile, crashes, setting>>

-----------------------------------------------------------------------------
\* What the event loop carries on with by itself once the run has begun.
Body(r) ==
  \/ PutRow(r) \/ Plan(r) \/ SettleSkip(r) \/ StartMember(r) \/ EndMember(r)
  \/ Decide(r) \/ Settle(r) \/ Return(r) \/ Throw(r) \/ Catch(r)
  \/ Finish(r) \/ Prune(r) \/ EndDispatch(r)

JobSteps(r) ==
  \/ Register(r) \/ RejectJob(r) \/ StartJob(r) \/ HandleJobError(r)

Carry(r) == Body(r) \/ JobSteps(r) \/ \E s \in unawaited[r] : CommitUnawaited(r, s)

Demand(r) == Begin(r) \/ Accept(r) \/ RefuseAcceptance(r)

User(r) == CancelRun(r) \/ AbortOuter(r) \/ Clear(r)

Recover == Restart \/ Recovered \/ \E r \in Runs : Reconcile(r)

\* Every run has ended and the host is idle.
Quiescent ==
  /\ \A r \in Runs : pc[r] \in {"done", "rejected", "dead"} /\ unawaited[r] = {}
  /\ host = "ready"
  /\ UNCHANGED vars

Next ==
  \/ \E r \in Runs : Carry(r) \/ Demand(r) \/ User(r)
  \/ Crash
  \/ Recover
  \/ Quiescent

Spec == Init /\ [][Next]_vars

\* The event loop runs ready continuations, children and table calls settle,
\* and a stopped host is started again.  Users and crashes are not fair.
FairSpec ==
  /\ Spec
  /\ \A r \in Runs : WF_vars(Body(r)) /\ WF_vars(JobSteps(r))
  /\ \A r \in Runs : WF_vars(\E s \in unawaited[r] : CommitUnawaited(r, s))
  /\ WF_vars(Recover)

-----------------------------------------------------------------------------
TypeOK ==
  /\ row \in [Runs -> Active \union Settled \union {"absent"}]
  /\ member \in [Runs -> MemberStatus]
  /\ older \in [Runs -> SUBSET Runs]
  /\ pc \in [Runs -> Stages]
  /\ map \in [Runs -> {"none", "inner", "outer"}]
  /\ inner \in SUBSET Runs
  /\ outer \in SUBSET Runs
  /\ pending \in SUBSET Runs
  /\ unawaited \in [Runs -> SUBSET {"failed", "cancelled"}]
  /\ verdict \in [Runs -> Settled \union {"none"}]
  /\ result \in [Runs -> Settled \union {"none", "threw"}]
  /\ doomed \in [Runs -> SUBSET Runs]
  /\ honoured \in SUBSET Runs
  /\ host \in {"ready", "recovering", "down"}
  /\ toReconcile \in SUBSET Runs
  /\ crashes \in Nat

\* While the host is up, an active row that is not waiting for startup
\* reconciliation has a controller cancelRun can find, except between the
\* commit of the queued row and its registration, and after a pending cancel
\* whose write is on its way: no row is active with nobody to settle it, as
\* long as storage takes the write that settles a thrown run.
ActiveRowIsOwned ==
  /\ TypeOK
  /\ host # "down" /\ ~setting.store =>
       \A r \in Runs : row[r] \in Active /\ r \notin toReconcile =>
         map[r] # "none" \/ pc[r] = "accepted" \/ unawaited[r] # {}

\* "Result status, durable status, and member status use the same
\* cancellation semantics": the status a dispatch returned is the status of
\* its row for as long as the row exists, whatever clear, retention, cancel
\* and crash do meanwhile.
ResultMatchesRow ==
  \A r \in Runs :
    result[r] \in Settled => row[r] \in {result[r], "absent"}

\* A settled row has no pending or running member (a job that the host refuses
\* leaves its member pending).
SettledRowSettledMember ==
  ~setting.job => \A r \in Runs : row[r] \in Settled => member[r] \notin Unfinished

\* Reconciliation marks rows without a live coroutine only, although runs accepted
\* by RPC while the host recovers are active at the same time.
InterruptedMeansDead ==
  \A r \in Runs : row[r] = "interrupted" => pc[r] \in {"dead", "rejected", "done"}

\* A cancel acknowledged before a run's verdict decides it: the run cannot end as
\* completed or partial, nor a foreground run as failed.  (The error handler of a
\* background run's starter looks at its own signal only and may write failed.)
CancelHonoured ==
  \A r \in honoured :
    /\ row[r] \notin {"completed", "partial"}
    /\ r \in Foreground => row[r] # "failed"

\* Whoever is asked, the dispatch, the row, its member, the coroutine or the
\* user who cancelled, tells the same about the end of a run.
StatusesAgree ==
  ResultMatchesRow /\ SettledRowSettledMember /\ InterruptedMeansDead /\ CancelHonoured

\* An active row is never deleted, by clear or retention; a settled one never
\* made active again, in particular not by the put of a background run that was
\* cancelled while it was queued; and what a foreground run settled with is
\* final, unless its settling write took effect and then rejected: the dispatch
\* throws as it overwrites the row, and the row tells no success.
RowsMoveForward ==
  [][\A r \in Runs :
       /\ row[r] \in Active => row'[r] # "absent"
       /\ row[r] \in Settled => row'[r] \in Settled \union {"absent"}
       /\ row[r] \in Settled /\ r \in Foreground =>
            \/ row'[r] \in {row[r], "absent"}
            \/ result[r] = "none" /\ result'[r] = "threw" /\ row'[r] \in {"failed", "cancelled"}]_vars

\* Every durable run ends: by its own coroutine or, after a crash, by the
\* next startup, also when the host refuses its job.
EveryRunSettles ==
  ~setting.store => \A r \in Runs : []<>(row[r] \notin Active)
=============================================================================
