----------------------------- MODULE RunRequests -----------------------------
(***************************************************************************)
(* Background runs and retries (startBackgroundDispatch,                   *)
(* acceptBackgroundDispatch and retryRun in                                *)
(* src/src/tools/application/execution-service.ts) beside the lead's       *)
(* continuations, over one run table.  The same request made twice finds   *)
(* its active row, or joins the promise that is accepting it, and both are *)
(* looked at before the first await.  The row is written before its job is *)
(* handed to the jobs service, which may refuse it.                        *)
(***************************************************************************)
EXTENDS Continuation

CONSTANTS
  Requests     \* the requests that are made

VARIABLES
  acceptance,  \* backgroundAcceptances: what is being accepted, by request
  asked        \* the request of each background row so far (backgroundRequestKey)

requestVars == <<acceptance, asked>>
allVars == <<vars, requestVars>>

\* requestKey: run/start asks for a new run, run/retry for a settled one, or one
\* member of it, again.
Request(retryOf, selected) == [retryOf |-> retryOf, selected |-> selected]

SystemInit ==
  /\ Init
  /\ acceptance = [q \in {} |-> Nothing]
  /\ asked = [r \in {} |-> Nothing]

\* The calls that wait for the acceptance of q get what it settles to.
Settles(q, at, run) ==
  /\ call' = [c \in Calls |-> IF call[c].at = "waiting" /\ call[c].source = Nothing /\ call[c].key = q
                                THEN [call[c] EXCEPT !.at = at, !.run = run] ELSE call[c]]
  /\ acceptance' = Less(acceptance, q)

(***************************************************************************)
(* retryRun and startBackgroundDispatch up to their first await.           *)
(***************************************************************************)
\* Fault: only the promise of the acceptance is looked for, not what it led to.
AcceptedNever(q) == {}

\* The rows that a repeated request is answered with.
Accepted(q) == {r \in DOMAIN rows \intersect DOMAIN asked : asked[r] = q /\ rows[r].status = "active"}

Answer(c, at, q, run) == call' = [call EXCEPT ![c] = Made(at, Nothing, q, run)]

\* Only a settled run is retried; one without a plan, or without an assignment
\* for the member, is refused as well.
MayRetry(q) == q.retryOf = Nothing \/ (q.retryOf \in DOMAIN rows /\ rows[q.retryOf].status \in Settled)

RefuseRetry(c, q) ==
  /\ q.retryOf # Nothing
  /\ Answer(c, "refused", q, Nothing)
  /\ UNCHANGED acceptance

FindAccepted(c, q) ==
  /\ MayRetry(q)
  /\ \E r \in Accepted(q) : Answer(c, "told", q, r)
  /\ UNCHANGED acceptance

JoinAcceptance(c, q) ==
  /\ MayRetry(q) /\ Accepted(q) = {}
  /\ q \in DOMAIN acceptance
  /\ Answer(c, "waiting", q, Nothing)
  /\ UNCHANGED acceptance

BeginAcceptance(c, q) ==
  /\ MayRetry(q) /\ Accepted(q) = {}
  /\ q \notin DOMAIN acceptance
  /\ Answer(c, "waiting", q, Nothing)
  /\ acceptance' = With(acceptance, q, [step |-> "reading", run |-> Nothing])

AskForRun(c, q) ==
  /\ IsNext(c)
  /\ RefuseRetry(c, q) \/ FindAccepted(c, q) \/ JoinAcceptance(c, q) \/ BeginAcceptance(c, q)
  /\ UNCHANGED <<rows, live, issued, flight, launched, faults, crashes, asked>>

(***************************************************************************)
(* acceptBackgroundDispatch.                                               *)
(***************************************************************************)
At(q, step) == q \in DOMAIN acceptance /\ acceptance[q].step = step

\* The team cannot carry the run, or the caller has aborted: nothing was
\* written.  From here on the caller's signal is no longer looked at.
ReadSquad(q) ==
  /\ At(q, "reading")
  /\ \/ Settles(q, "refused", Nothing) /\ UNCHANGED issued
     \/ /\ Identify
        /\ acceptance' = [acceptance EXCEPT ![q] = [step |-> "putting", run |-> issued']]
        /\ UNCHANGED call
  /\ UNCHANGED <<rows, live, flight, launched, faults, crashes, asked>>

Store(q) ==
  LET r == acceptance[q].run
  IN /\ rows' = With(rows, r, Row("active", 0, FALSE))
     /\ asked' = With(asked, r, q)

\* The jobs service takes the job, or throws, and the row is to be settled.
\* n faults have happened by then; a refusal is one more.
HandOver(q, n) ==
  LET r == acceptance[q].run
  IN \/ live' = live \union {r} /\ Settles(q, "told", r) /\ faults' = n
     \/ /\ n < MaxFaults /\ faults' = n + 1
        /\ acceptance' = [acceptance EXCEPT ![q].step = "withdrawing"]
        /\ UNCHANGED <<live, call>>

Put(q) ==
  /\ At(q, "putting")
  /\ Store(q) /\ HandOver(q, faults)
  /\ UNCHANGED <<issued, flight, launched, crashes>>

\* Fault: a write that reports an error counts as one that had no effect.
PutFailsUntrusting(q) ==
  /\ At(q, "putting")
  /\ faults < MaxFaults
  /\ faults' = faults + 1
  /\ Settles(q, "refused", Nothing)
  /\ UNCHANGED live
  /\ UNCHANGED <<rows, asked>> \/ Store(q)
  /\ UNCHANGED <<issued, flight, launched, crashes>>

\* The write rejects before it took effect, or after: the code looks which.
PutFails(q) ==
  /\ At(q, "putting")
  /\ faults < MaxFaults
  /\ \/ Settles(q, "refused", Nothing) /\ faults' = faults + 1 /\ UNCHANGED <<rows, live, asked>>
     \/ Store(q) /\ HandOver(q, faults + 1)
  /\ UNCHANGED <<issued, flight, launched, crashes>>

\* Fault: a job that was refused leaves its row as it is.
WithdrawNothing(q) ==
  /\ At(q, "withdrawing")
  /\ Settles(q, "refused", Nothing)
  /\ UNCHANGED <<rows, live, issued, flight, launched, faults, crashes, asked>>

\* The row of a refused job is settled as failed, unless that write fails too.
Withdraw(q) ==
  /\ At(q, "withdrawing")
  /\ Settles(q, "refused", Nothing)
  /\ LET r == acceptance[q].run
     IN \/ rows' = [rows EXCEPT ![r].status = "final"] /\ UNCHANGED faults
        \/ faults < MaxFaults /\ faults' = faults + 1 /\ UNCHANGED rows
  /\ UNCHANGED <<live, issued, flight, launched, crashes, asked>>

Accepting(q) == ReadSquad(q) \/ Put(q) \/ Withdraw(q)

\* The promises are gone with the process; the rows keep their requests.
Restart ==
  /\ Crash
  /\ acceptance' = [q \in {} |-> Nothing]
  /\ UNCHANGED asked

SystemNext ==
  \/ Step /\ UNCHANGED requestVars
  \/ \E c \in Calls, q \in Requests : AskForRun(c, q)
  \/ \E q \in Requests : Accepting(q) \/ PutFails(q)
  \/ Restart

SystemSpec == SystemInit /\ [][SystemNext]_allVars

\* The host's loop runs what is ready, storage and the jobs service answer, and
\* dispatches settle (RunLifecycle and MemberScheduler say why).
SystemFairSpec ==
  /\ SystemSpec
  /\ \A r \in Runs : WF_allVars(Proceed(r) /\ UNCHANGED requestVars)
  /\ \A q \in Requests : WF_allVars(Accepting(q))

(***************************************************************************)
(* Properties.                                                             *)
(***************************************************************************)
\* A background request is carried out by one run at a time, however often it
\* is repeated while its team is read, its row written or its job handed over,
\* and nobody is told of a run that was started for another request.  (Together
\* with the answers of continuations.)
OneRunPerRequest ==
  /\ AnswersAgree
  /\ \A r, s \in live \intersect DOMAIN asked : asked[r] = asked[s] => r = s
  /\ \A c \in Calls : call[c].at = "told" /\ call[c].source = Nothing =>
       call[c].run \in DOMAIN asked /\ asked[call[c].run] = call[c].key

\* An active row has its run in this process or is still being accepted: after
\* a refusal, by one's own abort or by that of the caller one joined, nothing is
\* left that a repeated request would be answered with.  One fault is not
\* enough to break this; a refused job and a failing write are.
RefusalLeavesNothing ==
  \A r \in DOMAIN rows \intersect DOMAIN asked : rows[r].status = "active" =>
    \/ r \in live
    \/ \E q \in DOMAIN acceptance : acceptance[q].run = r
    \/ faults > 1

\* Whoever asks for a continuation, a retry or a run is answered.
EveryCallReturns == \A c \in Calls : call[c].at = "waiting" ~> call[c].at \in {"told", "refused"}
=============================================================================
