---------------------------- MODULE Continuation ----------------------------
(***************************************************************************)
(* The continuation of a failed run by the lead (continueFromTool and      *)
(* admitContinuation in src/src/tools/application/execution-service.ts).   *)
(* A source run gets a receipt that names its successor before the         *)
(* successor is launched; the calls that arrive meanwhile share one        *)
(* promise.  Rows survive a crash, promises do not.  An action is what     *)
(* runs between two awaits.                                                *)
(***************************************************************************)
EXTENDS Naturals, FiniteSets

CONSTANTS
  MaxCalls,          \* how many calls are made
  Keys,              \* digests of the requested plan: equal for equal requests
  MaxRuns,           \* how many runs are started after the message's first
  Nothing,
  MaxContinuations,  \* chain.maxContinuations
  MaxFaults, MaxCrashes    \* bounds of the exploration

ASSUME BoundsAssumption == {MaxCalls, MaxRuns, MaxContinuations, MaxFaults, MaxCrashes} \subseteq Nat

\* Calls are numbered as they are made, runs as randomUUID names them: it never
\* repeats itself.
Calls == 1..MaxCalls
Root == 0
Runs == Root..MaxRuns

\* null is no run and no receipt.
ASSUME NothingAssumption == Nothing \notin Runs \union [key : Keys, run : Runs]

VARIABLES
  rows,        \* the run table: a function from the runs it holds
  live,        \* activeRunControllers: the runs this process carries out
  issued,      \* the last identity that was given out
  flight,      \* continuationCalls: what is under way, by source
  call,        \* what each call waits for, or was told
  launched,    \* every dispatch of a successor so far
  faults, crashes

vars == <<rows, live, issued, flight, call, launched, faults, crashes>>

\* linked: the row names the user message it was dispatched for.
Row(status, revision, linked) ==
  [status |-> status, revision |-> revision, linked |-> linked, receipt |-> Nothing]
Settled == {"continuable", "final"}   \* failed or partial with unfinished work; all else

Made(at, source, key, run) == [at |-> at, source |-> source, key |-> key, run |-> run]
Unmade == Made("unmade", Nothing, Nothing, Nothing)

Init ==
  /\ rows = [r \in {Root} |-> Row("active", 0, TRUE)]
  /\ live = {Root}
  /\ issued = Root
  /\ flight = [r \in {} |-> Nothing]
  /\ call = [c \in Calls |-> Unmade]
  /\ launched = {}
  /\ faults = 0 /\ crashes = 0

With(f, k, v) == [x \in DOMAIN f \union {k} |-> IF x = k THEN v ELSE f[x]]
Less(f, k) == [x \in DOMAIN f \ {k} |-> f[x]]

(***************************************************************************)
(* continueFromTool up to its first await.                                 *)
(***************************************************************************)
\* Fault: the limit is off by one.
EligiblePastLimit(row) ==
  /\ row.linked
  /\ row.status = "continuable"
  /\ row.revision <= MaxContinuations
  /\ row.receipt = Nothing

\* continuationAvailability
Eligible(row) ==
  /\ row.linked
  /\ row.status = "continuable"
  /\ row.revision < MaxContinuations
  /\ row.receipt = Nothing

Tell(c, r, k) == call' = [call EXCEPT ![c] = Made("told", r, k, rows[r].receipt.run)]
Refuse(c, r, k) == call' = [call EXCEPT ![c] = Made("refused", r, k, Nothing)]
Wait(c, r, k) == call' = [call EXCEPT ![c] = Made("waiting", r, k, Nothing)]

\* A continuation of this plan is under way: join it, or it is another one.
Join(c, r, k) ==
  /\ r \in DOMAIN flight
  /\ IF flight[r].key = k THEN Wait(c, r, k) ELSE Refuse(c, r, k)
  /\ UNCHANGED flight

\* Fault: a lost successor is started again.
RecallReplays(c, r, k) ==
  /\ r \notin DOMAIN flight
  /\ rows[r].receipt # Nothing
  /\ rows[r].receipt.key = k
  /\ IF rows[r].receipt.run \in DOMAIN rows
       THEN Tell(c, r, k) /\ UNCHANGED flight
       ELSE /\ flight' = With(flight, r, [key |-> k, run |-> rows[r].receipt.run, step |-> "launching",
                                          revision |-> rows[r].revision])
            /\ Wait(c, r, k)

\* Fault: the durable receipt is compared by its source only.
RecallAnyKey(c, r, k) ==
  /\ r \notin DOMAIN flight
  /\ rows[r].receipt # Nothing
  /\ IF rows[r].receipt.run \in DOMAIN rows THEN Tell(c, r, k) ELSE Refuse(c, r, k)
  /\ UNCHANGED flight

\* One was accepted earlier: return its settled run, and start nothing.
Recall(c, r, k) ==
  /\ r \notin DOMAIN flight
  /\ rows[r].receipt # Nothing
  /\ LET receipt == rows[r].receipt
     IN IF /\ receipt.key = k
           /\ receipt.run \in DOMAIN rows
           /\ rows[receipt.run].status \in Settled
          THEN Tell(c, r, k) ELSE Refuse(c, r, k)
  /\ UNCHANGED flight

Admit(c, r, k) ==
  /\ r \notin DOMAIN flight
  /\ rows[r].receipt = Nothing
  /\ IF Eligible(rows[r])
       THEN /\ flight' = With(flight, r, [key |-> k, run |-> Nothing, step |-> "reading",
                                          revision |-> rows[r].revision])
            /\ Wait(c, r, k)
       ELSE Refuse(c, r, k) /\ UNCHANGED flight

IsNext(c) == call[c] = Unmade /\ \A d \in 1..(c - 1) : call[d] # Unmade

Ask(c, r, k) ==
  /\ IsNext(c)
  /\ r \in DOMAIN rows
  /\ Join(c, r, k) \/ Recall(c, r, k) \/ Admit(c, r, k)
  /\ UNCHANGED <<rows, live, issued, launched, faults, crashes>>

(***************************************************************************)
(* admitContinuation.                                                      *)
(***************************************************************************)
Waiting(r) == {c \in Calls : call[c].at = "waiting" /\ call[c].source = r}

\* The promise settles: all who wait get the same, and the entry is removed.
Resolve(r, at, run) ==
  /\ call' = [c \in Calls |-> IF c \in Waiting(r) THEN [call[c] EXCEPT !.at = at, !.run = run] ELSE call[c]]
  /\ flight' = Less(flight, r)
Reject(r) == Resolve(r, "refused", Nothing)

Advance(r, step) == flight' = [flight EXCEPT ![r].step = step]

Identify == issued < MaxRuns /\ issued' = issued + 1

\* readSquadExecutionSnapshot returns: the team changed or the caller aborted,
\* or the successor gets its identity and the receipt is written.
ReadTeam(r) ==
  /\ r \in DOMAIN flight
  /\ flight[r].step = "reading"
  /\ \/ Reject(r) /\ UNCHANGED issued
     \/ /\ Identify
        /\ flight' = [flight EXCEPT ![r].step = "committing", ![r].run = issued']
        /\ UNCHANGED call
  /\ UNCHANGED <<rows, live, launched, faults, crashes>>

Receipted(r) == [rows EXCEPT ![r].receipt = [key |-> flight[r].key, run |-> flight[r].run]]

\* The update finds the row as it was: the receipt is durable.
CommitReceipt(r) ==
  /\ r \in DOMAIN flight
  /\ flight[r].step = "committing"
  /\ IF r \in DOMAIN rows /\ rows[r].receipt = Nothing
       THEN rows' = Receipted(r) /\ Advance(r, "launching") /\ UNCHANGED call
       ELSE Reject(r) /\ UNCHANGED rows
  /\ UNCHANGED <<live, issued, launched, faults, crashes>>

\* Fault: an update that reports an error counts as done.
CommitTrusted(r) ==
  /\ r \in DOMAIN flight
  /\ flight[r].step = "committing"
  /\ faults < MaxFaults
  /\ faults' = faults + 1
  /\ Advance(r, "launching")
  /\ UNCHANGED <<rows, live, issued, call, launched, crashes>>

\* The update rejects, before or after it took effect; the code looks which.
CommitFails(r) ==
  /\ r \in DOMAIN flight
  /\ flight[r].step = "committing"
  /\ faults < MaxFaults
  /\ faults' = faults + 1
  /\ \/ Reject(r) /\ UNCHANGED rows
     \/ /\ r \in DOMAIN rows /\ rows[r].receipt = Nothing
        /\ rows' = Receipted(r)
        /\ Advance(r, "launching")
        /\ UNCHANGED call
  /\ UNCHANGED <<live, issued, launched, crashes>>

\* dispatch stores the successor's row, or throws before.
Launch(r) ==
  /\ r \in DOMAIN flight
  /\ flight[r].step = "launching"
  /\ \/ /\ rows' = With(rows, flight[r].run, Row("active", flight[r].revision + 1, TRUE))
        /\ live' = live \union {flight[r].run}
        /\ launched' = launched \union {[source |-> r, key |-> flight[r].key, run |-> flight[r].run]}
        /\ Advance(r, "running")
        /\ UNCHANGED call
     \/ Reject(r) /\ UNCHANGED <<rows, live, launched>>
  /\ UNCHANGED <<issued, faults, crashes>>

\* Fault: the entry of continuationCalls is kept until the run has a row to return.
FinishKeepsEntry(r) ==
  /\ r \in DOMAIN flight
  /\ flight[r].step = "running"
  /\ flight[r].run \in DOMAIN rows => rows[flight[r].run].status \in Settled
  /\ flight[r].run \in DOMAIN rows
  /\ Resolve(r, "told", flight[r].run)
  /\ UNCHANGED <<rows, live, issued, launched, faults, crashes>>

\* dispatch returns what it settled, or throws: the row may be gone again.
Finish(r) ==
  /\ r \in DOMAIN flight
  /\ flight[r].step = "running"
  /\ flight[r].run \in DOMAIN rows => rows[flight[r].run].status \in Settled
  /\ Reject(r) \/ (flight[r].run \in DOMAIN rows /\ Resolve(r, "told", flight[r].run))
  /\ UNCHANGED <<rows, live, issued, launched, faults, crashes>>

(***************************************************************************)
(* The runs themselves, their deletion and the death of the host.          *)
(***************************************************************************)
Settle(r) ==
  /\ r \in DOMAIN rows
  /\ rows[r].status = "active"
  /\ r \in live
  /\ \E s \in Settled : rows' = [rows EXCEPT ![r].status = s]
  /\ live' = live \ {r}
  /\ UNCHANGED <<issued, flight, call, launched, faults, crashes>>

\* Clear or retention; an active row is kept.
Delete(r) ==
  /\ r \in DOMAIN rows
  /\ rows[r].status \in Settled
  /\ rows' = Less(rows, r)
  /\ UNCHANGED <<live, issued, flight, call, launched, faults, crashes>>

\* The next process marks the active rows interrupted: final.
Crash ==
  /\ crashes < MaxCrashes
  /\ crashes' = crashes + 1
  /\ live' = {}
  /\ flight' = [r \in {} |-> Nothing]
  /\ call' = [c \in Calls |-> IF call[c].at = "waiting" THEN [call[c] EXCEPT !.at = "refused"] ELSE call[c]]
  /\ rows' = [r \in DOMAIN rows |->
                IF rows[r].status = "active" THEN [rows[r] EXCEPT !.status = "final"] ELSE rows[r]]
  /\ UNCHANGED <<issued, launched, faults>>

Proceed(r) == ReadTeam(r) \/ CommitReceipt(r) \/ Launch(r) \/ Finish(r) \/ Settle(r)

Step ==
  \/ \E c \in Calls, r \in DOMAIN rows, k \in Keys : Ask(c, r, k)
  \/ \E r \in Runs : Proceed(r) \/ CommitFails(r) \/ Delete(r)

Spec == Init /\ [][Step \/ Crash]_vars

(***************************************************************************)
(* Properties.                                                             *)
(***************************************************************************)
\* Rows, entries and calls are of their types; what is being launched has a name.
TypeOK ==
  /\ DOMAIN rows \subseteq Runs
  /\ \A r \in DOMAIN rows :
       /\ rows[r].status \in Settled \union {"active"}
       /\ rows[r].revision \in 0..MaxContinuations /\ rows[r].linked \in BOOLEAN
       /\ rows[r].receipt = Nothing \/ rows[r].receipt \in [key : Keys, run : Runs \ {Root}]
  /\ live \subseteq DOMAIN rows /\ issued \in Runs /\ \A r \in DOMAIN rows : r <= issued
  /\ \A r \in DOMAIN flight :
       /\ flight[r].step \in {"reading", "committing", "launching", "running"}
       /\ flight[r].key \in Keys
       /\ flight[r].run \in IF flight[r].step = "reading" THEN {Nothing} ELSE Runs \ {Root}
  /\ \A c \in Calls : call[c].at \in {"unmade", "waiting", "told", "refused"}
  /\ launched \subseteq [source : Runs, key : Keys, run : Runs]

\* No plan is continued twice, whatever calls, faults, crashes and deletions do:
\* a successor is launched under the durable receipt that names it, which is
\* never withdrawn or replaced, and a chain ends at its limit (the type invariant).
OneSuccessor ==
  /\ TypeOK
  /\ \A l \in launched :
       /\ \A m \in launched : l.source = m.source \/ l.run = m.run => l = m
       /\ l.source \in DOMAIN rows => rows[l.source].receipt = [key |-> l.key, run |-> l.run]

\* A call is told of a run only if that run continues its source as it asked:
\* duplicates share one run, a different request never gets it.
AnswersAgree ==
  \A c \in Calls : call[c].at = "told" /\ call[c].source # Nothing =>
    [source |-> call[c].source, key |-> call[c].key, run |-> call[c].run] \in launched

\* A successor that was deleted is not started again: its source's receipt
\* outlives it, and a call that asks once more is refused.
NeverReplayed ==
  [][\A r \in DOMAIN rows' \ DOMAIN rows : r \notin {l.run : l \in launched}]_vars
=============================================================================
