-------------------------- MODULE WriteCoordinator --------------------------
(***************************************************************************)
(* The process-local FIFO critical section of                              *)
(* src/src/tools/infrastructure/write-coordinator.ts.  acquire() chains    *)
(* every call to its predecessor's promise; a call that owns an aborted    *)
(* AbortSignal rejects at once and leaves its ticket behind, to be         *)
(* resolved when the predecessor's promise is.  An action is what runs     *)
(* between two awaits; the microtask hops after a resolved promise are     *)
(* steps of their own, since a signal can fire between them.               *)
(***************************************************************************)
EXTENDS Naturals, FiniteSets

CONSTANTS
  Writers,     \* calls of run(): they bump the revision when they succeed
  Readers,     \* calls of read() and readVersioned()
  Abortable    \* the calls that pass an AbortSignal

Calls == Writers \union Readers

ASSUME CallsAssumption == Writers \intersect Readers = {} /\ Abortable \subseteq Calls

VARIABLES
  tail,        \* tickets issued; ticket t waits for the promise of t - 1
  released,    \* tickets whose promise is resolved; 0 is Promise.resolve()
  orphans,     \* tickets of rejected waiters, to be resolved after t - 1
  ticket,      \* ticket[c]: the ticket of call c, 0 before acquire()
  aborted,     \* calls whose signal has fired
  pc,          \* where each call is
  revision,    \* WriteCoordinator.revision
  observed     \* observed[c]: the revision readVersioned returned to reader c

vars == <<tail, released, orphans, ticket, aborted, pc, revision, observed>>

Stages == {"new", "queued", "resumed", "holding", "inside", "done", "rejected"}
Past == {"resumed", "holding", "inside"}      \* past the predecessor's promise
Live == Past \union {"queued"}

Init ==
  /\ tail = 0
  /\ released = {0}
  /\ orphans = {}
  /\ ticket = [c \in Calls |-> 0]
  /\ aborted = {}
  /\ pc = [c \in Calls |-> "new"]
  /\ revision = 0
  /\ observed = [c \in Calls |-> 0]

(***************************************************************************)
(* acquire(): throwIfAborted, then the ticket and the new tail.            *)
(***************************************************************************)
Acquire(c) ==
  /\ pc[c] = "new"
  /\ IF c \in aborted
       THEN /\ pc' = [pc EXCEPT ![c] = "rejected"]
            /\ UNCHANGED <<tail, ticket>>
       ELSE /\ tail' = tail + 1
            /\ ticket' = [ticket EXCEPT ![c] = tail + 1]
            /\ pc' = [pc EXCEPT ![c] = "queued"]
  /\ UNCHANGED <<released, orphans, aborted, revision, observed>>

\* Fault: a waiter stops waiting once the call before it has rejected.
PredecessorRejected(t) == t - 1 \in released \union orphans

PredecessorDone(t) == t - 1 \in released

\* Fault: versioned reads do not wait for the write in flight.
ResumeReaderEarly(c) ==
  /\ pc[c] = "queued"
  /\ c \in Readers \/ PredecessorDone(ticket[c])
  /\ pc' = [pc EXCEPT ![c] = IF c \in Abortable THEN "resumed" ELSE "holding"]
  /\ UNCHANGED <<tail, released, orphans, ticket, aborted, revision, observed>>

\* The predecessor's promise resolves: the abort listener is removed, and a
\* call without a signal has the section.
Resume(c) ==
  /\ pc[c] = "queued"
  /\ PredecessorDone(ticket[c])
  /\ pc' = [pc EXCEPT ![c] = IF c \in Abortable THEN "resumed" ELSE "holding"]
  /\ UNCHANGED <<tail, released, orphans, ticket, aborted, revision, observed>>

\* Fault: the second throwIfAborted skips the catch block that passes the ticket on.
ConfirmLosesTicket(c) ==
  /\ pc[c] = "resumed"
  /\ pc' = [pc EXCEPT ![c] = IF c \in aborted THEN "rejected" ELSE "holding"]
  /\ UNCHANGED <<tail, released, orphans, ticket, aborted, revision, observed>>

\* The second throwIfAborted of acquire().
Confirm(c) ==
  /\ pc[c] = "resumed"
  /\ IF c \in aborted
       THEN /\ pc' = [pc EXCEPT ![c] = "rejected"]
            /\ orphans' = orphans \union {ticket[c]}
       ELSE /\ pc' = [pc EXCEPT ![c] = "holding"]
            /\ UNCHANGED orphans
  /\ UNCHANGED <<tail, released, ticket, aborted, revision, observed>>

\* The throwIfAborted of run() and readVersioned(), and the operation's start.
Enter(c) ==
  /\ pc[c] = "holding"
  /\ IF c \in aborted
       THEN /\ pc' = [pc EXCEPT ![c] = "rejected"]
            /\ released' = released \union {ticket[c]}
       ELSE /\ pc' = [pc EXCEPT ![c] = "inside"]
            /\ UNCHANGED released
  /\ UNCHANGED <<tail, orphans, ticket, aborted, revision, observed>>

\* The operation resolves: run() bumps the revision, readVersioned() returns it.
Succeed(c) ==
  /\ pc[c] = "inside"
  /\ pc' = [pc EXCEPT ![c] = "done"]
  /\ released' = released \union {ticket[c]}
  /\ revision' = IF c \in Writers THEN revision + 1 ELSE revision
  /\ observed' = IF c \in Readers THEN [observed EXCEPT ![c] = revision] ELSE observed
  /\ UNCHANGED <<tail, orphans, ticket, aborted>>

\* The operation rejects: the ticket is released and the revision stays.
Fail(c) ==
  /\ pc[c] = "inside"
  /\ pc' = [pc EXCEPT ![c] = "rejected"]
  /\ released' = released \union {ticket[c]}
  /\ UNCHANGED <<tail, orphans, ticket, aborted, revision, observed>>

\* Fault: the abort listener resolves the waiter's own promise at once.
AbortReleasesNow(c) ==
  /\ c \in Abortable \ aborted
  /\ pc[c] \in {"new", "queued", "resumed", "holding"}
  /\ aborted' = aborted \union {c}
  /\ IF pc[c] = "queued"
       THEN /\ pc' = [pc EXCEPT ![c] = "rejected"]
            /\ released' = released \union {ticket[c]}
       ELSE UNCHANGED <<pc, released>>
  /\ UNCHANGED <<tail, orphans, ticket, revision, observed>>

\* Fault: calls that passed no signal are treated as abortable.
AbortAnyCall(c) ==
  /\ pc[c] \in {"new", "queued", "resumed", "holding"}
  /\ aborted' = aborted \union {c}
  /\ UNCHANGED <<tail, released, orphans, ticket, pc, revision, observed>>

(***************************************************************************)
(* The caller's signal fires.  A waiter rejects in its abort listener; at  *)
(* the other stages only the throwIfAborted calls look at the signal.      *)
(***************************************************************************)
Abort(c) ==
  /\ c \in Abortable \ aborted
  /\ pc[c] \in {"new", "queued", "resumed", "holding"}
  /\ aborted' = aborted \union {c}
  /\ IF pc[c] = "queued"
       THEN /\ pc' = [pc EXCEPT ![c] = "rejected"]
            /\ orphans' = orphans \union {ticket[c]}
       ELSE UNCHANGED <<pc, orphans>>
  /\ UNCHANGED <<tail, released, ticket, revision, observed>>

\* Fault: the ticket of a rejected waiter resolves without its predecessor.
ReleaseOrphanNow(t) ==
  /\ t \in orphans
  /\ orphans' = orphans \ {t}
  /\ released' = released \union {t}
  /\ UNCHANGED <<tail, ticket, aborted, pc, revision, observed>>

\* `void predecessor.then(release, release)` of a rejected waiter.
ReleaseOrphan(t) ==
  /\ t \in orphans
  /\ PredecessorDone(t)
  /\ orphans' = orphans \ {t}
  /\ released' = released \union {t}
  /\ UNCHANGED <<tail, ticket, aborted, pc, revision, observed>>

Proceed(c) == Resume(c) \/ Confirm(c) \/ Enter(c) \/ Succeed(c) \/ Fail(c)

AllSettled == \A c \in Calls : pc[c] \in {"done", "rejected"}

\* Every call has returned: nothing is left to do.
Quiescent == AllSettled /\ orphans = {} /\ UNCHANGED vars

Next ==
  \/ \E c \in Calls : Acquire(c) \/ Proceed(c) \/ Abort(c)
  \/ \E t \in orphans : ReleaseOrphan(t)
  \/ Quiescent

Spec == Init /\ [][Next]_vars

\* The event loop runs every ready continuation, and an operation settles:
\* it is made of table calls that resolve or reject.  Aborts are not fair.
FairSpec ==
  /\ Spec
  /\ \A c \in Calls : WF_vars(Proceed(c))
  /\ WF_vars(\E t \in orphans : ReleaseOrphan(t))

-----------------------------------------------------------------------------
TypeOK ==
  /\ tail \in Nat
  /\ released \in SUBSET Nat
  /\ orphans \in SUBSET Nat
  /\ ticket \in [Calls -> Nat]
  /\ aborted \in SUBSET Abortable
  /\ pc \in [Calls -> Stages]
  /\ revision \in Nat
  /\ observed \in [Calls -> Nat]

\* A call past its predecessor's promise has every earlier call behind it:
\* tickets are served in the order acquire() issued them, however many
\* waiters rejected in between.
ServedInOrder ==
  /\ TypeOK
  /\ \A c, d \in Calls :
       pc[c] \in Past /\ ticket[d] # 0 /\ ticket[d] < ticket[c] => pc[d] \in {"done", "rejected"}

\* Two operations never overlap, even when a waiter between them rejected
\* while the first was still running ("prevents one rollback from erasing a
\* later write", the comment of the class).
OneInside == \A c, d \in Calls : pc[c] \in Past /\ pc[d] \in Past => c = d

\* No promise of the chain resolves before its predecessor's: a cancelled
\* waiter's ticket does not overtake the operation it was waiting for.
ReleasedInOrder == \A t \in released : \A s \in 0..t : s \in released

\* The revision is the number of transactions that committed.
RevisionCountsCommits ==
  revision = Cardinality({c \in Writers : pc[c] = "done"})

\* While a versioned read runs no transaction commits, so the revision it
\* returns is the one of the graph it read.
ReadsAreStable ==
  [][\A c \in Readers : pc[c] = "inside" => revision' = revision]_vars

\* A queued call is served or rejected: no cancelled waiter breaks the chain.
EveryCallReturns ==
  \A c \in Calls : pc[c] = "queued" ~> pc[c] \in {"done", "rejected"}

(***************************************************************************)
(* The line of FifoLock is the calls that hold a ticket they have not used *)
(* up; a waiter that rejected has left it although its ticket has not.     *)
(***************************************************************************)
Line == {c \in Calls : pc[c] \in Live}
Serving == {c \in Calls : pc[c] = "inside"}

Lock == INSTANCE FifoLock WITH arrival <- ticket, line <- Line, serving <- Serving

\* The promise chain implements the FIFO lock.
ImplementsFifoLock == Lock!LockSpec
=============================================================================
