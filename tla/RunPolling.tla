----------------------------- MODULE RunPolling -----------------------------
(***************************************************************************)
(* The client's view of the runs: the poll store (RunPollStore in          *)
(* src/src/client/run-store.ts), the Run Center component that owns it     *)
(* (src/src/client/RunCenter.tsx) and the time-out around every request    *)
(* (withRpcTimeout in src/src/client/controller.ts).                       *)
(*                                                                         *)
(* A request is answered from the rows that the host has at that moment,   *)
(* and the answer is delivered at any later time; or the request rejects   *)
(* in the client, answered or not.  The code compares generations for      *)
(* equality only, so a poll records whether it is of the current one.      *)
(* Intervals (850 ms, 5 s) and the limit of a list are left out.  A store  *)
(* is mounted once: useMemo makes one per component and session.           *)
(***************************************************************************)
EXTENDS Naturals, FiniteSets

CONSTANTS
  Runs,         \* run ids
  NoRun,        \* null
  Settled,      \* a run's row goes through versions 1..Settled, the last one settled
  MaxPolls,     \* bound: polls in flight
  Budgets       \* bounds: pairs of how many requests reject, and how many cards are
                \* opened, actions sent and refreshes asked for

ASSUME PollingAssumption ==
  /\ NoRun \notin Runs
  /\ Settled \in Nat \ {0}
  /\ MaxPolls \in Nat \ {0}
  /\ Budgets \subseteq Nat \X Nat

VARIABLES
  host,      \* host[r]: version of the row; 0 before it exists, Gone once it is deleted
  mounted,   \* the component: "no", "yes", "gone"; the store has a listener while "yes"
  polls,     \* polls[s]: a call of refreshRuns in flight
  timer,     \* a timer for the next poll is set
  runs,      \* runs[r]: version shown, 0 when there is no card
  detailed,  \* cards shown with their outputs
  ready,     \* status = "ready"
  detailId,  \* the run whose outputs the polls ask for
  expanded,  \* the open card
  card,      \* card[r]: the request that opening the card of r sent
  act,       \* the action under way: "idle", "sent", "executed"
  floor,     \* what host was when the last action was acknowledged (history)
  failures, clicks  \* what is left of the budget

storeVars == <<polls, timer, runs, detailed, ready, detailId>>
componentVars == <<mounted, expanded, card, act>>
vars == <<host, storeVars, componentVars, floor, failures, clicks>>

Gone == Settled + 1
Visible(r) == IF host[r] = Gone THEN 0 ELSE host[r]
Rows == [r \in Runs |-> Visible(r)]
NoRows == [r \in Runs |-> 0]

Slots == 1..MaxPolls
NoPoll == [stage |-> "idle", stale |-> FALSE, list |-> NoRows, want |-> NoRun, detail |-> 0]
InFlight(s) == polls[s].stage # "idle"
Idle == {s \in Slots : ~InFlight(s)}
NoCard == [stage |-> "idle", detail |-> 0]

Init ==
  /\ host \in [Runs -> {0, 1}]
  /\ mounted = "no"
  /\ polls = [s \in Slots |-> NoPoll]
  /\ timer = FALSE
  /\ runs = NoRows /\ detailed = {}
  /\ ready = FALSE
  /\ detailId = NoRun /\ expanded = NoRun
  /\ card = [r \in Runs |-> NoCard]
  /\ act = "idle"
  /\ floor = NoRows
  /\ \E budget \in Budgets : failures = budget[1] /\ clicks = budget[2]

-----------------------------------------------------------------------------
(***************************************************************************)
(* The store.                                                              *)
(***************************************************************************)
\* generation += 1.  Nobody reads the summaries of a poll of an earlier generation.
Superseded ==
  [s \in Slots |-> IF InFlight(s) THEN [polls[s] EXCEPT !.stale = TRUE, !.list = NoRows] ELSE NoPoll]

\* start(force): the timer goes, a poll is sent.
Start(s, force) ==
  /\ s \in Idle /\ \A other \in Idle : s <= other
  /\ polls' = [(IF force THEN Superseded ELSE polls) EXCEPT
       ![s] = [NoPoll EXCEPT !.stage = "listing"]]
  /\ timer' = FALSE

\* Fault: the button starts a poll without a new generation.
RefreshPollsUnforced(s) == Start(s, FALSE)

RefreshPolls(s) == Start(s, TRUE)

\* Fault: nobody asks whether the store has a listener.
HeardAlways(s) == ~polls[s].stale

\* Whether what the poll brings is still wanted.
Heard(s) == ~polls[s].stale /\ mounted = "yes"

\* The poll is over; its answer is published and the next one scheduled.
Publish(s, list, details) ==
  /\ polls' = [polls EXCEPT ![s] = NoPoll]
  /\ IF Heard(s)
       THEN runs' = list /\ detailed' = details /\ ready' = TRUE /\ timer' = TRUE
       ELSE UNCHANGED <<runs, detailed, ready, timer>>

\* The host answers a request of a poll.
PollAnswered(s) ==
  /\ \/ /\ polls[s].stage = "listing"
        /\ polls' = [polls EXCEPT ![s].stage = "listed", ![s].list = IF polls[s].stale THEN NoRows ELSE Rows]
     \/ /\ polls[s].stage = "getting"
        /\ polls' = [polls EXCEPT ![s].stage = "got", ![s].detail = Visible(polls[s].want)]
  /\ UNCHANGED <<host, timer, runs, detailed, ready, detailId, componentVars, floor, failures, clicks>>

\* The summaries arrive: they are published, unless an open card wants more.
ListDelivered(s) ==
  /\ polls[s].stage = "listed"
  /\ LET list == polls[s].list
         wanted == Heard(s) /\ detailId # NoRun
     IN IF wanted /\ list[detailId] # 0
          THEN /\ polls' = [polls EXCEPT ![s].stage = "getting", ![s].want = detailId]
               /\ UNCHANGED <<timer, runs, detailed, ready, detailId>>
          ELSE /\ Publish(s, list, {})
               /\ detailId' = IF wanted THEN NoRun ELSE detailId
  /\ UNCHANGED <<host, componentVars, floor, failures, clicks>>

\* Fault: the outputs that were asked for are not put into the list.
GetDeliveredSummary(s) ==
  /\ polls[s].stage = "got"
  /\ detailId' = IF polls[s].detail = 0 THEN NoRun ELSE detailId
  /\ Publish(s, polls[s].list, {})
  /\ UNCHANGED <<host, componentVars, floor, failures, clicks>>

\* The outputs arrive; null also resets a detailId that was set meanwhile.
GetDelivered(s) ==
  /\ polls[s].stage = "got"
  /\ detailId' = IF polls[s].detail = 0 THEN NoRun ELSE detailId
  /\ Publish(s, [polls[s].list EXCEPT ![polls[s].want] = polls[s].detail],
             IF polls[s].detail = 0 THEN {} ELSE {polls[s].want})
  /\ UNCHANGED <<host, componentVars, floor, failures, clicks>>

\* Fault: after an error no further poll is scheduled.
PollFailsForGood(s) ==
  /\ InFlight(s) /\ failures > 0
  /\ polls' = [polls EXCEPT ![s] = NoPoll]
  /\ ready' = (ready /\ ~Heard(s))
  /\ failures' = failures - 1
  /\ UNCHANGED <<host, timer, runs, detailed, detailId, componentVars, floor, clicks>>

\* The connection breaks or the time-out fires, before or after the host answered.
PollFails(s) ==
  /\ InFlight(s) /\ failures > 0
  /\ polls' = [polls EXCEPT ![s] = NoPoll]
  /\ ready' = (ready /\ ~Heard(s))
  /\ timer' = (timer \/ Heard(s))
  /\ failures' = failures - 1
  /\ UNCHANGED <<host, runs, detailed, detailId, componentVars, floor, clicks>>

TimerFires(s) ==
  /\ timer
  /\ Start(s, FALSE)
  /\ UNCHANGED <<host, runs, detailed, ready, detailId, componentVars, floor, failures, clicks>>

-----------------------------------------------------------------------------
(***************************************************************************)
(* The component.                                                          *)
(***************************************************************************)
\* The first listener starts the poll chain.
Mount(s) ==
  /\ mounted = "no"
  /\ mounted' = "yes"
  /\ Start(s, FALSE)
  /\ UNCHANGED <<host, runs, detailed, ready, detailId, expanded, card, act, floor, failures, clicks>>

\* The last listener leaves.  What it had sent is still delivered.
Unmount ==
  /\ mounted = "yes"
  /\ mounted' = "gone"
  /\ polls' = Superseded
  /\ timer' = FALSE
  /\ UNCHANGED <<host, runs, detailed, ready, detailId, expanded, card, act, floor, failures, clicks>>

ClickRefreshPolls(s) ==
  /\ mounted = "yes" /\ clicks > 0
  /\ clicks' = clicks - 1
  /\ RefreshPolls(s)
  /\ UNCHANGED <<host, runs, detailed, ready, detailId, componentVars, floor, failures>>

\* toggleRun: the card is closed, or opened and its outputs asked for.
Close(r) ==
  /\ mounted = "yes" /\ expanded = r
  /\ expanded' = NoRun /\ detailId' = NoRun
  /\ UNCHANGED <<host, polls, timer, runs, detailed, ready, mounted, card, act, floor, failures, clicks>>

Open(r) ==
  /\ mounted = "yes" /\ runs[r] # 0 /\ expanded # r
  /\ card[r].stage = "idle" /\ clicks > 0
  /\ clicks' = clicks - 1
  /\ expanded' = r /\ detailId' = r
  /\ card' = [card EXCEPT ![r] = [NoCard EXCEPT !.stage = "sent"]]
  /\ UNCHANGED <<host, polls, timer, runs, detailed, ready, mounted, act, floor, failures>>

CardAnswered(r) ==
  /\ card[r].stage = "sent"
  /\ card' = [card EXCEPT ![r] = [stage |-> "answered", detail |-> Visible(r)]]
  /\ UNCHANGED <<host, storeVars, mounted, expanded, act, floor, failures, clicks>>

\* replaceRun: whatever polls have shown since, the answer is put in its place.
CardDelivered(r) ==
  /\ card[r].stage = "answered" /\ card[r].detail # 0
  /\ card' = [card EXCEPT ![r] = NoCard]
  /\ runs' = [runs EXCEPT ![r] = card[r].detail]
  /\ detailed' = detailed \union {r}
  /\ UNCHANGED <<host, polls, timer, ready, detailId, mounted, expanded, act, floor, failures, clicks>>

\* The run is gone: whichever card is open is closed.
CardMissing(r, s) ==
  /\ card[r].stage = "answered" /\ card[r].detail = 0
  /\ card' = [card EXCEPT ![r] = NoCard]
  /\ expanded' = NoRun /\ detailId' = NoRun
  /\ RefreshPolls(s)
  /\ UNCHANGED <<host, runs, detailed, ready, mounted, act, floor, failures, clicks>>

CardFails(r) ==
  /\ card[r].stage # "idle" /\ failures > 0
  /\ failures' = failures - 1
  /\ card' = [card EXCEPT ![r] = NoCard]
  /\ UNCHANGED <<host, storeVars, mounted, expanded, act, floor, clicks>>

\* The effect after a render: an open card whose run is not listed any more.
CloseMissing ==
  /\ mounted = "yes" /\ ready
  /\ expanded # NoRun /\ runs[expanded] = 0
  /\ expanded' = NoRun /\ detailId' = NoRun
  /\ UNCHANGED <<host, polls, timer, runs, detailed, ready, mounted, card, act, floor, failures, clicks>>

\* act: one action at a time; stopping or retrying a run, or clearing the settled,
\* which an empty list allows as well.
SendAct ==
  /\ mounted = "yes" /\ act = "idle" /\ clicks > 0
  /\ clicks' = clicks - 1
  /\ act' = "sent"
  /\ UNCHANGED <<host, storeVars, mounted, expanded, card, floor, failures>>

\* The settled runs are cleared, a retry has its row, or a run is told to stop
\* (it settles later).
ActExecuted ==
  /\ act = "sent"
  /\ act' = "executed"
  /\ \/ host' = [r \in Runs |-> IF host[r] = Settled THEN Gone ELSE host[r]]
     \/ \E r \in Runs : host[r] = 0 /\ host' = [host EXCEPT ![r] = 1]
     \/ UNCHANGED host
  /\ UNCHANGED <<storeVars, mounted, expanded, card, floor, failures, clicks>>

ActAcknowledged(s) ==
  /\ act = "executed"
  /\ act' = "idle"
  /\ floor' = host
  /\ RefreshPolls(s)
  /\ UNCHANGED <<host, runs, detailed, ready, detailId, mounted, expanded, card, failures, clicks>>

\* The client gives up; the host may have executed the action, or still will.
ActFails ==
  /\ act # "idle" /\ failures > 0
  /\ act' = "idle"
  /\ failures' = failures - 1
  /\ UNCHANGED <<host, storeVars, mounted, expanded, card, floor, clicks>>

-----------------------------------------------------------------------------
\* Runs start, go on, settle, and are deleted by retention or another client.
HostMoves ==
  /\ \E r \in Runs :
       /\ host[r] < Gone
       /\ host' = [host EXCEPT ![r] = @ + 1]
  /\ UNCHANGED <<storeVars, componentVars, floor, failures, clicks>>

Poll(s) == PollAnswered(s) \/ ListDelivered(s) \/ GetDelivered(s)

CardStep(r) == CardAnswered(r) \/ CardDelivered(r) \/ \E s \in Slots : CardMissing(r, s)

Reaction == CloseMissing \/ \E s \in Slots : TimerFires(s)

ActStep == ActExecuted \/ \E s \in Slots : ActAcknowledged(s)

Failure == (\E s \in Slots : PollFails(s)) \/ (\E r \in Runs : CardFails(r)) \/ ActFails

User ==
  \/ \E s \in Slots : Mount(s) \/ ClickRefreshPolls(s)
  \/ \E r \in Runs : Open(r) \/ Close(r)
  \/ SendAct \/ Unmount

Next ==
  \/ \E s \in Slots : Poll(s)
  \/ \E r \in Runs : CardStep(r)
  \/ Reaction \/ ActStep \/ Failure \/ User \/ HostMoves

Spec == Init /\ [][Next]_vars

\* Timers fire, effects run, and a request is answered or times out.
FairSpec ==
  /\ Spec
  /\ \A s \in Slots : WF_vars(Poll(s))
  /\ \A r \in Runs : WF_vars(CardStep(r))
  /\ WF_vars(CloseMissing) /\ WF_vars(\E s \in Slots : TimerFires(s))
  /\ WF_vars(ActStep)
-----------------------------------------------------------------------------
TypeOK ==
  /\ host \in [Runs -> 0..Gone] /\ floor \in [Runs -> 0..Gone]
  /\ mounted \in {"no", "yes", "gone"}
  /\ polls \in [Slots -> [stage : {"idle", "listing", "listed", "getting", "got"}, stale : BOOLEAN,
                          list : [Runs -> 0..Settled], want : Runs \union {NoRun}, detail : 0..Settled]]
  /\ timer \in BOOLEAN /\ ready \in BOOLEAN
  /\ runs \in [Runs -> 0..Settled]
  /\ detailed \subseteq Runs
  /\ detailId \in Runs \union {NoRun} /\ expanded \in Runs \union {NoRun}
  /\ card \in [Runs -> [stage : {"idle", "sent", "answered"}, detail : 0..Settled]]
  /\ act \in {"idle", "sent", "executed"}
  /\ failures \in Nat /\ clicks \in Nat

Current == {s \in Slots : InFlight(s) /\ ~polls[s].stale}

\* There is one chain of polls: while somebody listens a poll is under way or its
\* timer is set, never both and never two, whatever is refreshed, fails or is late.
\* (With the type invariant.)
OnePollChain ==
  /\ TypeOK
  /\ IF mounted = "yes"
       THEN Cardinality(Current) = IF timer THEN 0 ELSE 1
       ELSE ~timer

\* What is shown of a run is as new as a version that the host had at some moment, and
\* nothing is shown of one that the host had only if it is deleted now.
AsNewAs(shown, version, now) ==
  IF shown = 0 THEN version = 0 \/ now = Gone ELSE shown >= version

\* No poll shows the rows as they were before an action the host has
\* acknowledged: a run that was cleared does not come back, the run that a retry made
\* is not missing, and none falls back to an earlier version.
PollsShowWhatWasDone ==
  [][\A s \in Slots : InFlight(s) /\ polls'[s] = NoPoll /\ runs' # runs =>
       \A r \in Runs : AsNewAs(runs'[r], floor[r], host[r])]_vars

\* The view comes to rest.  An open one ends up showing the rows the host has, after
\* late answers, failures and actions of unknown outcome, and the card that is left
\* open with its outputs, as long as no run was deleted; one that was closed sends
\* nothing more.
ViewCatchesUp ==
  <>[](IF mounted = "yes"
         THEN /\ runs = Rows
              /\ expanded # NoRun /\ (\A r \in Runs : host[r] # Gone) => expanded \in detailed
         ELSE ~timer /\ \A s \in Slots : ~InFlight(s))
=============================================================================
