----------------------------- MODULE UsageMeter -----------------------------
(***************************************************************************)
(* The meter of one auxiliary child (OfficialUsageMeter.track in           *)
(* src/src/tools/infrastructure/official-usage-meter.ts): it turns changes *)
(* of the child session's token projection into durable writes of the      *)
(* run's live channel, one after another, and hands back the last sample   *)
(* when it is stopped.  No child runs beside another one here, so the      *)
(* state is that of the child under way and of what it left behind.        *)
(***************************************************************************)
EXTENDS Naturals, Sequences

CONSTANTS
  MaxTokens,     \* bound of the exploration: what one child spends
  Inherited      \* tokens a forked child's session already counts at its start

ASSUME TokensAssumption == MaxTokens \in Nat /\ Inherited \subseteq Nat

Channels == {"planner", "review", "repair"}

VARIABLES
  channel,   \* the child's channel of the live usage
  used,      \* the projection of the child's session
  baseline,  \* what usageFor subtracts from it
  last,      \* lastUsage and lastSignature; no sample is 0
  pending,   \* publications that are not durable yet
  live       \* liveUsage of the row: what was published, 0 when absent

meterVars == <<channel, used, baseline, last, pending, live>>

MeterInit ==
  /\ channel = "planner"
  /\ used = 0 /\ baseline = 0 /\ last = 0
  /\ pending = <<>>
  /\ live = [c \in Channels |-> 0]

\* Fault: the history of the child's session is charged too.
UsageWithHistory(projection) == projection

\* usageFor; an all-zero sample is no sample.
Usage(projection) == IF projection > baseline THEN projection - baseline ELSE 0

\* publish: a sample that says something new is queued.
Publish(projection) ==
  IF Usage(projection) \in {0, last}
    THEN UNCHANGED <<last, pending>>
    ELSE /\ last' = Usage(projection)
         /\ pending' = Append(pending, [channel |-> channel, usage |-> Usage(projection)])

StartMeter(c) ==
  /\ channel' = c
  /\ \E h \in Inherited : used' = h /\ baseline' = h
  /\ last' = 0
  /\ UNCHANGED <<pending, live>>

\* The provider counts a token, and tells the listeners or not.
Spend ==
  /\ used - baseline < MaxTokens
  /\ used' = used + 1
  /\ Publish(used') \/ UNCHANGED <<last, pending>>
  /\ UNCHANGED <<channel, baseline, live>>

\* The first publication becomes durable.
Land ==
  /\ pending # <<>>
  /\ live' = [live EXCEPT ![Head(pending).channel] = Head(pending).usage]
  /\ pending' = Tail(pending)
  /\ UNCHANGED <<channel, used, baseline, last>>

\* Its write rejects, which is logged.
LandFails ==
  /\ pending # <<>>
  /\ pending' = Tail(pending)
  /\ UNCHANGED <<channel, used, baseline, last, live>>

\* Fault: the last sample is the one published last.
StopUnread == UNCHANGED meterVars

\* The function track returned: the listener goes, what it missed is published.
StopMeter ==
  /\ Publish(used)
  /\ UNCHANGED <<channel, used, baseline, live>>

\* Fault: the publications are not waited for.
DrainedUnawaited == TRUE

\* await pending
Drained == pending = <<>>

\* withoutLiveUsage
ClearChannel(c) ==
  /\ live' = [live EXCEPT ![c] = 0]
  /\ UNCHANGED <<channel, used, baseline, last, pending>>
=============================================================================
