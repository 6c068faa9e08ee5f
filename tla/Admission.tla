----------------------------- MODULE Admission -----------------------------
(***************************************************************************)
(* Which user message starts a squad: the pre-step hook and the model's    *)
(* dispatch tool, the one-shot Team or Solo choice, the durable receipt    *)
(* per message, host crash and start-up pruning (src/src/index.ts,         *)
(* definition-service.ts, execution-service.ts), for one conversation.     *)
(*                                                                         *)
(* Each section under definitionWrites holds one table write and is one    *)
(* step here: WriteCoordinator shows that sections never overlap.  The     *)
(* pruning of a start is outside of them, and RPC is served meanwhile.     *)
(***************************************************************************)
EXTENDS Naturals, Sequences, FiniteSets

CONSTANTS
  Hooks,        \* calls of the pre-step hook that may be open at once
  Tools,        \* calls of the dispatch tool that may be open at once
  Triggers,     \* how the session's squad is triggered
  MaxMessages,  \* bound: user messages
  MaxChoices,   \* bound: one-shot choices the user makes
  MaxClaims,    \* receipts kept at start-up (2000 in the code)
  MaxCrashes    \* bound: host crashes

Calls == Hooks \union Tools
Messages == 1..MaxMessages
Choices == 1..MaxChoices

\* Start-up keeps a receipt for as many calls as may be open at once: of the 2000
\* that it keeps, other conversations leave that many to this one.
ASSUME AdmissionAssumption ==
  /\ Hooks \intersect Tools = {}
  /\ Triggers \subseteq {"guaranteed", "model-tool", "manual"}
  /\ {MaxMessages, MaxChoices, MaxClaims, MaxCrashes} \subseteq Nat
  /\ IsFiniteSet(Calls) /\ Cardinality(Calls) <= MaxClaims

VARIABLES
  trigger,   \* triggerMode and activationMode of the squad
  session,   \* durable session mode: "team" or "solo"
  next,      \* next_modes: the one-shot row, see NoChoice
  claims,    \* message_claims: receipts in the order of their createdAt
  rows,      \* messages that have a row in the runs table
  last,      \* lastGuaranteedMessage, 0 after a start
  call,      \* call[c]: the state of an open call
  current,   \* the latest user message, 0 before the first
  choices,   \* one-shot choices made
  taken,     \* taken[k]: the messages that claimed choice k
  solos,     \* messages that claimed a Solo choice
  starts,    \* starts[m]: how often a squad was started for message m
  host,      \* "down", at its start pruning "receipts" or "choices", or "ready"
  stale,     \* the choice that the pass of a start found claimed, 0 when none
  crashes

durable == <<trigger, session, next, claims, rows>>
ghosts == <<current, choices, taken, solos, starts>>
vars == <<durable, last, call, ghosts, host, stale, crashes>>

NoChoice == [id |-> 0, state |-> "none", by |-> 0]
Idle == [pc |-> "idle", msg |-> 0, choice |-> "none", claimed |-> FALSE]

Init ==
  /\ trigger \in Triggers
  /\ session \in {"team", "solo"}
  /\ next = NoChoice
  /\ claims = <<>>
  /\ rows = {}
  /\ last = 0
  /\ call = [c \in Calls |-> Idle]
  /\ current = 0
  /\ choices = 0
  /\ taken = [k \in Choices |-> {}]
  /\ solos = {}
  /\ starts = [m \in Messages |-> 0]
  /\ host = "ready"
  /\ stale = 0
  /\ crashes = 0

Receipt(m, kind) == \E i \in DOMAIN claims : claims[i] = [msg |-> m, kind |-> kind]

Goto(c, pc) == call' = [call EXCEPT ![c].pc = pc]
Return(c) == call' = [call EXCEPT ![c] = Idle]

\* Fault: only the memory of the process is asked.
ClaimableInMemory(m) == last # m

\* claimGuaranteedMessage: neither memory, nor a receipt, nor a run has m.
Claimable(m) ==
  /\ last # m
  /\ \A kind \in {"solo", "team"} : ~Receipt(m, kind)
  /\ m \notin rows

Claim(m, kind) ==
  IF Claimable(m)
    THEN claims' = Append(claims, [msg |-> m, kind |-> kind]) /\ last' = m
    ELSE UNCHANGED <<claims, last>>

\* Fault: whatever one-shot is stored is deleted.
ClearClaimedAny(m) == next' = NoChoice

\* clearClaimedNextSessionSquadMode
ClearClaimed(m) == next' = IF next.by = m THEN NoChoice ELSE next

\* Fault: sorted the other way, the newest receipt goes.
SuperfluousNewest == Len(claims)

\* The receipts are sorted by createdAt: the newest of those that are too many.
Superfluous == Len(claims) - MaxClaims

Without(k) == SubSeq(claims, 1, k - 1) \o SubSeq(claims, k + 1, Len(claims))

-----------------------------------------------------------------------------
(***************************************************************************)
(* The user.                                                               *)
(***************************************************************************)
Send ==
  /\ current < MaxMessages
  /\ current' = current + 1
  /\ UNCHANGED <<durable, last, call, choices, taken, solos, starts, host, stale, crashes>>

\* setNextSessionSquadMode: a new row replaces the stored one, claimed or not.
SetNext(state) ==
  /\ host # "down"
  /\ choices < MaxChoices
  /\ choices' = choices + 1
  /\ next' = IF state = "inherit" THEN NoChoice
             ELSE [id |-> choices + 1, state |-> state, by |-> 0]
  /\ UNCHANGED <<trigger, session, claims, rows, last, call, current, taken, solos, starts, host, stale, crashes>>

SetSession(mode) ==
  /\ host # "down"
  /\ session' = mode
  /\ UNCHANGED <<trigger, next, claims, rows, last, call, ghosts, host, stale, crashes>>

\* Run Center clear or retention.
ClearRow(m) ==
  /\ host # "down"
  /\ rows' = rows \ {m}
  /\ UNCHANGED <<trigger, session, next, claims, last, call, ghosts, host, stale, crashes>>

-----------------------------------------------------------------------------
(***************************************************************************)
(* The pre-step hook.  A step may be run more than once for a message, and *)
(* is run again after a restart.  Hook and tool are registered last.       *)
(***************************************************************************)
EnterHook(h) ==
  /\ host = "ready" /\ current > 0
  /\ call[h] = Idle
  /\ call' = [call EXCEPT ![h] = [Idle EXCEPT !.pc = "next", !.msg = current]]
  /\ UNCHANGED <<durable, last, ghosts, host, stale, crashes>>

\* Fault: a choice claimed by another message is taken as well.
ClaimNextAlways(h) ==
  LET m == call[h].msg
      mine == next.id # 0
  IN  /\ call[h].pc = "next"
      /\ call' = [call EXCEPT ![h].choice = IF mine THEN next.state ELSE "none",
                              ![h].pc = IF mine /\ next.state = "solo" THEN "solo" ELSE "mode"]
      /\ next' = IF mine THEN [next EXCEPT !.by = m] ELSE next
      /\ taken' = [k \in Choices |-> IF mine /\ k = next.id THEN taken[k] \union {m} ELSE taken[k]]
      /\ solos' = IF mine /\ next.state = "solo" THEN solos \union {m} ELSE solos
      /\ UNCHANGED <<trigger, session, claims, rows, last, current, choices, starts, host, stale, crashes>>

\* claimNextSessionSquadMode: the stored choice, unless another message has it.
ClaimNext(h) ==
  LET m == call[h].msg
      mine == next.id # 0 /\ next.by \in {0, m}
  IN  /\ call[h].pc = "next"
      /\ call' = [call EXCEPT ![h].choice = IF mine THEN next.state ELSE "none",
                              ![h].pc = IF mine /\ next.state = "solo" THEN "solo" ELSE "mode"]
      /\ next' = IF mine THEN [next EXCEPT !.by = m] ELSE next
      /\ taken' = [k \in Choices |-> IF mine /\ k = next.id THEN taken[k] \union {m} ELSE taken[k]]
      /\ solos' = IF mine /\ next.state = "solo" THEN solos \union {m} ELSE solos
      /\ UNCHANGED <<trigger, session, claims, rows, last, current, choices, starts, host, stale, crashes>>

\* A Solo choice leaves a receipt of its own, whatever receipt there is.
ClaimSolo(h) ==
  /\ call[h].pc = "solo"
  /\ Claim(call[h].msg, "solo")
  /\ Goto(h, "clear")
  /\ UNCHANGED <<trigger, session, next, rows, ghosts, host, stale, crashes>>

\* The explicit choice first, then the effective mode of the session.
ChooseMode(h) ==
  /\ call[h].pc = "mode"
  /\ IF call[h].choice = "team" \/ (session = "team" /\ trigger = "guaranteed")
       THEN Goto(h, "team")
       ELSE Return(h)
  /\ UNCHANGED <<durable, last, ghosts, host, stale, crashes>>

ClaimTeam(h) ==
  /\ call[h].pc = "team"
  /\ Claim(call[h].msg, "team")
  /\ call' = [call EXCEPT ![h].claimed = Claimable(call[h].msg),
                          ![h].pc = IF call[h].choice = "team" THEN "clear"
                                    ELSE IF Claimable(call[h].msg) THEN "launch" ELSE "return"]
  /\ UNCHANGED <<trigger, session, next, rows, ghosts, host, stale, crashes>>

Clear(h) ==
  /\ call[h].pc = "clear"
  /\ ClearClaimed(call[h].msg)
  /\ Goto(h, IF call[h].claimed THEN "launch" ELSE "return")
  /\ UNCHANGED <<trigger, session, claims, rows, last, ghosts, host, stale, crashes>>

ReturnHook(h) ==
  /\ call[h].pc = "return"
  /\ Return(h)
  /\ UNCHANGED <<durable, last, ghosts, host, stale, crashes>>

-----------------------------------------------------------------------------
\* dispatchFromTool: assertModelTeamPolicy and the checks of dispatch, which
\* may also refuse the request for a reason of their own.
EnterTool(t) ==
  /\ host = "ready" /\ current > 0
  /\ call[t] = Idle
  /\ ~Receipt(current, "solo")
  /\ session = "team" \/ Receipt(current, "team")
  /\ trigger # "manual"
  /\ call' = [call EXCEPT ![t] = [Idle EXCEPT !.pc = "team", !.msg = current]]
  /\ UNCHANGED <<durable, last, ghosts, host, stale, crashes>>

\* Fault: a Solo receipt does not stop a tool call that passed the policy check.
ClaimToolOverSolo(t) ==
  /\ call[t].pc = "team"
  /\ Claim(call[t].msg, "team")
  /\ IF Claimable(call[t].msg) \/ Receipt(call[t].msg, "solo") THEN Goto(t, "launch") ELSE Return(t)
  /\ UNCHANGED <<trigger, session, next, rows, ghosts, host, stale, crashes>>

ClaimTool(t) ==
  /\ call[t].pc = "team"
  /\ Claim(call[t].msg, "team")
  /\ IF Claimable(call[t].msg) THEN Goto(t, "launch") ELSE Return(t)
  /\ UNCHANGED <<trigger, session, next, rows, ghosts, host, stale, crashes>>

\* The row of the run is written; or dispatch refuses after the claim.
Launch(c) ==
  LET m == call[c].msg
  IN  /\ call[c].pc = "launch"
      /\ \/ rows' = rows \union {m} /\ starts' = [starts EXCEPT ![m] = @ + 1]
         \/ UNCHANGED <<rows, starts>>
      /\ Return(c)
      /\ UNCHANGED <<trigger, session, next, claims, last, current, choices, taken, solos, host, stale, crashes>>

-----------------------------------------------------------------------------
Crash ==
  /\ host # "down"
  /\ crashes < MaxCrashes
  /\ crashes' = crashes + 1
  /\ host' = "down"
  /\ stale' = 0
  /\ call' = [c \in Calls |-> Idle]
  /\ last' = 0
  /\ UNCHANGED <<durable, ghosts>>

\* The tables are attached; from here on RPC finds them.
Restart ==
  /\ host = "down"
  /\ host' = "receipts"
  /\ UNCHANGED <<durable, last, call, ghosts, stale, crashes>>

(***************************************************************************)
(* pruneMessageClaims, one delete at a time.  (The 90 days limit is left   *)
(* out: no message here gets that old.)                                    *)
(***************************************************************************)
PruneReceipt ==
  /\ host = "receipts"
  /\ Len(claims) > MaxClaims
  /\ claims' = Without(Superfluous)
  /\ UNCHANGED <<trigger, session, next, rows, last, call, ghosts, host, stale, crashes>>

\* Fault: every one-shot of the snapshot goes.
FindAny ==
  /\ host = "receipts"
  /\ Len(claims) <= MaxClaims
  /\ host' = "choices"
  /\ stale' = next.id
  /\ UNCHANGED <<durable, last, call, ghosts, crashes>>

\* The snapshot of the one-shots, and the claimed one in it.
FindClaimed ==
  /\ host = "receipts"
  /\ Len(claims) <= MaxClaims
  /\ host' = "choices"
  /\ stale' = IF next.by # 0 THEN next.id ELSE 0
  /\ UNCHANGED <<durable, last, call, ghosts, crashes>>

\* Its delete, after those of other conversations; nobody looks at the row again.
PruneChoice ==
  /\ host = "choices"
  /\ stale # 0
  /\ next' = NoChoice
  /\ stale' = 0
  /\ UNCHANGED <<trigger, session, claims, rows, last, call, ghosts, host, crashes>>

\* Tools and hook are registered.
Ready ==
  /\ host = "choices"
  /\ stale = 0
  /\ host' = "ready"
  /\ UNCHANGED <<durable, last, call, ghosts, stale, crashes>>

Start == Restart \/ PruneReceipt \/ FindClaimed \/ PruneChoice \/ Ready

User ==
  \/ Send
  \/ \E state \in {"inherit", "solo", "team"} : SetNext(state)
  \/ \E mode \in {"team", "solo"} : SetSession(mode)
  \/ \E m \in rows : ClearRow(m)

Hook(h) ==
  \/ EnterHook(h) \/ ClaimNext(h) \/ ClaimSolo(h) \/ ChooseMode(h)
  \/ ClaimTeam(h) \/ Clear(h) \/ ReturnHook(h)

Next ==
  \/ User
  \/ \E h \in Hooks : Hook(h)
  \/ \E t \in Tools : EnterTool(t) \/ ClaimTool(t)
  \/ \E c \in Calls : Launch(c)
  \/ Crash \/ Start

Spec == Init /\ [][Next]_vars

-----------------------------------------------------------------------------
TypeOK ==
  /\ trigger \in Triggers
  /\ session \in {"team", "solo"}
  /\ next \in [id : Choices \union {0}, state : {"none", "solo", "team"}, by : Messages \union {0}]
  /\ claims \in Seq([msg : Messages, kind : {"solo", "team"}])
  /\ rows \subseteq Messages
  /\ last \in Messages \union {0}
  /\ call \in [Calls -> [pc : {"idle", "next", "solo", "mode", "team", "clear", "launch", "return"},
                        msg : Messages \union {0}, choice : {"none", "solo", "team"},
                        claimed : BOOLEAN]]
  /\ current \in Messages \union {0}
  /\ choices \in Choices \union {0}
  /\ taken \in [Choices -> SUBSET Messages]
  /\ solos \subseteq Messages
  /\ starts \in [Messages -> Nat]
  /\ host \in {"down", "receipts", "choices", "ready"}
  /\ stale \in Choices \union {0}
  /\ crashes \in Nat

\* A user message starts at most one squad, however often the hook and the
\* tool run for it, and whatever clear, retention, pruning and restart do.
\* (With the type invariant: the pair is what a proof by induction starts from.)
AtMostOneDispatch ==
  /\ TypeOK
  /\ \A m \in Messages : starts[m] <= 1

\* A one-shot choice is taken by at most one message.
ChoiceTakenOnce == \A k \in Choices : Cardinality(taken[k]) <= 1

\* A message with a Solo receipt has no squad, also when a tool call had
\* passed the policy check before the receipt was written.
SoloReceiptHonoured == \A m \in Messages : Receipt(m, "solo") => starts[m] = 0

\* What the user chose for one message counts there and nowhere else, and a
\* message is given to one run at most.
ChoicesHonoured == AtMostOneDispatch /\ ChoiceTakenOnce /\ SoloReceiptHonoured

\* An unclaimed choice is kept until a message takes it or the user replaces it:
\* no late clear for an older message, crash or start loses it, except that a
\* starting host may delete, untaken, what the user chose after the pass found a
\* claimed choice in the row.
UnclaimedChoiceKept ==
  [][next.id # 0 /\ next.by = 0 /\ choices' = choices =>
       next'.id = next.id \/ (stale # 0 /\ next.id > stale)]_vars

\* "A separate crash-safe one-shot Team or Solo choice, consumed exactly
\* once": a message that took a Solo choice is not given to a squad later.
SoloChoiceHonoured ==
  [][\A m \in solos : starts'[m] = starts[m]]_vars
=============================================================================
