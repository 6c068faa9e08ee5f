----------------------------- MODULE PageProofs -----------------------------
(***************************************************************************)
(* The pages of the client, for every number of requests, answers out of   *)
(* order, writes by others and faults.                                     *)
(*                                                                         *)
(* RunPolling (the Run Center): the poll store keeps one chain of polls,   *)
(* for any runs and any bound on polls in flight, and what it shows takes  *)
(* no acknowledged action back.                                            *)
(* SettingsPage: what the user typed is kept, a record that changed is not *)
(* overwritten unasked, and a preview-first dialog does what it showed.    *)
(***************************************************************************)
EXTENDS RunPolling, SettingsPage, SequenceTheorems, FiniteSetTheorems, TLAPS

-----------------------------------------------------------------------------
(***************************************************************************)
(* RunPolling: the invariant.                                              *)
(***************************************************************************)
PollRecords == [stage : {"idle", "listing", "listed", "getting", "got"}, stale : BOOLEAN,
          list : [Runs -> 0..Settled], want : Runs \union {NoRun}, detail : 0..Settled]

\* Outputs are asked for of a run, never of nothing.
WantsARun == \A s \in Slots : polls[s].stage \in {"getting", "got"} => polls[s].want \in Runs

\* Before the component is there, nothing has been sent.
NothingSent ==
  mounted = "no" => /\ \A s \in Slots : ~InFlight(s)
                    /\ \A r \in Runs : card[r].stage = "idle"
                    /\ act = "idle"

\* OnePollChain without counting.
Chain ==
  /\ mounted = "yes" => IF timer THEN Current = {} ELSE \E s \in Slots : Current = {s}
  /\ mounted # "yes" => ~timer

PollInv == TypeOK /\ WantsARun /\ NothingSent /\ Chain

LEMMA Versions == ASSUME TypeOK PROVE Rows \in [Runs -> 0..Settled] /\ NoRows \in [Runs -> 0..Settled]
  BY PollingAssumption DEF TypeOK, Rows, Visible, NoRows, Gone

LEMMA NoPollIsAPoll == NoPoll \in PollRecords /\ NoPoll.stage = "idle" /\ [NoPoll EXCEPT !.stage = "listing"] \in PollRecords
                       /\ [NoPoll EXCEPT !.stage = "listing"].stage = "listing" /\ ~[NoPoll EXCEPT !.stage = "listing"].stale
<1>1. NoRows \in [Runs -> 0..Settled] /\ 0 \in 0..Settled
  BY PollingAssumption DEF NoRows
<1>2. NoPoll \in PollRecords /\ NoPoll.stage = "idle" /\ NoPoll.stale = FALSE
  BY <1>1 DEF NoPoll, PollRecords
<1> QED
  BY <1>2 DEF PollRecords

(* One poll is replaced.                                                    *)
LEMMA PollReplaced ==
  ASSUME TypeOK, WantsARun, NEW s \in Slots, NEW p \in PollRecords,
         polls' = [polls EXCEPT ![s] = p],
         p.stage \in {"getting", "got"} => p.want \in Runs
  PROVE  /\ polls' \in [Slots -> PollRecords] /\ WantsARun'
         /\ Current' = IF p.stage # "idle" /\ ~p.stale THEN Current \union {s} ELSE Current \ {s}
  BY DEF TypeOK, WantsARun, Current, InFlight, PollRecords

(* A new generation: no poll in flight is of the current one any more.      *)
LEMMA GenerationEnds ==
  ASSUME TypeOK, WantsARun
  PROVE  /\ Superseded \in [Slots -> PollRecords]
         /\ \A s \in Slots : Superseded[s].stage # "idle" => Superseded[s].stale
         /\ \A s \in Slots : Superseded[s].stage \in {"getting", "got"} => Superseded[s].want \in Runs
<1> SUFFICES ASSUME NEW s \in Slots
    PROVE /\ Superseded[s] \in PollRecords /\ (Superseded[s].stage # "idle" => Superseded[s].stale)
          /\ (Superseded[s].stage \in {"getting", "got"} => Superseded[s].want \in Runs)
  BY DEF Superseded
<1>1. polls[s] \in PollRecords
  BY DEF TypeOK, PollRecords
<1>2. CASE InFlight(s)
  <2>1. Superseded[s] = [polls[s] EXCEPT !.stale = TRUE, !.list = NoRows]
    BY <1>2 DEF Superseded
  <2>2. Superseded[s] \in PollRecords /\ Superseded[s].stale = TRUE
        /\ Superseded[s].stage = polls[s].stage /\ Superseded[s].want = polls[s].want
    BY <1>1, <2>1, Versions DEF PollRecords
  <2> QED
    BY <2>2 DEF WantsARun
<1>3. CASE ~InFlight(s)
  BY <1>3, NoPollIsAPoll DEF Superseded
<1> QED
  BY <1>2, <1>3

(* A forced poll is the only current one.                                   *)
LEMMA RefreshStarts ==
  ASSUME TypeOK, WantsARun, NEW s \in Slots, RefreshPolls(s)
  PROVE  polls' \in [Slots -> PollRecords] /\ WantsARun' /\ Current' = {s} /\ timer' = FALSE
<1>1. polls' = [Superseded EXCEPT ![s] = [NoPoll EXCEPT !.stage = "listing"]] /\ timer' = FALSE
  BY DEF RefreshPolls, Start
<1> QED
  BY <1>1, GenerationEnds, NoPollIsAPoll DEF WantsARun, Current, InFlight

(* A scheduled poll joins the current ones.                                 *)
LEMMA PollStarts ==
  ASSUME TypeOK, WantsARun, NEW s \in Slots, Start(s, FALSE)
  PROVE  /\ polls' \in [Slots -> PollRecords] /\ WantsARun'
         /\ Current' = Current \union {s} /\ timer' = FALSE
<1>1. polls' = [polls EXCEPT ![s] = [NoPoll EXCEPT !.stage = "listing"]] /\ timer' = FALSE
  BY DEF Start
<1> QED
  BY <1>1, NoPollIsAPoll, PollReplaced

(* A poll ends: if it was heard, it was the chain, and its timer goes on.   *)
LEMMA PollEnds ==
  ASSUME PollInv, NEW s \in Slots, InFlight(s), polls' = [polls EXCEPT ![s] = NoPoll],
         timer' = (timer \/ Heard(s)), mounted' = mounted
  PROVE  polls' \in [Slots -> PollRecords] /\ WantsARun' /\ Chain' /\ timer' \in BOOLEAN /\ mounted # "no"
<1>1. polls' \in [Slots -> PollRecords] /\ WantsARun' /\ Current' = Current \ {s}
  BY NoPollIsAPoll, PollReplaced DEF PollInv
<1>2. timer' \in BOOLEAN /\ mounted # "no"
  BY DEF PollInv, NothingSent, TypeOK, Heard
<1>3. CASE Heard(s)
  BY <1>1, <1>3 DEF PollInv, Chain, Heard, Current
<1>4. CASE ~Heard(s)
  <2>1. timer' = timer
    BY <1>4 DEF PollInv, TypeOK
  <2>2. mounted = "yes" => Current' = Current
    BY <1>1, <1>4 DEF Heard, Current
  <2>3. Chain'
    <3>1. CASE mounted = "yes"
      BY <2>1, <2>2, <3>1 DEF PollInv, Chain
    <3>2. CASE mounted # "yes"
      BY <2>1, <3>2 DEF PollInv, Chain
    <3> QED
      BY <3>1, <3>2
  <2> QED
    BY <1>1, <1>2, <2>3
<1> QED
  BY <1>1, <1>2, <1>3, <1>4
-----------------------------------------------------------------------------
LEMMA PollInvStarts == Init => PollInv
<1> SUFFICES ASSUME Init PROVE PollInv
  OBVIOUS
<1>1. NoPoll \in PollRecords /\ NoPoll.stage = "idle" /\ NoCard.stage = "idle"
      /\ NoCard \in [stage : {"idle", "sent", "answered"}, detail : 0..Settled]
  BY PollingAssumption, NoPollIsAPoll DEF NoCard
<1>2. failures \in Nat /\ clicks \in Nat
  BY PollingAssumption DEF Init
<1>3. NoRows \in [Runs -> 0..Settled] /\ NoRows \in [Runs -> 0..Gone] /\ host \in [Runs -> 0..Gone]
  BY PollingAssumption DEF Init, NoRows, Gone
<1>4. TypeOK
  BY <1>1, <1>2, <1>3 DEF Init, TypeOK, PollRecords
<1> QED
  BY <1>1, <1>4 DEF Init, PollInv, WantsARun, NothingSent, Chain, InFlight

LEMMA AnsweredKeeps ==
  ASSUME PollInv, NEW s \in Slots, PollAnswered(s)
  PROVE  PollInv'
<1>1. polls[s] \in PollRecords /\ Rows \in [Runs -> 0..Settled] /\ NoRows \in [Runs -> 0..Settled]
  BY Versions DEF PollInv, TypeOK, PollRecords
<1>2. UNCHANGED <<host, timer, runs, detailed, ready, detailId, mounted, expanded, card, act, floor, failures, clicks>>
      /\ InFlight(s)
  BY DEF PollAnswered, componentVars, InFlight
<1>3. PICK p \in PollRecords :
        /\ polls' = [polls EXCEPT ![s] = p] /\ p.stage # "idle" /\ p.stale = polls[s].stale
        /\ p.stage \in {"getting", "got"} => p.want \in Runs
  <2>1. CASE polls[s].stage = "listing"
    <3> DEFINE p == [polls[s] EXCEPT !.stage = "listed", !.list = IF polls[s].stale THEN NoRows ELSE Rows]
    <3>1. p \in PollRecords /\ p.stage = "listed" /\ p.stale = polls[s].stale
      BY <1>1 DEF PollRecords
    <3>2. polls' = [polls EXCEPT ![s] = p]
      BY <2>1 DEF PollAnswered, PollInv, TypeOK
    <3> QED
      BY <3>1, <3>2
  <2>2. CASE polls[s].stage = "getting"
    <3> DEFINE p == [polls[s] EXCEPT !.stage = "got", !.detail = Visible(polls[s].want)]
    <3>1. polls[s].want \in Runs /\ Visible(polls[s].want) \in 0..Settled
      BY <1>1, <2>2 DEF PollInv, WantsARun, Rows
    <3>2. p \in PollRecords /\ p.stage = "got" /\ p.stale = polls[s].stale /\ p.want = polls[s].want
      BY <1>1, <3>1 DEF PollRecords
    <3>3. polls' = [polls EXCEPT ![s] = p]
      BY <2>2 DEF PollAnswered, PollInv, TypeOK
    <3> QED
      BY <3>1, <3>2, <3>3
  <2> QED
    BY <2>1, <2>2 DEF PollAnswered
<1>4. polls' \in [Slots -> PollRecords] /\ WantsARun' /\ Current' = Current
  <2>1. polls' \in [Slots -> PollRecords] /\ WantsARun'
        /\ Current' = IF p.stage # "idle" /\ ~p.stale THEN Current \union {s} ELSE Current \ {s}
    BY <1>3, PollReplaced DEF PollInv
  <2> QED
    BY <1>2, <1>3, <2>1 DEF Current
<1>5. mounted # "no"
  BY <1>2 DEF PollInv, NothingSent
<1>6. TypeOK'
  BY <1>2, <1>4 DEF PollInv, TypeOK, PollRecords, Gone
<1> QED
  BY <1>2, <1>4, <1>5, <1>6 DEF PollInv, NothingSent, Chain

LEMMA ListDeliveredKeeps ==
  ASSUME PollInv, NEW s \in Slots, ListDelivered(s)
  PROVE  PollInv'
<1>1. polls[s] \in PollRecords /\ InFlight(s) /\ mounted # "no"
  BY DEF ListDelivered, PollInv, TypeOK, PollRecords, InFlight, NothingSent
<1>2. UNCHANGED <<host, mounted, expanded, card, act, floor, failures, clicks>>
  BY DEF ListDelivered, componentVars
<1> DEFINE wanted == Heard(s) /\ detailId # NoRun
<1>3. CASE wanted /\ polls[s].list[detailId] # 0
  <2> DEFINE p == [polls[s] EXCEPT !.stage = "getting", !.want = detailId]
  <2>1. UNCHANGED <<timer, runs, detailed, ready, detailId>> /\ detailId \in Runs
    BY <1>3 DEF ListDelivered, PollInv, TypeOK
  <2>2. polls' = [polls EXCEPT ![s] = p]
    BY <1>3 DEF ListDelivered, PollInv, TypeOK
  <2>3. p \in PollRecords /\ p.stage = "getting" /\ p.want = detailId /\ p.stale = polls[s].stale
    BY <1>1, <2>1 DEF PollRecords
  <2>4. polls' \in [Slots -> PollRecords] /\ WantsARun' /\ Current' = Current
    <3> HIDE DEF p
    <3>1. polls' \in [Slots -> PollRecords] /\ WantsARun'
          /\ Current' = IF p.stage # "idle" /\ ~p.stale THEN Current \union {s} ELSE Current \ {s}
      BY <2>1, <2>2, <2>3, PollReplaced DEF PollInv
    <3> QED
      BY <1>1, <2>3, <3>1 DEF Current
  <2>5. TypeOK'
    BY <1>2, <2>1, <2>4 DEF PollInv, TypeOK, PollRecords, Gone
  <2> QED
    BY <1>1, <1>2, <2>1, <2>4, <2>5 DEF PollInv, NothingSent, Chain
<1>4. CASE ~(wanted /\ polls[s].list[detailId] # 0)
  <2>1. Publish(s, polls[s].list, {}) /\ detailId' = IF wanted THEN NoRun ELSE detailId
    BY <1>4 DEF ListDelivered
  <2>2. polls' = [polls EXCEPT ![s] = NoPoll] /\ timer' = (timer \/ Heard(s))
    BY <2>1 DEF Publish, PollInv, TypeOK
  <2>3. polls' \in [Slots -> PollRecords] /\ WantsARun' /\ Chain' /\ timer' \in BOOLEAN
    BY <1>1, <1>2, <2>2, PollEnds
  <2>4. runs' \in [Runs -> 0..Settled] /\ detailed' \subseteq Runs /\ ready' \in BOOLEAN
        /\ detailId' \in Runs \union {NoRun}
    BY <1>1, <2>1 DEF Publish, PollInv, TypeOK, PollRecords
  <2>5. TypeOK'
    BY <1>2, <2>3, <2>4 DEF PollInv, TypeOK, PollRecords, Gone
  <2> QED
    BY <1>1, <1>2, <2>3, <2>5 DEF PollInv, NothingSent
<1> QED
  BY <1>3, <1>4

LEMMA GetDeliveredKeeps ==
  ASSUME PollInv, NEW s \in Slots, GetDelivered(s)
  PROVE  PollInv'
<1> DEFINE list == [polls[s].list EXCEPT ![polls[s].want] = polls[s].detail]
           details == IF polls[s].detail = 0 THEN {} ELSE {polls[s].want}
<1>1. polls[s] \in PollRecords /\ InFlight(s) /\ mounted # "no" /\ polls[s].want \in Runs
  BY DEF GetDelivered, PollInv, TypeOK, PollRecords, InFlight, NothingSent, WantsARun
<1>2. UNCHANGED <<host, mounted, expanded, card, act, floor, failures, clicks>>
      /\ Publish(s, list, details)
      /\ detailId' = IF polls[s].detail = 0 THEN NoRun ELSE detailId
  BY DEF GetDelivered, componentVars
<1>3. list \in [Runs -> 0..Settled] /\ details \subseteq Runs
  BY <1>1 DEF PollRecords
<1>4. polls' = [polls EXCEPT ![s] = NoPoll] /\ timer' = (timer \/ Heard(s))
  BY <1>2 DEF Publish, PollInv, TypeOK
<1>5. polls' \in [Slots -> PollRecords] /\ WantsARun' /\ Chain' /\ timer' \in BOOLEAN
  BY <1>1, <1>2, <1>4, PollEnds
<1>6. runs' \in [Runs -> 0..Settled] /\ detailed' \subseteq Runs /\ ready' \in BOOLEAN
      /\ detailId' \in Runs \union {NoRun}
  <2> HIDE DEF list, details
  <2> QED
    BY <1>2, <1>3 DEF Publish, PollInv, TypeOK
<1>7. TypeOK'
  BY <1>2, <1>5, <1>6 DEF PollInv, TypeOK, PollRecords, Gone
<1> QED
  BY <1>1, <1>2, <1>5, <1>7 DEF PollInv, NothingSent

LEMMA FailsKeeps ==
  ASSUME PollInv, NEW s \in Slots, PollFails(s)
  PROVE  PollInv'
<1>1. /\ UNCHANGED <<host, runs, detailed, detailId, mounted, expanded, card, act, floor, clicks>>
      /\ InFlight(s) /\ failures > 0 /\ failures' = failures - 1 /\ ready' = (ready /\ ~Heard(s))
      /\ polls' = [polls EXCEPT ![s] = NoPoll] /\ timer' = (timer \/ Heard(s))
  BY DEF PollFails, componentVars
<1>2. polls' \in [Slots -> PollRecords] /\ WantsARun' /\ Chain' /\ timer' \in BOOLEAN /\ mounted # "no"
  BY <1>1, PollEnds
<1>3. failures' \in Nat
  BY <1>1 DEF PollInv, TypeOK
<1>4. ready' \in BOOLEAN
  BY <1>1 DEF PollInv, TypeOK, Heard
<1>5. TypeOK'
  BY <1>1, <1>2, <1>3, <1>4 DEF PollInv, TypeOK, PollRecords, Gone
<1> QED
  BY <1>1, <1>2, <1>5 DEF PollInv, NothingSent
-----------------------------------------------------------------------------
(* The rest of a step that refreshes: the component is there, and what else *)
(* changes keeps its type.                                                  *)
LEMMA RefreshKeeps ==
  ASSUME PollInv, NEW s \in Slots, RefreshPolls(s), mounted # "no", mounted' = mounted,
         UNCHANGED <<host, runs, detailed, ready>>,
         floor' \in [Runs -> 0..Gone], act' \in {"idle", "sent", "executed"},
         detailId' \in Runs \union {NoRun}, expanded' \in Runs \union {NoRun},
         card' \in [Runs -> [stage : {"idle", "sent", "answered"}, detail : 0..Settled]],
         failures' = failures, clicks' \in Nat
  PROVE  PollInv'
<1>1. polls' \in [Slots -> PollRecords] /\ WantsARun' /\ Current' = {s} /\ timer' = FALSE
  BY RefreshStarts DEF PollInv
<1>2. TypeOK'
  BY <1>1 DEF PollInv, TypeOK, PollRecords, Gone
<1> QED
  BY <1>1, <1>2 DEF PollInv, NothingSent, Chain

LEMMA MountKeeps ==
  ASSUME PollInv, NEW s \in Slots, Mount(s)
  PROVE  PollInv'
<1>1. /\ UNCHANGED <<host, runs, detailed, ready, detailId, expanded, card, act, floor, failures, clicks>>
      /\ mounted = "no" /\ mounted' = "yes" /\ Start(s, FALSE)
  BY DEF Mount
<1>2. polls' \in [Slots -> PollRecords] /\ WantsARun' /\ Current' = Current \union {s} /\ timer' = FALSE
  BY <1>1, PollStarts DEF PollInv
<1>3. Current = {}
  BY <1>1 DEF PollInv, NothingSent, Current
<1>4. TypeOK'
  BY <1>1, <1>2 DEF PollInv, TypeOK, PollRecords, Gone
<1> QED
  BY <1>1, <1>2, <1>3, <1>4 DEF PollInv, NothingSent, Chain

LEMMA TimerKeeps ==
  ASSUME PollInv, NEW s \in Slots, TimerFires(s)
  PROVE  PollInv'
<1>1. /\ UNCHANGED <<host, runs, detailed, ready, detailId, mounted, expanded, card, act, floor, failures, clicks>>
      /\ timer /\ Start(s, FALSE)
  BY DEF TimerFires, componentVars
<1>2. polls' \in [Slots -> PollRecords] /\ WantsARun' /\ Current' = Current \union {s} /\ timer' = FALSE
  BY <1>1, PollStarts DEF PollInv
<1>3. Current = {} /\ mounted = "yes"
  BY <1>1 DEF PollInv, Chain
<1>4. TypeOK'
  BY <1>1, <1>2 DEF PollInv, TypeOK, PollRecords, Gone
<1> QED
  BY <1>1, <1>2, <1>3, <1>4 DEF PollInv, NothingSent, Chain

LEMMA UnmountKeeps ==
  ASSUME PollInv, Unmount
  PROVE  PollInv'
<1>1. /\ UNCHANGED <<host, runs, detailed, ready, detailId, expanded, card, act, floor, failures, clicks>>
      /\ mounted' = "gone" /\ polls' = Superseded /\ timer' = FALSE
  BY DEF Unmount
<1>2. polls' \in [Slots -> PollRecords] /\ WantsARun'
  BY <1>1, GenerationEnds DEF PollInv, WantsARun
<1>3. TypeOK'
  BY <1>1, <1>2 DEF PollInv, TypeOK, PollRecords, Gone
<1> QED
  BY <1>1, <1>2, <1>3 DEF PollInv, NothingSent, Chain

(* A step that touches neither the polls nor the timer.                     *)
LEMMA StoreUntouched ==
  ASSUME PollInv, UNCHANGED <<polls, timer, mounted>>, TypeOK',
         mounted # "no" \/ UNCHANGED <<card, act>>
  PROVE  PollInv'
  BY DEF PollInv, WantsARun, NothingSent, Chain, Current, InFlight

LEMMA CardKeeps ==
  ASSUME PollInv, NEW r \in Runs, CardStep(r) \/ Open(r) \/ Close(r) \/ CardFails(r)
  PROVE  PollInv'
<1>1. card[r] \in [stage : {"idle", "sent", "answered"}, detail : 0..Settled] /\ TypeOK
      /\ NoCard \in [stage : {"idle", "sent", "answered"}, detail : 0..Settled]
  BY PollingAssumption DEF PollInv, TypeOK, NoCard
<1>2. CASE CardAnswered(r)
  <2>1. Visible(r) \in 0..Settled /\ mounted # "no"
    BY <1>1, <1>2, Versions DEF Rows, CardAnswered, PollInv, NothingSent
  <2>2. card' \in [Runs -> [stage : {"idle", "sent", "answered"}, detail : 0..Settled]]
    BY <1>1, <1>2, <2>1 DEF CardAnswered, TypeOK
  <2>3. UNCHANGED <<host, polls, timer, runs, detailed, ready, detailId, mounted, expanded, act, floor, failures, clicks>>
    BY <1>2 DEF CardAnswered, storeVars
  <2>4. TypeOK'
    BY <1>1, <2>2, <2>3 DEF TypeOK, Gone
  <2> QED
    BY <2>1, <2>3, <2>4, StoreUntouched
<1>3. CASE CardDelivered(r)
  <2>1. UNCHANGED <<host, polls, timer, ready, detailId, mounted, expanded, act, floor, failures, clicks>>
        /\ mounted # "no"
    BY <1>3 DEF CardDelivered, PollInv, NothingSent
  <2>2. runs' \in [Runs -> 0..Settled] /\ detailed' \subseteq Runs
        /\ card' \in [Runs -> [stage : {"idle", "sent", "answered"}, detail : 0..Settled]]
    BY <1>1, <1>3 DEF CardDelivered, TypeOK
  <2>3. TypeOK'
    BY <1>1, <2>1, <2>2 DEF TypeOK, Gone
  <2> QED
    BY <2>1, <2>3, StoreUntouched
<1>4. ASSUME NEW s \in Slots, CardMissing(r, s) PROVE PollInv'
  <2>1. /\ UNCHANGED <<host, runs, detailed, ready, mounted, act, floor, failures, clicks>>
        /\ RefreshPolls(s) /\ mounted # "no" /\ expanded' = NoRun /\ detailId' = NoRun
    BY <1>4 DEF CardMissing, PollInv, NothingSent
  <2>2. card' \in [Runs -> [stage : {"idle", "sent", "answered"}, detail : 0..Settled]]
    BY <1>1, <1>4 DEF CardMissing, TypeOK
  <2>3. floor' \in [Runs -> 0..Gone] /\ act' \in {"idle", "sent", "executed"} /\ clicks' \in Nat
    BY <1>1, <2>1 DEF TypeOK, Gone
  <2> QED
    BY <2>1, <2>2, <2>3, RefreshKeeps
<1>5. CASE Open(r)
  <2>1. /\ UNCHANGED <<host, polls, timer, runs, detailed, ready, mounted, act, floor, failures>>
        /\ mounted = "yes" /\ expanded' = r /\ detailId' = r /\ clicks > 0 /\ clicks' = clicks - 1
    BY <1>5 DEF Open
  <2>2. card' \in [Runs -> [stage : {"idle", "sent", "answered"}, detail : 0..Settled]]
    <3>1. [NoCard EXCEPT !.stage = "sent"] \in [stage : {"idle", "sent", "answered"}, detail : 0..Settled]
      BY <1>1
    <3> QED
      BY <1>1, <1>5, <3>1 DEF Open, TypeOK
  <2>3. clicks' \in Nat
    BY <1>1, <2>1 DEF TypeOK
  <2>4. TypeOK'
    BY <1>1, <2>1, <2>2, <2>3 DEF TypeOK, Gone
  <2> QED
    BY <2>1, <2>4, StoreUntouched
<1>6. CASE Close(r)
  <2>1. /\ UNCHANGED <<host, polls, timer, runs, detailed, ready, mounted, card, act, floor, failures, clicks>>
        /\ expanded' = NoRun /\ detailId' = NoRun
    BY <1>6 DEF Close
  <2>2. TypeOK'
    BY <1>1, <2>1 DEF TypeOK, Gone
  <2> QED
    BY <2>1, <2>2, StoreUntouched
<1>7. CASE CardFails(r)
  <2>1. /\ UNCHANGED <<host, polls, timer, runs, detailed, ready, detailId, mounted, expanded, act, floor, clicks>>
        /\ failures > 0 /\ failures' = failures - 1 /\ mounted # "no"
    BY <1>7 DEF CardFails, storeVars, PollInv, NothingSent
  <2>2. card' \in [Runs -> [stage : {"idle", "sent", "answered"}, detail : 0..Settled]] /\ failures' \in Nat
    BY <1>1, <1>7, <2>1 DEF CardFails, TypeOK
  <2>3. TypeOK'
    BY <1>1, <2>1, <2>2 DEF TypeOK, Gone
  <2> QED
    BY <2>1, <2>3, StoreUntouched
<1> QED
  BY <1>2, <1>3, <1>4, <1>5, <1>6, <1>7 DEF CardStep

LEMMA ActKeeps ==
  ASSUME PollInv, SendAct \/ ActStep \/ ActFails
  PROVE  PollInv'
<1>1. TypeOK
  BY DEF PollInv
<1>2. CASE SendAct
  <2>1. /\ UNCHANGED <<host, polls, timer, runs, detailed, ready, detailId, mounted, expanded, card, floor, failures>>
        /\ mounted = "yes" /\ act' = "sent" /\ clicks > 0 /\ clicks' = clicks - 1
    BY <1>2 DEF SendAct, storeVars
  <2>2. clicks' \in Nat
    BY <1>1, <2>1 DEF TypeOK
  <2>3. TypeOK'
    BY <1>1, <2>1, <2>2 DEF TypeOK, Gone
  <2> QED
    BY <2>1, <2>3, StoreUntouched
<1>3. CASE ActExecuted
  <2>1. /\ UNCHANGED <<polls, timer, runs, detailed, ready, detailId, mounted, expanded, card, floor, failures, clicks>>
        /\ mounted # "no" /\ act' = "executed"
    BY <1>3 DEF ActExecuted, storeVars, PollInv, NothingSent
  <2>2. host' \in [Runs -> 0..Gone]
    <3>1. Gone \in 0..Gone /\ 1 \in 0..Gone
      BY PollingAssumption DEF Gone
    <3> QED
      BY <1>1, <1>3, <3>1 DEF ActExecuted, TypeOK
  <2>3. TypeOK'
    BY <1>1, <2>1, <2>2 DEF TypeOK, Gone
  <2> QED
    BY <2>1, <2>3, StoreUntouched
<1>4. ASSUME NEW s \in Slots, ActAcknowledged(s) PROVE PollInv'
  <2>1. /\ UNCHANGED <<host, runs, detailed, ready, detailId, mounted, expanded, card, failures, clicks>>
        /\ RefreshPolls(s) /\ mounted # "no" /\ act' = "idle" /\ floor' = host
    BY <1>4 DEF ActAcknowledged, PollInv, NothingSent
  <2>2. /\ floor' \in [Runs -> 0..Gone] /\ detailId' \in Runs \union {NoRun}
        /\ expanded' \in Runs \union {NoRun} /\ clicks' \in Nat
        /\ card' \in [Runs -> [stage : {"idle", "sent", "answered"}, detail : 0..Settled]]
    BY <1>1, <2>1 DEF TypeOK
  <2> QED
    BY <2>1, <2>2, RefreshKeeps
<1>5. CASE ActFails
  <2>1. /\ UNCHANGED <<host, polls, timer, runs, detailed, ready, detailId, mounted, expanded, card, floor, clicks>>
        /\ mounted # "no" /\ act' = "idle" /\ failures > 0 /\ failures' = failures - 1
    BY <1>5 DEF ActFails, storeVars, PollInv, NothingSent
  <2>2. failures' \in Nat
    BY <1>1, <2>1 DEF TypeOK
  <2>3. TypeOK'
    BY <1>1, <2>1, <2>2 DEF TypeOK, Gone
  <2> QED
    BY <2>1, <2>3, StoreUntouched
<1> QED
  BY <1>2, <1>3, <1>4, <1>5 DEF ActStep

LEMMA ClickKeeps ==
  ASSUME PollInv, NEW s \in Slots, ClickRefreshPolls(s)
  PROVE  PollInv'
<1>1. /\ UNCHANGED <<host, runs, detailed, ready, detailId, mounted, expanded, card, act, floor, failures>>
      /\ mounted = "yes" /\ RefreshPolls(s) /\ clicks > 0 /\ clicks' = clicks - 1
  BY DEF ClickRefreshPolls, componentVars
<1>2. /\ floor' \in [Runs -> 0..Gone] /\ detailId' \in Runs \union {NoRun}
      /\ expanded' \in Runs \union {NoRun} /\ act' \in {"idle", "sent", "executed"}
      /\ card' \in [Runs -> [stage : {"idle", "sent", "answered"}, detail : 0..Settled]]
  BY <1>1 DEF PollInv, TypeOK, Gone
<1>3. clicks' \in Nat
  BY <1>1 DEF PollInv, TypeOK
<1> QED
  BY <1>1, <1>2, <1>3, RefreshKeeps

LEMMA OthersKeep ==
  ASSUME PollInv, CloseMissing \/ HostMoves \/ UNCHANGED vars
  PROVE  PollInv'
<1>1. /\ UNCHANGED <<polls, timer, runs, detailed, ready, mounted, card, act, floor, failures, clicks>>
      /\ expanded' \in {expanded, NoRun} /\ detailId' \in {detailId, NoRun}
  BY DEF CloseMissing, HostMoves, vars, storeVars, componentVars
<1>2. host' \in [Runs -> 0..Gone]
  <2>1. CASE HostMoves
    <3>1. PICK r \in Runs : host[r] < Gone /\ host' = [host EXCEPT ![r] = host[r] + 1]
      BY <2>1 DEF HostMoves
    <3>2. host[r] + 1 \in 0..Gone
      BY <3>1, PollingAssumption DEF PollInv, TypeOK, Gone
    <3> QED
      BY <3>1, <3>2 DEF PollInv, TypeOK
  <2>2. CASE UNCHANGED host
    BY <2>2 DEF PollInv, TypeOK, Gone
  <2> QED
    BY <2>1, <2>2 DEF CloseMissing, vars
<1>3. TypeOK'
  BY <1>1, <1>2 DEF PollInv, TypeOK, Gone
<1> QED
  BY <1>1, <1>3, StoreUntouched

LEMMA PollStepKeeps == PollInv /\ [Next]_vars => PollInv'
<1> SUFFICES ASSUME PollInv, [Next]_vars
             PROVE  PollInv'
  OBVIOUS
<1>1. ASSUME NEW s \in Slots, Poll(s) PROVE PollInv'
  BY <1>1, AnsweredKeeps, ListDeliveredKeeps, GetDeliveredKeeps DEF Poll
<1>2. ASSUME NEW r \in Runs, CardStep(r) PROVE PollInv'
  BY <1>2, CardKeeps
<1>3. CASE Reaction
  BY <1>3, TimerKeeps, OthersKeep DEF Reaction
<1>4. CASE ActStep
  BY <1>4, ActKeeps
<1>5. CASE Failure
  BY <1>5, FailsKeeps, CardKeeps, ActKeeps DEF Failure
<1>6. CASE User
  BY <1>6, MountKeeps, ClickKeeps, CardKeeps, ActKeeps, UnmountKeeps DEF User
<1>7. CASE HostMoves \/ UNCHANGED vars
  BY <1>7, OthersKeep
<1> QED
  BY <1>1, <1>2, <1>3, <1>4, <1>5, <1>6, <1>7 DEF Next

LEMMA ChainIsCounted == PollInv => OnePollChain
<1> SUFFICES ASSUME PollInv PROVE OnePollChain
  OBVIOUS
<1>1. CASE mounted = "yes" /\ timer
  BY <1>1, FS_EmptySet DEF PollInv, Chain, OnePollChain
<1>2. CASE mounted = "yes" /\ ~timer
  <2>1. PICK s \in Slots : Current = {s}
    BY <1>2 DEF PollInv, Chain
  <2>2. Cardinality(Current) = 1
    BY <2>1, FS_Singleton
  <2> QED
    BY <1>2, <2>2 DEF PollInv, OnePollChain
<1>3. CASE mounted # "yes"
  BY <1>3 DEF PollInv, Chain, OnePollChain
<1> QED
  BY <1>1, <1>2, <1>3

\* While the Run Center is open, a poll is under way or the timer for the next one is
\* set, never both and never two; once it is closed no timer is left.
THEOREM PollsAreOneChain == Spec => []OnePollChain
  BY PollInvStarts, PollStepKeeps, ChainIsCounted, PTL DEF Spec
-----------------------------------------------------------------------------
(***************************************************************************)
(* What polls show.  A run's row only gets newer, so what a poll read      *)
(* after the last acknowledged action is as new as the host was then; and  *)
(* the acknowledgement leaves no current poll that read anything before.   *)
(***************************************************************************)
FloorIsPast == \A r \in Runs : floor[r] <= host[r]

FreshPoll(p, past, now) ==
  ~p.stale => /\ p.stage \in {"listed", "getting", "got"} => \A r \in Runs : AsNewAs(p.list[r], past[r], now[r])
              /\ p.stage = "got" => AsNewAs(p.detail, past[p.want], now[p.want])

ViewInv == PollInv /\ FloorIsPast /\ \A s \in Slots : FreshPoll(polls[s], floor, host)

(* What the host answers with is as new as what it had at any time before. *)
LEMMA AnswersAreNew ==
  ASSUME PollInv, FloorIsPast, NEW r \in Runs
  PROVE  AsNewAs(Visible(r), floor[r], host[r])
<1>1. host[r] \in 0..Gone /\ floor[r] \in 0..Gone /\ floor[r] <= host[r] /\ Gone \in Nat
  BY PollingAssumption DEF PollInv, TypeOK, FloorIsPast, Gone
<1> QED
  BY <1>1 DEF AsNewAs, Visible

(* The polls of a step that refreshes have read nothing or are not heard.   *)
LEMMA RefreshedPollIsFresh ==
  ASSUME PollInv, NEW s \in Slots, RefreshPolls(s)
  PROVE  \A o \in Slots : FreshPoll(polls'[o], floor', host')
<1>1. polls' = [Superseded EXCEPT ![s] = [NoPoll EXCEPT !.stage = "listing"]]
  BY DEF RefreshPolls, Start
<1> SUFFICES ASSUME NEW o \in Slots PROVE FreshPoll(polls'[o], floor', host')
  OBVIOUS
<1>2. CASE o = s
  <2>1. polls'[o] = [NoPoll EXCEPT !.stage = "listing"]
    BY <1>1, <1>2 DEF Superseded
  <2> QED
    BY <2>1, NoPollIsAPoll DEF FreshPoll
<1>3. CASE o # s
  <2>1. polls'[o] = Superseded[o]
    BY <1>1, <1>3 DEF Superseded
  <2>2. Superseded[o].stage = "idle" \/ Superseded[o].stale
    BY GenerationEnds DEF PollInv
  <2> QED
    BY <2>1, <2>2 DEF FreshPoll
<1> QED
  BY <1>2, <1>3

(* The poll that a timer or the mounting starts has read nothing.           *)
LEMMA StartIsFresh ==
  ASSUME ViewInv, NEW s \in Slots, Start(s, FALSE), UNCHANGED <<floor, host>>
  PROVE  \A o \in Slots : FreshPoll(polls'[o], floor', host')
<1>1. polls' = [polls EXCEPT ![s] = [NoPoll EXCEPT !.stage = "listing"]]
  BY DEF Start
<1> SUFFICES ASSUME NEW o \in Slots PROVE FreshPoll(polls'[o], floor', host')
  OBVIOUS
<1>2. polls'[o] = IF o = s THEN [NoPoll EXCEPT !.stage = "listing"] ELSE polls[o]
  BY <1>1 DEF ViewInv, PollInv, TypeOK
<1> QED
  BY <1>2, NoPollIsAPoll DEF FreshPoll, ViewInv

(* A poll is over.                                                          *)
LEMMA EndIsFresh ==
  ASSUME ViewInv, NEW s \in Slots, polls' = [polls EXCEPT ![s] = NoPoll], UNCHANGED <<floor, host>>
  PROVE  \A o \in Slots : FreshPoll(polls'[o], floor', host')
<1> SUFFICES ASSUME NEW o \in Slots PROVE FreshPoll(polls'[o], floor', host')
  OBVIOUS
<1>1. polls'[o] = IF o = s THEN NoPoll ELSE polls[o]
  BY DEF ViewInv, PollInv, TypeOK
<1> QED
  BY <1>1, NoPollIsAPoll DEF FreshPoll, ViewInv

LEMMA AnsweredIsFresh ==
  ASSUME ViewInv, NEW s \in Slots, PollAnswered(s)
  PROVE  \A o \in Slots : FreshPoll(polls'[o], floor', host')
<1> SUFFICES ASSUME NEW o \in Slots PROVE FreshPoll(polls'[o], floor', host')
  OBVIOUS
<1>1. polls[s] \in PollRecords /\ UNCHANGED <<floor, host>> /\ Rows \in [Runs -> 0..Settled]
      /\ \A r \in Runs : Rows[r] = Visible(r)
  BY Versions DEF PollAnswered, ViewInv, PollInv, TypeOK, PollRecords, Rows
<1>2. FreshPoll(polls[o], floor, host)
  BY DEF ViewInv
<1>3. CASE o # s
  <2>1. polls'[o] = polls[o]
    BY <1>3 DEF PollAnswered, ViewInv, PollInv, TypeOK
  <2> QED
    BY <1>1, <1>2, <2>1
<1>4. CASE o = s /\ polls[s].stage = "listing"
  <2>1. polls'[s] = [polls[s] EXCEPT !.stage = "listed", !.list = IF polls[s].stale THEN NoRows ELSE Rows]
    BY <1>4 DEF PollAnswered, ViewInv, PollInv, TypeOK
  <2>2. polls'[s].stage = "listed" /\ polls'[s].stale = polls[s].stale
        /\ (~polls[s].stale => polls'[s].list = Rows)
    BY <1>1, <2>1 DEF PollRecords
  <2> QED
    BY <1>1, <1>4, <2>2, AnswersAreNew DEF FreshPoll, ViewInv
<1>5. CASE o = s /\ polls[s].stage = "getting"
  <2>1. polls'[s] = [polls[s] EXCEPT !.stage = "got", !.detail = Visible(polls[s].want)]
        /\ polls[s].want \in Runs
    BY <1>5 DEF PollAnswered, ViewInv, PollInv, TypeOK, WantsARun
  <2>2. /\ polls'[s].stage = "got" /\ polls'[s].stale = polls[s].stale /\ polls'[s].list = polls[s].list
        /\ polls'[s].want = polls[s].want /\ polls'[s].detail = Visible(polls[s].want)
    BY <1>1, <2>1 DEF PollRecords
  <2> QED
    BY <1>1, <1>2, <1>5, <2>1, <2>2, AnswersAreNew DEF FreshPoll, ViewInv
<1> QED
  BY <1>3, <1>4, <1>5 DEF PollAnswered

LEMMA ListDeliveredIsFresh ==
  ASSUME ViewInv, NEW s \in Slots, ListDelivered(s)
  PROVE  \A o \in Slots : FreshPoll(polls'[o], floor', host')
<1>1. UNCHANGED <<floor, host>> /\ polls[s] \in PollRecords
  BY DEF ListDelivered, ViewInv, PollInv, TypeOK, PollRecords
<1>2. CASE polls' = [polls EXCEPT ![s] = NoPoll]
  BY <1>1, <1>2, EndIsFresh
<1>3. CASE polls' = [polls EXCEPT ![s].stage = "getting", ![s].want = detailId]
  <2> SUFFICES ASSUME NEW o \in Slots PROVE FreshPoll(polls'[o], floor', host')
    OBVIOUS
  <2>1. polls'[o] = IF o = s THEN [polls[s] EXCEPT !.stage = "getting", !.want = detailId] ELSE polls[o]
    BY <1>3 DEF ViewInv, PollInv, TypeOK
  <2>2. FreshPoll(polls[o], floor, host) /\ polls[s].stage = "listed"
    BY DEF ViewInv, ListDelivered
  <2>3. CASE o = s
    <3>1. polls'[o].stage = "getting" /\ polls'[o].stale = polls[s].stale /\ polls'[o].list = polls[s].list
      BY <1>1, <2>1, <2>3 DEF PollRecords
    <3> QED
      BY <1>1, <2>2, <2>3, <3>1 DEF FreshPoll
  <2> QED
    BY <1>1, <2>1, <2>2, <2>3
<1> QED
  BY <1>2, <1>3 DEF ListDelivered, Publish

(* A run that is deleted stays deleted.                                     *)
LEMMA GoneStays ==
  ASSUME PollInv, [Next]_vars, NEW r \in Runs, host[r] = Gone
  PROVE  host'[r] = Gone
<1>1. /\ host \in [Runs -> 0..Gone] /\ Settled \in Nat \ {0} /\ Gone = Settled + 1
  BY PollingAssumption DEF PollInv, TypeOK, Gone
<1>2. CASE HostMoves
  BY <1>1, <1>2 DEF HostMoves
<1>3. CASE ActExecuted
  BY <1>1, <1>3 DEF ActExecuted
<1>4. CASE UNCHANGED host
  BY <1>4
<1> QED
  BY <1>2, <1>3, <1>4 DEF Next, Poll, PollAnswered, ListDelivered, GetDelivered, CardStep, CardAnswered,
    CardDelivered, CardMissing, Reaction, CloseMissing, TimerFires, ActStep, ActAcknowledged, Failure,
    PollFails, CardFails, ActFails, User, Mount, ClickRefreshPolls, Open, Close, SendAct, Unmount, vars

(* A step that leaves the polls and what was acknowledged alone.            *)
LEMMA UntouchedIsFresh ==
  ASSUME ViewInv, [Next]_vars, UNCHANGED <<polls, floor>>
  PROVE  \A o \in Slots : FreshPoll(polls'[o], floor', host')
<1> SUFFICES ASSUME NEW o \in Slots PROVE FreshPoll(polls[o], floor, host')
  OBVIOUS
<1>1. FreshPoll(polls[o], floor, host) /\ polls[o] \in PollRecords
  BY DEF ViewInv, PollInv, TypeOK, PollRecords
<1>2. \A r \in Runs : host[r] = Gone => host'[r] = Gone
  BY GoneStays DEF ViewInv
<1>3. polls[o].stage = "got" => polls[o].want \in Runs
  BY DEF ViewInv, PollInv, WantsARun
<1> QED
  BY <1>1, <1>2, <1>3 DEF FreshPoll, AsNewAs

LEMMA PollsStayFresh ==
  ASSUME ViewInv, [Next]_vars
  PROVE  \A o \in Slots : FreshPoll(polls'[o], floor', host')
<1>0. PollInv
  BY DEF ViewInv
<1>1. ASSUME NEW s \in Slots, Poll(s) PROVE \A o \in Slots : FreshPoll(polls'[o], floor', host')
  <2>1. CASE GetDelivered(s)
    BY <2>1, EndIsFresh DEF GetDelivered, Publish
  <2> QED
    BY <1>1, <2>1, AnsweredIsFresh, ListDeliveredIsFresh DEF Poll
<1>2. ASSUME NEW s \in Slots, TimerFires(s) \/ Mount(s) PROVE \A o \in Slots : FreshPoll(polls'[o], floor', host')
  BY <1>2, StartIsFresh DEF TimerFires, Mount
<1>3. ASSUME NEW s \in Slots, RefreshPolls(s) PROVE \A o \in Slots : FreshPoll(polls'[o], floor', host')
  BY <1>0, <1>3, RefreshedPollIsFresh
<1>4. ASSUME NEW s \in Slots, PollFails(s) PROVE \A o \in Slots : FreshPoll(polls'[o], floor', host')
  BY <1>4, EndIsFresh DEF PollFails
<1>5. CASE Unmount
  <2> SUFFICES ASSUME NEW o \in Slots PROVE FreshPoll(polls'[o], floor', host')
    OBVIOUS
  <2>1. polls'[o].stage = "idle" \/ polls'[o].stale
    BY <1>0, <1>5, GenerationEnds DEF Unmount, PollInv
  <2> QED
    BY <2>1 DEF FreshPoll
<1>6. ASSUME NEW r \in Runs, CardStep(r) \/ Open(r) \/ Close(r) \/ CardFails(r)
      PROVE  \A o \in Slots : FreshPoll(polls'[o], floor', host')
  <2>1. CASE \E s \in Slots : CardMissing(r, s)
    BY <1>3, <2>1 DEF CardMissing
  <2>2. CASE CardAnswered(r) \/ CardDelivered(r) \/ Open(r) \/ Close(r) \/ CardFails(r)
    <3>1. UNCHANGED <<polls, floor>>
      BY <2>2 DEF CardAnswered, CardDelivered, Open, Close, CardFails, storeVars
    <3> QED
      BY <3>1, UntouchedIsFresh
  <2> QED
    BY <1>6, <2>1, <2>2 DEF CardStep
<1>7. CASE CloseMissing \/ SendAct \/ ActExecuted \/ ActFails \/ HostMoves \/ UNCHANGED vars
  <2>1. UNCHANGED <<polls, floor>>
    BY <1>7 DEF CloseMissing, SendAct, ActExecuted, ActFails, HostMoves, vars, storeVars
  <2> QED
    BY <2>1, UntouchedIsFresh
<1>8. CASE ActStep
  BY <1>3, <1>7, <1>8 DEF ActStep, ActAcknowledged
<1>9. CASE Reaction
  BY <1>2, <1>7, <1>9 DEF Reaction
<1>10. CASE Failure
  BY <1>4, <1>6, <1>7, <1>10 DEF Failure
<1>11. CASE User
  BY <1>2, <1>3, <1>5, <1>6, <1>7, <1>11 DEF User, ClickRefreshPolls
<1> QED
  BY <1>1, <1>6, <1>7, <1>8, <1>9, <1>10, <1>11 DEF Next

(* The host's rows never get older, and what an acknowledgement notes is    *)
(* what they are.                                                           *)
LEMMA FloorStaysPast ==
  ASSUME PollInv, FloorIsPast, [Next]_vars
  PROVE  FloorIsPast'
<1>1. /\ host \in [Runs -> 0..Gone] /\ floor \in [Runs -> 0..Gone] /\ Gone \in Nat
      /\ Settled \in Nat /\ Gone = Settled + 1
  BY PollingAssumption DEF PollInv, TypeOK, Gone
<1>2. \A r \in Runs : host[r] <= host'[r] /\ host'[r] \in Nat
  <2> SUFFICES ASSUME NEW r \in Runs PROVE host[r] <= host'[r] /\ host'[r] \in Nat
    OBVIOUS
  <2>1. CASE HostMoves
    BY <1>1, <2>1 DEF HostMoves
  <2>2. CASE ActExecuted
    BY <1>1, <2>2 DEF ActExecuted
  <2>3. CASE UNCHANGED host
    BY <1>1, <2>3
  <2> QED
    BY <2>1, <2>2, <2>3 DEF Next, Poll, PollAnswered, ListDelivered, GetDelivered, CardStep, CardAnswered,
      CardDelivered, CardMissing, Reaction, CloseMissing, TimerFires, ActStep, ActAcknowledged, Failure,
      PollFails, CardFails, ActFails, User, Mount, ClickRefreshPolls, Open, Close, SendAct, Unmount, vars
<1>3. CASE \E s \in Slots : ActAcknowledged(s)
  <2>1. floor' = host
    BY <1>3 DEF ActAcknowledged
  <2> QED
    BY <1>1, <1>2, <2>1 DEF FloorIsPast
<1>4. CASE floor' = floor
  <2> SUFFICES ASSUME NEW r \in Runs PROVE floor'[r] <= host'[r]
    BY DEF FloorIsPast
  <2>1. floor[r] <= host[r] /\ host[r] <= host'[r] /\ floor[r] \in Nat /\ host[r] \in Nat /\ host'[r] \in Nat
    BY <1>1, <1>2 DEF FloorIsPast
  <2> QED
    BY <1>4, <2>1
<1> QED
  BY <1>3, <1>4 DEF Next, Poll, PollAnswered, ListDelivered, GetDelivered, CardStep, CardAnswered,
    CardDelivered, CardMissing, Reaction, CloseMissing, TimerFires, ActStep, ActExecuted, Failure,
    PollFails, CardFails, ActFails, User, Mount, ClickRefreshPolls, Open, Close, SendAct, Unmount, HostMoves, vars

LEMMA ViewInvStarts == Init => ViewInv
<1> SUFFICES ASSUME Init PROVE ViewInv
  OBVIOUS
<1>1. PollInv
  BY PollInvStarts
<1>2. FloorIsPast
  BY DEF Init, FloorIsPast, NoRows
<1>3. \A s \in Slots : FreshPoll(polls[s], floor, host)
  BY NoPollIsAPoll DEF Init, FreshPoll
<1> QED
  BY <1>1, <1>2, <1>3 DEF ViewInv

LEMMA ViewStepKeeps == ViewInv /\ [Next]_vars => ViewInv'
  BY PollStepKeeps, PollsStayFresh, FloorStaysPast DEF ViewInv

(* The step that the property is about: the poll that ends is the one whose *)
(* answer is shown.                                                         *)
LEMMA ShownIsNew ==
  ASSUME ViewInv, [Next]_vars, NEW s \in Slots, InFlight(s), polls'[s] = NoPoll, runs' # runs,
         NEW r \in Runs
  PROVE  AsNewAs(runs'[r], floor[r], host[r])
<1>1. FreshPoll(polls[s], floor, host) /\ polls[s] \in PollRecords
  BY DEF ViewInv, PollInv, TypeOK, PollRecords
<1>2. PICK o \in Slots : ListDelivered(o) \/ GetDelivered(o)
  <2>1. ASSUME NEW q \in Runs, CardDelivered(q) PROVE FALSE
    <3>1. polls' = polls /\ NoPoll.stage = "idle"
      BY <2>1, NoPollIsAPoll DEF CardDelivered
    <3> QED
      BY <3>1 DEF InFlight
  <2> QED
    BY <2>1 DEF Next, Poll, PollAnswered, CardStep, CardAnswered,
      CardMissing, Reaction, CloseMissing, TimerFires, ActStep, ActExecuted, ActAcknowledged, Failure,
      PollFails, CardFails, ActFails, User, Mount, ClickRefreshPolls, Open, Close, SendAct, Unmount, HostMoves,
      vars, storeVars
<1>3. o = s
  <2>1. \A q \in Slots : q # o => polls'[q] = polls[q]
    BY <1>2 DEF ListDelivered, GetDelivered, Publish, ViewInv, PollInv, TypeOK
  <2> QED
    BY <2>1, NoPollIsAPoll DEF InFlight
<1>4. CASE ListDelivered(s)
  <2>1. ~polls[s].stale /\ runs' = polls[s].list /\ polls[s].stage = "listed"
    BY <1>4 DEF ListDelivered, Publish, Heard
  <2> QED
    BY <1>1, <2>1 DEF FreshPoll
<1>5. CASE GetDelivered(s)
  <2>1. /\ ~polls[s].stale /\ polls[s].stage = "got"
        /\ runs' = [polls[s].list EXCEPT ![polls[s].want] = polls[s].detail]
    BY <1>5 DEF GetDelivered, Publish, Heard
  <2>2. runs'[r] = IF r = polls[s].want THEN polls[s].detail ELSE polls[s].list[r]
    BY <1>1, <2>1 DEF PollRecords
  <2> QED
    BY <1>1, <2>1, <2>2 DEF FreshPoll
<1> QED
  BY <1>2, <1>3, <1>4, <1>5

\* What a poll puts on the screen is as new as the rows were when the last action was
\* acknowledged: a run that was cleared does not come back, and one that a retry made is
\* not missing.
THEOREM PollsShowNothingUndone == Spec => PollsShowWhatWasDone
<1>1. ViewInv /\ [Next]_vars =>
        [\A s \in Slots : InFlight(s) /\ polls'[s] = NoPoll /\ runs' # runs =>
           \A r \in Runs : AsNewAs(runs'[r], floor[r], host[r])]_vars
  BY ShownIsNew
<1> QED
  BY <1>1, ViewInvStarts, ViewStepKeeps, PTL DEF Spec, PollsShowWhatWasDone

-----------------------------------------------------------------------------
(***************************************************************************)
(* SettingsPage: the invariant.                                            *)
(***************************************************************************)
\* A sequence of anything: the entries of the log and the calls carry payloads of
\* several kinds.
IsSeq(s) == s \in Seq({s[i] : i \in DOMAIN s})

IsCall(c) ==
  c = [kind |-> c.kind, what |-> c.what, of |-> c.of, rev |-> c.rev, late |-> c.late,
       at |-> c.at, stage |-> c.stage, live |-> c.live]

IsEditor(e) ==
  e = [draft |-> [team |-> e.draft.team, text |-> e.draft.text],
       base |-> [team |-> e.base.team, text |-> e.base.text], conflict |-> e.conflict]

DialogType ==
  [doc : Docs \union {NoDoc}, choice : Choices,
   preview : [doc : Docs \union {NoDoc}, choice : Choices, rev : Nat],
   ask : [stage : {"none", "asked", "answered"}, doc : Docs \union {NoDoc}, choice : Choices, rev : Nat],
   file : [doc : Docs \union {NoDoc}, choice : Choices], busy : BOOLEAN]

LoadType == [stage : {"idle", "asked", "answered"}, data : 0..Len(log), need : 0..Len(log)]
QueueType == [on : BOOLEAN, need : 0..Len(log)]

Shape ==
  /\ scope \in Scopes
  /\ IsSeq(log)
  /\ seen \in 0..Len(log) /\ load \in LoadType /\ queued \in QueueType
  /\ IsSeq(calls) /\ \A i \in DOMAIN calls : IsCall(calls[i])
  /\ dialogs \in [Dialogs -> DialogType]
  /\ IsEditor(ed)

\* A tab keeps something only while the catalog is ready, and then the editor holds a
\* team, whose draft is the record it started from or what the user typed.
TabInv ==
  /\ status = "ready" => ~Pending /\ ed.base.team \in Teams
  /\ status # "ready" => restored = Nowhere /\ dialogs = NoDialogs /\ \A i \in DOMAIN calls : ~calls[i].live

EditorInv ==
  /\ ed.base.team \in Teams \/ ed = NoEditor
  /\ ed.draft.team = ed.base.team
  /\ ed.draft.text \in {ed.base.text, Mine}

\* What the user typed is in the draft or in the log, a save carries it, and once it was
\* executed it is in the log; who asks for a restore has given up the text.
Held == {"executed", "pending", "queued"}
MineWritten == \E i \in DOMAIN log : log[i].text = Mine
MineDrafted == ed.draft.text = Mine /\ Dirty(ed)
SavesHold(c) ==
  \A i \in DOMAIN c : c[i].kind = "save" => c[i].what.text = Mine /\ (c[i].stage \in Held => MineWritten)
RestoresGiveUp(c) == \A i \in DOMAIN c : c[i].kind = "restore" /\ c[i].stage # "done" => typed = NoTeam
TypedInv ==
  /\ typed = NoTeam \/ (typed = Mine /\ (MineWritten \/ MineDrafted))
  /\ SavesHold(calls) /\ RestoresGiveUp(calls)

\* The draft that is not marked started from what the catalog shows.
BaseInv ==
  ed.base.team \in Teams /\ ~strayed /\ ~ed.conflict => ed.base = Record(log, seen, ed.base.team)

\* A backup dialog previews, and asks for, the document it holds.
Agrees(d) ==
  d.doc # NoDoc => /\ d.ask.stage # "none" => d.ask.doc = d.doc
                   /\ d.preview # NoPreview => d.preview.doc = d.doc
ShownInv ==
  /\ restored # Nowhere => restored.late \/ restored.team = ed.draft.team
  /\ Agrees(dialogs["backup"])
  /\ AppliedAsShown

PageInv == Shape /\ TabInv /\ EditorInv /\ TypedInv /\ BaseInv /\ ShownInv

-----------------------------------------------------------------------------
(***************************************************************************)
(* SettingsPage: sequences of anything, and the calls at a later stage.    *)
(***************************************************************************)
LEMMA IsSeqIs ==
  ASSUME NEW s, IsSeq(s)
  PROVE  Len(s) \in Nat /\ DOMAIN s = 1..Len(s)
BY DEF IsSeq

LEMMA SeqIsSeq ==
  ASSUME NEW S, NEW s \in Seq(S)
  PROVE  IsSeq(s)
<1>1. Len(s) \in Nat /\ s \in [1..Len(s) -> {s[i] : i \in 1..Len(s)}] /\ DOMAIN s = 1..Len(s)
  OBVIOUS
<1> QED
  BY <1>1 DEF IsSeq

LEMMA IsSeqAppend ==
  ASSUME NEW s, IsSeq(s), NEW x
  PROVE  /\ IsSeq(Append(s, x)) /\ Len(Append(s, x)) = Len(s) + 1
         /\ DOMAIN Append(s, x) = 1..(Len(s) + 1)
         /\ Append(s, x)[Len(s) + 1] = x /\ \A i \in DOMAIN s : Append(s, x)[i] = s[i]
<1> DEFINE T == {s[i] : i \in DOMAIN s} \union {x}
<1>1. s \in Seq({s[i] : i \in DOMAIN s})
  BY DEF IsSeq
<1>2. s \in Seq(T) /\ x \in T
  BY <1>1
<1> HIDE DEF T
<1>3. Append(s, x) \in Seq(T)
  BY <1>2
<1>4. IsSeq(Append(s, x))
  BY <1>3, SeqIsSeq
<1> QED
  BY <1>2, <1>4

LEMMA SameDomain ==
  ASSUME NEW s, IsSeq(s), NEW f, DOMAIN f = DOMAIN s, f = [i \in DOMAIN s |-> f[i]]
  PROVE  IsSeq(f) /\ Len(f) = Len(s)
<1>1. Len(s) \in Nat /\ DOMAIN s = 1..Len(s)
  BY IsSeqIs
<1> DEFINE T == {f[i] : i \in 1..Len(s)}
<1>2. f \in [1..Len(s) -> T]
  BY <1>1
<1> HIDE DEF T
<1>3. f \in Seq(T)
  BY <1>1, <1>2
<1>4. IsSeq(f) /\ Len(f) \in Nat /\ 1..Len(f) = 1..Len(s)
  BY <1>1, <1>3, SeqIsSeq, IsSeqIs
<1> QED
  BY <1>1, <1>4

\* d is the call c at a stage that it reaches without an execution.
Onward(c, d) ==
  /\ IsCall(d)
  /\ d.kind = c.kind /\ d.what = c.what /\ d.of = c.of /\ d.rev = c.rev /\ d.late = c.late /\ d.at = c.at
  /\ d.live => c.live
  /\ d.stage # "done" => c.stage # "done"
  /\ d.stage \in Held => c.stage \in Held

AreCalls(c) == IsSeq(c) /\ \A i \in DOMAIN c : IsCall(c[i])
AllOnward(b, c) == AreCalls(c) /\ DOMAIN c = DOMAIN b /\ \A i \in DOMAIN b : Onward(b[i], c[i])
NoneLive(c) == \A i \in DOMAIN c : ~c[i].live

\* d is the call c at the stage s.
AtStage(c, d, s) ==
  /\ IsCall(d) /\ d.stage = s
  /\ d.kind = c.kind /\ d.what = c.what /\ d.of = c.of /\ d.rev = c.rev /\ d.late = c.late /\ d.at = c.at

LEMMA CallAtStage ==
  ASSUME NEW c, IsCall(c), NEW s
  PROVE  AtStage(c, [c EXCEPT !.stage = s], s) /\ [c EXCEPT !.stage = s].live = c.live
BY DEF IsCall, AtStage

LEMMA CallWithLive ==
  ASSUME NEW c, IsCall(c), NEW x
  PROVE  AtStage(c, [c EXCEPT !.live = x], c.stage) /\ [c EXCEPT !.live = x].live = x
BY DEF IsCall, AtStage

LEMMA CallOrphaned ==
  ASSUME NEW c, IsCall(c)
  PROVE  AtStage(c, [c EXCEPT !.live = FALSE], c.stage) /\ ~[c EXCEPT !.live = FALSE].live
BY CallWithLive

LEMMA CallOver ==
  ASSUME NEW c, IsCall(c), NEW s
  PROVE  AtStage(c, Over(c, s), s) /\ ~Over(c, s).live
<1> DEFINE b == [c EXCEPT !.stage = s]
<1>1. AtStage(c, b, s)
  BY CallAtStage
<1>2. AtStage(b, [b EXCEPT !.live = FALSE], b.stage) /\ ~[b EXCEPT !.live = FALSE].live
  BY <1>1, CallOrphaned DEF AtStage
<1>3. Over(c, s) = [b EXCEPT !.live = FALSE]
  BY DEF Over, IsCall
<1> HIDE DEF b
<1> QED
  BY <1>1, <1>2, <1>3 DEF AtStage

LEMMA OrphansAre ==
  ASSUME NEW c, AreCalls(c)
  PROVE  AllOnward(c, Orphans(c)) /\ NoneLive(Orphans(c))
<1>1. DOMAIN Orphans(c) = DOMAIN c /\ Orphans(c) = [i \in DOMAIN c |-> Orphans(c)[i]]
  BY DEF Orphans
<1>2. ASSUME NEW i \in DOMAIN c PROVE Onward(c[i], Orphans(c)[i]) /\ ~Orphans(c)[i].live
  <2>1. Orphans(c)[i] = [c[i] EXCEPT !.live = FALSE] /\ IsCall(c[i])
    BY DEF Orphans, AreCalls
  <2> QED
    BY <2>1, CallOrphaned DEF Onward, AtStage
<1>3. IsSeq(Orphans(c))
  BY <1>1, SameDomain DEF AreCalls
<1> QED
  BY <1>1, <1>2, <1>3 DEF AllOnward, AreCalls, NoneLive, Onward

LEMMA MovedAre ==
  ASSUME NEW c, AreCalls(c)
  PROVE  AllOnward(c, Moved(c))
<1>1. DOMAIN Moved(c) = DOMAIN c /\ Moved(c) = [i \in DOMAIN c |-> Moved(c)[i]]
  BY DEF Moved
<1>2. ASSUME NEW i \in DOMAIN c PROVE Onward(c[i], Moved(c)[i])
  <2>1. IsCall(c[i])
    BY DEF AreCalls
  <2>2. CASE c[i].stage = "pending"
    <3>1. Moved(c)[i] = Over(c[i], "done")
      BY <2>2 DEF Moved
    <3> QED
      BY <2>1, <3>1, CallOver DEF Onward, Held, AtStage
  <2>3. CASE c[i].stage = "queued"
    <3>1. Moved(c)[i] = Over(c[i], "pending")
      BY <2>3 DEF Moved
    <3> QED
      BY <2>1, <2>3, <3>1, CallOver DEF Onward, Held, AtStage
  <2>4. CASE c[i].stage # "pending" /\ c[i].stage # "queued"
    <3>1. Moved(c)[i] = c[i]
      BY <2>4 DEF Moved
    <3> QED
      BY <2>1, <3>1 DEF Onward
  <2> QED
    BY <2>2, <2>3, <2>4
<1>3. IsSeq(Moved(c))
  BY <1>1, SameDomain DEF AreCalls
<1> QED
  BY <1>1, <1>2, <1>3 DEF AllOnward, AreCalls, Onward

LEMMA StageMoves ==
  ASSUME NEW c, AreCalls(c), NEW i \in DOMAIN c, NEW s,
         s # "done" => c[i].stage # "done", s \in Held => c[i].stage \in Held
  PROVE  AllOnward(c, [c EXCEPT ![i].stage = s])
<1> DEFINE d == [c EXCEPT ![i].stage = s]
<1>1. DOMAIN d = DOMAIN c /\ d = [j \in DOMAIN c |-> d[j]]
  OBVIOUS
<1>2. d[i] = [c[i] EXCEPT !.stage = s] /\ \A j \in DOMAIN c : j # i => d[j] = c[j]
  OBVIOUS
<1> HIDE DEF d
<1>3. ASSUME NEW j \in DOMAIN c PROVE Onward(c[j], d[j])
  <2>1. IsCall(c[j])
    BY DEF AreCalls
  <2>2. CASE j = i
    <3>1. AtStage(c[i], d[i], s) /\ d[i].live = c[i].live
      BY <1>2, <2>1, <2>2, CallAtStage
    <3> QED
      BY <2>2, <3>1 DEF Onward, AtStage
  <2>3. CASE j # i
    BY <1>2, <2>1, <2>3 DEF Onward
  <2> QED
    BY <2>2, <2>3
<1>4. IsSeq(d)
  BY <1>1, SameDomain DEF AreCalls
<1>5. AllOnward(c, d)
  BY <1>1, <1>3, <1>4 DEF AllOnward, AreCalls, Onward
<1> QED
  BY <1>5 DEF d

LEMMA OnwardTwice ==
  ASSUME NEW a, NEW b, NEW c, AllOnward(a, b), AllOnward(b, c)
  PROVE  AllOnward(a, c)
BY DEF AllOnward, Onward

LEMMA OnwardNot ==
  ASSUME NEW c, AreCalls(c)
  PROVE  AllOnward(c, c)
BY DEF AllOnward, AreCalls, Onward

-----------------------------------------------------------------------------
(***************************************************************************)
(* SettingsPage: a backup dialog shows what it holds.                      *)
(***************************************************************************)
\* The document of a dialog.
DocOrNone == Docs \union {NoDoc}

LEMMA BlankIs == NoDialogs \in [Dialogs -> DialogType] /\ Agrees(NoDialogs["backup"])
<1>1. "gentle" \in Choices /\ NoDoc \in Docs \union {NoDoc} /\ 0 \in Nat /\ FALSE \in BOOLEAN
  BY DEF Choices
<1>2. NoPreview \in [doc : Docs \union {NoDoc}, choice : Choices, rev : Nat]
  BY <1>1 DEF NoPreview
<1>3. NoAsk \in [stage : {"none", "asked", "answered"}, doc : Docs \union {NoDoc}, choice : Choices, rev : Nat]
  BY <1>1 DEF NoAsk
<1>4. NoFile \in [doc : Docs \union {NoDoc}, choice : Choices]
  BY <1>1 DEF NoFile
<1>5. Blank \in DialogType /\ Blank.doc = NoDoc
  BY <1>1, <1>2, <1>3, <1>4 DEF Blank, DialogType
<1>6. "backup" \in Dialogs /\ NoDialogs["backup"] = Blank
  BY DEF NoDialogs, Dialogs
<1> QED
  BY <1>5, <1>6 DEF NoDialogs, Agrees

LEMMA AskedIs ==
  ASSUME NEW k, NEW d \in DialogType, NEW doc \in DocOrNone, NEW choice \in Choices
  PROVE  PreviewAsked(k, d, doc, choice) \in DialogType /\ (k = "backup" => Agrees(PreviewAsked(k, d, doc, choice)))
<1> DEFINE ask == [stage |-> "asked", doc |-> doc, choice |-> choice, rev |-> 0]
           waits == k = "recipe"
           shown == IF k = "backup" THEN NoPreview ELSE d.preview
           e == [d EXCEPT !.doc = doc, !.ask = ask, !.busy = waits, !.preview = shown]
<1>1. ask \in [stage : {"none", "asked", "answered"}, doc : DocOrNone, choice : Choices, rev : Nat] /\ ask.doc = doc
  OBVIOUS
<1>2. NoPreview \in [doc : DocOrNone, choice : Choices, rev : Nat]
  BY DEF NoPreview, Choices, DocOrNone
<1>3. shown \in [doc : DocOrNone, choice : Choices, rev : Nat] /\ (k = "backup" => shown = NoPreview)
  BY <1>2 DEF DialogType, DocOrNone
<1>4. waits \in BOOLEAN
  OBVIOUS
<1> HIDE DEF ask, waits, shown
<1>5. e \in DialogType /\ e.doc = doc /\ e.ask = ask /\ e.preview = shown
  BY <1>1, <1>3, <1>4 DEF DialogType, DocOrNone
<1>6. PreviewAsked(k, d, doc, choice) = e
  BY DEF PreviewAsked, ask, waits, shown, DialogType
<1> HIDE DEF e
<1> QED
  BY <1>1, <1>3, <1>5, <1>6 DEF Agrees

LEMMA AnsweredIs ==
  ASSUME NEW d \in DialogType, NEW rev \in Nat, d.ask.stage = "asked"
  PROVE  PreviewAnswered(d, rev) \in DialogType /\ (Agrees(d) => Agrees(PreviewAnswered(d, rev)))
<1> DEFINE e == PreviewAnswered(d, rev)
<1>1. d.ask \in [stage : {"none", "asked", "answered"}, doc : Docs \union {NoDoc}, choice : Choices, rev : Nat]
  BY DEF DialogType
<1> DEFINE ask == [d.ask EXCEPT !.stage = "answered", !.rev = rev]
<1>2. ask \in [stage : {"none", "asked", "answered"}, doc : Docs \union {NoDoc}, choice : Choices, rev : Nat] /\ ask.doc = d.ask.doc
  BY <1>1
<1>3. e = [d EXCEPT !.ask = ask]
  BY <1>1 DEF PreviewAnswered, DialogType
<1> HIDE DEF ask
<1>4. e \in DialogType /\ e.doc = d.doc /\ e.ask.doc = d.ask.doc /\ e.preview = d.preview
  BY <1>2, <1>3 DEF DialogType
<1> QED
  BY <1>4 DEF Agrees

LEMMA ShownIs ==
  ASSUME NEW d \in DialogType, d.ask.stage = "answered"
  PROVE  PreviewShown(d) \in DialogType /\ (Agrees(d) => Agrees(PreviewShown(d)))
<1> DEFINE e == PreviewShown(d)
           p == [doc |-> d.ask.doc, choice |-> d.ask.choice, rev |-> d.ask.rev]
<1>1. p \in [doc : Docs \union {NoDoc}, choice : Choices, rev : Nat] /\ p.doc = d.ask.doc
  BY DEF DialogType
<1>2. NoAsk \in [stage : {"none", "asked", "answered"}, doc : Docs \union {NoDoc}, choice : Choices, rev : Nat] /\ NoAsk.stage = "none"
  BY DEF NoAsk, Choices
<1>3. e = [d EXCEPT !.preview = p, !.ask = NoAsk, !.busy = FALSE]
  BY DEF PreviewShown
<1> HIDE DEF p
<1>4. e \in DialogType /\ e.doc = d.doc /\ e.ask = NoAsk /\ e.preview = p
  BY <1>1, <1>2, <1>3 DEF DialogType
<1> QED
  BY <1>1, <1>2, <1>4 DEF Agrees

LEMMA FailedIs ==
  ASSUME NEW d \in DialogType
  PROVE  /\ PreviewFailed(d) \in DialogType /\ Agrees(PreviewFailed(d))
         /\ PreviewStale(d) \in DialogType /\ Agrees(PreviewStale(d))
<1>1. NoAsk \in [stage : {"none", "asked", "answered"}, doc : Docs \union {NoDoc}, choice : Choices, rev : Nat] /\ NoAsk.stage = "none"
  BY DEF NoAsk, Choices
<1>2. NoPreview \in [doc : Docs \union {NoDoc}, choice : Choices, rev : Nat]
  BY DEF NoPreview, Choices
<1>3. PreviewFailed(d) \in DialogType /\ PreviewFailed(d).ask = NoAsk /\ PreviewFailed(d).preview = NoPreview
  BY <1>1, <1>2 DEF DialogType, PreviewFailed
<1>4. PreviewStale(d) \in DialogType /\ PreviewStale(d).ask = NoAsk /\ PreviewStale(d).preview = NoPreview
  BY <1>1, <1>2 DEF DialogType, PreviewStale
<1> QED
  BY <1>1, <1>3, <1>4 DEF Agrees

LEMMA PickedIs ==
  ASSUME NEW d \in DialogType, NEW doc \in Docs
  PROVE  FilePicked(d, doc) \in DialogType /\ (Agrees(d) => Agrees(FilePicked(d, doc)))
<1> DEFINE f == [doc |-> doc, choice |-> d.choice]
           e == FilePicked(d, doc)
<1>1. f \in [doc : Docs \union {NoDoc}, choice : Choices]
  BY DEF DialogType
<1>2. e = [d EXCEPT !.file = f]
  BY DEF FilePicked
<1> HIDE DEF f
<1>3. e \in DialogType /\ e.doc = d.doc /\ e.ask = d.ask /\ e.preview = d.preview
  BY <1>1, <1>2 DEF DialogType
<1> QED
  BY <1>3 DEF Agrees

LEMMA ReadIs ==
  ASSUME NEW k, NEW d \in DialogType
  PROVE  FileRead(k, d) \in DialogType /\ (k = "backup" => Agrees(FileRead(k, d)))
<1>1. NoFile \in [doc : Docs \union {NoDoc}, choice : Choices]
  BY DEF NoFile, Choices
<1>2. [d EXCEPT !.file = NoFile] \in DialogType /\ d.file.doc \in DocOrNone /\ d.file.choice \in Choices
  BY <1>1 DEF DialogType, DocOrNone
<1> QED
  BY <1>2, AskedIs DEF FileRead

LEMMA RefusedIs ==
  ASSUME NEW k, NEW d \in DialogType, NEW large
  PROVE  FileRefused(k, d, large) \in DialogType /\ Agrees(FileRefused(k, d, large))
<1> DEFINE ask == IF k = "recipe" \/ large THEN NoAsk ELSE d.ask
           e == FileRefused(k, d, large)
<1>1. NoFile \in [doc : Docs \union {NoDoc}, choice : Choices] /\ NoPreview \in [doc : Docs \union {NoDoc}, choice : Choices, rev : Nat]
  BY DEF NoFile, NoPreview, Choices
<1>2. NoAsk \in [stage : {"none", "asked", "answered"}, doc : Docs \union {NoDoc}, choice : Choices, rev : Nat]
  BY DEF NoAsk, Choices
<1>3. ask \in [stage : {"none", "asked", "answered"}, doc : Docs \union {NoDoc}, choice : Choices, rev : Nat]
  BY <1>2 DEF DialogType
<1>4. e = [d EXCEPT !.file = NoFile, !.doc = NoDoc, !.preview = NoPreview, !.busy = FALSE, !.ask = ask]
  BY DEF FileRefused, DialogType
<1> DEFINE b == [d EXCEPT !.file = NoFile, !.doc = NoDoc, !.preview = NoPreview]
<1> HIDE DEF ask
<1>5. b \in DialogType /\ b.doc = NoDoc
  BY <1>1 DEF DialogType
<1>6. e = [b EXCEPT !.busy = FALSE, !.ask = ask]
  BY <1>4
<1> HIDE DEF b, e
<1>7. e \in DialogType /\ e.doc = NoDoc
  BY <1>3, <1>5, <1>6 DEF DialogType
<1>8. Agrees(e)
  BY <1>7 DEF Agrees
<1> QED
  BY <1>7, <1>8 DEF e

LEMMA ChosenIs ==
  ASSUME NEW k, NEW d \in DialogType, NEW choice \in Choices
  PROVE  Chosen(k, d, choice) \in DialogType /\ (k = "backup" => Agrees(Chosen(k, d, choice)))
<1> DEFINE e == [d EXCEPT !.choice = choice]
<1>1. e \in DialogType /\ d.doc \in DocOrNone /\ e.doc = d.doc
  BY DEF DialogType, DocOrNone
<1> HIDE DEF e
<1>2. CASE d.doc = NoDoc
  <2>1. Chosen(k, d, choice) = e
    BY <1>2 DEF Chosen, e
  <2> QED
    BY <1>1, <1>2, <2>1 DEF Agrees
<1>3. CASE d.doc # NoDoc
  <2>1. Chosen(k, d, choice) = PreviewAsked(k, e, d.doc, choice)
    BY <1>3 DEF Chosen, e
  <2> QED
    BY <1>1, <2>1, AskedIs
<1> QED
  BY <1>2, <1>3

LEMMA CancelledIs ==
  ASSUME NEW d \in DialogType
  PROVE  LET e == [d EXCEPT !.doc = NoDoc, !.preview = NoPreview, !.ask = NoAsk]
         IN e \in DialogType /\ Agrees(e)
<1> DEFINE e == [d EXCEPT !.doc = NoDoc, !.preview = NoPreview, !.ask = NoAsk]
<1>1. NoAsk \in [stage : {"none", "asked", "answered"}, doc : Docs \union {NoDoc}, choice : Choices, rev : Nat] /\ NoDoc \in Docs \union {NoDoc}
  BY DEF NoAsk, Choices
<1>2. NoPreview \in [doc : Docs \union {NoDoc}, choice : Choices, rev : Nat]
  BY DEF NoPreview, Choices
<1>3. e \in DialogType /\ e.doc = NoDoc
  BY <1>1, <1>2 DEF DialogType
<1> HIDE DEF e
<1>4. Agrees(e)
  BY <1>3 DEF Agrees
<1> QED
  BY <1>3, <1>4 DEF e

-----------------------------------------------------------------------------
(***************************************************************************)
(* SettingsPage: what a step changes.                                      *)
(***************************************************************************)
CatalogRests == UNCHANGED <<log, status, seen, load, queued>>
EditorRests == UNCHANGED <<scope, ed, typed, strayed>>
TabRests == UNCHANGED <<restored, dialogs>>

\* What a dialog, a preview or the end of a call that writes nothing changes.
TabMoves ==
  /\ CatalogRests /\ EditorRests
  /\ status # "ready" => TabRests
  /\ AllOnward(calls, calls')
  /\ restored' # Nowhere => restored'.late \/ restored'.team = ed.draft.team
  /\ dialogs' \in [Dialogs -> DialogType] /\ Agrees(dialogs'["backup"])

\* The catalog is loaded again, for the page or for a call that wrote.
Reloads == /\ ForcedLoad /\ EditorRests /\ log' = log
           /\ \E c : AllOnward(calls, c) /\ PageLoads(c)

\* A call is made.
New(c) ==
  /\ IsCall(c) /\ c.stage = "sent" /\ c.at = 0
  /\ c.kind = "save" => c.what.text = Mine
  /\ c.kind = "restore" => typed' = NoTeam
  /\ c.kind \in {"restore", "import"} => c.what = c.of \/ c.late
Sends ==
  /\ CatalogRests /\ TabRests /\ UNCHANGED <<scope, ed, strayed>>
  /\ status = "ready" /\ typed' \in {typed, NoTeam}
  /\ \E c : New(c) /\ calls' = Append(calls, c)

LEMMA CallIs ==
  ASSUME NEW kind, NEW what, NEW of, NEW rev
  PROVE  LET c == Call(kind, what, of, rev)
         IN IsCall(c) /\ c.kind = kind /\ c.what = what /\ c.of = of /\ c.stage = "sent" /\ c.at = 0
BY DEF Call, IsCall

\* The draft of the teams' editor is dirty in its text only, and that is the user's.
LEMMA DirtyIsMine ==
  ASSUME Shape, EditorInv, Dirty(ed)
  PROVE  ed.draft.text = Mine
BY DEF Shape, EditorInv, Dirty, IsEditor

LEMMA SaveSends ==
  ASSUME PageInv, Save, CatalogRests
  PROVE  Sends
<1> DEFINE c == Call("save", ed.draft, ed.draft, 0)
<1>1. IsCall(c) /\ c.kind = "save" /\ c.what = ed.draft /\ c.stage = "sent" /\ c.at = 0
  BY CallIs
<1>2. calls' = Append(calls, c) /\ status = "ready" /\ Dirty(ed) /\ UNCHANGED <<scope, ed, restored, dialogs, typed, strayed>>
  BY DEF Save, CanSave, Shown, Begin
<1>3. ed.draft.text = Mine
  BY <1>2, DirtyIsMine DEF PageInv
<1> HIDE DEF c
<1>4. New(c)
  BY <1>1, <1>3 DEF New
<1> QED
  BY <1>2, <1>4 DEF Sends, TabRests

LEMMA LookAtSends ==
  ASSUME PageInv, NEW version, LookAt(version), CatalogRests
  PROVE  Sends
<1> DEFINE what == [team |-> ed.draft.team, version |-> version]
           c == Call("look", what, what, 0)
<1>1. IsCall(c) /\ c.kind = "look" /\ c.stage = "sent" /\ c.at = 0
  BY CallIs
<1>2. calls' = Append(calls, c) /\ status = "ready" /\ UNCHANGED <<scope, ed, restored, dialogs, typed, strayed>>
  BY DEF LookAt, Shown, Begin
<1> HIDE DEF c
<1>3. New(c)
  BY <1>1 DEF New
<1> QED
  BY <1>2, <1>3 DEF Sends, TabRests

LEMMA RestoreSends ==
  ASSUME PageInv, Restore, CatalogRests
  PROVE  Sends
<1> DEFINE what == [team |-> ed.draft.team, version |-> restored.version]
           of == [team |-> restored.team, version |-> restored.version]
           b == Call("restore", what, of, restored.rev)
           late == restored.late
           c == [b EXCEPT !.late = late]
<1>1. calls' = Append(calls, c) /\ status = "ready" /\ typed' = NoTeam /\ UNCHANGED <<scope, ed, restored, dialogs, strayed>>
  BY DEF Restore, Shown, Begin
<1>2. late \/ what = of
  BY DEF Restore, PageInv, ShownInv
<1>3. IsCall(b) /\ b.kind = "restore" /\ b.what = what /\ b.of = of /\ b.stage = "sent" /\ b.at = 0
  BY CallIs
<1> HIDE DEF b, late, what, of
<1>4. IsCall(c) /\ c.kind = "restore" /\ c.what = what /\ c.of = of /\ c.stage = "sent" /\ c.at = 0 /\ c.late = late
  BY <1>3 DEF IsCall
<1>5. c.late \/ c.what = c.of
  BY <1>2, <1>4
<1> HIDE DEF c
<1>6. New(c)
  BY <1>1, <1>4, <1>5 DEF New
<1> QED
  BY <1>1, <1>6 DEF Sends, TabRests

LEMMA ImportSends ==
  ASSUME PageInv, NEW k \in Dialogs, Import(k), CatalogRests
  PROVE  Sends
<1> DEFINE d == dialogs[k]
           what == [dialog |-> k, doc |-> d.doc, choice |-> d.choice]
           of == [dialog |-> k, doc |-> d.preview.doc, choice |-> d.preview.choice]
           c == Call("import", what, of, d.preview.rev)
<1>1. /\ calls' = Append(calls, c) /\ status = "ready" /\ CanApply(k, d)
      /\ UNCHANGED <<scope, ed, restored, dialogs, typed, strayed>>
  BY DEF Import, Shown, Begin, Still
<1>2. d.preview.choice = d.choice /\ d.preview.doc = d.doc
  BY <1>1 DEF CanApply, PageInv, ShownInv, Agrees, Dialogs
<1>3. what = of
  BY <1>2
<1>4. IsCall(c) /\ c.kind = "import" /\ c.what = what /\ c.of = of /\ c.stage = "sent" /\ c.at = 0
  BY CallIs
<1> HIDE DEF c, what, of
<1>5. New(c)
  BY <1>3, <1>4 DEF New
<1> QED
  BY <1>1, <1>5 DEF Sends, TabRests

LEMMA DialogTurns ==
  ASSUME PageInv, NEW k \in Dialogs, NEW d \in DialogType, k = "backup" => Agrees(d),
         Turn(k, d), Still, calls' = calls, CatalogRests, status = "ready"
  PROVE  TabMoves
<1>1. AllOnward(calls, calls')
  BY OnwardNot DEF PageInv, Shape, AreCalls
<1>2. dialogs \in [Dialogs -> DialogType] /\ dialogs' = [dialogs EXCEPT ![k] = d] /\ Agrees(dialogs["backup"])
  BY DEF PageInv, Shape, ShownInv, Turn
<1>3. dialogs' \in [Dialogs -> DialogType]
  BY <1>2
<1>4. "backup" \in Dialogs
  BY DEF Dialogs
<1>5. Agrees(dialogs'["backup"])
  <2>1. CASE k = "backup"
    <3>1. dialogs'["backup"] = d
      BY <1>2, <1>4, <2>1
    <3> QED
      BY <2>1, <3>1
  <2>2. CASE k # "backup"
    <3>1. dialogs'["backup"] = dialogs["backup"]
      BY <1>2, <1>4, <2>2
    <3> QED
      BY <1>2, <3>1
  <2> QED
    BY <2>1, <2>2
<1>6. EditorRests /\ restored' = restored /\ (restored # Nowhere => restored.late \/ restored.team = ed.draft.team)
  BY DEF Still, EditorRests, PageInv, ShownInv
<1> QED
  BY <1>1, <1>3, <1>5, <1>6 DEF TabMoves

\* A dialog that is not blank is on screen.
LEMMA DialogIsShown ==
  ASSUME PageInv, NEW k \in Dialogs,
         dialogs[k].file # NoFile \/ dialogs[k].ask.stage # "none"
  PROVE  status = "ready"
<1>1. ASSUME status # "ready" PROVE dialogs[k] = Blank
  BY <1>1 DEF PageInv, TabInv, NoDialogs
<1>2. Blank.file = NoFile /\ Blank.ask.stage = "none"
  BY DEF Blank, NoAsk
<1> QED
  BY <1>1, <1>2

LEMMA DialogsAre ==
  ASSUME PageInv, NEW k \in Dialogs
  PROVE  dialogs[k] \in DialogType /\ (k = "backup" => Agrees(dialogs[k])) /\ Len(log) \in Nat
BY IsSeqIs DEF PageInv, Shape, ShownInv

LEMMA DialogMoves ==
  ASSUME PageInv, NEW k \in Dialogs, CatalogRests,
         \/ \E doc \in Docs : PickFile(k, doc)
         \/ \E choice \in Choices : Choose(k, choice)
         \/ FileArrives(k) \/ HostPreviews(k) \/ PreviewArrives(k) \/ PreviewLost(k) \/ CancelBackup
  PROVE  TabMoves
<1>0. dialogs[k] \in DialogType /\ (k = "backup" => Agrees(dialogs[k])) /\ Len(log) \in Nat
  BY DialogsAre
<1>1. ASSUME NEW doc \in Docs, PickFile(k, doc) PROVE TabMoves
  <2>1. Turn(k, FilePicked(dialogs[k], doc)) /\ status = "ready" /\ Still /\ calls' = calls
    BY <1>1 DEF PickFile, Shown
  <2> QED
    BY <1>0, <2>1, PickedIs, DialogTurns
<1>2. ASSUME NEW choice \in Choices, Choose(k, choice) PROVE TabMoves
  <2>1. Turn(k, Chosen(k, dialogs[k], choice)) /\ status = "ready" /\ Still /\ calls' = calls
    BY <1>2 DEF Choose, Shown
  <2> QED
    BY <1>0, <2>1, ChosenIs, DialogTurns
<1>3. CASE FileArrives(k)
  <2>1. /\ dialogs[k].file # NoFile /\ Still /\ calls' = calls
        /\ Turn(k, FileRead(k, dialogs[k])) \/ \E large \in BOOLEAN : Turn(k, FileRefused(k, dialogs[k], large))
    BY <1>3 DEF FileArrives
  <2>2. status = "ready"
    BY <2>1, DialogIsShown
  <2>3. CASE Turn(k, FileRead(k, dialogs[k]))
    BY <1>0, <2>1, <2>2, <2>3, ReadIs, DialogTurns
  <2>4. ASSUME NEW large \in BOOLEAN, Turn(k, FileRefused(k, dialogs[k], large)) PROVE TabMoves
    BY <1>0, <2>1, <2>2, <2>4, RefusedIs, DialogTurns
  <2> QED
    BY <2>1, <2>3, <2>4
<1>4. CASE HostPreviews(k)
  <2>1. Turn(k, PreviewAnswered(dialogs[k], Len(log))) /\ dialogs[k].ask.stage = "asked" /\ Still /\ calls' = calls
    BY <1>4 DEF HostPreviews
  <2>2. status = "ready"
    BY <2>1, DialogIsShown
  <2> QED
    BY <1>0, <2>1, <2>2, AnsweredIs, DialogTurns
<1>5. CASE PreviewArrives(k)
  <2>1. Turn(k, PreviewShown(dialogs[k])) /\ dialogs[k].ask.stage = "answered" /\ Still /\ calls' = calls
    BY <1>5 DEF PreviewArrives
  <2>2. status = "ready"
    BY <2>1, DialogIsShown
  <2> QED
    BY <1>0, <2>1, <2>2, ShownIs, DialogTurns
<1>6. CASE PreviewLost(k)
  <2>1. Turn(k, PreviewFailed(dialogs[k])) /\ dialogs[k].ask.stage # "none" /\ Still /\ calls' = calls
    BY <1>6 DEF PreviewLost
  <2>2. status = "ready"
    BY <2>1, DialogIsShown
  <2> QED
    BY <1>0, <2>1, <2>2, FailedIs, DialogTurns
<1>7. CASE CancelBackup
  <2> DEFINE d == [dialogs["backup"] EXCEPT !.doc = NoDoc, !.preview = NoPreview, !.ask = NoAsk]
  <2>1. Turn("backup", d) /\ status = "ready" /\ Still /\ calls' = calls
    BY <1>7 DEF CancelBackup, Shown
  <2>2. "backup" \in Dialogs /\ dialogs["backup"] \in DialogType
    BY DialogsAre DEF Dialogs
  <2>3. d \in DialogType /\ Agrees(d)
    BY <2>2, CancelledIs
  <2> HIDE DEF d
  <2> QED
    BY <2>1, <2>2, <2>3, DialogTurns
<1> QED
  BY <1>1, <1>2, <1>3, <1>4, <1>5, <1>6, <1>7

LEMMA LookMoves ==
  ASSUME PageInv, NEW i \in DOMAIN calls, LookArrives(i)
  PROVE  TabMoves
<1>1. AllOnward(calls, calls')
  BY StageMoves DEF LookArrives, PageInv, Shape, AreCalls, Held
<1>2. /\ CatalogRests /\ EditorRests /\ dialogs' = dialogs
  BY DEF LookArrives, CatalogRests, EditorRests, catalogVars
<1>3. dialogs' \in [Dialogs -> DialogType] /\ Agrees(dialogs'["backup"])
  BY <1>2 DEF PageInv, Shape, ShownInv
<1>4. CASE calls[i].live
  <2> DEFINE late == calls[i].what.team # ed.draft.team
  <2>1. restored' = [team |-> calls[i].what.team, version |-> calls[i].what.version, rev |-> calls[i].rev, late |-> late]
    BY <1>4 DEF LookArrives
  <2>2. late \/ calls[i].what.team = ed.draft.team
    OBVIOUS
  <2> HIDE DEF late
  <2>3. restored'.late = late /\ restored'.team = calls[i].what.team
    BY <2>1
  <2>4. status = "ready"
    BY <1>4 DEF PageInv, TabInv
  <2> QED
    BY <1>1, <1>2, <1>3, <2>2, <2>3, <2>4 DEF TabMoves
<1>5. CASE ~calls[i].live
  <2>1. restored' = restored
    BY <1>5 DEF LookArrives
  <2> QED
    BY <1>1, <1>2, <1>3, <2>1 DEF TabMoves, TabRests, PageInv, ShownInv
<1> QED
  BY <1>4, <1>5

LEMMA RefusedMoves ==
  ASSUME PageInv, NEW i \in DOMAIN calls, Refused(i)
  PROVE  TabMoves
<1>1. AllOnward(calls, calls')
  BY StageMoves DEF Refused, PageInv, Shape, AreCalls, Held
<1>2. /\ CatalogRests /\ EditorRests
  BY DEF Refused, CatalogRests, EditorRests, catalogVars
<1>3. restored' \in {restored, Nowhere} /\ (~calls[i].live => restored' = restored /\ dialogs' = dialogs)
  BY DEF Refused
<1>4. status # "ready" => TabRests
  BY <1>3 DEF PageInv, TabInv, TabRests
<1>5. dialogs \in [Dialogs -> DialogType] /\ Agrees(dialogs["backup"]) /\ "backup" \in Dialogs
  BY DEF PageInv, Shape, ShownInv, Dialogs
<1>6. dialogs' \in [Dialogs -> DialogType] /\ Agrees(dialogs'["backup"])
  <2>1. CASE dialogs' = dialogs
    BY <1>5, <2>1
  <2>2. CASE dialogs' = [dialogs EXCEPT ![calls[i].what.dialog] = PreviewStale(@)]
    <3> DEFINE x == calls[i].what.dialog
    <3> HIDE DEF x
    <3>0. dialogs' = [k \in Dialogs |-> IF k = x THEN PreviewStale(dialogs[k]) ELSE dialogs[k]]
      BY <1>5, <2>2 DEF x
    <3>1. \A k \in Dialogs : dialogs'[k] \in {dialogs[k], PreviewStale(dialogs[k])}
      BY <3>0
    <3>2. \A k \in Dialogs : PreviewStale(dialogs[k]) \in DialogType /\ Agrees(PreviewStale(dialogs[k]))
      BY <1>5, FailedIs
    <3>3. DOMAIN dialogs' = Dialogs /\ dialogs' = [k \in Dialogs |-> dialogs'[k]]
      BY <3>0
    <3>4. \A k \in Dialogs : dialogs'[k] \in DialogType
      BY <1>5, <3>1, <3>2
    <3>5. dialogs'["backup"] = dialogs["backup"] \/ dialogs'["backup"] = PreviewStale(dialogs["backup"])
      BY <1>5, <3>1
    <3>6. Agrees(dialogs'["backup"])
      BY <1>5, <3>2, <3>5
    <3> QED
      BY <3>3, <3>4, <3>6
  <2> QED
    BY <2>1, <2>2 DEF Refused
<1>7. restored' # Nowhere => restored'.late \/ restored'.team = ed.draft.team
  BY <1>3 DEF PageInv, ShownInv
<1> QED
  BY <1>1, <1>2, <1>4, <1>6, <1>7 DEF TabMoves

LEMMA FailMoves ==
  ASSUME PageInv, NEW i \in DOMAIN calls, CallFails(i)
  PROVE  TabMoves
<1> DEFINE s == IF calls[i].stage = "sent" /\ calls[i].kind # "look" THEN "lost" ELSE "done"
<1>1. calls[i].stage \in {"sent", "executed", "refused"} /\ calls' = [calls EXCEPT ![i].stage = s]
  BY DEF CallFails, PageInv, Shape
<1>2. s # "done" => calls[i].stage # "done"
  BY <1>1
<1>3. s \notin Held
  BY DEF Held
<1> HIDE DEF s
<1>4. AllOnward(calls, calls')
  BY <1>1, <1>2, <1>3, StageMoves DEF PageInv, Shape, AreCalls
<1>5. /\ CatalogRests /\ EditorRests /\ TabRests
  BY DEF CallFails, CatalogRests, EditorRests, TabRests, catalogVars
<1> QED
  BY <1>4, <1>5 DEF TabMoves, TabRests, PageInv, Shape, ShownInv

LEMMA RestMoves ==
  ASSUME PageInv, CatalogRests, EditorRests, TabRests, calls' = calls
  PROVE  TabMoves
<1>1. AllOnward(calls, calls')
  BY OnwardNot DEF PageInv, Shape, AreCalls
<1> QED
  BY <1>1 DEF TabMoves, TabRests, PageInv, Shape, ShownInv

LEMMA AcknowledgedReloads ==
  ASSUME PageInv, NEW i \in DOMAIN calls, Acknowledged(i)
  PROVE  Reloads
<1> DEFINE c == [calls EXCEPT ![i].stage = Ticket]
<1>1. calls[i].stage = "executed" /\ ForcedLoad /\ PageLoads(c) /\ EditorRests /\ log' = log
  BY DEF Acknowledged, EditorRests
<1>2. Ticket \in Held
  BY DEF Ticket, Held
<1>3. calls[i].stage \in Held /\ calls[i].stage # "done"
  BY <1>1 DEF Held
<1>4. AllOnward(calls, c)
  BY <1>2, <1>3, StageMoves DEF PageInv, Shape, AreCalls
<1> QED
  BY <1>1, <1>4 DEF Reloads

LEMMA WaitsReloads ==
  ASSUME PageInv, Waits, ForcedLoad, log' = log
  PROVE  Reloads
<1>1. AllOnward(calls, calls)
  BY OnwardNot DEF PageInv, Shape, AreCalls
<1>2. PageLoads(calls) /\ EditorRests
  BY DEF Waits, EditorRests
<1> QED
  BY <1>1, <1>2 DEF Reloads

LEMMA PageSteps ==
  ASSUME PageInv, [PageNext]_settingsVars
  PROVE  \/ TabMoves \/ Reloads \/ Sends
         \/ CatalogAnswered \/ CatalogDelivered \/ CatalogFails \/ OthersWrite
         \/ (CatalogRests /\ Edit) \/ (CatalogRests /\ Discard)
         \/ \E team \in Teams : CatalogRests /\ Select(team)
         \/ \E tab \in Tabs : CatalogRests /\ GoTo(tab)
         \/ \E i \in DOMAIN calls : Execute(i)
<1>0. scope.dialogs \subseteq Dialogs
  BY SettingsAssumption DEF PageInv, Shape, Limits
<1>1. CASE UNCHANGED settingsVars
  BY <1>1, RestMoves DEF settingsVars, pageVars, catalogVars, CatalogRests, EditorRests, TabRests
<1>2. CASE CatalogStep
  <2>1. CASE LinkLost
    BY <2>1, RestMoves DEF LinkLost, Disconnect, pageVars, CatalogRests, EditorRests, TabRests
  <2>2. CASE LinkBack
    BY <2>2, WaitsReloads DEF LinkBack, Reconnect
  <2>3. CASE CatalogTimer
    BY <2>3, WaitsReloads DEF CatalogTimer, LoopTimer
  <2>4. CASE ClickRefresh
    BY <2>4, WaitsReloads DEF ClickRefresh, Refresh
  <2> QED
    BY <1>2, <2>1, <2>2, <2>3, <2>4 DEF CatalogStep
<1>3. CASE EditorStep /\ CatalogRests
  BY <1>3, SaveSends, RestoreSends, LookAtSends DEF EditorStep
<1>4. CASE DialogStep /\ CatalogRests
  <2>1. PICK k \in scope.dialogs :
          \/ \E doc \in Docs : PickFile(k, doc)
          \/ \E choice \in Choices : Choose(k, choice)
          \/ FileArrives(k) \/ HostPreviews(k) \/ PreviewArrives(k) \/ Import(k)
    BY <1>4, Zenon DEF DialogStep
  <2>2. k \in Dialogs
    BY <1>0
  <2> QED
    BY <1>4, <2>1, <2>2, DialogMoves, ImportSends
<1>5. CASE CancelBackup /\ CatalogRests
  <2>1. "backup" \in Dialogs
    BY DEF Dialogs
  <2> QED
    BY <1>5, <2>1, DialogMoves
<1>6. CASE (\E k \in scope.dialogs : PreviewLost(k)) /\ CatalogRests
  BY <1>0, <1>6, DialogMoves
<1>7. CASE CallStep
  BY <1>7, LookMoves, RefusedMoves, FailMoves, AcknowledgedReloads DEF CallStep
<1>8. UNCHANGED <<log, catalogVars>> => CatalogRests
  BY DEF catalogVars, CatalogRests
<1> QED
  BY <1>1, <1>2, <1>3, <1>4, <1>5, <1>6, <1>7, <1>8 DEF PageNext

-----------------------------------------------------------------------------
(***************************************************************************)
(* SettingsPage: records and the log.                                      *)
(***************************************************************************)
LEMMA RecordIs ==
  ASSUME NEW g, NEW n, NEW team
  PROVE  /\ Record(g, n, team).team \in Teams
         /\ team \in Teams => Record(g, n, team).team = team
         /\ Record(g, n, Record(g, n, team).team) = Record(g, n, team)
         /\ Record(g, n, team) = [team |-> Record(g, n, team).team, text |-> Record(g, n, team).text]
BY TeamsAssumption DEF Record

LEMMA EditingRecord ==
  ASSUME NEW r, r = [team |-> r.team, text |-> r.text]
  PROVE  LET e == Editing(r) IN IsEditor(e) /\ e.base = r /\ e.draft = r /\ ~e.conflict
BY DEF Editing, IsEditor

LEMMA EditingIs ==
  ASSUME NEW g, NEW n, NEW team
  PROVE  LET e == Editing(Record(g, n, team))
         IN /\ IsEditor(e) /\ e.base = Record(g, n, team) /\ e.draft = e.base /\ ~e.conflict
            /\ e.base.team \in Teams /\ (team \in Teams => e.base.team = team)
            /\ e.base = Record(g, n, e.base.team)
<1> DEFINE r == Record(g, n, team)
<1>1. /\ r.team \in Teams /\ (team \in Teams => r.team = team)
      /\ Record(g, n, r.team) = r /\ r = [team |-> r.team, text |-> r.text]
  BY RecordIs
<1> HIDE DEF r
<1>2. LET e == Editing(r) IN IsEditor(e) /\ e.base = r /\ e.draft = r /\ ~e.conflict
  BY <1>1, EditingRecord
<1> QED
  BY <1>1, <1>2 DEF r

\* A later write does not change what the first writes made of a team.
LEMMA PrefixStays ==
  ASSUME NEW g, IsSeq(g), NEW x, NEW n \in 0..Len(g)
  PROVE  SubSeq(Append(g, x), 1, n) = SubSeq(g, 1, n)
<1>1. Len(g) \in Nat /\ DOMAIN g = 1..Len(g)
  BY IsSeqIs
<1>2. \A i \in 1..n : Append(g, x)[i] = g[i]
  BY <1>1, IsSeqAppend
<1> QED
  BY <1>1, <1>2

LEMMA RecordStays ==
  ASSUME NEW g, IsSeq(g), NEW x, NEW n \in 0..Len(g), NEW team
  PROVE  Record(Append(g, x), n, team) = Record(g, n, team)
BY PrefixStays DEF Record

LEMMA NoEditorIs == NoEditor.base = [team |-> NoTeam, text |-> Original] /\ NoEditor.draft = NoEditor.base /\ IsEditor(NoEditor)
BY DEF NoEditor, Editing, IsEditor

LEMMA MarkedAs ==
  ASSUME NEW e, IsEditor(e), NEW mark
  PROVE  LET m == [e EXCEPT !.conflict = mark]
         IN IsEditor(m) /\ m.base = e.base /\ m.draft = e.draft /\ m.conflict = mark
BY DEF IsEditor

LEMMA MarkedIs ==
  ASSUME NEW e, IsEditor(e)
  PROVE  LET m == [e EXCEPT !.conflict = TRUE]
         IN IsEditor(m) /\ m.base = e.base /\ m.draft = e.draft /\ m.conflict
<1>1. ASSUME NEW x
      PROVE  LET m == [e EXCEPT !.conflict = x]
             IN IsEditor(m) /\ m.base = e.base /\ m.draft = e.draft /\ m.conflict = x
  BY MarkedAs
<1> QED
  BY <1>1

\* An editor that shows a record of the catalog, marked or not.
Shows(e, n) ==
  /\ IsEditor(e) /\ e.draft = e.base /\ e.base.team \in Teams
  /\ e.base = Record(log, n, e.base.team)

\* The editor at the end of a load.
LEMMA CatalogShownIs ==
  ASSUME PageInv, NEW n
  PROVE  LET e == CatalogShown(n)
         IN \/ LastRecorded = {} /\ Dirty(ed) /\ e = [ed EXCEPT !.conflict = TRUE]
            \/ /\ LastRecorded = {} => ~Dirty(ed)
               /\ Shows(e, n)
<1> DEFINE e == CatalogShown(n)
<1>1. CASE LastRecorded = {}
  <2>1. ~Dirty(ed) => e = Editing(Record(log, n, ed.draft.team))
    BY <1>1 DEF CatalogShown, CatalogChanged
  <2>2. Dirty(ed) => e = [ed EXCEPT !.conflict = TRUE]
    BY <1>1 DEF CatalogShown, CatalogChanged
  <2>3. ~Dirty(ed) => Shows(e, n)
    BY <2>1, EditingIs DEF Shows
  <2> QED
    BY <1>1, <2>2, <2>3
<1>2. CASE LastRecorded # {}
  <2>1. PICK team, mark : e = [Editing(Record(log, n, team)) EXCEPT !.conflict = mark]
    BY <1>2 DEF CatalogShown
  <2> QED
    BY <1>2, <2>1, EditingIs, MarkedAs DEF Shows
<1> QED
  BY <1>1, <1>2

-----------------------------------------------------------------------------
(***************************************************************************)
(* SettingsPage: the shape is kept.                                        *)
(***************************************************************************)
LogShape == IsSeq(log) /\ seen \in 0..Len(log) /\ load \in LoadType /\ queued \in QueueType
CallShape == IsSeq(calls) /\ \A i \in DOMAIN calls : IsCall(calls[i])

LEMMA LogRests ==
  ASSUME Shape, UNCHANGED <<log, seen, load, queued>>
  PROVE  LogShape'
BY DEF Shape, LogShape, LoadType, QueueType

LEMMA LogGrows ==
  ASSUME Shape, NEW x, log' = Append(log, x), UNCHANGED <<seen, load, queued>>
  PROVE  LogShape'
<1>1. Len(log) \in Nat /\ IsSeq(log') /\ Len(log') = Len(log) + 1
  BY IsSeqIs, IsSeqAppend DEF Shape
<1>2. 0..Len(log) \subseteq 0..Len(log')
  BY <1>1
<1>3. seen \in 0..Len(log) /\ load \in LoadType /\ queued \in QueueType
  BY DEF Shape
<1>4. LoadType \subseteq [stage : {"idle", "asked", "answered"}, data : 0..Len(log'), need : 0..Len(log')]
  BY <1>2 DEF LoadType
<1>5. QueueType \subseteq [on : BOOLEAN, need : 0..Len(log')]
  BY <1>2 DEF QueueType
<1> QED
  BY <1>1, <1>2, <1>3, <1>4, <1>5 DEF LogShape, LoadType, QueueType

LEMMA ForcedLoadShape ==
  ASSUME Shape, ForcedLoad, log' = log
  PROVE  LogShape'
<1>1. Len(log) \in Nat /\ 0 \in 0..Len(log) /\ Len(log) \in 0..Len(log)
  BY IsSeqIs DEF Shape
<1>2. [on |-> TRUE, need |-> Len(log)] \in QueueType /\ NewLoad(Len(log)) \in LoadType
  BY <1>1 DEF QueueType, LoadType, NewLoad
<1>3. load' \in LoadType /\ queued' \in QueueType /\ seen' = seen
  BY <1>2 DEF ForcedLoad, Shape
<1> QED
  BY <1>3 DEF LogShape, Shape, LoadType, QueueType

LEMMA AnsweredShape ==
  ASSUME Shape, LoadAnswered
  PROVE  LogShape'
<1>1. Len(log) \in Nat /\ Len(log) \in 0..Len(log)
  BY IsSeqIs DEF Shape
<1>2. load' \in LoadType
  BY <1>1 DEF Shape, LoadAnswered, LoadType
<1>3. UNCHANGED <<log, seen, queued>>
  BY DEF LoadAnswered
<1> QED
  BY <1>2, <1>3 DEF LogShape, Shape, LoadType, QueueType

LEMMA SettlesShape ==
  ASSUME Shape, NEW ok \in BOOLEAN, LoadSettles(ok)
  PROVE  LogShape'
<1>1. Len(log) \in Nat /\ 0 \in 0..Len(log)
  BY IsSeqIs DEF Shape
<1>2. NotQueued \in QueueType /\ NoLoad \in LoadType
  BY <1>1 DEF NotQueued, NoLoad, QueueType, LoadType
<1>3. load.data \in 0..Len(log) /\ queued.need \in 0..Len(log)
  BY DEF Shape, LoadType, QueueType
<1>4. NewLoad(queued.need) \in LoadType
  BY <1>1, <1>3 DEF NewLoad, LoadType
<1>5. log' = log /\ seen' \in 0..Len(log) /\ load' \in LoadType /\ queued' \in QueueType
  BY <1>2, <1>3, <1>4 DEF LoadSettles, Shape
<1> QED
  BY <1>5 DEF LogShape, Shape, LoadType, QueueType

\* d is the call c after it was executed.
LookedUp(c, d, s) ==
  /\ IsCall(d) /\ d.kind = c.kind /\ d.what = c.what /\ d.of = c.of /\ d.late = c.late /\ d.at = c.at
  /\ d.live = c.live /\ d.stage = s
Written(c, d, n) ==
  /\ IsCall(d) /\ d.kind = c.kind /\ d.what = c.what /\ d.of = c.of /\ d.late = c.late /\ d.rev = c.rev
  /\ d.live = c.live /\ d.at = n

LEMMA CallAtRev ==
  ASSUME NEW c, IsCall(c), NEW s, NEW n
  PROVE  LookedUp(c, [c EXCEPT !.stage = s, !.rev = n], s)
<1> DEFINE b == [c EXCEPT !.stage = s]
           d == [b EXCEPT !.rev = n]
<1>1. AtStage(c, b, s) /\ b.live = c.live
  BY CallAtStage
<1>2. [c EXCEPT !.stage = s, !.rev = n] = d
  BY DEF IsCall
<1> HIDE DEF b
<1>3. d = [b EXCEPT !.rev = n]
  OBVIOUS
<1> HIDE DEF d
<1>4. /\ IsCall(d) /\ d.kind = b.kind /\ d.what = b.what /\ d.of = b.of /\ d.late = b.late /\ d.at = b.at
      /\ d.live = b.live /\ d.stage = b.stage
  BY <1>1, <1>3 DEF IsCall, AtStage
<1> QED
  BY <1>1, <1>2, <1>4 DEF AtStage, LookedUp

LEMMA CallAtAt ==
  ASSUME NEW c, IsCall(c), NEW s, NEW n
  PROVE  Written(c, [c EXCEPT !.stage = s, !.at = n], n)
<1> DEFINE b == [c EXCEPT !.stage = s]
           d == [b EXCEPT !.at = n]
<1>1. AtStage(c, b, s) /\ b.live = c.live
  BY CallAtStage
<1>2. [c EXCEPT !.stage = s, !.at = n] = d
  BY DEF IsCall
<1> HIDE DEF b
<1>3. d = [b EXCEPT !.at = n]
  OBVIOUS
<1> HIDE DEF d
<1>4. /\ IsCall(d) /\ d.kind = b.kind /\ d.what = b.what /\ d.of = b.of /\ d.late = b.late /\ d.rev = b.rev
      /\ d.live = b.live /\ d.at = n
  BY <1>1, <1>3 DEF IsCall, AtStage
<1> QED
  BY <1>1, <1>2, <1>4 DEF AtStage, Written

\* What the execution of a call changes of the calls.
LEMMA ExecuteIs ==
  ASSUME Shape, NEW i \in DOMAIN calls, Execute(i)
  PROVE  /\ AreCalls(calls') /\ DOMAIN calls' = DOMAIN calls
         /\ \A j \in DOMAIN calls : j # i => calls'[j] = calls[j]
         /\ calls[i].stage # "done"
         /\ calls'[i].kind = calls[i].kind /\ calls'[i].what = calls[i].what /\ calls'[i].of = calls[i].of
         /\ calls'[i].late = calls[i].late /\ calls'[i].live = calls[i].live
         /\ \/ log' = log /\ calls'[i].at = calls[i].at /\ calls[i].kind = "look" /\ calls'[i].stage = "executed"
            \/ /\ calls'[i].at = Len(log) + 1 /\ calls'[i].rev = calls[i].rev
               /\ calls[i].kind \in {"restore", "import"} => calls[i].rev = Len(log)
               /\ log' = Append(log, Write(calls[i]))
            \/ /\ log' = log /\ calls'[i].at = calls[i].at /\ calls'[i].rev = calls[i].rev
               /\ calls'[i].stage \in {"done", "refused"}
<1> DEFINE c == calls[i]
           lost == c.stage = "lost"
           next(stage) == IF lost THEN "done" ELSE stage
<1>0. AreCalls(calls) /\ IsCall(c) /\ c.stage \in {"sent", "lost"}
  BY DEF Shape, AreCalls, Execute
<1>1. ASSUME NEW d, IsCall(d), calls' = [calls EXCEPT ![i] = d]
      PROVE  /\ AreCalls(calls') /\ DOMAIN calls' = DOMAIN calls /\ calls'[i] = d
             /\ \A j \in DOMAIN calls : j # i => calls'[j] = calls[j]
  <2>1. DOMAIN calls' = DOMAIN calls /\ calls' = [j \in DOMAIN calls |-> calls'[j]]
    BY <1>1
  <2>2. IsSeq(calls')
    BY <1>0, <2>1, SameDomain DEF AreCalls
  <2>3. calls'[i] = d /\ \A j \in DOMAIN calls : j # i => calls'[j] = calls[j]
    BY <1>1
  <2>4. \A j \in DOMAIN calls : IsCall(calls'[j])
    BY <1>0, <1>1, <2>3 DEF AreCalls
  <2> QED
    BY <2>1, <2>2, <2>3, <2>4 DEF AreCalls
<1>2. CASE /\ c.kind = "look" /\ log' = log
           /\ calls' = [calls EXCEPT ![i].stage = "executed", ![i].rev = Len(log)]
  <2> DEFINE n == Len(log)
             d == [c EXCEPT !.stage = "executed", !.rev = n]
  <2> HIDE DEF n
  <2>1. LookedUp(c, d, "executed")
    BY <1>0, CallAtRev
  <2>2. calls' = [calls EXCEPT ![i] = d]
    BY <1>2 DEF n
  <2> HIDE DEF d
  <2>3. /\ AreCalls(calls') /\ DOMAIN calls' = DOMAIN calls /\ calls'[i] = d
        /\ \A j \in DOMAIN calls : j # i => calls'[j] = calls[j]
    BY <1>1, <2>1, <2>2 DEF LookedUp
  <2> QED
    BY <1>0, <1>2, <2>1, <2>3 DEF LookedUp
<1>3. CASE /\ Admitted(c) /\ log' = Append(log, Write(c))
           /\ calls' = [calls EXCEPT ![i].stage = next("executed"), ![i].at = Len(log) + 1]
  <2> DEFINE n == Len(log) + 1
             s == next("executed")
             d == [c EXCEPT !.stage = s, !.at = n]
  <2>0. calls' = [calls EXCEPT ![i] = d]
    BY <1>3
  <2> HIDE DEF n, s
  <2>1. Written(c, d, n)
    BY <1>0, CallAtAt
  <2> HIDE DEF d
  <2>3. /\ AreCalls(calls') /\ DOMAIN calls' = DOMAIN calls /\ calls'[i] = d
        /\ \A j \in DOMAIN calls : j # i => calls'[j] = calls[j]
    BY <1>1, <2>0, <2>1 DEF Written
  <2>5. c.kind \in {"restore", "import"} => c.rev = Len(log)
    BY <1>3 DEF Admitted
  <2> QED
    BY <1>0, <1>3, <2>1, <2>3, <2>5 DEF n, Written
<1>4. CASE log' = log /\ calls' = [calls EXCEPT ![i].stage = next("refused")]
  <2> DEFINE s == next("refused")
             d == [c EXCEPT !.stage = s]
  <2>0. calls' = [calls EXCEPT ![i] = d] /\ s \in {"done", "refused"}
    BY <1>4
  <2> HIDE DEF s
  <2>1. /\ IsCall(d) /\ d.kind = c.kind /\ d.what = c.what /\ d.of = c.of /\ d.late = c.late /\ d.rev = c.rev
        /\ d.live = c.live /\ d.at = c.at /\ d.stage = s
    BY <1>0 DEF IsCall
  <2> HIDE DEF d
  <2>3. /\ AreCalls(calls') /\ DOMAIN calls' = DOMAIN calls /\ calls'[i] = d
        /\ \A j \in DOMAIN calls : j # i => calls'[j] = calls[j]
    BY <1>1, <2>0, <2>1
  <2> QED
    BY <1>0, <1>4, <2>0, <2>1, <2>3
<1> QED
  BY <1>2, <1>3, <1>4 DEF Execute, Commit

LEMMA AppendCallShape ==
  ASSUME Shape, NEW c, IsCall(c), calls' = Append(calls, c)
  PROVE  CallShape'
<1>1. /\ IsSeq(calls') /\ DOMAIN calls' = 1..(Len(calls) + 1) /\ calls'[Len(calls) + 1] = c
      /\ DOMAIN calls = 1..Len(calls) /\ Len(calls) \in Nat /\ \A i \in DOMAIN calls : calls'[i] = calls[i]
  BY IsSeqIs, IsSeqAppend DEF Shape
<1>2. ASSUME NEW i \in DOMAIN calls' PROVE IsCall(calls'[i])
  <2>1. i \in DOMAIN calls \/ i = Len(calls) + 1
    BY <1>1
  <2> QED
    BY <1>1, <2>1 DEF Shape
<1> QED
  BY <1>1, <1>2 DEF CallShape

LEMMA OnwardShape ==
  ASSUME AllOnward(calls, calls')
  PROVE  CallShape'
BY DEF AllOnward, AreCalls, CallShape

\* PageLoads leaves the calls that it gets, or orphans.
LEMMA PageLoadsIs ==
  ASSUME PageInv, NEW c, AllOnward(calls, c), PageLoads(c)
  PROVE  /\ AllOnward(calls, calls')
         /\ Pending => TabRests
         /\ ~Pending => restored' = Nowhere /\ dialogs' = NoDialogs /\ NoneLive(calls')
<1>1. CASE Pending
  BY <1>1 DEF PageLoads, TabRests
<1>2. CASE ~Pending
  <2>1. calls' = Orphans(c) /\ restored' = Nowhere /\ dialogs' = NoDialogs
    BY <1>2 DEF PageLoads, TabGone
  <2>2. AllOnward(c, calls') /\ NoneLive(calls')
    BY <2>1, OrphansAre DEF AllOnward
  <2>3. AllOnward(calls, calls')
    BY <2>2, OnwardTwice
  <2> QED
    BY <1>2, <2>1, <2>2, <2>3
<1> QED
  BY <1>1, <1>2

\* The calls at the end of a load, and when the tab goes away.
LEMMA CallsOnward ==
  ASSUME PageInv, CatalogDelivered \/ CatalogFails \/ \E tab \in Tabs : GoTo(tab)
  PROVE  AllOnward(calls, calls')
BY MovedAre, OrphansAre DEF PageInv, Shape, AreCalls, CatalogDelivered, CatalogFails, GoTo

LEMMA EditIs ==
  ASSUME Shape, Edit
  PROVE  IsEditor(ed') /\ ed'.base = ed.base /\ ed'.draft.team = ed.draft.team /\ ed'.draft.text = Mine
         /\ ed'.conflict = ed.conflict
BY DEF Shape, Edit, Typed, IsEditor

LEMMA DiscardIs ==
  ASSUME Shape, Discard
  PROVE  IsEditor(ed') /\ ed'.base = ed.base /\ ed'.draft = ed.base /\ ed'.conflict = ed.conflict
BY DEF Shape, Discard, Discarded, IsEditor

LEMMA TabLeftIs ==
  ASSUME NEW e, IsEditor(e)
  PROVE  LET t == TabLeft(e)
         IN /\ IsEditor(t) /\ t.base = e.base
            /\ Dirty(e) => t.draft = e.base /\ ~t.conflict
            /\ ~Dirty(e) => t = e
<1>1. e.base = [team |-> e.base.team, text |-> e.base.text]
  BY DEF IsEditor
<1>2. IsEditor(Editing(e.base)) /\ Editing(e.base).base = e.base /\ Editing(e.base).draft = e.base /\ ~Editing(e.base).conflict
  BY <1>1, EditingRecord
<1> QED
  BY <1>2 DEF TabLeft

LEMMA ShapeKept ==
  ASSUME PageInv, [PageNext]_settingsVars
  PROVE  Shape'
<1>0. Shape
  BY DEF PageInv
<1>1. CASE TabMoves
  BY <1>0, <1>1, LogRests, OnwardShape DEF TabMoves, CatalogRests, EditorRests, Shape, LogShape, CallShape
<1>2. CASE Reloads
  <2>1. PICK c : AllOnward(calls, c) /\ PageLoads(c)
    BY <1>2 DEF Reloads
  <2>2. CallShape' /\ dialogs' \in [Dialogs -> DialogType]
    BY <1>0, <2>1, PageLoadsIs, OnwardShape, BlankIs DEF TabRests, Shape
  <2>3. LogShape' /\ scope' = scope /\ ed' = ed
    BY <1>0, <1>2, ForcedLoadShape DEF Reloads, EditorRests
  <2> QED
    BY <1>0, <2>2, <2>3 DEF Shape, LogShape, CallShape
<1>3. CASE Sends
  <2>1. CallShape'
    BY <1>0, <1>3, AppendCallShape DEF Sends, New
  <2> QED
    BY <1>0, <1>3, <2>1, LogRests DEF Sends, CatalogRests, TabRests, Shape, LogShape, CallShape
<1>4. CASE CatalogAnswered
  BY <1>0, <1>4, AnsweredShape DEF CatalogAnswered, pageVars, Shape, LogShape
<1>5. CASE CatalogDelivered
  <2>1. LogShape' /\ scope' = scope /\ dialogs' = dialogs
    BY <1>0, <1>5, SettlesShape DEF CatalogDelivered, LoadDelivered
  <2>2. CallShape'
    BY <1>5, CallsOnward, OnwardShape
  <2>3. IsEditor(ed')
    <3>1. ed' = CatalogShown(load.data)
      BY <1>5 DEF CatalogDelivered
    <3>2. IsEditor(ed)
      BY <1>0 DEF Shape
    <3> QED
      BY <3>1, <3>2, CatalogShownIs, MarkedIs DEF Shows
  <2> QED
    BY <1>0, <2>1, <2>2, <2>3 DEF Shape, LogShape, CallShape
<1>6. CASE CatalogFails
  <2>1. LogShape' /\ scope' = scope /\ dialogs' = dialogs /\ ed' = ed
    BY <1>0, <1>6, SettlesShape DEF CatalogFails, LoadFails
  <2>2. CallShape'
    BY <1>6, CallsOnward, OnwardShape
  <2> QED
    BY <1>0, <2>1, <2>2 DEF Shape, LogShape, CallShape
<1>7. CASE OthersWrite
  <2>1. LogShape'
    BY <1>0, <1>7, LogGrows DEF OthersWrite, Commit, catalogVars
  <2> QED
    BY <1>0, <1>7, <2>1 DEF OthersWrite, Shape, LogShape
<1>8. CASE CatalogRests /\ (Edit \/ Discard)
  <2>1. LogShape' /\ IsEditor(ed')
    BY <1>0, <1>8, LogRests, EditIs, DiscardIs DEF CatalogRests
  <2> QED
    BY <1>0, <1>8, <2>1 DEF Edit, Discard, Shape, LogShape
<1>9. ASSUME NEW team \in Teams, CatalogRests, Select(team) PROVE Shape'
  <2>1. LogShape' /\ IsEditor(ed')
    BY <1>0, <1>9, LogRests, EditingIs DEF CatalogRests, Select
  <2> QED
    BY <1>0, <1>9, <2>1 DEF Select, Shape, LogShape
<1>10. ASSUME NEW tab \in Tabs, CatalogRests, GoTo(tab) PROVE Shape'
  <2>1. LogShape' /\ CallShape'
    BY <1>0, <1>10, LogRests, CallsOnward, OnwardShape DEF CatalogRests
  <2>2. IsEditor(ed') /\ dialogs' = NoDialogs /\ scope' = scope
    BY <1>0, <1>10, TabLeftIs DEF GoTo, TabGone, Shape
  <2> QED
    BY <1>0, <2>1, <2>2, BlankIs DEF Shape, LogShape, CallShape
<1>11. ASSUME NEW i \in DOMAIN calls, Execute(i) PROVE Shape'
  <2>1. CallShape'
    BY <1>0, <1>11, ExecuteIs DEF AreCalls, CallShape
  <2>2. UNCHANGED <<seen, load, queued, scope, dialogs, ed>>
    BY <1>11 DEF Execute, catalogVars
  <2>3. log' = log \/ \E x : log' = Append(log, x)
    BY <1>0, <1>11, ExecuteIs
  <2>4. LogShape'
    BY <1>0, <2>2, <2>3, LogRests, LogGrows
  <2> QED
    BY <1>0, <2>1, <2>2, <2>4 DEF Shape, LogShape, CallShape
<1> QED
  BY <1>1, <1>2, <1>3, <1>4, <1>5, <1>6, <1>7, <1>8, <1>9, <1>10, <1>11, PageSteps

-----------------------------------------------------------------------------
(***************************************************************************)
(* SettingsPage: the tab, and the editor.                                  *)
(***************************************************************************)
LEMMA TabKept ==
  ASSUME PageInv, [PageNext]_settingsVars, EditorInv'
  PROVE  TabInv'
<1>0. TabInv
  BY DEF PageInv
<1>1. CASE TabMoves
  BY <1>0, <1>1 DEF TabMoves, CatalogRests, EditorRests, TabRests, TabInv, AllOnward, Onward, Pending
<1>2. CASE Reloads
  <2>1. PICK c : AllOnward(calls, c) /\ PageLoads(c)
    BY <1>2 DEF Reloads
  <2>2. CASE Pending
    <3>1. status' = status /\ TabRests /\ status # "ready" /\ AllOnward(calls, calls')
      BY <1>0, <1>2, <2>1, <2>2, PageLoadsIs DEF Reloads, ForcedLoad, TabInv
    <3> QED
      BY <1>0, <3>1 DEF TabInv, TabRests, AllOnward, Onward
  <2>3. CASE ~Pending
    <3>1. status' = "loading" /\ restored' = Nowhere /\ dialogs' = NoDialogs /\ NoneLive(calls')
      BY <1>2, <2>1, <2>3, PageLoadsIs DEF Reloads, ForcedLoad
    <3> QED
      BY <3>1 DEF TabInv, NoneLive
  <2> QED
    BY <2>2, <2>3
<1>3. CASE Sends
  BY <1>0, <1>3 DEF Sends, CatalogRests, TabRests, TabInv, Pending
<1>4. CASE CatalogAnswered
  BY <1>0, <1>4 DEF CatalogAnswered, LoadAnswered, pageVars, TabInv, Pending
<1>5. CASE CatalogDelivered
  <2>1. status # "ready" /\ UNCHANGED <<restored, dialogs>> /\ AllOnward(calls, calls')
    BY <1>0, <1>5, CallsOnward DEF CatalogDelivered, LoadDelivered, LoadSettles, TabInv, Pending
  <2>2. status' = "ready" => ~Pending'
    BY <1>5 DEF CatalogDelivered, LoadDelivered, LoadSettles, Pending, NoLoad
  <2>3. ed'.base.team \in Teams
    <3>1. ed' = CatalogShown(load.data)
      BY <1>5 DEF CatalogDelivered
    <3>2. IsEditor(ed) /\ (Dirty(ed) => ed.base.team \in Teams)
      BY NoEditorIs DEF PageInv, Shape, EditorInv, Dirty
    <3>3. ASSUME Dirty(ed), ed' = [ed EXCEPT !.conflict = TRUE] PROVE ed'.base.team \in Teams
      BY <3>2, <3>3, MarkedIs
    <3>4. ASSUME Shows(ed', load.data) PROVE ed'.base.team \in Teams
      BY <3>4 DEF Shows
    <3> QED
      BY <3>1, <3>3, <3>4, CatalogShownIs
  <2> QED
    BY <1>0, <2>1, <2>2, <2>3 DEF TabInv, AllOnward, Onward
<1>6. CASE CatalogFails
  <2>1. status # "ready" /\ UNCHANGED <<restored, dialogs>> /\ AllOnward(calls, calls')
    BY <1>0, <1>6, CallsOnward DEF CatalogFails, LoadFails, LoadSettles, TabInv
  <2>2. status' # "ready"
    BY <1>6 DEF CatalogFails, LoadFails, LoadSettles
  <2> QED
    BY <1>0, <2>1, <2>2 DEF TabInv, AllOnward, Onward
<1>7. CASE OthersWrite
  BY <1>0, <1>7 DEF OthersWrite, catalogVars, TabInv, Pending
<1>8. CASE CatalogRests /\ Edit
  <2>1. status = "ready" /\ status' = status /\ load' = load /\ ed'.base = ed.base
    BY <1>8, EditIs DEF Edit, Shown, CatalogRests, PageInv
  <2> QED
    BY <1>0, <2>1 DEF TabInv, Pending
<1>9. CASE CatalogRests /\ Discard
  <2>1. status = "ready" /\ status' = status /\ load' = load /\ ed'.base = ed.base
    BY <1>9, DiscardIs DEF Discard, Shown, CatalogRests, PageInv
  <2> QED
    BY <1>0, <2>1 DEF TabInv, Pending
<1>10. ASSUME NEW team \in Teams, CatalogRests, Select(team) PROVE TabInv'
  <2>1. status = "ready" /\ status' = status /\ load' = load /\ ed'.base.team \in Teams
    BY <1>10, EditingIs DEF Select, Shown, CatalogRests
  <2> QED
    BY <1>0, <2>1 DEF TabInv, Pending
<1>11. ASSUME NEW tab \in Tabs, CatalogRests, GoTo(tab) PROVE TabInv'
  <2>1. restored' = Nowhere /\ dialogs' = NoDialogs /\ NoneLive(calls')
    BY <1>11, OrphansAre DEF GoTo, TabGone, PageInv, Shape, AreCalls
  <2>2. status' = status /\ load' = load /\ ed'.base = ed.base
    BY <1>11, TabLeftIs DEF CatalogRests, GoTo, PageInv, Shape
  <2> QED
    BY <1>0, <2>1, <2>2 DEF TabInv, Pending, NoneLive
<1>12. ASSUME NEW i \in DOMAIN calls, Execute(i) PROVE TabInv'
  <2>1. UNCHANGED <<status, load, ed, restored, dialogs>>
    BY <1>12 DEF Execute, catalogVars
  <2>2. DOMAIN calls' = DOMAIN calls /\ \A j \in DOMAIN calls : calls'[j].live = calls[j].live
    BY <1>12, ExecuteIs DEF PageInv
  <2> QED
    BY <1>0, <2>1, <2>2 DEF TabInv, Pending
<1> QED
  BY <1>1, <1>2, <1>3, <1>4, <1>5, <1>6, <1>7, <1>8, <1>9, <1>10, <1>11, <1>12, PageSteps

LEMMA EditorStays ==
  ASSUME EditorInv, ed' = ed
  PROVE  EditorInv'
BY DEF EditorInv

LEMMA FreshEditor ==
  ASSUME ed'.base.team \in Teams, ed'.draft = ed'.base
  PROVE  EditorInv'
BY DEF EditorInv

LEMMA EditorKept ==
  ASSUME PageInv, [PageNext]_settingsVars
  PROVE  EditorInv'
<1>0. EditorInv /\ Shape /\ IsEditor(ed)
  BY DEF PageInv, Shape
<1>1. CASE ed' = ed
  BY <1>0, <1>1, EditorStays
<1>2. CASE CatalogDelivered
  <2>1. ed' = CatalogShown(load.data)
    BY <1>2 DEF CatalogDelivered
  <2>2. CASE Dirty(ed) /\ ed' = [ed EXCEPT !.conflict = TRUE]
    <3>1. ed'.base = ed.base /\ ed'.draft = ed.draft
      BY <1>0, <2>2, MarkedIs
    <3>2. ed.base.team \in Teams
      BY <1>0, <2>2, NoEditorIs DEF EditorInv, Dirty
    <3> QED
      BY <1>0, <3>1, <3>2 DEF EditorInv
  <2>3. ASSUME Shows(ed', load.data) PROVE EditorInv'
    BY <2>3, FreshEditor DEF Shows
  <2> QED
    BY <2>1, <2>2, <2>3, CatalogShownIs
<1>3. CASE Edit
  <2>1. ed'.base = ed.base /\ ed'.draft.team = ed.draft.team /\ ed'.draft.text = Mine
    BY <1>0, <1>3, EditIs
  <2>2. ed.base.team \in Teams
    BY <1>3 DEF Edit, Shown, PageInv, TabInv
  <2> QED
    BY <1>0, <2>1, <2>2 DEF EditorInv
<1>4. CASE Discard
  <2>1. ed'.base = ed.base /\ ed'.draft = ed.base
    BY <1>0, <1>4, DiscardIs
  <2>2. ed.base.team \in Teams
    BY <1>4 DEF Discard, Shown, PageInv, TabInv
  <2> QED
    BY <2>1, <2>2, FreshEditor
<1>5. ASSUME NEW team \in Teams, Select(team) PROVE EditorInv'
  BY <1>5, EditingIs, FreshEditor DEF Select
<1>6. ASSUME NEW tab \in Tabs, GoTo(tab) PROVE EditorInv'
  <2>1. CASE ed' = TabLeft(ed) /\ Dirty(ed)
    <3>1. ed.base.team \in Teams
      BY <1>0, <2>1, NoEditorIs DEF EditorInv, Dirty
    <3> QED
      BY <1>0, <2>1, <3>1, TabLeftIs, FreshEditor
  <2>2. CASE ed' = ed
    BY <1>0, <2>2, EditorStays
  <2> QED
    BY <1>0, <1>6, <2>1, <2>2, TabLeftIs DEF GoTo
<1>7. TabMoves \/ Reloads \/ Sends \/ CatalogAnswered \/ CatalogFails \/ OthersWrite \/ (\E i \in DOMAIN calls : Execute(i)) => ed' = ed
  BY DEF TabMoves, EditorRests, Reloads, Sends, CatalogAnswered, pageVars, CatalogFails, OthersWrite, Execute
<1> QED
  BY <1>1, <1>2, <1>3, <1>4, <1>5, <1>6, <1>7, PageSteps

-----------------------------------------------------------------------------
(***************************************************************************)
(* SettingsPage: the user's text is kept.                                  *)
(***************************************************************************)
LEMMA LogSteps ==
  ASSUME PageInv, [PageNext]_settingsVars
  PROVE  \/ log' = log
         \/ \E x : log' = Append(log, x) /\ UNCHANGED <<seen, ed, strayed>>
<1>1. ASSUME NEW i \in DOMAIN calls, Execute(i)
      PROVE  log' = log \/ \E x : log' = Append(log, x) /\ UNCHANGED <<seen, ed, strayed>>
  BY <1>1, ExecuteIs DEF Execute, catalogVars, PageInv
<1>2. CASE OthersWrite
  BY <1>2 DEF OthersWrite, Commit, catalogVars
<1>3. Reloads \/ TabMoves \/ Sends \/ CatalogAnswered \/ CatalogDelivered \/ CatalogFails \/ CatalogRests => log' = log
  BY DEF Reloads, TabMoves, Sends, CatalogRests, CatalogAnswered, LoadAnswered, CatalogDelivered, LoadDelivered,
         CatalogFails, LoadFails, LoadSettles
<1> QED
  BY <1>1, <1>2, <1>3, PageSteps

LEMMA WrittenStays ==
  ASSUME PageInv, [PageNext]_settingsVars, MineWritten
  PROVE  MineWritten'
<1>1. PICK i \in DOMAIN log : log[i].text = Mine
  BY DEF MineWritten
<1>2. CASE log' = log
  BY <1>1, <1>2 DEF MineWritten
<1>3. ASSUME NEW x, log' = Append(log, x) PROVE MineWritten'
  <2>1. IsSeq(log)
    BY DEF PageInv, Shape
  <2>2. i \in DOMAIN log' /\ log'[i] = log[i]
    BY <1>3, <2>1, IsSeqIs, IsSeqAppend
  <2> QED
    BY <1>1, <2>2 DEF MineWritten
<1> QED
  BY <1>2, <1>3, LogSteps

LEMMA OnwardSaves ==
  ASSUME SavesHold(calls), AllOnward(calls, calls'), MineWritten => MineWritten'
  PROVE  SavesHold(calls)'
BY DEF SavesHold, AllOnward, Onward

LEMMA OnwardRestores ==
  ASSUME RestoresGiveUp(calls), AllOnward(calls, calls'), typed' \in {typed, NoTeam}
  PROVE  RestoresGiveUp(calls)'
BY DEF RestoresGiveUp, AllOnward, Onward

LEMMA TypedKept ==
  ASSUME PageInv, [PageNext]_settingsVars
  PROVE  TypedInv'
<1>0. TypedInv /\ (MineWritten => MineWritten') /\ SavesHold(calls) /\ RestoresGiveUp(calls)
  BY WrittenStays DEF PageInv, TypedInv
\* The calls go on, and the text is still typed, and still in the draft, or given up.
<1>1. ASSUME AllOnward(calls, calls'),
             typed' = NoTeam \/ (typed' = typed /\ (MineDrafted => MineDrafted' \/ MineWritten'))
      PROVE  TypedInv'
  BY <1>0, <1>1, OnwardSaves, OnwardRestores DEF TypedInv
<1>2. AllOnward(calls, calls)
  BY OnwardNot DEF PageInv, Shape, AreCalls
<1>3. CASE TabMoves \/ Reloads
  <2>1. typed' = typed /\ ed' = ed
    BY <1>3 DEF TabMoves, Reloads, EditorRests
  <2>2. AllOnward(calls, calls')
    BY <1>3, PageLoadsIs DEF TabMoves, Reloads
  <2> QED
    BY <1>1, <2>1, <2>2 DEF MineDrafted
<1>4. CASE CatalogAnswered \/ OthersWrite
  <2>1. typed' = typed /\ ed' = ed /\ calls' = calls
    BY <1>4 DEF CatalogAnswered, OthersWrite, pageVars
  <2> QED
    BY <1>1, <1>2, <2>1 DEF MineDrafted
<1>5. CASE CatalogFails
  <2>1. typed' = typed /\ ed' = ed
    BY <1>5 DEF CatalogFails
  <2> QED
    BY <1>1, <1>5, <2>1, CallsOnward DEF MineDrafted
<1>6. CASE CatalogDelivered
  <2>1. typed' = typed /\ AllOnward(calls, calls') /\ ed' = CatalogShown(load.data)
    BY <1>6, CallsOnward DEF CatalogDelivered
  <2>2. CASE LastRecorded = {}
    <3>1. CASE Dirty(ed)
      <4>1. ed' = [ed EXCEPT !.conflict = TRUE] /\ IsEditor(ed)
        BY <2>1, <2>2, <3>1 DEF CatalogShown, CatalogChanged, PageInv, Shape
      <4>2. ed'.draft = ed.draft /\ ed'.base = ed.base
        BY <4>1, MarkedIs
      <4> QED
        BY <1>1, <2>1, <4>2 DEF MineDrafted, Dirty
    <3>2. CASE ~Dirty(ed)
      BY <1>1, <2>1, <3>2 DEF MineDrafted
    <3> QED
      BY <3>1, <3>2
  <2>3. CASE LastRecorded # {}
    <3>1. PICK i \in LastRecorded : TRUE
      BY <2>3
    <3>2. i \in DOMAIN calls /\ calls[i].stage = "pending" /\ calls[i].kind \in RECORDED
      BY <3>1 DEF LastRecorded
    <3>3. calls[i].kind = "save" => MineWritten
      BY <1>0, <3>2 DEF SavesHold, Held
    <3>4. calls[i].kind = "restore" => typed = NoTeam
      BY <1>0, <3>2 DEF RestoresGiveUp
    <3> QED
      BY <1>0, <1>1, <2>1, <3>2, <3>3, <3>4 DEF RECORDED
  <2> QED
    BY <2>2, <2>3
<1>7. CASE Sends
  <2>1. PICK c : New(c) /\ calls' = Append(calls, c)
    BY <1>7 DEF Sends
  <2>2. /\ IsSeq(calls)
        /\ DOMAIN calls' = 1..(Len(calls) + 1) /\ calls'[Len(calls) + 1] = c
        /\ DOMAIN calls = 1..Len(calls) /\ Len(calls) \in Nat /\ \A i \in DOMAIN calls : calls'[i] = calls[i]
    BY <2>1, IsSeqIs, IsSeqAppend DEF PageInv, Shape
  <2>3. \A i \in DOMAIN calls' : (i \in DOMAIN calls /\ calls'[i] = calls[i]) \/ calls'[i] = c
    BY <2>2
  <2>4. typed' \in {typed, NoTeam} /\ ed' = ed /\ c.stage = "sent"
        /\ (c.kind = "save" => c.what.text = Mine) /\ (c.kind = "restore" => typed' = NoTeam)
    BY <1>7, <2>1 DEF Sends, New
  <2>5. SavesHold(calls)'
    BY <1>0, <2>3, <2>4 DEF SavesHold, Held
  <2>6. RestoresGiveUp(calls)'
    BY <1>0, <2>3, <2>4 DEF RestoresGiveUp
  <2> QED
    BY <1>0, <2>4, <2>5, <2>6 DEF TypedInv, MineDrafted
<1>8. CASE CatalogRests /\ Edit
  <2>1. IsEditor(ed) /\ ed.draft.text # Mine /\ calls' = calls /\ ed.base.team = ed.draft.team
        /\ ed.draft.text \in {ed.base.text, Mine}
    BY <1>8 DEF Edit, PageInv, EditorInv, Shape
  <2>2. ed'.base = ed.base /\ ed'.draft.text = Mine
    BY <1>8, EditIs DEF PageInv
  <2>3. MineDrafted'
    BY <2>1, <2>2 DEF MineDrafted, Dirty
  <2>4. CASE \E i \in DOMAIN calls : calls[i].kind \in RECORDED /\ calls[i].stage # "done"
    <3>1. typed' = NoTeam
      BY <1>8, <2>4 DEF Edit
    <3> QED
      BY <1>1, <1>2, <2>1, <3>1
  <2>5. CASE \A i \in DOMAIN calls : calls[i].kind \in RECORDED => calls[i].stage = "done"
    <3>1. typed' = Mine
      BY <1>8, <2>5 DEF Edit
    <3>2. SavesHold(calls)'
      BY <1>0, <1>2, <2>1, OnwardSaves
    <3>3. RestoresGiveUp(calls)'
      BY <2>1, <2>5 DEF RestoresGiveUp, RECORDED
    <3> QED
      BY <2>3, <3>1, <3>2, <3>3 DEF TypedInv
  <2> QED
    BY <2>4, <2>5
<1>9. CASE CatalogRests /\ Discard
  BY <1>1, <1>2, <1>9 DEF Discard
<1>10. ASSUME NEW team \in Teams, CatalogRests, Select(team) PROVE TypedInv'
  BY <1>1, <1>2, <1>10 DEF Select
<1>11. ASSUME NEW tab \in Tabs, CatalogRests, GoTo(tab) PROVE TypedInv'
  <2>1. AllOnward(calls, calls')
    BY <1>11, CallsOnward
  <2>2. CASE view = "teams" /\ Dirty(ed)
    BY <1>1, <1>11, <2>1, <2>2 DEF GoTo
  <2>3. CASE ~(view = "teams" /\ Dirty(ed))
    <3>1. ed' = ed /\ typed' = typed
      BY <1>11, <2>3 DEF GoTo, TabLeft
    <3> QED
      BY <1>1, <2>1, <3>1 DEF MineDrafted
  <2> QED
    BY <2>2, <2>3
<1>12. ASSUME NEW i \in DOMAIN calls, Execute(i) PROVE TypedInv'
  <2>1. typed' = typed /\ ed' = ed
    BY <1>12 DEF Execute
  <2>2. /\ DOMAIN calls' = DOMAIN calls /\ \A j \in DOMAIN calls : j # i => calls'[j] = calls[j]
        /\ calls[i].stage # "done" /\ calls'[i].kind = calls[i].kind /\ calls'[i].what = calls[i].what
    BY <1>12, ExecuteIs DEF PageInv
  <2>3. calls[i].kind = "save" /\ calls'[i].stage \in Held => MineWritten'
    <3> SUFFICES ASSUME calls[i].kind = "save", calls'[i].stage \in Held PROVE MineWritten'
      OBVIOUS
    <3>1. log' = Append(log, Write(calls[i]))
      BY <1>12, ExecuteIs DEF PageInv, Held
    <3>2. Write(calls[i]) = calls[i].what
      BY DEF Write
    <3>3. calls[i].what.text = Mine
      BY <1>0 DEF SavesHold
    <3>4. Len(log) + 1 \in DOMAIN log' /\ log'[Len(log) + 1] = calls[i].what
      BY <3>1, <3>2, IsSeqIs, IsSeqAppend DEF PageInv, Shape
    <3> QED
      BY <3>3, <3>4 DEF MineWritten
  <2>4. SavesHold(calls)'
    <3> SUFFICES ASSUME NEW j \in DOMAIN calls, calls[j].kind = "save"
        PROVE calls'[j].what.text = Mine /\ (calls'[j].stage \in Held => MineWritten')
      BY <2>2 DEF SavesHold
    <3>1. calls[j].what.text = Mine /\ (calls[j].stage \in Held => MineWritten')
      BY <1>0 DEF SavesHold
    <3> QED
      BY <2>2, <2>3, <3>1
  <2>5. RestoresGiveUp(calls)'
    <3> SUFFICES ASSUME NEW j \in DOMAIN calls, calls[j].kind = "restore", calls'[j].stage # "done" PROVE typed = NoTeam
      BY <2>1, <2>2 DEF RestoresGiveUp
    <3>1. calls[j].stage # "done"
      BY <2>2
    <3> QED
      BY <1>0, <3>1 DEF RestoresGiveUp
  <2> QED
    BY <1>0, <2>1, <2>4, <2>5 DEF TypedInv, MineDrafted
<1> QED
  BY <1>3, <1>4, <1>5, <1>6, <1>7, <1>8, <1>9, <1>10, <1>11, <1>12, PageSteps

-----------------------------------------------------------------------------
(***************************************************************************)
(* SettingsPage: an unmarked draft started from what is shown.             *)
(***************************************************************************)
LEMMA BaseKept ==
  ASSUME PageInv, [PageNext]_settingsVars
  PROVE  BaseInv'
<1>0. BaseInv /\ IsSeq(log) /\ seen \in 0..Len(log) /\ IsEditor(ed) /\ Shape
  BY DEF PageInv, Shape
<1>1. ASSUME ed'.base = ed.base, ed'.conflict = ed.conflict, strayed' = strayed, UNCHANGED <<log, seen>> PROVE BaseInv'
  BY <1>0, <1>1 DEF BaseInv
<1>2. ASSUME NEW x, log' = Append(log, x), UNCHANGED <<seen, ed, strayed>> PROVE BaseInv'
  BY <1>0, <1>2, RecordStays DEF BaseInv
<1>3. CASE log' # log
  BY <1>2, <1>3, LogSteps
<1>4. CASE TabMoves \/ Reloads \/ Sends \/ CatalogAnswered \/ CatalogFails
  <2>1. UNCHANGED <<log, seen, ed, strayed>>
    BY <1>4 DEF TabMoves, CatalogRests, EditorRests, Reloads, ForcedLoad, Sends, CatalogAnswered, LoadAnswered, pageVars,
                CatalogFails, LoadFails, LoadSettles
  <2> QED
    BY <1>1, <2>1
<1>5. CASE CatalogDelivered
  <2>1. ed' = CatalogShown(load.data) /\ log' = log /\ seen' = load.data
    BY <1>5 DEF CatalogDelivered, LoadDelivered, LoadSettles
  <2>2. CASE ed' = [ed EXCEPT !.conflict = TRUE]
    BY <1>0, <2>2, MarkedIs DEF BaseInv
  <2>3. ASSUME Shows(ed', load.data) PROVE BaseInv'
    <3>1. ed'.base = Record(log, load.data, ed'.base.team)
      BY <2>3 DEF Shows
    <3> QED
      BY <2>1, <3>1 DEF BaseInv
  <2> QED
    BY <2>1, <2>2, <2>3, CatalogShownIs
<1>6. CASE OthersWrite \/ \E i \in DOMAIN calls : Execute(i)
  BY <1>1, <1>3, <1>6 DEF OthersWrite, Execute, catalogVars
<1>7. CASE CatalogRests /\ (Edit \/ Discard)
  BY <1>0, <1>1, <1>7, EditIs, DiscardIs DEF CatalogRests, Edit, Discard
<1>8. ASSUME NEW team \in Teams, CatalogRests, Select(team) PROVE BaseInv'
  <2>1. ed'.base = Record(log, seen, ed'.base.team) /\ UNCHANGED <<log, seen>>
    BY <1>8, EditingIs DEF Select, CatalogRests
  <2> QED
    BY <2>1 DEF BaseInv
<1>9. ASSUME NEW tab \in Tabs, CatalogRests, GoTo(tab) PROVE BaseInv'
  <2>1. UNCHANGED <<log, seen>> /\ strayed' = (strayed \/ (view = "teams" /\ Dirty(ed) /\ ed.conflict))
    BY <1>9 DEF GoTo, CatalogRests
  <2>2. CASE view = "teams" /\ Dirty(ed)
    <3>1. ed'.base = ed.base /\ (~strayed' => ~strayed /\ ~ed.conflict)
      BY <1>0, <1>9, <2>1, <2>2, TabLeftIs DEF GoTo
    <3> QED
      BY <1>0, <2>1, <3>1 DEF BaseInv
  <2>3. CASE ~(view = "teams" /\ Dirty(ed))
    <3>1. ed' = ed /\ (strayed' <=> strayed)
      BY <1>9, <2>1, <2>3 DEF GoTo, TabLeft
    <3> QED
      BY <1>0, <2>1, <3>1 DEF BaseInv
  <2> QED
    BY <2>2, <2>3
<1> QED
  BY <1>4, <1>5, <1>6, <1>7, <1>8, <1>9, PageSteps

-----------------------------------------------------------------------------
(***************************************************************************)
(* SettingsPage: a call does what its preview showed.                      *)
(***************************************************************************)
LEMMA OnwardDoes ==
  ASSUME AppliedAsShown, AllOnward(calls, calls')
  PROVE  AppliedAsShown'
BY DEF AppliedAsShown, AllOnward, Onward

LEMMA AppliedKept ==
  ASSUME PageInv, [PageNext]_settingsVars
  PROVE  AppliedAsShown'
<1>0. AppliedAsShown /\ AllOnward(calls, calls)
  BY OnwardNot DEF PageInv, ShownInv, Shape, AreCalls
<1>1. CASE AllOnward(calls, calls')
  BY <1>0, <1>1, OnwardDoes
<1>2. CASE Sends
  <2>1. PICK c : New(c) /\ calls' = Append(calls, c)
    BY <1>2 DEF Sends
  <2>2. /\ DOMAIN calls' = 1..(Len(calls) + 1) /\ calls'[Len(calls) + 1] = c
        /\ DOMAIN calls = 1..Len(calls) /\ Len(calls) \in Nat /\ \A i \in DOMAIN calls : calls'[i] = calls[i]
    BY <2>1, IsSeqIs, IsSeqAppend DEF PageInv, Shape
  <2>3. \A i \in DOMAIN calls' : (i \in DOMAIN calls /\ calls'[i] = calls[i]) \/ calls'[i] = c
    BY <2>2
  <2>4. c.at = 0 /\ (c.kind \in {"restore", "import"} => c.what = c.of \/ c.late)
    BY <2>1 DEF New
  <2> QED
    BY <1>0, <2>3, <2>4 DEF AppliedAsShown
<1>3. ASSUME NEW i \in DOMAIN calls, Execute(i) PROVE AppliedAsShown'
  <2>1. /\ DOMAIN calls' = DOMAIN calls /\ \A j \in DOMAIN calls : j # i => calls'[j] = calls[j]
        /\ calls'[i].kind = calls[i].kind /\ calls'[i].what = calls[i].what /\ calls'[i].of = calls[i].of
        /\ calls'[i].late = calls[i].late
    BY <1>3, ExecuteIs DEF PageInv
  <2>2. ASSUME calls[i].kind \in {"restore", "import"}, calls'[i].at # 0
        PROVE  calls'[i].at = calls'[i].rev + 1
    <3>1. \/ calls'[i].at = Len(log) + 1 /\ calls'[i].rev = Len(log)
          \/ calls'[i].at = calls[i].at /\ calls'[i].rev = calls[i].rev
      BY <1>3, <2>2, ExecuteIs DEF PageInv
    <3>2. calls[i].at # 0 => calls[i].at = calls[i].rev + 1
      BY <1>0, <2>2 DEF AppliedAsShown
    <3> QED
      BY <2>2, <3>1, <3>2
  <2>3. calls[i].kind \in {"restore", "import"} => calls[i].what = calls[i].of \/ calls[i].late
    BY <1>0 DEF AppliedAsShown
  <2> QED
    BY <1>0, <2>1, <2>2, <2>3 DEF AppliedAsShown
<1>4. TabMoves \/ Reloads \/ CatalogDelivered \/ CatalogFails \/ (\E tab \in Tabs : GoTo(tab)) => AllOnward(calls, calls')
  BY CallsOnward, PageLoadsIs DEF TabMoves, Reloads
<1>5. CatalogAnswered \/ OthersWrite \/ Edit \/ Discard \/ (\E team \in Teams : Select(team)) => AllOnward(calls, calls')
  BY <1>0 DEF CatalogAnswered, OthersWrite, Edit, Discard, Select, pageVars
<1> QED
  BY <1>1, <1>2, <1>3, <1>4, <1>5, PageSteps

LEMMA ShownKept ==
  ASSUME PageInv, [PageNext]_settingsVars
  PROVE  ShownInv'
<1>0. ShownInv
  BY DEF PageInv
<1>a. AppliedAsShown'
  BY AppliedKept
<1>1. CASE TabMoves
  BY <1>1, <1>a DEF TabMoves, EditorRests, ShownInv
<1>2. ASSUME restored' = Nowhere \/ (restored' = restored /\ (ed'.draft.team = ed.draft.team \/ restored = Nowhere)),
             dialogs' = dialogs \/ dialogs' = NoDialogs
      PROVE  ShownInv'
  BY <1>0, <1>2, <1>a, BlankIs DEF ShownInv
<1>3. CASE Reloads
  <2>1. ed' = ed /\ (TabRests \/ (restored' = Nowhere /\ dialogs' = NoDialogs))
    BY <1>3, PageLoadsIs DEF Reloads, EditorRests
  <2> QED
    BY <1>2, <2>1 DEF TabRests
<1>4. CASE Sends \/ CatalogAnswered \/ CatalogFails \/ OthersWrite \/ \E i \in DOMAIN calls : Execute(i)
  <2>1. UNCHANGED <<ed, restored, dialogs>>
    BY <1>4 DEF Sends, TabRests, CatalogAnswered, CatalogFails, OthersWrite, Execute, pageVars
  <2> QED
    BY <1>2, <2>1
<1>5. CASE CatalogDelivered
  <2>1. restored = Nowhere /\ UNCHANGED <<restored, dialogs>>
    BY <1>5 DEF CatalogDelivered, LoadDelivered, LoadSettles, Pending, PageInv, TabInv
  <2> QED
    BY <1>2, <2>1
<1>6. CASE Edit \/ Discard
  <2>1. ed'.draft.team = ed.draft.team /\ UNCHANGED <<restored, dialogs>>
    BY <1>6, EditIs, DiscardIs DEF Edit, Discard, PageInv, EditorInv
  <2> QED
    BY <1>2, <2>1
<1>7. ASSUME NEW team \in Teams, Select(team) PROVE ShownInv'
  <2>1. ed'.draft.team = team
    BY <1>7, EditingIs DEF Select
  <2>2. restored' = (IF team = ed.draft.team THEN restored ELSE Nowhere) /\ dialogs' = dialogs
    BY <1>7 DEF Select
  <2> QED
    BY <1>2, <2>1, <2>2
<1>8. ASSUME NEW tab \in Tabs, GoTo(tab) PROVE ShownInv'
  BY <1>2, <1>8 DEF GoTo, TabGone
<1> QED
  BY <1>1, <1>3, <1>4, <1>5, <1>6, <1>7, <1>8, PageSteps

-----------------------------------------------------------------------------
(***************************************************************************)
(* SettingsPage: the theorems.                                             *)
(***************************************************************************)
LEMMA PageStarts == PageInit => PageInv
<1> SUFFICES ASSUME PageInit PROVE PageInv
  OBVIOUS
<1>1. IsSeq(<<>>) /\ Len(<<>>) = 0 /\ DOMAIN <<>> = {}
  BY DEF IsSeq
<1>2. log = <<>> /\ calls = <<>> /\ seen = 0 /\ load = NewLoad(0) /\ queued = NotQueued /\ status = "loading"
      /\ scope \in Scopes /\ ed = NoEditor /\ restored = Nowhere /\ dialogs = NoDialogs /\ typed = NoTeam
  BY DEF PageInit, CatalogInit
<1>3. load \in LoadType /\ queued \in QueueType /\ seen \in 0..Len(log)
  BY <1>1, <1>2 DEF LoadType, QueueType, NewLoad, NotQueued
<1>4. Shape
  BY <1>1, <1>2, <1>3, BlankIs, NoEditorIs DEF Shape
<1>5. TabInv
  BY <1>1, <1>2 DEF TabInv
<1>6. EditorInv
  BY <1>2, NoEditorIs DEF EditorInv
<1>7. TypedInv
  BY <1>1, <1>2 DEF TypedInv, SavesHold, RestoresGiveUp
<1>8. BaseInv
  BY <1>2, NoEditorIs, TeamsAssumption DEF BaseInv
<1>9. ShownInv
  BY <1>1, <1>2, BlankIs DEF ShownInv, AppliedAsShown
<1> QED
  BY <1>4, <1>5, <1>6, <1>7, <1>8, <1>9 DEF PageInv

LEMMA PageKept == PageInv /\ [PageNext]_settingsVars => PageInv'
BY ShapeKept, EditorKept, TabKept, TypedKept, BaseKept, ShownKept DEF PageInv

(* The invariant of the settings page: what is kept on a tab is gone with  *)
(* it, a draft is the record it started from or what the user typed, and   *)
(* a backup dialog asks for the document it holds.                         *)
THEOREM PageIsCorrect == PageSpec => []PageInv
BY PageStarts, PageKept, PTL DEF PageSpec

LEMMA PageInvImplies == PageInv => TypedIsKept /\ OverwriteIsAsked /\ AppliedAsShown
<1> SUFFICES ASSUME PageInv PROVE TypedIsKept /\ OverwriteIsAsked /\ AppliedAsShown
  OBVIOUS
<1>1. TypedIsKept
  BY DEF PageInv, TypedInv, MineWritten, MineDrafted, TypedIsKept
<1>2. OverwriteIsAsked
  BY DEF PageInv, TabInv, BaseInv, CanSave, Shown, OverwriteIsAsked
<1>3. AppliedAsShown
  BY DEF PageInv, ShownInv
<1> QED
  BY <1>1, <1>2, <1>3

(* What the user typed last, and did not give up, is in the draft or has   *)
(* been written, for any number of calls, writes by others and faults.     *)
THEOREM TypedTextIsKept == PageSpec => []TypedIsKept
BY PageIsCorrect, PageInvImplies, PTL

(* A draft that can be saved without a question started from the record    *)
(* that the catalog shows.                                                 *)
THEOREM OverwritesAreAsked == PageSpec => []OverwriteIsAsked
BY PageIsCorrect, PageInvImplies, PTL

(* A restore or an import writes what its preview showed, next after the   *)
(* revision that the preview was of.                                       *)
THEOREM PreviewsAreApplied == PageSpec => []AppliedAsShown
BY PageIsCorrect, PageInvImplies, PTL
=============================================================================
