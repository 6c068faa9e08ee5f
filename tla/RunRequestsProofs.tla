-------------------------- MODULE RunRequestsProofs --------------------------
(***************************************************************************)
(* No plan is continued twice, no request is carried out twice and no      *)
(* refusal leaves a run behind, for any number of calls, runs, faults,     *)
(* crashes, continuations and background requests.                         *)
(***************************************************************************)
EXTENDS RunRequests, TLAPS

Receipts == [key : Keys, run : Runs \ {Root}]
RowRecords == [status : Settled \union {"active"}, revision : 0..MaxContinuations,
               linked : BOOLEAN, receipt : {Nothing} \union Receipts]
Entries == [key : Keys, run : Runs \union {Nothing}, revision : 0..MaxContinuations,
            step : {"reading", "committing", "launching", "running"}]
CallRecords == [at : {"unmade", "waiting", "told", "refused"}, source : Runs \union {Nothing},
                key : Keys \union Requests \union {Nothing}, run : Runs \union {Nothing}]
Acceptances == [step : {"reading", "putting", "withdrawing"}, run : Runs \union {Nothing}]

\* Every identity in use has been given out, and a run that is carried out is active.
Typed ==
  /\ issued \in Runs
  /\ rows \in [DOMAIN rows -> RowRecords] /\ DOMAIN rows \subseteq 0..issued
  /\ live \subseteq {r \in DOMAIN rows : rows[r].status = "active"}
  /\ flight \in [DOMAIN flight -> Entries] /\ DOMAIN flight \subseteq 0..issued
  /\ \A r \in DOMAIN flight :
       /\ flight[r].revision < MaxContinuations
       /\ flight[r].run \in IF flight[r].step = "reading" THEN {Nothing} ELSE 1..issued
  /\ call \in [Calls -> CallRecords]
  /\ acceptance \in [DOMAIN acceptance -> Acceptances]
  /\ \A q \in DOMAIN acceptance : acceptance[q].step # "reading" => acceptance[q].run \in 1..issued
  /\ launched \subseteq [source : 0..issued, key : Keys, run : 1..issued]

\* An identity that has no row yet: a successor's or a background run's.
Unused(n) ==
  /\ n \notin DOMAIN rows /\ n \notin DOMAIN flight
  /\ \A l \in launched : l.source # n /\ l.run # n

Named(r) == r \in DOMAIN flight /\ flight[r].step \in {"committing", "launching"}
Holding(q) == q \in DOMAIN acceptance /\ acceptance[q].step # "reading"

NamesAreUnused ==
  /\ \A r \in DOMAIN flight : Named(r) => Unused(flight[r].run)
  /\ \A q \in DOMAIN acceptance : acceptance[q].step = "putting" => Unused(acceptance[q].run)
  /\ \A q \in DOMAIN acceptance : acceptance[q].step = "withdrawing" => acceptance[q].run \notin live

\* No identity is held twice.
NamesAreDistinct ==
  /\ \A r, s \in DOMAIN flight : Named(r) /\ Named(s) /\ flight[r].run = flight[s].run => r = s
  /\ \A p, q \in DOMAIN acceptance : Holding(p) /\ Holding(q) /\ acceptance[p].run = acceptance[q].run => p = q
  /\ \A r \in DOMAIN flight, q \in DOMAIN acceptance : Named(r) /\ Holding(q) => flight[r].run # acceptance[q].run

\* What is admitted has no successor yet, and is launched under its receipt.
AdmittedOnce ==
  \A r \in DOMAIN flight :
    /\ flight[r].step # "running" => \A l \in launched : l.source # r
    /\ flight[r].step = "launching" /\ r \in DOMAIN rows =>
         rows[r].receipt = [key |-> flight[r].key, run |-> flight[r].run]

Continued ==
  \A l \in launched :
    /\ \A m \in launched : l.source = m.source \/ l.run = m.run => l = m
    /\ l.source \in DOMAIN rows => rows[l.source].receipt = [key |-> l.key, run |-> l.run]

PlanInv == Typed /\ NamesAreUnused /\ NamesAreDistinct /\ AdmittedOnce /\ Continued
-----------------------------------------------------------------------------
LEMMA Bounds == MaxCalls \in Nat /\ MaxRuns \in Nat /\ MaxContinuations \in Nat
  BY BoundsAssumption

LEMMA NoReceipt == \A receipt \in Receipts : receipt # Nothing
  BY NothingAssumption DEF Receipts

LEMMA WithEntry ==
  ASSUME NEW f, NEW k, NEW v
  PROVE  /\ DOMAIN With(f, k, v) = DOMAIN f \union {k} /\ With(f, k, v)[k] = v
         /\ \A x \in DOMAIN f : x # k => With(f, k, v)[x] = f[x]
  BY DEF With

LEMMA WithTyped ==
  ASSUME NEW S, NEW f, f \in [DOMAIN f -> S], NEW k, NEW v \in S
  PROVE  With(f, k, v) \in [DOMAIN With(f, k, v) -> S]
<1>1. \A x \in DOMAIN f \union {k} : (IF x = k THEN v ELSE f[x]) \in S
  OBVIOUS
<1> QED
  BY <1>1 DEF With

LEMMA LessEntry ==
  ASSUME NEW f, NEW k
  PROVE  /\ DOMAIN Less(f, k) = DOMAIN f \ {k}
         /\ \A x \in DOMAIN f \ {k} : Less(f, k)[x] = f[x]
  BY DEF Less

LEMMA LessTyped ==
  ASSUME NEW S, NEW f, f \in [DOMAIN f -> S], NEW k
  PROVE  Less(f, k) \in [DOMAIN Less(f, k) -> S]
<1>1. \A x \in DOMAIN f \ {k} : f[x] \in S
  OBVIOUS
<1> QED
  BY <1>1 DEF Less

(* Only calls are told something.                                           *)
LEMMA OnlyCalls ==
  ASSUME PlanInv, UNCHANGED <<rows, live, issued, flight, acceptance, launched>>,
         call' \in [Calls -> CallRecords]
  PROVE  PlanInv'
  BY DEF PlanInv, Typed, NamesAreUnused, NamesAreDistinct, AdmittedOnce, Continued, Unused, Named, Holding

(* An entry of flight is removed, and those who waited are told.            *)
LEMMA EntryLeaves ==
  ASSUME PlanInv, NEW r, flight' = Less(flight, r),
         UNCHANGED <<rows, live, issued, acceptance, launched>>, call' \in [Calls -> CallRecords]
  PROVE  PlanInv'
<1>1. /\ DOMAIN flight' = DOMAIN flight \ {r} /\ \A x \in DOMAIN flight' : flight'[x] = flight[x]
      /\ flight' \in [DOMAIN flight' -> Entries]
  BY LessEntry, LessTyped DEF PlanInv, Typed
<1>2. Typed'
  BY <1>1 DEF PlanInv, Typed
<1>3. \A n : Unused(n) => Unused(n)'
  BY <1>1 DEF Unused
<1>4. NamesAreUnused' /\ NamesAreDistinct'
  BY <1>1, <1>3 DEF PlanInv, NamesAreUnused, NamesAreDistinct, Named, Holding
<1>5. AdmittedOnce' /\ Continued'
  BY <1>1 DEF PlanInv, AdmittedOnce, Continued
<1> QED
  BY <1>2, <1>4, <1>5 DEF PlanInv

LEMMA ResolveTyped ==
  ASSUME PlanInv, NEW r, NEW at \in {"told", "refused"}, NEW run \in Runs \union {Nothing},
         Resolve(r, at, run)
  PROVE  flight' = Less(flight, r) /\ call' \in [Calls -> CallRecords]
<1>1. \A c \in Calls : call[c] \in CallRecords
  BY DEF PlanInv, Typed
<1>2. \A c \in Calls : [call[c] EXCEPT !.at = at, !.run = run] \in CallRecords
  BY <1>1 DEF CallRecords
<1> QED
  BY <1>1, <1>2 DEF Resolve

LEMMA RejectKeeps ==
  ASSUME PlanInv, NEW r, Reject(r), UNCHANGED <<rows, live, issued, acceptance, launched>>
  PROVE  PlanInv'
  BY ResolveTyped, EntryLeaves DEF Reject

(* An acceptance settles.                                                   *)
LEMMA SettlesTyped ==
  ASSUME PlanInv, NEW q, NEW at \in {"told", "refused"}, NEW run \in Runs \union {Nothing},
         Settles(q, at, run)
  PROVE  /\ acceptance' = Less(acceptance, q) /\ call' \in [Calls -> CallRecords]
         /\ DOMAIN acceptance' = DOMAIN acceptance \ {q}
         /\ \A x \in DOMAIN acceptance' : acceptance'[x] = acceptance[x]
         /\ acceptance' \in [DOMAIN acceptance' -> Acceptances]
<1>1. \A c \in Calls : call[c] \in CallRecords
  BY DEF PlanInv, Typed
<1>2. \A c \in Calls : [call[c] EXCEPT !.at = at, !.run = run] \in CallRecords
  BY <1>1 DEF CallRecords
<1>3. call' \in [Calls -> CallRecords] /\ acceptance' = Less(acceptance, q)
  BY <1>1, <1>2 DEF Settles
<1>4. acceptance' \in [DOMAIN acceptance' -> Acceptances]
  BY <1>3, LessTyped DEF PlanInv, Typed
<1> QED
  BY <1>3, <1>4, LessEntry

LEMMA AcceptanceLeaves ==
  ASSUME PlanInv, NEW q, NEW at \in {"told", "refused"}, NEW run \in Runs \union {Nothing},
         Settles(q, at, run), UNCHANGED <<rows, live, issued, flight, launched>>
  PROVE  PlanInv'
<1>1. /\ DOMAIN acceptance' = DOMAIN acceptance \ {q}
      /\ \A x \in DOMAIN acceptance' : acceptance'[x] = acceptance[x]
      /\ acceptance' \in [DOMAIN acceptance' -> Acceptances] /\ call' \in [Calls -> CallRecords]
  BY SettlesTyped
<1>2. Typed'
  BY <1>1 DEF PlanInv, Typed
<1>3. \A n : Unused(n) => Unused(n)'
  BY DEF Unused
<1>4. NamesAreUnused' /\ NamesAreDistinct'
  BY <1>1, <1>3 DEF PlanInv, NamesAreUnused, NamesAreDistinct, Named, Holding
<1>5. AdmittedOnce' /\ Continued'
  BY DEF PlanInv, AdmittedOnce, Continued
<1> QED
  BY <1>2, <1>4, <1>5 DEF PlanInv

(* A row that is kept changes its status only.                              *)
LEMMA StatusChanges ==
  ASSUME PlanInv, UNCHANGED <<issued, flight, acceptance, launched>>,
         call' \in [Calls -> CallRecords],
         rows' \in [DOMAIN rows' -> RowRecords], DOMAIN rows' \subseteq DOMAIN rows,
         \A r \in DOMAIN rows' : rows'[r].receipt = rows[r].receipt,
         live' \subseteq live, \A r \in live' : r \in DOMAIN rows' /\ rows'[r].status = "active"
  PROVE  PlanInv'
<1>1. Typed'
  BY DEF PlanInv, Typed
<1>2. \A n : Unused(n) => Unused(n)'
  BY DEF Unused
<1>3. NamesAreUnused' /\ NamesAreDistinct'
  BY <1>2 DEF PlanInv, NamesAreUnused, NamesAreDistinct, Named, Holding
<1>4. AdmittedOnce' /\ Continued'
  BY DEF PlanInv, AdmittedOnce, Continued
<1> QED
  BY <1>1, <1>3, <1>4 DEF PlanInv
-----------------------------------------------------------------------------
LEMMA PlanInvStarts == SystemInit => PlanInv
<1> SUFFICES ASSUME SystemInit PROVE PlanInv
  OBVIOUS
<1>1. Root \in Runs /\ Root \in 0..issued /\ issued \in Runs
  BY Bounds DEF SystemInit, Init, Root, Runs
<1>2. Row("active", 0, TRUE) \in RowRecords /\ Row("active", 0, TRUE).status = "active"
  BY Bounds DEF Row, RowRecords
<1>3. Unmade \in CallRecords
  BY DEF Unmade, Made, CallRecords
<1>4. Typed
  BY <1>1, <1>2, <1>3 DEF SystemInit, Init, Typed
<1> QED
  BY <1>4 DEF SystemInit, Init, PlanInv, NamesAreUnused, NamesAreDistinct, AdmittedOnce, Continued, Named, Holding

LEMMA AskKeeps ==
  ASSUME PlanInv, NEW c \in Calls, NEW r \in DOMAIN rows, NEW k \in Keys, Ask(c, r, k),
         UNCHANGED requestVars
  PROVE  PlanInv'
<1>1. UNCHANGED <<rows, live, issued, launched, acceptance>>
  BY DEF Ask, requestVars
<1>2. rows[r] \in RowRecords /\ r \in 0..issued /\ r \in Runs /\ issued \in Nat
  BY Bounds DEF PlanInv, Typed, Runs, Root
<1>3. ASSUME NEW at \in {"waiting", "told", "refused"}, NEW run \in Runs \union {Nothing},
             call' = [call EXCEPT ![c] = Made(at, r, k, run)]
      PROVE  call' \in [Calls -> CallRecords]
  <2>1. Made(at, r, k, run) \in CallRecords
    BY <1>2 DEF Made, CallRecords
  <2> QED
    BY <1>3, <2>1 DEF PlanInv, Typed
<1>4. Wait(c, r, k) \/ Refuse(c, r, k) => call' \in [Calls -> CallRecords]
  BY <1>3 DEF Wait, Refuse
<1>5. CASE Join(c, r, k)
  BY <1>1, <1>4, <1>5, OnlyCalls DEF Join
<1>6. CASE Recall(c, r, k)
  <2>1. rows[r].receipt \in Receipts
    BY <1>2, <1>6 DEF Recall, RowRecords
  <2>2. Tell(c, r, k) => call' \in [Calls -> CallRecords]
    BY <1>3, <2>1 DEF Tell, Receipts
  <2> QED
    BY <1>1, <1>4, <1>6, <2>2, OnlyCalls DEF Recall
<1>7. CASE Admit(c, r, k)
  <2>1. CASE ~Eligible(rows[r])
    BY <1>1, <1>4, <1>7, <2>1, OnlyCalls DEF Admit
  <2>2. CASE Eligible(rows[r])
    <3> DEFINE entry == [key |-> k, run |-> Nothing, step |-> "reading", revision |-> rows[r].revision]
    <3>1. /\ r \notin DOMAIN flight /\ rows[r].receipt = Nothing /\ rows[r].revision < MaxContinuations
          /\ flight' = With(flight, r, entry) /\ call' \in [Calls -> CallRecords]
      BY <1>4, <1>7, <2>2 DEF Admit, Eligible
    <3>2. entry \in Entries /\ entry.step = "reading" /\ entry.run = Nothing /\ entry.revision = rows[r].revision
      BY <1>2 DEF Entries, RowRecords
    <3> HIDE DEF entry
    <3>3. /\ DOMAIN flight' = DOMAIN flight \union {r} /\ flight'[r] = entry
          /\ \A x \in DOMAIN flight : flight'[x] = flight[x]
          /\ flight' \in [DOMAIN flight' -> Entries]
      <4>1. DOMAIN flight' = DOMAIN flight \union {r} /\ flight'[r] = entry
        BY <3>1 DEF With
      <4>2. \A x \in DOMAIN flight : flight'[x] = flight[x]
        BY <3>1 DEF With
      <4>3. flight' \in [DOMAIN flight' -> Entries]
        BY <3>1, <3>2, WithTyped DEF PlanInv, Typed
      <4> QED
        BY <4>1, <4>2, <4>3
    <3>4. Typed'
      BY <1>1, <1>2, <3>1, <3>2, <3>3 DEF PlanInv, Typed
    <3>5. \A n : Unused(n) => Unused(n)'
      BY <1>1, <3>3 DEF Unused
    <3>6. \A x : Named(x)' => Named(x) /\ flight'[x] = flight[x]
      BY <3>2, <3>3 DEF Named
    <3>7. NamesAreUnused' /\ NamesAreDistinct'
      BY <1>1, <3>3, <3>5, <3>6 DEF PlanInv, NamesAreUnused, NamesAreDistinct, Named, Holding
    <3>8. \A l \in launched : l.source # r
      <4> SUFFICES ASSUME NEW l \in launched, l.source = r PROVE FALSE
        OBVIOUS
      <4>1. rows[r].receipt = [key |-> l.key, run |-> l.run]
        BY DEF PlanInv, Continued
      <4>2. l.key \in Keys /\ l.run \in Runs \ {Root}
        BY <1>2, Bounds DEF PlanInv, Typed, Runs, Root
      <4> QED
        BY <3>1, <4>1, <4>2, NoReceipt DEF Receipts
    <3>9. AdmittedOnce' /\ Continued'
      BY <1>1, <3>2, <3>3, <3>8 DEF PlanInv, AdmittedOnce, Continued
    <3> QED
      BY <3>4, <3>7, <3>9 DEF PlanInv
  <2> QED
    BY <2>1, <2>2
<1> QED
  BY <1>5, <1>6, <1>7 DEF Ask

(* A new identity is larger than all in use.                                *)
LEMMA NewName ==
  ASSUME PlanInv, Identify
  PROVE  /\ issued \in Nat /\ issued' = issued + 1 /\ issued' \in Runs /\ issued' \in 1..issued'
         /\ Unused(issued')
         /\ \A r : Named(r) => flight[r].run # issued'
         /\ \A q : Holding(q) => acceptance[q].run # issued'
<1>1. issued \in Nat /\ issued' = issued + 1 /\ issued' \in Runs
  BY Bounds DEF PlanInv, Typed, Identify, Runs, Root
<1>2. Unused(issued')
  BY <1>1 DEF PlanInv, Typed, Unused
<1>3. \A r : Named(r) => flight[r].run # issued'
  BY <1>1 DEF PlanInv, Typed, Named
<1>4. \A q : Holding(q) => acceptance[q].run # issued'
  BY <1>1 DEF PlanInv, Typed, Holding
<1> QED
  BY <1>1, <1>2, <1>3, <1>4

LEMMA ReadTeamKeeps ==
  ASSUME PlanInv, NEW r \in Runs, ReadTeam(r), UNCHANGED requestVars
  PROVE  PlanInv'
<1>1. UNCHANGED <<rows, live, launched, acceptance>> /\ r \in DOMAIN flight /\ flight[r].step = "reading"
  BY DEF ReadTeam, requestVars
<1>2. CASE Reject(r) /\ UNCHANGED issued
  BY <1>1, <1>2, RejectKeeps
<1>3. CASE Identify /\ flight' = [flight EXCEPT ![r].step = "committing", ![r].run = issued'] /\ UNCHANGED call
  <2> DEFINE entry == [flight[r] EXCEPT !.step = "committing", !.run = issued']
  <2>1. flight[r] \in Entries
    BY <1>1 DEF PlanInv, Typed
  <2>2. entry \in Entries /\ entry.step = "committing" /\ entry.run = issued' /\ entry.revision = flight[r].revision
    BY <1>3, <2>1, NewName DEF Entries
  <2>3. flight' = [flight EXCEPT ![r] = entry]
    BY <1>3
  <2> HIDE DEF entry
  <2>4. /\ DOMAIN flight' = DOMAIN flight /\ flight'[r] = entry
        /\ \A x \in DOMAIN flight : x # r => flight'[x] = flight[x]
        /\ flight' \in [DOMAIN flight' -> Entries]
    BY <1>1, <2>2, <2>3 DEF PlanInv, Typed
  <2>5. Typed'
    <3>1. issued \in Nat /\ issued' = issued + 1 /\ issued' \in Runs
      BY <1>3, NewName
    <3>2. \A x \in DOMAIN flight' :
            /\ flight'[x].revision < MaxContinuations
            /\ flight'[x].run \in IF flight'[x].step = "reading" THEN {Nothing} ELSE 1..issued'
      BY <1>1, <2>2, <2>4, <3>1 DEF PlanInv, Typed
    <3>3. /\ DOMAIN rows' \subseteq 0..issued' /\ DOMAIN flight' \subseteq 0..issued'
          /\ \A q \in DOMAIN acceptance' : acceptance'[q].step # "reading" => acceptance'[q].run \in 1..issued'
      BY <1>1, <2>4, <3>1 DEF PlanInv, Typed
    <3>4. launched' \subseteq [source : 0..issued', key : Keys, run : 1..issued']
      BY <1>1, <3>1 DEF PlanInv, Typed
    <3> QED
      BY <1>1, <1>3, <2>4, <3>1, <3>2, <3>3, <3>4 DEF PlanInv, Typed
  <2>6. \A n : Unused(n) => Unused(n)'
    BY <1>1, <2>4 DEF Unused
  <2>7. NamesAreUnused'
    BY <1>1, <1>3, <2>2, <2>4, <2>6, NewName DEF PlanInv, NamesAreUnused, Named
  <2>8. NamesAreDistinct'
    BY <1>1, <1>3, <2>2, <2>4, NewName DEF PlanInv, NamesAreDistinct, Named, Holding
  <2>9. AdmittedOnce'
    <3> SUFFICES ASSUME NEW x \in DOMAIN flight'
        PROVE /\ flight'[x].step # "running" => \A l \in launched : l.source # x
              /\ flight'[x].step = "launching" /\ x \in DOMAIN rows =>
                   rows[x].receipt = [key |-> flight'[x].key, run |-> flight'[x].run]
      BY <1>1 DEF AdmittedOnce
    <3>1. CASE x = r
      BY <1>1, <2>2, <2>4, <3>1 DEF PlanInv, AdmittedOnce
    <3>2. CASE x # r
      BY <2>4, <3>2 DEF PlanInv, AdmittedOnce
    <3> QED
      BY <3>1, <3>2
  <2>10. Continued'
    BY <1>1 DEF PlanInv, Continued
  <2> QED
    BY <2>5, <2>7, <2>8, <2>9, <2>10 DEF PlanInv
<1> QED
  BY <1>2, <1>3 DEF ReadTeam

(* A step of the entry of r that keeps its name: it was committing, or is    *)
(* launching under its receipt.                                             *)
LEMMA ReceiptKeeps ==
  ASSUME PlanInv, NEW r \in DOMAIN flight, flight[r].step = "committing",
         r \in DOMAIN rows, rows[r].receipt = Nothing, rows' = Receipted(r), Advance(r, "launching"),
         UNCHANGED <<live, issued, call, acceptance, launched>>
  PROVE  PlanInv'
<1> DEFINE receipt == [key |-> flight[r].key, run |-> flight[r].run]
           entry == [flight[r] EXCEPT !.step = "launching"]
<1>1. /\ flight[r] \in Entries /\ rows[r] \in RowRecords /\ flight[r].run \in Runs \ {Root}
      /\ receipt \in Receipts
  <2>1. flight[r] \in Entries /\ rows[r] \in RowRecords
    BY DEF PlanInv, Typed
  <2>2. flight[r].run \in Runs \ {Root}
    BY Bounds DEF PlanInv, Typed, Runs, Root
  <2> QED
    BY <2>1, <2>2 DEF Entries, Receipts
<1>2. /\ entry \in Entries /\ entry.step = "launching" /\ entry.run = flight[r].run
      /\ entry.key = flight[r].key /\ entry.revision = flight[r].revision
  BY <1>1 DEF Entries
<1>3. /\ DOMAIN flight' = DOMAIN flight /\ flight'[r] = entry
      /\ \A x \in DOMAIN flight : x # r => flight'[x] = flight[x]
      /\ flight' \in [DOMAIN flight' -> Entries]
  BY <1>2 DEF Advance, PlanInv, Typed
<1>4. [rows[r] EXCEPT !.receipt = receipt] \in RowRecords
      /\ [rows[r] EXCEPT !.receipt = receipt].receipt = receipt
      /\ [rows[r] EXCEPT !.receipt = receipt].status = rows[r].status
  BY <1>1 DEF RowRecords
<1>5. rows' = [rows EXCEPT ![r] = [rows[r] EXCEPT !.receipt = receipt]]
  BY DEF Receipted
<1> HIDE DEF receipt, entry
<1>6. /\ DOMAIN rows' = DOMAIN rows /\ rows' \in [DOMAIN rows' -> RowRecords]
      /\ \A x \in DOMAIN rows : x # r => rows'[x] = rows[x]
      /\ rows'[r].receipt = receipt /\ \A x \in DOMAIN rows : rows'[x].status = rows[x].status
  BY <1>4, <1>5 DEF PlanInv, Typed
<1>7. Typed'
  <2>1. live' \subseteq {x \in DOMAIN rows' : rows'[x].status = "active"}
    BY <1>6 DEF PlanInv, Typed
  <2>2. \A x \in DOMAIN flight' :
          /\ flight'[x].revision < MaxContinuations
          /\ flight'[x].run \in IF flight'[x].step = "reading" THEN {Nothing} ELSE 1..issued
    BY <1>2, <1>3 DEF PlanInv, Typed
  <2> QED
    BY <1>3, <1>6, <2>1, <2>2 DEF PlanInv, Typed
<1>8. \A n : Unused(n) => Unused(n)'
  BY <1>3, <1>6 DEF Unused
<1>9. \A x : Named(x)' => Named(x) /\ flight'[x].run = flight[x].run
  BY <1>2, <1>3 DEF Named
<1>10. NamesAreUnused' /\ NamesAreDistinct'
  BY <1>3, <1>8, <1>9 DEF PlanInv, NamesAreUnused, NamesAreDistinct, Holding
<1>11. AdmittedOnce'
  BY <1>2, <1>3, <1>6 DEF PlanInv, AdmittedOnce, receipt
<1>12. Continued'
  BY <1>6 DEF PlanInv, Continued, AdmittedOnce
<1> QED
  BY <1>7, <1>10, <1>11, <1>12 DEF PlanInv

LEMMA CommitKeeps ==
  ASSUME PlanInv, NEW r \in Runs, CommitReceipt(r) \/ CommitFails(r), UNCHANGED requestVars
  PROVE  PlanInv'
<1>1. UNCHANGED <<live, issued, launched, acceptance>> /\ r \in DOMAIN flight /\ flight[r].step = "committing"
  BY DEF CommitReceipt, CommitFails, requestVars
<1>2. CASE Reject(r) /\ UNCHANGED rows
  BY <1>1, <1>2, RejectKeeps
<1>3. CASE /\ r \in DOMAIN rows /\ rows[r].receipt = Nothing
           /\ rows' = Receipted(r) /\ Advance(r, "launching") /\ UNCHANGED call
  BY <1>1, <1>3, ReceiptKeeps
<1> QED
  BY <1>2, <1>3 DEF CommitReceipt, CommitFails

(* A row for an unused identity n that nobody else holds.                    *)
LEMMA RowAdded ==
  ASSUME PlanInv, NEW n, Unused(n), n \in 1..issued, NEW row \in RowRecords, row.status = "active",
         rows' = With(rows, n, row), live' \in {live, live \union {n}}
  PROVE  /\ DOMAIN rows' = DOMAIN rows \union {n} /\ DOMAIN rows' \subseteq 0..issued
         /\ rows' \in [DOMAIN rows' -> RowRecords]
         /\ \A x \in DOMAIN rows : rows'[x] = rows[x]
         /\ live' \subseteq {r \in DOMAIN rows' : rows'[r].status = "active"}
         /\ \A m : Unused(m) /\ m # n => m \notin DOMAIN rows'
<1>1. DOMAIN rows' = DOMAIN rows \union {n} /\ rows'[n] = row /\ \A x \in DOMAIN rows : rows'[x] = rows[x]
  BY DEF With, Unused
<1>2. rows' \in [DOMAIN rows' -> RowRecords]
  BY WithTyped DEF PlanInv, Typed
<1>3. issued \in Nat /\ DOMAIN rows \subseteq 0..issued /\ n \notin DOMAIN rows
  BY Bounds DEF PlanInv, Typed, Runs, Root, Unused
<1>4. live' \subseteq {r \in DOMAIN rows' : rows'[r].status = "active"}
  BY <1>1, <1>3 DEF PlanInv, Typed
<1> QED
  BY <1>1, <1>2, <1>3, <1>4 DEF Unused

LEMMA LaunchKeeps ==
  ASSUME PlanInv, NEW r \in Runs, Launch(r), UNCHANGED requestVars
  PROVE  PlanInv'
<1>1. UNCHANGED <<issued, acceptance>> /\ r \in DOMAIN flight /\ flight[r].step = "launching"
  BY DEF Launch, requestVars
<1>2. CASE Reject(r) /\ UNCHANGED <<rows, live, launched>>
  BY <1>1, <1>2, RejectKeeps
<1>3. CASE ~(Reject(r) /\ UNCHANGED <<rows, live, launched>>)
  <2> DEFINE n == flight[r].run
             l == [source |-> r, key |-> flight[r].key, run |-> n]
             entry == [flight[r] EXCEPT !.step = "running"]
             row == Row("active", flight[r].revision + 1, TRUE)
  <2>1. /\ rows' = With(rows, n, row) /\ live' = live \union {n}
        /\ launched' = launched \union {l} /\ Advance(r, "running") /\ UNCHANGED call
    BY <1>3 DEF Launch
  <2>2. flight[r] \in Entries /\ n \in 1..issued /\ issued \in Nat /\ r \in 0..issued /\ Unused(n) /\ Named(r)
    <3>1. flight[r] \in Entries /\ n \in 1..issued /\ r \in 0..issued
      BY <1>1 DEF PlanInv, Typed
    <3>2. issued \in Nat
      BY Bounds DEF PlanInv, Typed, Runs, Root
    <3>3. Unused(n) /\ Named(r)
      BY <1>1 DEF PlanInv, NamesAreUnused, Named
    <3> QED
      BY <3>1, <3>2, <3>3
  <2>3. row \in RowRecords /\ row.status = "active"
    <3>1. flight[r].revision + 1 \in 0..MaxContinuations
      BY <1>1, <2>2, Bounds DEF PlanInv, Typed, Entries
    <3> QED
      BY <3>1 DEF Row, RowRecords
  <2>4. entry \in Entries /\ entry.step = "running" /\ entry.run = n /\ entry.revision = flight[r].revision
    BY <2>2 DEF Entries
  <2>5. l \in [source : 0..issued, key : Keys, run : 1..issued]
        /\ l.source = r /\ l.key = flight[r].key /\ l.run = n
    BY <2>2 DEF Entries
  <2>6. flight' = [flight EXCEPT ![r] = entry]
    BY <2>1 DEF Advance
  <2> HIDE DEF l, entry, row, n
  <2>7. /\ DOMAIN flight' = DOMAIN flight /\ flight'[r] = entry
        /\ \A x \in DOMAIN flight : x # r => flight'[x] = flight[x]
        /\ flight' \in [DOMAIN flight' -> Entries]
    BY <1>1, <2>4, <2>6 DEF PlanInv, Typed
  <2>8. /\ DOMAIN rows' = DOMAIN rows \union {n} /\ DOMAIN rows' \subseteq 0..issued
        /\ rows' \in [DOMAIN rows' -> RowRecords]
        /\ \A x \in DOMAIN rows : rows'[x] = rows[x]
        /\ live' \subseteq {x \in DOMAIN rows' : rows'[x].status = "active"}
        /\ \A m : Unused(m) /\ m # n => m \notin DOMAIN rows'
    BY <2>1, <2>2, <2>3, RowAdded
  <2>9. Typed'
    <3>1. \A x \in DOMAIN flight' :
            /\ flight'[x].revision < MaxContinuations
            /\ flight'[x].run \in IF flight'[x].step = "reading" THEN {Nothing} ELSE 1..issued
      BY <1>1, <2>2, <2>4, <2>7 DEF PlanInv, Typed
    <3>2. launched' \subseteq [source : 0..issued, key : Keys, run : 1..issued]
      BY <2>1, <2>5 DEF PlanInv, Typed
    <3> QED
      BY <1>1, <2>1, <2>7, <2>8, <3>1, <3>2 DEF PlanInv, Typed
  <2>10. \A m : Unused(m) /\ m # n => Unused(m)'
    <3> SUFFICES ASSUME NEW m, Unused(m), m # n PROVE Unused(m)'
      OBVIOUS
    <3>1. m \notin DOMAIN rows' /\ m \notin DOMAIN flight' /\ m # r
      BY <1>1, <2>7, <2>8 DEF Unused
    <3> QED
      BY <2>1, <2>5, <3>1 DEF Unused
  <2>11. \A x : Named(x)' => x # r /\ Named(x) /\ flight'[x] = flight[x] /\ flight'[x].run # n
    BY <1>1, <2>2, <2>4, <2>7 DEF Named, PlanInv, NamesAreDistinct, n
  <2>12. \A q : Holding(q) => acceptance[q].run # n
    BY <1>1, <2>2 DEF Holding, PlanInv, NamesAreDistinct, n
  <2>13. NamesAreUnused'
    <3>1. \A x \in DOMAIN flight' : Named(x)' => Unused(flight[x].run)'
      BY <2>7, <2>10, <2>11 DEF PlanInv, NamesAreUnused
    <3>2. \A q \in DOMAIN acceptance' : acceptance'[q].step = "putting" => Unused(acceptance[q].run)'
      BY <1>1, <2>10, <2>12 DEF PlanInv, NamesAreUnused, Holding
    <3>3. \A q \in DOMAIN acceptance' : acceptance'[q].step = "withdrawing" => acceptance'[q].run \notin live'
      BY <1>1, <2>1, <2>12 DEF PlanInv, NamesAreUnused, Holding
    <3> QED
      BY <3>1, <3>2, <3>3 DEF NamesAreUnused
  <2>14. NamesAreDistinct'
    BY <1>1, <2>7, <2>11 DEF PlanInv, NamesAreDistinct, Holding
  <2>15. \A m \in launched : m.source # r /\ m.source # n /\ m.run # n
    BY <1>1, <2>2 DEF PlanInv, AdmittedOnce, Unused
  <2>16. AdmittedOnce'
    <3> SUFFICES ASSUME NEW x \in DOMAIN flight'
        PROVE /\ flight'[x].step # "running" => \A m \in launched' : m.source # x
              /\ flight'[x].step = "launching" /\ x \in DOMAIN rows' =>
                   rows'[x].receipt = [key |-> flight'[x].key, run |-> flight'[x].run]
      BY DEF AdmittedOnce
    <3>1. CASE x = r
      BY <2>4, <2>7, <3>1
    <3>2. CASE x # r
      <4>1. flight'[x] = flight[x] /\ x # n
        BY <2>2, <2>7, <3>2 DEF Unused
      <4> QED
        BY <2>1, <2>5, <2>7, <2>8, <3>2, <4>1 DEF PlanInv, AdmittedOnce
    <3> QED
      BY <3>1, <3>2
  <2>17. Continued'
    <3>1. \A m \in launched' : m.source \in DOMAIN rows' => rows'[m.source].receipt = [key |-> m.key, run |-> m.run]
      <4> SUFFICES ASSUME NEW m \in launched', m.source \in DOMAIN rows'
          PROVE rows'[m.source].receipt = [key |-> m.key, run |-> m.run]
        OBVIOUS
      <4>1. CASE m = l
        <5>1. r # n /\ r \in DOMAIN rows
          BY <1>1, <2>2, <2>5, <2>8, <4>1 DEF Unused
        <5>2. rows'[r].receipt = [key |-> flight[r].key, run |-> flight[r].run]
          BY <1>1, <2>8, <5>1 DEF PlanInv, AdmittedOnce
        <5> QED
          BY <2>5, <4>1, <5>2 DEF n
      <4>2. CASE m # l
        <5>1. m \in launched /\ m.source \in DOMAIN rows
          BY <2>1, <2>8, <2>15, <4>2
        <5> QED
          BY <2>8, <5>1 DEF PlanInv, Continued
      <4> QED
        BY <4>1, <4>2
    <3>2. \A m, k \in launched' : m.source = k.source \/ m.run = k.run => m = k
      BY <2>1, <2>5, <2>15 DEF PlanInv, Continued
    <3> QED
      BY <3>1, <3>2 DEF Continued
  <2> QED
    BY <2>9, <2>13, <2>14, <2>16, <2>17 DEF PlanInv
<1> QED
  BY <1>2, <1>3

LEMMA FinishKeeps ==
  ASSUME PlanInv, NEW r \in Runs, Finish(r), UNCHANGED requestVars
  PROVE  PlanInv'
<1>1. UNCHANGED <<rows, live, issued, launched, acceptance>> /\ r \in DOMAIN flight
  BY DEF Finish, requestVars
<1>2. CASE flight[r].run \in DOMAIN rows /\ Resolve(r, "told", flight[r].run)
  <2>1. flight[r].run \in Runs \union {Nothing}
    BY <1>1 DEF PlanInv, Typed, Entries
  <2> QED
    BY <1>1, <1>2, <2>1, ResolveTyped, EntryLeaves
<1> QED
  BY <1>1, <1>2, RejectKeeps DEF Finish

LEMMA SettleKeeps ==
  ASSUME PlanInv, NEW r \in Runs, Settle(r), UNCHANGED requestVars
  PROVE  PlanInv'
<1>1. PICK s \in Settled : rows' = [rows EXCEPT ![r].status = s]
  BY DEF Settle
<1>2. /\ UNCHANGED <<issued, flight, call, launched, acceptance>> /\ r \in DOMAIN rows /\ live' = live \ {r}
      /\ call' \in [Calls -> CallRecords]
  BY DEF Settle, requestVars, PlanInv, Typed
<1>3. rows[r] \in RowRecords
  BY <1>2 DEF PlanInv, Typed
<1>4. [rows[r] EXCEPT !.status = s] \in RowRecords /\ [rows[r] EXCEPT !.status = s].receipt = rows[r].receipt
  BY <1>3 DEF RowRecords
<1>5. rows' = [rows EXCEPT ![r] = [rows[r] EXCEPT !.status = s]]
  BY <1>1
<1>6. /\ DOMAIN rows' = DOMAIN rows /\ rows' \in [DOMAIN rows' -> RowRecords]
      /\ \A x \in DOMAIN rows : x # r => rows'[x] = rows[x]
      /\ \A x \in DOMAIN rows : rows'[x].receipt = rows[x].receipt
  BY <1>2, <1>4, <1>5 DEF PlanInv, Typed
<1>7. \A x \in live' : x \in DOMAIN rows' /\ rows'[x].status = "active"
  BY <1>2, <1>6 DEF PlanInv, Typed
<1> QED
  BY <1>2, <1>6, <1>7, StatusChanges

LEMMA DeleteKeeps ==
  ASSUME PlanInv, NEW r \in Runs, Delete(r), UNCHANGED requestVars
  PROVE  PlanInv'
<1>1. /\ UNCHANGED <<issued, live, flight, call, launched, acceptance>> /\ rows' = Less(rows, r)
      /\ call' \in [Calls -> CallRecords]
  BY DEF Delete, requestVars, PlanInv, Typed
<1>2. /\ DOMAIN rows' = DOMAIN rows \ {r} /\ \A x \in DOMAIN rows' : rows'[x] = rows[x]
      /\ rows' \in [DOMAIN rows' -> RowRecords]
  BY <1>1, LessEntry, LessTyped DEF PlanInv, Typed
<1>3. r \notin live
  BY DEF Delete, Settled, PlanInv, Typed
<1>4. \A x \in live' : x \in DOMAIN rows' /\ rows'[x].status = "active"
  BY <1>1, <1>2, <1>3 DEF PlanInv, Typed
<1> QED
  BY <1>1, <1>2, <1>4, StatusChanges

LEMMA RestartKeeps ==
  ASSUME PlanInv, Restart
  PROVE  PlanInv'
<1>1. /\ live' = {} /\ DOMAIN flight' = {} /\ DOMAIN acceptance' = {} /\ DOMAIN rows' = DOMAIN rows
      /\ UNCHANGED <<issued, launched>>
      /\ flight' \in [DOMAIN flight' -> Entries] /\ acceptance' \in [DOMAIN acceptance' -> Acceptances]
  BY DEF Restart, Crash
<1>2. call' \in [Calls -> CallRecords]
  <2>1. \A c \in Calls : call[c] \in CallRecords
    BY DEF PlanInv, Typed
  <2>2. \A c \in Calls : [call[c] EXCEPT !.at = "refused"] \in CallRecords
    BY <2>1 DEF CallRecords
  <2> QED
    BY <2>1, <2>2 DEF Restart, Crash
<1>3. rows' \in [DOMAIN rows' -> RowRecords] /\ \A x \in DOMAIN rows : rows'[x].receipt = rows[x].receipt
  <2>1. \A x \in DOMAIN rows : rows[x] \in RowRecords
    BY DEF PlanInv, Typed
  <2>2. \A x \in DOMAIN rows : [rows[x] EXCEPT !.status = "final"] \in RowRecords
                               /\ [rows[x] EXCEPT !.status = "final"].receipt = rows[x].receipt
    BY <2>1 DEF RowRecords, Settled
  <2> QED
    BY <2>1, <2>2 DEF Restart, Crash
<1>4. Typed'
  BY <1>1, <1>2, <1>3 DEF PlanInv, Typed
<1>5. NamesAreUnused' /\ NamesAreDistinct' /\ AdmittedOnce'
  BY <1>1 DEF NamesAreUnused, NamesAreDistinct, AdmittedOnce
<1>6. Continued'
  BY <1>1, <1>3 DEF PlanInv, Continued
<1> QED
  BY <1>4, <1>5, <1>6 DEF PlanInv
-----------------------------------------------------------------------------
LEMMA AskForRunKeeps ==
  ASSUME PlanInv, NEW c \in Calls, NEW q \in Requests, AskForRun(c, q)
  PROVE  PlanInv'
<1>1. UNCHANGED <<rows, live, issued, flight, launched>>
  BY DEF AskForRun
<1>2. ASSUME NEW at \in {"waiting", "told", "refused"}, NEW run \in Runs \union {Nothing},
             Answer(c, at, q, run)
      PROVE  call' \in [Calls -> CallRecords]
  <2>1. Made(at, Nothing, q, run) \in CallRecords
    BY DEF Made, CallRecords
  <2> QED
    BY <1>2, <2>1 DEF Answer, PlanInv, Typed
<1>3. CASE RefuseRetry(c, q)
  BY <1>1, <1>2, <1>3, OnlyCalls DEF RefuseRetry
<1>4. CASE FindAccepted(c, q)
  <2>1. PICK r \in Accepted(q) : Answer(c, "told", q, r)
    BY <1>4 DEF FindAccepted
  <2>2. r \in Runs
    BY Bounds DEF Accepted, PlanInv, Typed, Runs, Root
  <2> QED
    BY <1>1, <1>2, <1>4, <2>1, <2>2, OnlyCalls DEF FindAccepted
<1>5. CASE JoinAcceptance(c, q)
  BY <1>1, <1>2, <1>5, OnlyCalls DEF JoinAcceptance
<1>6. CASE BeginAcceptance(c, q)
  <2> DEFINE begun == [step |-> "reading", run |-> Nothing]
  <2>1. q \notin DOMAIN acceptance /\ acceptance' = With(acceptance, q, begun) /\ call' \in [Calls -> CallRecords]
    BY <1>2, <1>6 DEF BeginAcceptance
  <2>2. begun \in Acceptances /\ begun.step = "reading"
    BY DEF Acceptances
  <2> HIDE DEF begun
  <2>3. /\ DOMAIN acceptance' = DOMAIN acceptance \union {q} /\ acceptance'[q] = begun
        /\ \A x \in DOMAIN acceptance : acceptance'[x] = acceptance[x]
    BY <2>1 DEF With
  <2>4. acceptance' \in [DOMAIN acceptance' -> Acceptances]
    BY <2>1, <2>2, WithTyped DEF PlanInv, Typed
  <2>5. Typed'
    BY <1>1, <2>1, <2>2, <2>3, <2>4 DEF PlanInv, Typed
  <2>6. \A n : Unused(n) => Unused(n)'
    BY <1>1 DEF Unused
  <2>7. \A x : Holding(x)' => Holding(x) /\ acceptance'[x] = acceptance[x]
    BY <2>2, <2>3 DEF Holding
  <2>8. NamesAreUnused'
    BY <1>1, <2>2, <2>3, <2>6 DEF PlanInv, NamesAreUnused, Named
  <2>9. NamesAreDistinct'
    <3>1. \A x : Named(x)' <=> Named(x)
      BY <1>1 DEF Named
    <3>2. \A x : Holding(x) => x \in DOMAIN acceptance
      BY DEF Holding
    <3> QED
      BY <1>1, <2>7, <3>1, <3>2 DEF PlanInv, NamesAreDistinct
  <2>10. AdmittedOnce' /\ Continued'
    BY <1>1 DEF PlanInv, AdmittedOnce, Continued
  <2> QED
    BY <2>5, <2>8, <2>9, <2>10 DEF PlanInv
<1> QED
  BY <1>3, <1>4, <1>5, <1>6 DEF AskForRun

LEMMA ReadSquadKeeps ==
  ASSUME PlanInv, NEW q \in Requests, ReadSquad(q)
  PROVE  PlanInv'
<1>1. UNCHANGED <<rows, live, flight, launched>> /\ q \in DOMAIN acceptance /\ acceptance[q].step = "reading"
  BY DEF ReadSquad, At
<1>2. CASE Settles(q, "refused", Nothing) /\ UNCHANGED issued
  BY <1>1, <1>2, AcceptanceLeaves
<1>3. CASE /\ Identify /\ acceptance' = [acceptance EXCEPT ![q] = [step |-> "putting", run |-> issued']]
           /\ UNCHANGED call
  <2> DEFINE accepted == [step |-> "putting", run |-> issued']
  <2>1. accepted \in Acceptances /\ accepted.step = "putting" /\ accepted.run = issued'
    BY <1>3, NewName DEF Acceptances
  <2>2. acceptance' = [acceptance EXCEPT ![q] = accepted]
    BY <1>3
  <2> HIDE DEF accepted
  <2>3. /\ DOMAIN acceptance' = DOMAIN acceptance /\ acceptance'[q] = accepted
        /\ \A x \in DOMAIN acceptance : x # q => acceptance'[x] = acceptance[x]
        /\ acceptance' \in [DOMAIN acceptance' -> Acceptances]
    BY <1>1, <2>1, <2>2 DEF PlanInv, Typed
  <2>4. issued \in Nat /\ issued' = issued + 1 /\ issued' \in Runs
    BY <1>3, NewName
  <2>5. Typed'
    <3>1. /\ DOMAIN rows' \subseteq 0..issued' /\ DOMAIN flight' \subseteq 0..issued'
          /\ \A x \in DOMAIN acceptance' : acceptance'[x].step # "reading" => acceptance'[x].run \in 1..issued'
      BY <1>1, <2>1, <2>3, <2>4 DEF PlanInv, Typed
    <3>2. \A x \in DOMAIN flight' :
            /\ flight'[x].revision < MaxContinuations
            /\ flight'[x].run \in IF flight'[x].step = "reading" THEN {Nothing} ELSE 1..issued'
      BY <1>1, <2>4 DEF PlanInv, Typed
    <3>3. launched' \subseteq [source : 0..issued', key : Keys, run : 1..issued']
      BY <1>1, <2>4 DEF PlanInv, Typed
    <3> QED
      BY <1>1, <1>3, <2>3, <2>4, <3>1, <3>2, <3>3 DEF PlanInv, Typed
  <2>6. \A n : Unused(n) => Unused(n)'
    BY <1>1 DEF Unused
  <2>7. NamesAreUnused'
    BY <1>1, <1>3, <2>1, <2>3, <2>6, NewName DEF PlanInv, NamesAreUnused, Named
  <2>8. NamesAreDistinct'
    BY <1>1, <1>3, <2>1, <2>3, NewName DEF PlanInv, NamesAreDistinct, Named, Holding
  <2>9. AdmittedOnce' /\ Continued'
    BY <1>1 DEF PlanInv, AdmittedOnce, Continued
  <2> QED
    BY <2>5, <2>7, <2>8, <2>9 DEF PlanInv
<1> QED
  BY <1>2, <1>3 DEF ReadSquad

(* The row of a background run is stored and its acceptance settles, or is   *)
(* to be withdrawn.                                                         *)
LEMMA StoreKeeps ==
  ASSUME PlanInv, NEW q \in Requests, At(q, "putting"), Store(q), NEW n \in Nat, HandOver(q, n),
         UNCHANGED <<issued, flight, launched>>
  PROVE  PlanInv'
<1> DEFINE r == acceptance[q].run
           row == Row("active", 0, FALSE)
<1>1. q \in DOMAIN acceptance /\ acceptance[q].step = "putting" /\ rows' = With(rows, r, row)
  BY DEF At, Store
<1>2. r \in 1..issued /\ Unused(r) /\ Holding(q) /\ r \in Runs \union {Nothing} /\ acceptance[q] \in Acceptances
  BY <1>1 DEF PlanInv, Typed, NamesAreUnused, Holding, Acceptances
<1>3. row \in RowRecords /\ row.status = "active"
  BY Bounds DEF Row, RowRecords
<1>4. /\ live' \in {live, live \union {r}} /\ call' \in [Calls -> CallRecords]
      /\ acceptance' \in [DOMAIN acceptance' -> Acceptances] /\ DOMAIN acceptance' \subseteq DOMAIN acceptance
      /\ \A x \in DOMAIN acceptance' : x # q => acceptance'[x] = acceptance[x]
      /\ q \in DOMAIN acceptance' => acceptance'[q].step = "withdrawing" /\ acceptance'[q].run = r /\ live' = live
  <2>1. CASE live' = live \union {r} /\ Settles(q, "told", r)
    BY <1>2, <2>1, SettlesTyped
  <2>2. CASE acceptance' = [acceptance EXCEPT ![q].step = "withdrawing"] /\ UNCHANGED <<live, call>>
    <3>1. /\ [acceptance[q] EXCEPT !.step = "withdrawing"] \in Acceptances
          /\ [acceptance[q] EXCEPT !.step = "withdrawing"].run = r
          /\ [acceptance[q] EXCEPT !.step = "withdrawing"].step = "withdrawing"
      BY <1>2 DEF Acceptances
    <3> QED
      BY <1>1, <2>2, <3>1 DEF PlanInv, Typed
  <2> QED
    BY <2>1, <2>2 DEF HandOver
<1> HIDE DEF r, row
<1>5. /\ DOMAIN rows' = DOMAIN rows \union {r} /\ DOMAIN rows' \subseteq 0..issued
      /\ rows' \in [DOMAIN rows' -> RowRecords]
      /\ \A x \in DOMAIN rows : rows'[x] = rows[x]
      /\ live' \subseteq {x \in DOMAIN rows' : rows'[x].status = "active"}
      /\ \A m : Unused(m) /\ m # r => m \notin DOMAIN rows'
  BY <1>1, <1>2, <1>3, <1>4, RowAdded
<1>6. Typed'
  <2>1. \A x \in DOMAIN acceptance' : acceptance'[x].step # "reading" => acceptance'[x].run \in 1..issued
    BY <1>2, <1>4 DEF PlanInv, Typed
  <2> QED
    BY <1>4, <1>5, <2>1 DEF PlanInv, Typed
<1>7. \A m : Unused(m) /\ m # r => Unused(m)'
  BY <1>5 DEF Unused
<1>8. \A x : Named(x) => flight[x].run # r
  BY <1>1, <1>2 DEF PlanInv, NamesAreDistinct, Named, r
<1>9. \A x : Holding(x) /\ x # q => acceptance[x].run # r
  BY <1>1, <1>2 DEF PlanInv, NamesAreDistinct, Holding, r
<1>10. NamesAreUnused'
  <2>1. \A x \in DOMAIN flight' : Named(x)' => Unused(flight[x].run)'
    BY <1>7, <1>8 DEF PlanInv, NamesAreUnused, Named
  <2>2. \A x \in DOMAIN acceptance' : acceptance'[x].step = "putting" => Unused(acceptance[x].run)'
    <3> SUFFICES ASSUME NEW x \in DOMAIN acceptance', acceptance'[x].step = "putting"
                 PROVE  Unused(acceptance[x].run)'
      OBVIOUS
    <3>1. x # q /\ acceptance'[x] = acceptance[x] /\ Holding(x)
      BY <1>4 DEF Holding
    <3>2. Unused(acceptance[x].run) /\ acceptance[x].run # r
      BY <1>4, <1>9, <3>1 DEF PlanInv, NamesAreUnused
    <3>3. acceptance'[x].run = acceptance[x].run
      BY <3>1
    <3> QED
      BY <1>7, <3>2, <3>3
  <2>3. \A x \in DOMAIN acceptance' : acceptance'[x].step = "withdrawing" => acceptance'[x].run \notin live'
    <3>1. r \notin live
      BY <1>2 DEF PlanInv, Typed, Unused
    <3> QED
      BY <1>4, <1>9, <3>1 DEF PlanInv, NamesAreUnused, Holding
  <2> QED
    BY <2>1, <2>2, <2>3 DEF NamesAreUnused
<1>11. NamesAreDistinct'
  <2>1. \A x : Holding(x)' => Holding(x) /\ acceptance'[x].run = acceptance[x].run
    BY <1>1, <1>4 DEF Holding, r
  <2> QED
    BY <1>4, <2>1 DEF PlanInv, NamesAreDistinct, Named
<1>12. AdmittedOnce'
  BY <1>2, <1>5 DEF PlanInv, AdmittedOnce, Unused
<1>13. Continued'
  BY <1>2, <1>5 DEF PlanInv, Continued, Unused
<1> QED
  BY <1>6, <1>10, <1>11, <1>12, <1>13 DEF PlanInv

LEMMA PutKeeps ==
  ASSUME PlanInv, NEW q \in Requests, Put(q) \/ PutFails(q), faults \in Nat
  PROVE  PlanInv'
<1>1. UNCHANGED <<issued, flight, launched>> /\ At(q, "putting") /\ faults + 1 \in Nat
  BY DEF Put, PutFails
<1>2. CASE Settles(q, "refused", Nothing) /\ UNCHANGED <<rows, live>>
  BY <1>1, <1>2, AcceptanceLeaves
<1>3. CASE Store(q) /\ (HandOver(q, faults) \/ HandOver(q, faults + 1))
  BY <1>1, <1>3, StoreKeeps
<1> QED
  BY <1>2, <1>3 DEF Put, PutFails

LEMMA WithdrawKeeps ==
  ASSUME PlanInv, NEW q \in Requests, Withdraw(q)
  PROVE  PlanInv'
<1> DEFINE r == acceptance[q].run
<1>1. /\ UNCHANGED <<live, issued, flight, launched>> /\ Settles(q, "refused", Nothing)
      /\ q \in DOMAIN acceptance /\ acceptance[q].step = "withdrawing"
      /\ rows' = [rows EXCEPT ![r].status = "final"] \/ rows' = rows
  BY DEF Withdraw, At
<1>2. r \notin live
  BY <1>1 DEF PlanInv, NamesAreUnused
<1>3. /\ DOMAIN acceptance' = DOMAIN acceptance \ {q}
      /\ \A x \in DOMAIN acceptance' : acceptance'[x] = acceptance[x]
      /\ acceptance' \in [DOMAIN acceptance' -> Acceptances] /\ call' \in [Calls -> CallRecords]
  BY <1>1, SettlesTyped
<1> HIDE DEF r
<1>4. /\ DOMAIN rows' = DOMAIN rows /\ rows' \in [DOMAIN rows' -> RowRecords]
      /\ \A x \in DOMAIN rows : x # r => rows'[x] = rows[x]
      /\ \A x \in DOMAIN rows : rows'[x].receipt = rows[x].receipt
  <2>1. \A x \in DOMAIN rows : rows[x] \in RowRecords
    BY DEF PlanInv, Typed
  <2>2. \A x \in DOMAIN rows : [rows[x] EXCEPT !.status = "final"] \in RowRecords
                               /\ [rows[x] EXCEPT !.status = "final"].receipt = rows[x].receipt
    BY <2>1 DEF RowRecords, Settled
  <2> QED
    BY <1>1, <2>1, <2>2 DEF PlanInv, Typed
<1>5. Typed'
  <2>1. live' \subseteq {x \in DOMAIN rows' : rows'[x].status = "active"}
    BY <1>1, <1>2, <1>4 DEF PlanInv, Typed
  <2> QED
    BY <1>1, <1>3, <1>4, <2>1 DEF PlanInv, Typed
<1>6. \A n : Unused(n) => Unused(n)'
  BY <1>1, <1>4 DEF Unused
<1>7. NamesAreUnused' /\ NamesAreDistinct'
  BY <1>1, <1>3, <1>6 DEF PlanInv, NamesAreUnused, NamesAreDistinct, Named, Holding
<1>8. AdmittedOnce' /\ Continued'
  BY <1>1, <1>4 DEF PlanInv, AdmittedOnce, Continued
<1> QED
  BY <1>5, <1>7, <1>8 DEF PlanInv
-----------------------------------------------------------------------------
LEMMA Untouched == ASSUME PlanInv, UNCHANGED allVars PROVE PlanInv'
<1>1. UNCHANGED <<rows, live, issued, flight, acceptance, launched, call>> /\ call' \in [Calls -> CallRecords]
  BY DEF allVars, vars, requestVars, PlanInv, Typed
<1> QED
  BY <1>1, OnlyCalls

FaultsCounted == faults \in Nat

LEMMA FaultsAreCounted == SystemSpec => []FaultsCounted
<1>1. SystemInit => FaultsCounted
  BY DEF SystemInit, Init, FaultsCounted
<1>2. FaultsCounted /\ [SystemNext]_allVars => FaultsCounted'
  <2> SUFFICES ASSUME FaultsCounted, [SystemNext]_allVars PROVE faults' \in {faults, faults + 1, faults + 1 + 1}
    BY DEF FaultsCounted
  <2> QED
    BY DEF SystemNext, Step, Ask, Proceed, ReadTeam, CommitReceipt, Launch, Finish, Settle, CommitFails, Delete,
           AskForRun, Accepting, ReadSquad, Put, HandOver, Withdraw, PutFails, Restart, Crash, allVars, vars
<1> QED
  BY <1>1, <1>2, PTL DEF SystemSpec

LEMMA PlanInvKept == PlanInv /\ FaultsCounted /\ [SystemNext]_allVars => PlanInv'
<1> SUFFICES ASSUME PlanInv, FaultsCounted, [SystemNext]_allVars
             PROVE  PlanInv'
  OBVIOUS
<1>1. CASE Step /\ UNCHANGED requestVars
  <2>1. ASSUME NEW c \in Calls, NEW r \in DOMAIN rows, NEW k \in Keys, Ask(c, r, k) PROVE PlanInv'
    BY <1>1, <2>1, AskKeeps
  <2>2. ASSUME NEW r \in Runs, Proceed(r) PROVE PlanInv'
    BY <1>1, <2>2, ReadTeamKeeps, CommitKeeps, LaunchKeeps, FinishKeeps, SettleKeeps DEF Proceed
  <2>3. ASSUME NEW r \in Runs, CommitFails(r) \/ Delete(r) PROVE PlanInv'
    BY <1>1, <2>3, CommitKeeps, DeleteKeeps
  <2> QED
    BY <1>1, <2>1, <2>2, <2>3 DEF Step
<1>2. ASSUME NEW c \in Calls, NEW q \in Requests, AskForRun(c, q) PROVE PlanInv'
  BY <1>2, AskForRunKeeps
<1>3. ASSUME NEW q \in Requests, Accepting(q) \/ PutFails(q) PROVE PlanInv'
  BY <1>3, ReadSquadKeeps, PutKeeps, WithdrawKeeps DEF Accepting, FaultsCounted
<1>4. CASE Restart
  BY <1>4, RestartKeeps
<1>5. CASE UNCHANGED allVars
  BY <1>5, Untouched
<1> QED
  BY <1>1, <1>2, <1>3, <1>4, <1>5 DEF SystemNext

LEMMA PlanInvImplies == PlanInv => OneSuccessor
<1> SUFFICES ASSUME PlanInv PROVE OneSuccessor
  OBVIOUS
<1>1. issued \in Nat /\ 0..issued \subseteq Runs /\ 1..issued \subseteq Runs \ {Root}
  BY Bounds DEF PlanInv, Typed, Runs, Root
<1>2. \A r \in DOMAIN rows : /\ rows[r].status \in Settled \union {"active"}
                             /\ rows[r].revision \in 0..MaxContinuations /\ rows[r].linked \in BOOLEAN
                             /\ rows[r].receipt = Nothing \/ rows[r].receipt \in [key : Keys, run : Runs \ {Root}]
  <2>1. \A r \in DOMAIN rows : rows[r] \in RowRecords
    BY DEF PlanInv, Typed
  <2> QED
    BY <2>1 DEF RowRecords, Receipts
<1>3. \A r \in DOMAIN flight :
        /\ flight[r].step \in {"reading", "committing", "launching", "running"} /\ flight[r].key \in Keys
        /\ flight[r].run \in IF flight[r].step = "reading" THEN {Nothing} ELSE Runs \ {Root}
  BY <1>1 DEF PlanInv, Typed, Entries
<1>4. \A c \in Calls : call[c].at \in {"unmade", "waiting", "told", "refused"}
  <2>1. \A c \in Calls : call[c] \in CallRecords
    BY DEF PlanInv, Typed
  <2> QED
    BY <2>1 DEF CallRecords
<1>5. /\ DOMAIN rows \subseteq Runs /\ live \subseteq DOMAIN rows /\ issued \in Runs
      /\ \A r \in DOMAIN rows : r <= issued
      /\ launched \subseteq [source : Runs, key : Keys, run : Runs]
  BY <1>1 DEF PlanInv, Typed
<1> QED
  BY <1>2, <1>3, <1>4, <1>5 DEF PlanInv, OneSuccessor, TypeOK, Continued

\* A run is continued by one successor at most, under a receipt that outlives whatever
\* calls, faults, crashes, deletions and background requests do, and a chain of
\* continuations ends at its limit.
THEOREM PlanContinuedOnce == SystemSpec => []OneSuccessor
  BY PlanInvStarts, PlanInvKept, FaultsAreCounted, PlanInvImplies, PTL DEF SystemSpec

(* A row that appears has an identity that nothing has used.                 *)
LEMMA RowsAppearUnused ==
  ASSUME PlanInv, [SystemNext]_allVars
  PROVE  \A r \in DOMAIN rows' \ DOMAIN rows : Unused(r)
<1>1. ASSUME NEW r \in Runs, Launch(r), NEW n \in DOMAIN rows' \ DOMAIN rows PROVE Unused(n)
  <2>1. Unused(flight[r].run) /\ (UNCHANGED rows \/ DOMAIN rows' = DOMAIN rows \union {flight[r].run})
    <3>1. Named(r) /\ r \in DOMAIN flight
      BY <1>1 DEF Launch, Named
    <3>2. Unused(flight[r].run)
      BY <3>1 DEF PlanInv, NamesAreUnused
    <3> QED
      BY <1>1, <3>2 DEF Launch, With
  <2> QED
    BY <1>1, <2>1
<1>2. ASSUME NEW q \in Requests, At(q, "putting"), Store(q), NEW n \in DOMAIN rows' \ DOMAIN rows PROVE Unused(n)
  <2>1. Unused(acceptance[q].run) /\ DOMAIN rows' = DOMAIN rows \union {acceptance[q].run}
    BY <1>2, WithEntry DEF At, Store, PlanInv, NamesAreUnused
  <2> QED
    BY <1>2, <2>1
<1>3. ASSUME NEW r, CommitReceipt(r) \/ CommitFails(r) \/ Settle(r) \/ Delete(r) PROVE DOMAIN rows' \subseteq DOMAIN rows
  BY <1>3 DEF CommitReceipt, CommitFails, Settle, Delete, Receipted, Less
<1>4. CASE Step /\ UNCHANGED requestVars
  BY <1>1, <1>3, <1>4 DEF Step, Ask, Proceed, ReadTeam, Finish
<1>5. ASSUME NEW q \in Requests, Accepting(q) \/ PutFails(q), NEW n \in DOMAIN rows' \ DOMAIN rows PROVE Unused(n)
  BY <1>2, <1>5 DEF Accepting, ReadSquad, Put, PutFails, Withdraw
<1>6. CASE (\E c \in Calls, q \in Requests : AskForRun(c, q)) \/ Restart \/ UNCHANGED allVars
  BY <1>6 DEF AskForRun, Restart, Crash, allVars, vars
<1> QED
  BY <1>4, <1>5, <1>6 DEF SystemNext

\* A successor that was launched and deleted does not appear again.
THEOREM DeletedStaysDeleted == SystemSpec => NeverReplayed
<1>1. PlanInv /\ [SystemNext]_allVars => [\A r \in DOMAIN rows' \ DOMAIN rows : r \notin {l.run : l \in launched}]_vars
  BY RowsAppearUnused DEF Unused
<1> QED
  BY <1>1, PlanInvStarts, PlanInvKept, FaultsAreCounted, PTL DEF SystemSpec, NeverReplayed
-----------------------------------------------------------------------------
Succeeded(r, key, run) == [source |-> r, key |-> key, run |-> run] \in launched

\* A receipt names a successor that was launched, or one that only its own
\* continuation can still launch.
ReceiptsLead ==
  \A r \in DOMAIN rows : rows[r].receipt # Nothing =>
    LET receipt == rows[r].receipt
    IN /\ receipt.run <= issued
       /\ \/ Succeeded(r, receipt.key, receipt.run)
          \/ /\ receipt.run \notin DOMAIN rows
             /\ \A s \in DOMAIN flight : Named(s) /\ flight[s].run = receipt.run => s = r
             /\ \A q \in DOMAIN acceptance : Holding(q) => acceptance[q].run # receipt.run

\* Who waits for a continuation waits for one of the same plan.
WaitersAgree ==
  /\ \A c \in Calls : call[c].at = "waiting" /\ call[c].source # Nothing =>
       call[c].source \in DOMAIN flight /\ flight[call[c].source].key = call[c].key
  /\ \A r \in DOMAIN flight : flight[r].step = "running" => Succeeded(r, flight[r].key, flight[r].run)

\* An identity that waits for its row has not been asked for before, and what is
\* being accepted is not carried out yet.
RequestsAreNew ==
  /\ DOMAIN asked \subseteq 1..issued
  /\ \A r \in DOMAIN flight : Named(r) => flight[r].run \notin DOMAIN asked
  /\ \A q \in DOMAIN acceptance : acceptance[q].step = "putting" => acceptance[q].run \notin DOMAIN asked
  /\ \A q \in DOMAIN acceptance, r \in live \intersect DOMAIN asked : asked[r] # q

\* A row is only withdrawn after a fault; what is still being read has no identity.
WithdrawnByFault ==
  /\ faults \in Nat
  /\ \A q \in DOMAIN acceptance :
       /\ acceptance[q].step = "withdrawing" => faults > 0
       /\ acceptance[q].step = "reading" => acceptance[q].run = Nothing

\* The answers of OneRunPerRequest, and its runs.
AnswersToRequests ==
  \A c \in Calls : call[c].at = "told" /\ call[c].source = Nothing =>
    call[c].run \in DOMAIN asked /\ asked[call[c].run] = call[c].key

OneLiveRun == \A r, s \in live \intersect DOMAIN asked : asked[r] = asked[s] => r = s

CallsInv == WaitersAgree /\ AnswersAgree /\ AnswersToRequests
AskedInv == RequestsAreNew /\ OneLiveRun
WithdrawnInv == WithdrawnByFault /\ RefusalLeavesNothing

RequestInv == ReceiptsLead /\ CallsInv /\ AskedInv /\ WithdrawnInv

LEMMA NothingIsNoRun == Nothing \notin Runs
  BY NothingAssumption

(* Those who wait are told; nobody else is.                                 *)
LEMMA WaiterResolved ==
  ASSUME PlanInv, NEW r, NEW at, NEW run, Resolve(r, at, run), NEW c \in Calls,
         call[c].at = "waiting", call[c].source = r
  PROVE  /\ call'[c].at = at /\ call'[c].run = run
         /\ call'[c].key = call[c].key /\ call'[c].source = r
<1>1. call[c] \in CallRecords
  BY DEF PlanInv, Typed
<1>2. call'[c] = [call[c] EXCEPT !.at = at, !.run = run]
  BY DEF Resolve, Waiting
<1> QED
  BY <1>1, <1>2 DEF CallRecords

LEMMA OthersUnresolved ==
  ASSUME NEW r, NEW at, NEW run, Resolve(r, at, run), NEW c \in Calls,
         ~(call[c].at = "waiting" /\ call[c].source = r)
  PROVE  call'[c] = call[c]
  BY DEF Resolve, Waiting

LEMMA WaiterSettled ==
  ASSUME PlanInv, NEW q, NEW at, NEW run, Settles(q, at, run), NEW c \in Calls,
         call[c].at = "waiting", call[c].source = Nothing, call[c].key = q
  PROVE  /\ call'[c].at = at /\ call'[c].run = run
         /\ call'[c].key = q /\ call'[c].source = Nothing
<1>1. call[c] \in CallRecords
  BY DEF PlanInv, Typed
<1>2. call'[c] = [call[c] EXCEPT !.at = at, !.run = run]
  BY DEF Settles
<1> QED
  BY <1>1, <1>2 DEF CallRecords

LEMMA OthersUnsettled ==
  ASSUME NEW q, NEW at, NEW run, Settles(q, at, run), NEW c \in Calls,
         ~(call[c].at = "waiting" /\ call[c].source = Nothing /\ call[c].key = q)
  PROVE  call'[c] = call[c]
  BY DEF Settles

(* What the steps of a continuation do to its entry.                         *)
LEMMA EntryAdvances ==
  ASSUME PlanInv, NEW r \in DOMAIN flight, NEW step, Advance(r, step)
  PROVE  /\ DOMAIN flight' = DOMAIN flight /\ flight'[r].step = step
         /\ flight'[r].run = flight[r].run /\ flight'[r].key = flight[r].key
         /\ \A x \in DOMAIN flight : x # r => flight'[x] = flight[x]
<1>1. flight[r] \in Entries
  BY DEF PlanInv, Typed
<1> QED
  BY <1>1 DEF Advance, Entries

(* Receipts: what a step leaves to be shown when it gives out new names only. *)
LEMMA ReceiptsStay ==
  ASSUME PlanInv, ReceiptsLead, issued \in Nat, issued' \in Nat, issued <= issued', launched \subseteq launched',
         DOMAIN rows' \subseteq DOMAIN rows, \A r \in DOMAIN rows' : rows'[r].receipt = rows[r].receipt,
         \A s \in DOMAIN flight' : Named(s)' =>
           flight'[s].run > issued \/ (s \in DOMAIN flight /\ Named(s) /\ flight'[s].run = flight[s].run),
         \A q \in DOMAIN acceptance' : Holding(q)' =>
           acceptance'[q].run > issued
             \/ (q \in DOMAIN acceptance /\ Holding(q) /\ acceptance'[q].run = acceptance[q].run)
  PROVE  ReceiptsLead'
<1> SUFFICES ASSUME NEW r \in DOMAIN rows', rows'[r].receipt # Nothing
    PROVE LET receipt == rows'[r].receipt
          IN /\ receipt.run <= issued'
             /\ \/ [source |-> r, key |-> receipt.key, run |-> receipt.run] \in launched'
                \/ /\ receipt.run \notin DOMAIN rows'
                   /\ \A s \in DOMAIN flight' : Named(s)' /\ flight'[s].run = receipt.run => s = r
                   /\ \A q \in DOMAIN acceptance' : Holding(q)' => acceptance'[q].run # receipt.run
  BY DEF ReceiptsLead, Succeeded
<1> DEFINE receipt == rows[r].receipt
<1>1. receipt \in Receipts /\ rows'[r].receipt = receipt
  <2>1. rows[r] \in RowRecords
    BY DEF PlanInv, Typed
  <2> QED
    BY <2>1 DEF RowRecords
<1>2. receipt.run \in Nat
  BY <1>1, Bounds DEF Receipts, Runs, Root
<1>3. /\ receipt.run <= issued
      /\ \/ Succeeded(r, receipt.key, receipt.run)
         \/ /\ receipt.run \notin DOMAIN rows
            /\ \A s \in DOMAIN flight : Named(s) /\ flight[s].run = receipt.run => s = r
            /\ \A q \in DOMAIN acceptance : Holding(q) => acceptance[q].run # receipt.run
  BY <1>1 DEF ReceiptsLead
<1> HIDE DEF receipt
<1>4. receipt.run <= issued' /\ ~(receipt.run > issued)
  BY <1>2, <1>3
<1>5. CASE Succeeded(r, receipt.key, receipt.run)
  BY <1>1, <1>4, <1>5 DEF Succeeded
<1>6. CASE ~Succeeded(r, receipt.key, receipt.run)
  <2>1. receipt.run \notin DOMAIN rows'
    BY <1>3, <1>6
  <2>2. \A s \in DOMAIN flight' : Named(s)' /\ flight'[s].run = receipt.run => s = r
    BY <1>3, <1>4, <1>6
  <2>3. \A q \in DOMAIN acceptance' : Holding(q)' => acceptance'[q].run # receipt.run
    BY <1>3, <1>4, <1>6
  <2> QED
    BY <1>1, <1>4, <2>1, <2>2, <2>3
<1> QED
  BY <1>5, <1>6

(* The receipt that is written names what nobody else holds.                 *)
LEMMA ReceiptLeads ==
  ASSUME PlanInv, ReceiptsLead, NEW r \in DOMAIN flight, flight[r].step = "committing",
         r \in DOMAIN rows, rows[r].receipt = Nothing, rows' = Receipted(r), Advance(r, "launching"),
         UNCHANGED <<issued, acceptance, launched>>
  PROVE  ReceiptsLead'
<1> DEFINE n == flight[r].run
<1>1. /\ DOMAIN flight' = DOMAIN flight /\ flight'[r].step = "launching" /\ flight'[r].run = n
      /\ \A x \in DOMAIN flight : x # r => flight'[x] = flight[x]
  BY EntryAdvances
<1>2. /\ DOMAIN rows' = DOMAIN rows /\ \A x \in DOMAIN rows : x # r => rows'[x] = rows[x]
      /\ rows'[r].receipt = [key |-> flight[r].key, run |-> n]
  <2>1. rows[r] \in RowRecords
    BY DEF PlanInv, Typed
  <2> QED
    BY <2>1 DEF Receipted, RowRecords
<1>3. Named(r) /\ n \in 1..issued /\ Unused(n)
  BY DEF Named, PlanInv, NamesAreUnused, Typed
<1>4. \A s \in DOMAIN flight : (Named(s)' => Named(s)) /\ flight'[s].run = flight[s].run
  BY <1>1, <1>3 DEF Named
<1>5. \A s \in DOMAIN flight : Named(s) /\ flight[s].run = n => s = r
  BY <1>3 DEF PlanInv, NamesAreDistinct
<1>6. \A q \in DOMAIN acceptance : Holding(q) => acceptance[q].run # n
  BY <1>3 DEF PlanInv, NamesAreDistinct
<1>7. \A q : Holding(q)' <=> Holding(q)
  BY DEF Holding
<1> HIDE DEF n
<1> SUFFICES ASSUME NEW x \in DOMAIN rows, rows'[x].receipt # Nothing
    PROVE LET receipt == rows'[x].receipt
          IN /\ receipt.run <= issued
             /\ \/ Succeeded(x, receipt.key, receipt.run)
                \/ /\ receipt.run \notin DOMAIN rows
                   /\ \A s \in DOMAIN flight : Named(s)' /\ flight'[s].run = receipt.run => s = x
                   /\ \A q \in DOMAIN acceptance : Holding(q)' => acceptance[q].run # receipt.run
  BY <1>1, <1>2 DEF ReceiptsLead, Succeeded
<1>8. CASE x = r
  <2>1. rows'[x].receipt.run = n /\ n <= issued /\ n \notin DOMAIN rows
    BY <1>2, <1>3, <1>8 DEF Unused
  <2> QED
    BY <1>4, <1>5, <1>6, <1>7, <1>8, <2>1
<1>9. CASE x # r
  BY <1>2, <1>4, <1>7, <1>9 DEF ReceiptsLead
<1> QED
  BY <1>8, <1>9

(* A row is added for n: no receipt waits for it but that of its launch.     *)
LEMMA ReceiptsOfOthers ==
  ASSUME PlanInv, ReceiptsLead, NEW n, NEW row, row.receipt = Nothing, rows' = With(rows, n, row),
         n \notin DOMAIN rows, issued' = issued, launched \subseteq launched',
         \A r \in DOMAIN rows : rows[r].receipt # Nothing /\ rows[r].receipt.run = n =>
            [source |-> r, key |-> rows[r].receipt.key, run |-> n] \in launched',
         \A s \in DOMAIN flight' : Named(s)' => s \in DOMAIN flight /\ Named(s) /\ flight'[s].run = flight[s].run,
         \A q \in DOMAIN acceptance' : Holding(q)' =>
            q \in DOMAIN acceptance /\ Holding(q) /\ acceptance'[q].run = acceptance[q].run
  PROVE  ReceiptsLead'
<1>1. DOMAIN rows' = DOMAIN rows \union {n} /\ rows'[n] = row /\ \A x \in DOMAIN rows : rows'[x] = rows[x]
  BY DEF With
<1> SUFFICES ASSUME NEW x \in DOMAIN rows, rows[x].receipt # Nothing
    PROVE LET receipt == rows[x].receipt
          IN /\ receipt.run <= issued
             /\ \/ [source |-> x, key |-> receipt.key, run |-> receipt.run] \in launched'
                \/ /\ receipt.run \notin DOMAIN rows'
                   /\ \A s \in DOMAIN flight' : Named(s)' /\ flight'[s].run = receipt.run => s = x
                   /\ \A q \in DOMAIN acceptance' : Holding(q)' => acceptance'[q].run # receipt.run
  BY <1>1 DEF ReceiptsLead, Succeeded
<1>2. CASE rows[x].receipt.run = n
  BY <1>2 DEF ReceiptsLead
<1>3. CASE rows[x].receipt.run # n
  BY <1>1, <1>3 DEF ReceiptsLead, Succeeded
<1> QED
  BY <1>2, <1>3

(* What Ask and AskForRun add is not named yet.                              *)
LEMMA AdmitAdds ==
  ASSUME NEW c, NEW r, NEW k, Admit(c, r, k)
  PROVE  \/ UNCHANGED flight /\ Refuse(c, r, k)
         \/ /\ r \notin DOMAIN flight /\ DOMAIN flight' = DOMAIN flight \union {r}
            /\ flight'[r].key = k /\ flight'[r].step = "reading"
            /\ \A x \in DOMAIN flight : flight'[x] = flight[x]
            /\ Wait(c, r, k)
<1>1. CASE Eligible(rows[r])
  <2> DEFINE entry == [key |-> k, run |-> Nothing, step |-> "reading", revision |-> rows[r].revision]
  <2>1. r \notin DOMAIN flight /\ flight' = With(flight, r, entry) /\ Wait(c, r, k)
    BY <1>1 DEF Admit
  <2>2. entry.key = k /\ entry.step = "reading"
    OBVIOUS
  <2> HIDE DEF entry
  <2> QED
    BY <2>1, <2>2 DEF With
<1> QED
  BY <1>1 DEF Admit

LEMMA BeginAdds ==
  ASSUME NEW c, NEW q, BeginAcceptance(c, q)
  PROVE  /\ q \notin DOMAIN acceptance /\ DOMAIN acceptance' = DOMAIN acceptance \union {q}
         /\ acceptance'[q].step = "reading" /\ acceptance'[q].run = Nothing
         /\ \A x \in DOMAIN acceptance : acceptance'[x] = acceptance[x]
<1> DEFINE begun == [step |-> "reading", run |-> Nothing]
<1>1. q \notin DOMAIN acceptance /\ acceptance' = With(acceptance, q, begun)
  BY DEF BeginAcceptance
<1>2. begun.step = "reading" /\ begun.run = Nothing
  OBVIOUS
<1> HIDE DEF begun
<1> QED
  BY <1>1, <1>2 DEF With

LEMMA TeamNamed ==
  ASSUME PlanInv, NEW r \in DOMAIN flight, Identify,
         flight' = [flight EXCEPT ![r].step = "committing", ![r].run = issued']
  PROVE  /\ DOMAIN flight' = DOMAIN flight /\ flight'[r].step = "committing"
         /\ flight'[r].run = issued' /\ flight'[r].key = flight[r].key
         /\ \A x \in DOMAIN flight : x # r => flight'[x] = flight[x]
<1>1. flight[r] \in Entries
  BY DEF PlanInv, Typed
<1> QED
  BY <1>1 DEF Entries

LEMMA SquadNamed ==
  ASSUME NEW q \in DOMAIN acceptance, Identify,
         acceptance' = [acceptance EXCEPT ![q] = [step |-> "putting", run |-> issued']]
  PROVE  /\ DOMAIN acceptance' = DOMAIN acceptance /\ acceptance'[q].step = "putting"
         /\ acceptance'[q].run = issued'
         /\ \A x \in DOMAIN acceptance : x # q => acceptance'[x] = acceptance[x]
  OBVIOUS

(* The job is taken, or its row is to be withdrawn.                          *)
LEMMA HandedOver ==
  ASSUME PlanInv, NEW q \in DOMAIN acceptance, NEW n, HandOver(q, n)
  PROVE  \/ /\ live' = live \union {acceptance[q].run} /\ Settles(q, "told", acceptance[q].run) /\ faults' = n
         \/ /\ UNCHANGED <<live, call>> /\ faults' = n + 1 /\ DOMAIN acceptance' = DOMAIN acceptance
            /\ acceptance'[q].step = "withdrawing" /\ acceptance'[q].run = acceptance[q].run
            /\ \A x \in DOMAIN acceptance : x # q => acceptance'[x] = acceptance[x]
<1>1. acceptance[q] \in Acceptances
  BY DEF PlanInv, Typed
<1> QED
  BY <1>1 DEF HandOver, Acceptances

LEMMA Launched ==
  ASSUME PlanInv, NEW r \in DOMAIN flight, flight[r].step = "launching", Launch(r), ~Reject(r)
  PROVE  LET n == flight[r].run
             row == Row("active", flight[r].revision + 1, TRUE)
         IN /\ rows' = With(rows, n, row) /\ row.receipt = Nothing
            /\ Named(r) /\ n \in 1..issued /\ Unused(n)
            /\ \A s \in DOMAIN flight : Named(s) /\ flight[s].run = n => s = r
            /\ launched' = launched \union {[source |-> r, key |-> flight[r].key, run |-> n]}
            /\ live' = live \union {n} /\ UNCHANGED call
            /\ DOMAIN flight' = DOMAIN flight /\ flight'[r].step = "running"
            /\ flight'[r].run = n /\ flight'[r].key = flight[r].key
            /\ \A x \in DOMAIN flight : x # r => flight'[x] = flight[x]
<1>1. Advance(r, "running")
  BY DEF Launch
<1>2. Named(r) /\ flight[r].run \in 1..issued /\ Unused(flight[r].run)
  BY DEF Named, PlanInv, NamesAreUnused, Typed
<1>3. \A s \in DOMAIN flight : Named(s) /\ flight[s].run = flight[r].run => s = r
  BY <1>2 DEF PlanInv, NamesAreDistinct
<1>4. Row("active", flight[r].revision + 1, TRUE).receipt = Nothing
  BY DEF Row
<1>5. /\ rows' = With(rows, flight[r].run, Row("active", flight[r].revision + 1, TRUE))
      /\ launched' = launched \union {[source |-> r, key |-> flight[r].key, run |-> flight[r].run]}
      /\ live' = live \union {flight[r].run} /\ UNCHANGED call
  BY DEF Launch
<1> QED
  BY <1>1, <1>2, <1>3, <1>4, <1>5, EntryAdvances

LEMMA EntryGone ==
  ASSUME NEW r, flight' = Less(flight, r)
  PROVE  /\ DOMAIN flight' = DOMAIN flight \ {r} /\ \A x \in DOMAIN flight' : flight'[x] = flight[x]
         /\ \A x : Named(x)' => Named(x)
<1>1. DOMAIN flight' = DOMAIN flight \ {r} /\ \A x \in DOMAIN flight' : flight'[x] = flight[x]
  BY DEF Less
<1> QED
  BY <1>1 DEF Named

LEMMA AcceptanceGone ==
  ASSUME NEW q, acceptance' = Less(acceptance, q)
  PROVE  /\ DOMAIN acceptance' = DOMAIN acceptance \ {q}
         /\ \A x \in DOMAIN acceptance' : acceptance'[x] = acceptance[x]
         /\ \A x : Holding(x)' => Holding(x)
<1>1. DOMAIN acceptance' = DOMAIN acceptance \ {q} /\ \A x \in DOMAIN acceptance' : acceptance'[x] = acceptance[x]
  BY DEF Less
<1> QED
  BY <1>1 DEF Holding

(* One step per action; those that change no receipt and name nothing in use *)
(* are alike.                                                               *)
LEMMA ReceiptsLeadStep ==
  ASSUME PlanInv, ReceiptsLead, [SystemNext]_allVars
  PROVE  ReceiptsLead'
<1>1. issued \in Nat
  BY Bounds DEF PlanInv, Typed, Runs, Root
<1>2. (UNCHANGED flight => \A x : Named(x)' <=> Named(x)) /\ (UNCHANGED acceptance => \A x : Holding(x)' <=> Holding(x))
  BY DEF Named, Holding
<1>3. ASSUME NEW r, Reject(r) \/ Resolve(r, "told", flight[r].run), UNCHANGED <<rows, issued, launched, acceptance>>
      PROVE  ReceiptsLead'
  <2>1. flight' = Less(flight, r)
    BY <1>3 DEF Reject, Resolve
  <2>2. \A s \in DOMAIN flight' : s \in DOMAIN flight /\ flight'[s] = flight[s] /\ (Named(s)' => Named(s))
    BY <2>1, EntryGone
  <2> QED
    BY <1>1, <1>2, <1>3, <2>2, ReceiptsStay
<1>4. ASSUME NEW q, NEW at, NEW run, Settles(q, at, run), UNCHANGED <<issued, launched, flight>>,
             DOMAIN rows' = DOMAIN rows, \A r \in DOMAIN rows : rows'[r].receipt = rows[r].receipt
      PROVE  ReceiptsLead'
  <2>1. acceptance' = Less(acceptance, q)
    BY <1>4 DEF Settles
  <2>2. \A s \in DOMAIN acceptance' : s \in DOMAIN acceptance /\ acceptance'[s] = acceptance[s] /\ (Holding(s)' => Holding(s))
    BY <2>1, AcceptanceGone
  <2> QED
    BY <1>1, <1>2, <1>4, <2>2, ReceiptsStay
<1>5. CASE UNCHANGED <<rows, issued, launched, flight, acceptance>>
  BY <1>1, <1>2, <1>5, ReceiptsStay
<1>6. ASSUME NEW c \in Calls, NEW r \in DOMAIN rows, NEW k \in Keys, Ask(c, r, k), UNCHANGED requestVars
      PROVE  ReceiptsLead'
  <2>1. UNCHANGED <<rows, issued, launched, acceptance>>
    BY <1>6 DEF Ask, requestVars
  <2>2. CASE UNCHANGED flight
    BY <1>5, <2>1, <2>2
  <2>3. CASE Admit(c, r, k) /\ ~UNCHANGED flight
    <3>1. \A s \in DOMAIN flight' : Named(s)' => s \in DOMAIN flight /\ Named(s) /\ flight'[s].run = flight[s].run
      BY <2>3, AdmitAdds DEF Named
    <3> QED
      BY <1>1, <1>2, <2>1, <3>1, ReceiptsStay
  <2> QED
    BY <1>6, <2>2, <2>3 DEF Ask, Join, Recall
<1>7. ASSUME NEW r \in Runs, ReadTeam(r), UNCHANGED requestVars
      PROVE  ReceiptsLead'
  <2>1. UNCHANGED <<rows, launched, acceptance>> /\ r \in DOMAIN flight
    BY <1>7 DEF ReadTeam, requestVars
  <2>2. CASE Identify /\ flight' = [flight EXCEPT ![r].step = "committing", ![r].run = issued']
    <3>1. issued' = issued + 1
      BY <2>2 DEF Identify
    <3>2. \A s \in DOMAIN flight' : Named(s)' =>
            flight'[s].run > issued \/ (s \in DOMAIN flight /\ Named(s) /\ flight'[s].run = flight[s].run)
      <4>1. /\ DOMAIN flight' = DOMAIN flight /\ flight'[r].run = issued'
            /\ \A x \in DOMAIN flight : x # r => flight'[x] = flight[x]
        BY <2>1, <2>2, TeamNamed
      <4> QED
        BY <1>1, <3>1, <4>1 DEF Named
    <3> QED
      BY <1>1, <1>2, <2>1, <3>1, <3>2, ReceiptsStay
  <2> QED
    BY <1>3, <1>7, <2>1, <2>2 DEF ReadTeam
<1>8. ASSUME NEW r \in Runs, CommitReceipt(r) \/ CommitFails(r), UNCHANGED requestVars
      PROVE  ReceiptsLead'
  <2>1. UNCHANGED <<issued, launched, acceptance>> /\ r \in DOMAIN flight /\ flight[r].step = "committing"
    BY <1>8 DEF CommitReceipt, CommitFails, requestVars
  <2> QED
    BY <1>3, <1>8, <2>1, ReceiptLeads DEF CommitReceipt, CommitFails
<1>9. ASSUME NEW r \in Runs, Launch(r), UNCHANGED requestVars
      PROVE  ReceiptsLead'
  <2>1. UNCHANGED <<issued, acceptance>> /\ r \in DOMAIN flight /\ flight[r].step = "launching"
    BY <1>9 DEF Launch, requestVars
  <2>2. CASE Reject(r) /\ UNCHANGED <<rows, live, launched>>
    BY <1>3, <2>1, <2>2
  <2>3. CASE ~(Reject(r) /\ UNCHANGED <<rows, live, launched>>)
    <3> DEFINE n == flight[r].run
               row == Row("active", flight[r].revision + 1, TRUE)
    <3>1. ~Reject(r)
      <4>1. DOMAIN flight' = DOMAIN flight
        BY <1>9, <2>3 DEF Launch, Advance
      <4> QED
        BY <2>1, <4>1, EntryGone DEF Reject, Resolve
    <3>2. /\ rows' = With(rows, n, row) /\ row.receipt = Nothing /\ Unused(n) /\ Named(r) /\ n \in 1..issued
          /\ launched' = launched \union {[source |-> r, key |-> flight[r].key, run |-> n]}
          /\ DOMAIN flight' = DOMAIN flight /\ flight'[r].step = "running"
          /\ \A x \in DOMAIN flight : x # r => flight'[x] = flight[x]
      BY <1>9, <2>1, <3>1, Launched
    <3>3. \A x \in DOMAIN rows : rows[x].receipt # Nothing /\ rows[x].receipt.run = n =>
             [source |-> x, key |-> rows[x].receipt.key, run |-> n] \in launched'
      <4> SUFFICES ASSUME NEW x \in DOMAIN rows, rows[x].receipt # Nothing, rows[x].receipt.run = n
                   PROVE  [source |-> x, key |-> rows[x].receipt.key, run |-> n] \in launched'
        OBVIOUS
      <4>1. ~Succeeded(x, rows[x].receipt.key, n)
        BY <3>2 DEF Unused, Succeeded
      <4>2. x = r
        BY <3>2, <4>1 DEF ReceiptsLead, Named
      <4>3. rows[x].receipt.key = flight[r].key
        <5>1. rows[r].receipt = [key |-> flight[r].key, run |-> flight[r].run]
          BY <2>1, <4>2 DEF PlanInv, AdmittedOnce
        <5> QED
          BY <4>2, <5>1
      <4> QED
        BY <3>2, <4>2, <4>3
    <3>4. \A s \in DOMAIN flight' : Named(s)' => s \in DOMAIN flight /\ Named(s) /\ flight'[s].run = flight[s].run
      BY <3>2 DEF Named
    <3>5. n \notin DOMAIN rows /\ launched \subseteq launched'
      BY <3>2 DEF Unused
    <3> HIDE DEF n, row
    <3> QED
      BY <1>2, <2>1, <3>2, <3>3, <3>4, <3>5, ReceiptsOfOthers
  <2> QED
    BY <2>2, <2>3
<1>10. ASSUME NEW r \in Runs, Settle(r) \/ Delete(r), UNCHANGED requestVars
       PROVE  ReceiptsLead'
  <2>1. UNCHANGED <<issued, flight, launched, acceptance>>
    BY <1>10 DEF Settle, Delete, requestVars
  <2>2. DOMAIN rows' \subseteq DOMAIN rows /\ \A x \in DOMAIN rows' : rows'[x].receipt = rows[x].receipt
    <3>1. CASE Delete(r)
      BY <3>1 DEF Delete, Less
    <3>2. CASE Settle(r)
      <4>1. rows[r] \in RowRecords /\ r \in DOMAIN rows
        BY <3>2 DEF Settle, PlanInv, Typed
      <4> QED
        BY <3>2, <4>1 DEF Settle, RowRecords
    <3> QED
      BY <1>10, <3>1, <3>2
  <2> QED
    BY <1>1, <1>2, <2>1, <2>2, ReceiptsStay
<1>11. ASSUME NEW c \in Calls, NEW q \in Requests, AskForRun(c, q)
       PROVE  ReceiptsLead'
  <2>1. UNCHANGED <<rows, issued, flight, launched>>
    BY <1>11 DEF AskForRun
  <2>2. CASE BeginAcceptance(c, q)
    <3>1. \A x \in DOMAIN acceptance' : Holding(x)' =>
            x \in DOMAIN acceptance /\ Holding(x) /\ acceptance'[x].run = acceptance[x].run
      BY <2>2, BeginAdds DEF Holding
    <3> QED
      BY <1>1, <1>2, <2>1, <3>1, ReceiptsStay
  <2> QED
    BY <1>5, <1>11, <2>1, <2>2 DEF AskForRun, RefuseRetry, FindAccepted, JoinAcceptance
<1>12. ASSUME NEW q \in Requests, ReadSquad(q)
       PROVE  ReceiptsLead'
  <2>1. UNCHANGED <<rows, flight, launched>> /\ q \in DOMAIN acceptance
    BY <1>12 DEF ReadSquad, At
  <2>2. CASE Identify /\ acceptance' = [acceptance EXCEPT ![q] = [step |-> "putting", run |-> issued']]
    <3>1. issued' = issued + 1
      BY <2>2 DEF Identify
    <3>2. \A x \in DOMAIN acceptance' : Holding(x)' =>
            acceptance'[x].run > issued
              \/ (x \in DOMAIN acceptance /\ Holding(x) /\ acceptance'[x].run = acceptance[x].run)
      BY <1>1, <2>1, <2>2, <3>1, SquadNamed DEF Holding
    <3> QED
      BY <1>1, <1>2, <2>1, <3>1, <3>2, ReceiptsStay
  <2> QED
    BY <1>4, <1>12, <2>1, <2>2 DEF ReadSquad
<1>13. ASSUME NEW q \in Requests, At(q, "putting"), Store(q), NEW n, HandOver(q, n),
              UNCHANGED <<issued, flight, launched>>
       PROVE  ReceiptsLead'
  <2> DEFINE r == acceptance[q].run
             row == Row("active", 0, FALSE)
  <2>1. q \in DOMAIN acceptance /\ Holding(q) /\ rows' = With(rows, r, row) /\ Unused(r) /\ row.receipt = Nothing
    BY <1>13 DEF At, Store, Row, Holding, PlanInv, NamesAreUnused
  <2>2. \A x \in DOMAIN acceptance' : Holding(x)' =>
          x \in DOMAIN acceptance /\ Holding(x) /\ acceptance'[x].run = acceptance[x].run
    <3>1. CASE Settles(q, "told", r)
      BY <3>1, AcceptanceGone DEF Settles
    <3> QED
      BY <1>13, <2>1, <3>1, HandedOver DEF Holding
  <2>3. \A x \in DOMAIN rows : rows[x].receipt # Nothing /\ rows[x].receipt.run = r =>
          [source |-> x, key |-> rows[x].receipt.key, run |-> r] \in launched'
    BY <1>13, <2>1 DEF ReceiptsLead, Succeeded
  <2>4. r \notin DOMAIN rows
    BY <2>1 DEF Unused
  <2> HIDE DEF r, row
  <2> QED
    BY <1>2, <1>13, <2>1, <2>2, <2>3, <2>4, ReceiptsOfOthers
<1>14. ASSUME NEW q \in Requests, Put(q) \/ PutFails(q)
       PROVE  ReceiptsLead'
  <2>1. UNCHANGED <<issued, flight, launched>> /\ At(q, "putting")
    BY <1>14 DEF Put, PutFails
  <2> QED
    BY <1>4, <1>13, <1>14, <2>1 DEF Put, PutFails
<1>15. ASSUME NEW q \in Requests, Withdraw(q)
       PROVE  ReceiptsLead'
  <2>1. UNCHANGED <<issued, flight, launched>> /\ Settles(q, "refused", Nothing)
    BY <1>15 DEF Withdraw
  <2>2. DOMAIN rows' = DOMAIN rows /\ \A x \in DOMAIN rows : rows'[x].receipt = rows[x].receipt
    <3>1. \A x \in DOMAIN rows : rows[x] \in RowRecords
      BY DEF PlanInv, Typed
    <3> QED
      BY <1>15, <3>1 DEF Withdraw, RowRecords
  <2> QED
    BY <1>4, <2>1, <2>2
<1>16. CASE Restart
  <2>1. /\ DOMAIN flight' = {} /\ DOMAIN acceptance' = {} /\ DOMAIN rows' = DOMAIN rows /\ UNCHANGED <<issued, launched>>
        /\ \A x \in DOMAIN rows : rows'[x].receipt = rows[x].receipt
    <3>1. \A x \in DOMAIN rows : rows[x] \in RowRecords
      BY DEF PlanInv, Typed
    <3> QED
      BY <1>16, <3>1 DEF Restart, Crash, RowRecords
  <2> QED
    BY <1>1, <2>1, ReceiptsStay
<1>17. CASE UNCHANGED allVars
  BY <1>5, <1>17 DEF allVars, vars, requestVars
<1>18. ASSUME NEW r \in Runs, Finish(r), UNCHANGED requestVars
       PROVE  ReceiptsLead'
  BY <1>3, <1>18 DEF Finish, requestVars
<1> QED
  BY <1>6, <1>7, <1>8, <1>9, <1>10, <1>11, <1>12, <1>14, <1>15, <1>16, <1>17, <1>18
     DEF SystemNext, Step, Proceed, Accepting
-----------------------------------------------------------------------------
(* What has been launched and asked for is never forgotten, ...              *)
Remembered ==
  /\ launched \subseteq launched'
  /\ DOMAIN asked \subseteq DOMAIN asked' /\ \A r \in DOMAIN asked : asked'[r] = asked[r]

(* ... and an entry keeps its plan.                                          *)
KeysKept == \A r \in DOMAIN flight : r \in DOMAIN flight' /\ flight'[r].key = flight[r].key

RunningSucceeded == \A r \in DOMAIN flight : flight[r].step = "running" => Succeeded(r, flight[r].key, flight[r].run)

CallRight(c) ==
  /\ call[c].at = "waiting" /\ call[c].source # Nothing =>
       call[c].source \in DOMAIN flight /\ flight[call[c].source].key = call[c].key
  /\ call[c].at = "told" /\ call[c].source # Nothing => Succeeded(call[c].source, call[c].key, call[c].run)
  /\ call[c].at = "told" /\ call[c].source = Nothing =>
       call[c].run \in DOMAIN asked /\ asked[call[c].run] = call[c].key

LEMMA CallsAreRight == CallsInv <=> RunningSucceeded /\ \A c \in Calls : CallRight(c)
  BY DEF CallsInv, WaitersAgree, AnswersAgree, AnswersToRequests, RunningSucceeded, CallRight, Succeeded

LEMMA RightCallsAgree == RunningSucceeded' /\ (\A c \in Calls : CallRight(c)') => CallsInv'
  BY DEF CallsInv, WaitersAgree, AnswersAgree, AnswersToRequests, RunningSucceeded, CallRight, Succeeded

LEMMA StoreRemembers ==
  ASSUME PlanInv, RequestsAreNew, NEW q, At(q, "putting"), Store(q), UNCHANGED launched
  PROVE  Remembered /\ asked'[acceptance[q].run] = q /\ DOMAIN asked' = DOMAIN asked \union {acceptance[q].run}
<1>1. acceptance[q].run \notin DOMAIN asked
  BY DEF At, RequestsAreNew
<1>2. asked' = With(asked, acceptance[q].run, q)
  BY DEF Store
<1> QED
  BY <1>1, <1>2 DEF With, Remembered

(* A call that nobody speaks to stays right, ...                             *)
LEMMA RightStays ==
  ASSUME Remembered, NEW c, CallRight(c), call'[c] = call[c],
         call[c].at = "waiting" /\ call[c].source \in DOMAIN flight =>
           call[c].source \in DOMAIN flight' /\ flight'[call[c].source].key = flight[call[c].source].key
  PROVE  CallRight(c)'
  BY DEF Remembered, CallRight, Succeeded

(* ... so all do when no entry leaves.                                       *)
LEMMA AllStayRight ==
  ASSUME CallsInv, Remembered, KeysKept, UNCHANGED call, RunningSucceeded'
  PROVE  CallsInv'
<1>1. \A c \in Calls : CallRight(c)'
  BY CallsAreRight, RightStays DEF KeysKept
<1> QED
  BY <1>1, RightCallsAgree

(* One call is answered, or begins to wait.                                  *)
LEMMA OneIsAnswered ==
  ASSUME PlanInv, CallsInv, Remembered, KeysKept, RunningSucceeded', NEW c \in Calls,
         NEW at, NEW source, NEW key, NEW run, call' = [call EXCEPT ![c] = Made(at, source, key, run)],
         at = "waiting" /\ source # Nothing => source \in DOMAIN flight' /\ flight'[source].key = key,
         at = "told" /\ source # Nothing => [source |-> source, key |-> key, run |-> run] \in launched',
         at = "told" /\ source = Nothing => run \in DOMAIN asked' /\ asked'[run] = key
  PROVE  CallsInv'
<1>1. \A d \in Calls : d # c => call'[d] = call[d]
  BY DEF PlanInv, Typed
<1>2. call'[c].at = at /\ call'[c].source = source /\ call'[c].key = key /\ call'[c].run = run
  BY DEF PlanInv, Typed, Made
<1>3. CallRight(c)'
  BY <1>2 DEF CallRight, Succeeded
<1>4. \A d \in Calls : CallRight(d)'
  BY <1>1, <1>3, CallsAreRight, RightStays DEF KeysKept
<1> QED
  BY <1>4, RightCallsAgree

(* An entry leaves, and those who waited for it are told of a run that       *)
(* continues it, or refused.                                                 *)
LEMMA WaitersAreTold ==
  ASSUME PlanInv, CallsInv, NEW r \in DOMAIN flight, NEW at \in {"told", "refused"}, NEW run, Resolve(r, at, run),
         at = "told" => Succeeded(r, flight[r].key, run), UNCHANGED <<launched, asked>>
  PROVE  CallsInv'
<1>1. DOMAIN flight' = DOMAIN flight \ {r} /\ \A x \in DOMAIN flight' : flight'[x] = flight[x]
  BY EntryGone DEF Resolve
<1>2. RunningSucceeded'
  BY <1>1, CallsAreRight DEF RunningSucceeded, Succeeded
<1>3. r # Nothing
  <2>1. r \in Runs
    BY Bounds DEF PlanInv, Typed, Runs, Root
  <2> QED
    BY <2>1, NothingIsNoRun
<1>4. Remembered
  BY DEF Remembered
<1>5. ASSUME NEW c \in Calls PROVE CallRight(c)'
  <2>1. CallRight(c)
    BY CallsAreRight
  <2>2. CASE call[c].at = "waiting" /\ call[c].source = r
    <3>1. call'[c].at = at /\ call'[c].run = run /\ call'[c].key = call[c].key /\ call'[c].source = r
      BY <2>2, WaiterResolved
    <3>2. call[c].key = flight[r].key
      BY <1>3, <2>1, <2>2 DEF CallRight
    <3> QED
      BY <1>3, <3>1, <3>2 DEF CallRight, Succeeded
  <2>3. CASE ~(call[c].at = "waiting" /\ call[c].source = r)
    <3>1. call'[c] = call[c]
      BY <2>3, OthersUnresolved
    <3> QED
      BY <1>1, <1>4, <2>1, <2>3, <3>1, RightStays
  <2> QED
    BY <2>2, <2>3
<1> QED
  BY <1>2, <1>5, RightCallsAgree

(* An acceptance settles, and those who waited for it are told of its run.   *)
LEMMA AskersAreTold ==
  ASSUME PlanInv, CallsInv, NEW q, NEW at \in {"told", "refused"}, NEW run, Settles(q, at, run), Remembered,
         at = "told" => run \in DOMAIN asked' /\ asked'[run] = q, UNCHANGED <<launched, flight>>
  PROVE  CallsInv'
<1>1. RunningSucceeded'
  BY CallsAreRight DEF RunningSucceeded, Succeeded
<1>2. ASSUME NEW c \in Calls PROVE CallRight(c)'
  <2>1. CallRight(c)
    BY CallsAreRight
  <2>2. CASE call[c].at = "waiting" /\ call[c].source = Nothing /\ call[c].key = q
    <3>1. call'[c].at = at /\ call'[c].run = run /\ call'[c].key = q /\ call'[c].source = Nothing
      BY <2>2, WaiterSettled
    <3> QED
      BY <3>1 DEF CallRight
  <2>3. CASE ~(call[c].at = "waiting" /\ call[c].source = Nothing /\ call[c].key = q)
    <3>1. call'[c] = call[c]
      BY <2>3, OthersUnsettled
    <3> QED
      BY <2>1, <3>1, RightStays
  <2> QED
    BY <2>2, <2>3
<1> QED
  BY <1>1, <1>2, RightCallsAgree

(* A continuation's call: joined, recalled or admitted.                      *)
LEMMA AskIsRight ==
  ASSUME PlanInv, ReceiptsLead, CallsInv, NEW c \in Calls, NEW r \in DOMAIN rows, NEW k \in Keys, Ask(c, r, k),
         UNCHANGED requestVars
  PROVE  CallsInv'
<1>1. Remembered
  BY DEF Ask, requestVars, Remembered
<1>2. r # Nothing
  <2>1. r \in Runs
    BY Bounds DEF PlanInv, Typed, Runs, Root
  <2> QED
    BY <2>1, NothingIsNoRun
<1>3. UNCHANGED launched
  BY DEF Ask
<1>4. UNCHANGED flight => KeysKept /\ RunningSucceeded'
  BY <1>3, CallsAreRight DEF KeysKept, RunningSucceeded, Succeeded
<1>5. CASE Refuse(c, r, k) /\ UNCHANGED flight
  BY <1>1, <1>4, <1>5, OneIsAnswered, Zenon DEF Refuse
<1>6. CASE Wait(c, r, k) /\ UNCHANGED flight /\ r \in DOMAIN flight /\ flight[r].key = k
  BY <1>1, <1>4, <1>6, OneIsAnswered DEF Wait
<1>7. CASE Admit(c, r, k) /\ Wait(c, r, k) /\ ~UNCHANGED flight
  <2>1. /\ r \notin DOMAIN flight /\ DOMAIN flight' = DOMAIN flight \union {r}
        /\ flight'[r].key = k /\ flight'[r].step = "reading"
        /\ \A x \in DOMAIN flight : flight'[x] = flight[x]
    BY <1>7, AdmitAdds
  <2>2. KeysKept
    BY <2>1 DEF KeysKept
  <2>3. RunningSucceeded'
    BY <1>3, <2>1, CallsAreRight DEF RunningSucceeded, Succeeded
  <2> QED
    BY <1>1, <1>7, <2>1, <2>2, <2>3, OneIsAnswered DEF Wait
<1>8. CASE Recall(c, r, k) /\ Tell(c, r, k)
  <2>1. CASE call' = [call EXCEPT ![c] = Made("refused", r, k, Nothing)]
    BY <1>1, <1>4, <1>8, <2>1, OneIsAnswered DEF Recall
  <2>2. CASE rows[r].receipt.key = k /\ rows[r].receipt.run \in DOMAIN rows
    <3>1. Succeeded(r, k, rows[r].receipt.run)
      BY <1>8, <2>2 DEF Recall, ReceiptsLead
    <3> QED
      BY <1>1, <1>2, <1>3, <1>4, <1>8, <3>1, OneIsAnswered DEF Recall, Tell, Succeeded
  <2> QED
    BY <1>8, <2>1, <2>2 DEF Recall, Refuse
<1> QED
  BY <1>5, <1>6, <1>7, <1>8, AdmitAdds DEF Ask, Join, Recall

LEMMA RunIsAskedRight ==
  ASSUME PlanInv, CallsInv, NEW c \in Calls, NEW q \in Requests, AskForRun(c, q)
  PROVE  CallsInv'
<1>1. Remembered /\ KeysKept /\ UNCHANGED <<launched, flight, asked>>
  BY DEF AskForRun, Remembered, KeysKept
<1>2. RunningSucceeded'
  BY <1>1, CallsAreRight DEF RunningSucceeded, Succeeded
<1>3. ASSUME NEW at \in {"waiting", "refused"}, Answer(c, at, q, Nothing) PROVE CallsInv'
  BY <1>1, <1>2, <1>3, OneIsAnswered DEF Answer
<1>4. ASSUME NEW r \in Accepted(q), Answer(c, "told", q, r) PROVE CallsInv'
  BY <1>1, <1>2, <1>4, OneIsAnswered DEF Answer, Accepted
<1> QED
  BY <1>3, <1>4 DEF AskForRun, RefuseRetry, FindAccepted, JoinAcceptance, BeginAcceptance

(* A row is written for a request, and its job handed over.                  *)
LEMMA StoredRight ==
  ASSUME PlanInv, CallsInv, RequestsAreNew, NEW q, At(q, "putting"), Store(q), NEW n, HandOver(q, n),
         UNCHANGED <<flight, launched>>
  PROVE  CallsInv'
<1>1. Remembered /\ asked'[acceptance[q].run] = q /\ DOMAIN asked' = DOMAIN asked \union {acceptance[q].run}
  BY StoreRemembers
<1>2. q \in DOMAIN acceptance
  BY DEF At
<1>3. CASE Settles(q, "told", acceptance[q].run)
  BY <1>1, <1>3, AskersAreTold
<1>4. CASE UNCHANGED call
  <2>1. KeysKept /\ RunningSucceeded'
    BY CallsAreRight DEF KeysKept, RunningSucceeded, Succeeded
  <2> QED
    BY <1>1, <1>4, <2>1, AllStayRight
<1> QED
  BY <1>2, <1>3, <1>4, HandedOver

LEMMA CallsStep ==
  ASSUME PlanInv, ReceiptsLead, CallsInv, RequestsAreNew, [SystemNext]_allVars
  PROVE  CallsInv'
<1>1. ASSUME UNCHANGED <<flight, call, launched, asked>> PROVE CallsInv'
  <2>1. Remembered /\ KeysKept /\ RunningSucceeded'
    BY <1>1, CallsAreRight DEF Remembered, KeysKept, RunningSucceeded, Succeeded
  <2> QED
    BY <1>1, <2>1, AllStayRight
<1>2. ASSUME NEW r \in DOMAIN flight, NEW step, UNCHANGED <<call, asked>>, launched \subseteq launched',
             DOMAIN flight' = DOMAIN flight, flight'[r].step = step, flight'[r].key = flight[r].key,
             \A x \in DOMAIN flight : x # r => flight'[x] = flight[x],
             step = "running" => [source |-> r, key |-> flight[r].key, run |-> flight'[r].run] \in launched'
      PROVE  CallsInv'
  <2>1. Remembered /\ KeysKept
    BY <1>2 DEF Remembered, KeysKept
  <2>2. RunningSucceeded'
    BY <1>2, CallsAreRight DEF RunningSucceeded, Succeeded
  <2> QED
    BY <1>2, <2>1, <2>2, AllStayRight
<1>3. ASSUME NEW r \in DOMAIN flight, Reject(r), UNCHANGED <<launched, asked>> PROVE CallsInv'
  BY <1>3, WaitersAreTold DEF Reject
<1>4. ASSUME NEW r \in Runs, ReadTeam(r), UNCHANGED requestVars PROVE CallsInv'
  <2>1. CASE Reject(r)
    BY <1>3, <1>4, <2>1 DEF ReadTeam, requestVars
  <2>2. CASE ~Reject(r)
    BY <1>2, <1>4, <2>2, TeamNamed DEF ReadTeam, requestVars
  <2> QED
    BY <2>1, <2>2
<1>5. ASSUME NEW r \in Runs, CommitReceipt(r) \/ CommitFails(r), UNCHANGED requestVars PROVE CallsInv'
  <2>1. r \in DOMAIN flight /\ UNCHANGED <<launched, asked>>
    BY <1>5 DEF CommitReceipt, CommitFails, requestVars
  <2>2. CASE Advance(r, "launching") /\ UNCHANGED call
    BY <1>2, <2>1, <2>2, EntryAdvances
  <2> QED
    BY <1>3, <1>5, <2>1, <2>2 DEF CommitReceipt, CommitFails
<1>6. ASSUME NEW r \in Runs, Launch(r), UNCHANGED requestVars PROVE CallsInv'
  <2>1. r \in DOMAIN flight /\ flight[r].step = "launching" /\ UNCHANGED asked
    BY <1>6 DEF Launch, requestVars
  <2>2. CASE Reject(r) /\ UNCHANGED launched
    BY <1>3, <2>1, <2>2
  <2>3. CASE ~(Reject(r) /\ UNCHANGED launched)
    <3>1. ~Reject(r)
      <4>1. DOMAIN flight' = DOMAIN flight
        BY <1>6, <2>3 DEF Launch, Advance
      <4> QED
        BY <2>1, <4>1, EntryGone DEF Reject, Resolve
    <3>2. /\ launched' = launched \union {[source |-> r, key |-> flight[r].key, run |-> flight[r].run]}
          /\ UNCHANGED call /\ DOMAIN flight' = DOMAIN flight /\ flight'[r].step = "running"
          /\ flight'[r].run = flight[r].run /\ flight'[r].key = flight[r].key
          /\ \A x \in DOMAIN flight : x # r => flight'[x] = flight[x]
      BY <1>6, <2>1, <3>1, Launched
    <3>3. [source |-> r, key |-> flight[r].key, run |-> flight'[r].run] \in launched'
      BY <3>2
    <3> QED
      BY <1>2, <2>1, <3>2, <3>3
  <2> QED
    BY <2>2, <2>3
<1>7. ASSUME NEW r \in Runs, Finish(r), UNCHANGED requestVars PROVE CallsInv'
  <2>1. r \in DOMAIN flight /\ UNCHANGED <<launched, asked>> /\ Succeeded(r, flight[r].key, flight[r].run)
    BY <1>7, CallsAreRight DEF Finish, requestVars, RunningSucceeded
  <2> QED
    BY <1>3, <1>7, <2>1, WaitersAreTold DEF Finish
<1>8. ASSUME NEW r \in Runs, Settle(r) \/ Delete(r), UNCHANGED requestVars PROVE CallsInv'
  BY <1>1, <1>8 DEF Settle, Delete, requestVars
<1>9. ASSUME NEW q \in Requests, ReadSquad(q) PROVE CallsInv'
  <2>1. UNCHANGED <<flight, launched, asked>> /\ Remembered
    BY <1>9 DEF ReadSquad, Remembered
  <2>2. CASE Settles(q, "refused", Nothing)
    BY <2>1, <2>2, AskersAreTold
  <2> QED
    BY <1>1, <1>9, <2>1, <2>2 DEF ReadSquad
<1>10. ASSUME NEW q \in Requests, Put(q) \/ PutFails(q) PROVE CallsInv'
  <2>1. UNCHANGED <<flight, launched>> /\ At(q, "putting")
    BY <1>10 DEF Put, PutFails
  <2>2. CASE Settles(q, "refused", Nothing) /\ UNCHANGED asked
    <3>1. Remembered
      BY <2>1, <2>2 DEF Remembered
    <3> QED
      BY <2>1, <2>2, <3>1, AskersAreTold
  <2> QED
    BY <1>10, <2>1, <2>2, StoredRight DEF Put, PutFails
<1>11. ASSUME NEW q \in Requests, Withdraw(q) PROVE CallsInv'
  <2>1. UNCHANGED <<flight, launched, asked>> /\ Remembered /\ Settles(q, "refused", Nothing)
    BY <1>11 DEF Withdraw, Remembered
  <2> QED
    BY <2>1, AskersAreTold
<1>12. CASE Restart
  <2>1. Remembered /\ UNCHANGED launched /\ DOMAIN flight' = {}
    BY <1>12 DEF Restart, Crash, Remembered
  <2>2. RunningSucceeded'
    BY <2>1 DEF RunningSucceeded
  <2>3. ASSUME NEW c \in Calls PROVE CallRight(c)'
    <3>1. call[c] \in CallRecords /\ CallRight(c)
      BY CallsAreRight DEF PlanInv, Typed
    <3>2. CASE call[c].at = "waiting"
      <4>1. call'[c].at = "refused"
        BY <1>12, <3>1, <3>2 DEF Restart, Crash, CallRecords
      <4> QED
        BY <4>1 DEF CallRight
    <3>3. CASE call[c].at # "waiting"
      <4>1. call'[c] = call[c]
        BY <1>12, <3>3 DEF Restart, Crash
      <4> QED
        BY <2>1, <3>1, <3>3, <4>1, RightStays
    <3> QED
      BY <3>2, <3>3
  <2> QED
    BY <2>2, <2>3, RightCallsAgree
<1>13. CASE UNCHANGED allVars
  BY <1>1, <1>13 DEF allVars, vars, requestVars
<1> QED
  BY <1>4, <1>5, <1>6, <1>7, <1>8, <1>9, <1>10, <1>11, <1>12, <1>13, AskIsRight, RunIsAskedRight
     DEF SystemNext, Step, Proceed, Accepting
-----------------------------------------------------------------------------
(* What was asked for: a step that asks for nothing more.                    *)
LEMMA AsksStay ==
  ASSUME AskedInv, UNCHANGED asked, issued \in Nat, issued' \in Nat, issued <= issued',
         \A r \in live' \intersect DOMAIN asked : r \in live,
         \A s \in DOMAIN flight' : Named(s)' =>
           flight'[s].run > issued \/ (s \in DOMAIN flight /\ Named(s) /\ flight'[s].run = flight[s].run),
         \A q \in DOMAIN acceptance' : acceptance'[q].step = "putting" =>
           acceptance'[q].run > issued
             \/ (q \in DOMAIN acceptance /\ acceptance[q].step = "putting" /\ acceptance'[q].run = acceptance[q].run),
         \A q \in DOMAIN acceptance' : q \in DOMAIN acceptance \/ \A r \in live \intersect DOMAIN asked : asked[r] # q
  PROVE  AskedInv'
<1>1. \A r \in DOMAIN asked : r \in 1..issued /\ r \in 1..issued' /\ ~(r > issued)
  BY DEF AskedInv, RequestsAreNew
<1>2. DOMAIN asked' \subseteq 1..issued'
  BY <1>1
<1>3. \A s \in DOMAIN flight' : Named(s)' => flight'[s].run \notin DOMAIN asked
  BY <1>1 DEF AskedInv, RequestsAreNew
<1>4. \A q \in DOMAIN acceptance' : acceptance'[q].step = "putting" => acceptance'[q].run \notin DOMAIN asked
  BY <1>1 DEF AskedInv, RequestsAreNew
<1>5. \A q \in DOMAIN acceptance', r \in live' \intersect DOMAIN asked : asked[r] # q
  BY DEF AskedInv, RequestsAreNew
<1>6. OneLiveRun'
  BY DEF AskedInv, OneLiveRun
<1> QED
  BY <1>2, <1>3, <1>4, <1>5, <1>6 DEF AskedInv, RequestsAreNew

(* A row is written for a request: nothing that is carried out was asked for *)
(* by it.                                                                    *)
LEMMA AsksStored ==
  ASSUME PlanInv, AskedInv, NEW q \in Requests, At(q, "putting"), Store(q), NEW n, HandOver(q, n),
         UNCHANGED <<issued, flight, launched>>
  PROVE  AskedInv'
<1> DEFINE r == acceptance[q].run
<1>1. q \in DOMAIN acceptance /\ Holding(q) /\ Unused(r) /\ r \in 1..issued
  BY DEF At, Holding, PlanInv, NamesAreUnused, Typed
<1>2. asked' = With(asked, r, q)
  BY DEF Store
<1>3. r \notin DOMAIN asked /\ r \notin live
  BY <1>1 DEF AskedInv, RequestsAreNew, At, Unused, PlanInv, Typed
<1>4. /\ live' \subseteq live \union {r}
      /\ r \in live' => q \notin DOMAIN acceptance'
      /\ \A x \in DOMAIN acceptance' : x \in DOMAIN acceptance
      /\ \A x \in DOMAIN acceptance' : x # q => acceptance'[x] = acceptance[x]
      /\ q \in DOMAIN acceptance' => acceptance'[q].step = "withdrawing"
  <2>1. CASE live' = live \union {r} /\ Settles(q, "told", r)
    BY <2>1, AcceptanceGone DEF Settles
  <2>2. CASE /\ UNCHANGED live /\ DOMAIN acceptance' = DOMAIN acceptance /\ acceptance'[q].step = "withdrawing"
             /\ \A x \in DOMAIN acceptance : x # q => acceptance'[x] = acceptance[x]
    BY <1>3, <2>2
  <2> QED
    BY <1>1, <2>1, <2>2, HandedOver
<1>5. DOMAIN asked' = DOMAIN asked \union {r} /\ asked'[r] = q /\ \A x \in DOMAIN asked : asked'[x] = asked[x]
  BY <1>2, <1>3 DEF With
<1>6. \A s \in DOMAIN flight : Named(s) => flight[s].run # r
  BY <1>1 DEF PlanInv, NamesAreDistinct
<1>7. \A x \in DOMAIN acceptance : acceptance[x].step = "putting" /\ acceptance[x].run = r => x = q
  <2>1. \A x \in DOMAIN acceptance : acceptance[x].step = "putting" => Holding(x)
    BY DEF Holding
  <2> QED
    BY <1>1, <2>1 DEF PlanInv, NamesAreDistinct
<1>8. \A s : Named(s)' <=> Named(s)
  BY DEF Named
<1> HIDE DEF r
<1>9. DOMAIN asked' \subseteq 1..issued'
  BY <1>1, <1>5 DEF AskedInv, RequestsAreNew
<1>10. \A s \in DOMAIN flight' : Named(s)' => flight'[s].run \notin DOMAIN asked'
  BY <1>5, <1>6, <1>8 DEF AskedInv, RequestsAreNew
<1>11. \A x \in DOMAIN acceptance' : acceptance'[x].step = "putting" => acceptance'[x].run \notin DOMAIN asked'
  BY <1>4, <1>5, <1>7 DEF AskedInv, RequestsAreNew
<1>12. \A x \in DOMAIN acceptance', s \in live' \intersect DOMAIN asked' : asked'[s] # x
  BY <1>1, <1>4, <1>5 DEF AskedInv, RequestsAreNew
<1>13. OneLiveRun'
  <2>1. \A s \in live \intersect DOMAIN asked : asked[s] # q
    BY <1>1 DEF AskedInv, RequestsAreNew
  <2> QED
    BY <1>4, <1>5, <2>1 DEF AskedInv, OneLiveRun
<1> QED
  BY <1>9, <1>10, <1>11, <1>12, <1>13 DEF AskedInv, RequestsAreNew

LEMMA AskedStep ==
  ASSUME PlanInv, AskedInv, [SystemNext]_allVars
  PROVE  AskedInv'
<1>1. issued \in Nat
  BY Bounds DEF PlanInv, Typed, Runs, Root
<1>2. (UNCHANGED flight => \A x : Named(x)' <=> Named(x)) /\ (UNCHANGED acceptance => \A x : Holding(x)' <=> Holding(x))
  BY DEF Named, Holding
<1>3. CASE UNCHANGED <<issued, flight, acceptance, asked>> /\ live' \subseteq live
  BY <1>1, <1>2, <1>3, AsksStay
<1>4. ASSUME NEW r, Less(flight, r) = flight', UNCHANGED <<live, issued, acceptance, asked>>
      PROVE  AskedInv'
  <2>1. \A s \in DOMAIN flight' : s \in DOMAIN flight /\ flight'[s] = flight[s] /\ (Named(s)' => Named(s))
    BY <1>4, EntryGone
  <2> QED
    BY <1>1, <1>2, <1>4, <2>1, AsksStay
<1>5. ASSUME NEW q, NEW at, NEW run, Settles(q, at, run), UNCHANGED <<live, issued, flight, asked>>
      PROVE  AskedInv'
  <2>1. \A x \in DOMAIN acceptance' : x \in DOMAIN acceptance /\ acceptance'[x] = acceptance[x]
    BY <1>5, AcceptanceGone DEF Settles
  <2> QED
    BY <1>1, <1>2, <1>5, <2>1, AsksStay
<1>6. ASSUME NEW c \in Calls, NEW r \in DOMAIN rows, NEW k \in Keys, Ask(c, r, k), UNCHANGED requestVars
      PROVE  AskedInv'
  <2>1. UNCHANGED <<live, issued, acceptance, asked>>
    BY <1>6 DEF Ask, requestVars
  <2>2. CASE UNCHANGED flight
    BY <1>3, <2>1, <2>2
  <2>3. CASE Admit(c, r, k) /\ ~UNCHANGED flight
    <3>1. \A s \in DOMAIN flight' : Named(s)' => s \in DOMAIN flight /\ Named(s) /\ flight'[s].run = flight[s].run
      BY <2>3, AdmitAdds DEF Named
    <3> QED
      BY <1>1, <1>2, <2>1, <3>1, AsksStay
  <2> QED
    BY <1>6, <2>2, <2>3 DEF Ask, Join, Recall
<1>7. ASSUME NEW r \in Runs, ReadTeam(r), UNCHANGED requestVars
      PROVE  AskedInv'
  <2>1. UNCHANGED <<live, acceptance, asked>> /\ r \in DOMAIN flight
    BY <1>7 DEF ReadTeam, requestVars
  <2>2. CASE Identify /\ flight' = [flight EXCEPT ![r].step = "committing", ![r].run = issued']
    <3>1. issued' = issued + 1
      BY <2>2 DEF Identify
    <3>2. /\ DOMAIN flight' = DOMAIN flight /\ flight'[r].run = issued'
          /\ \A x \in DOMAIN flight : x # r => flight'[x] = flight[x]
      BY <2>1, <2>2, TeamNamed
    <3>3. \A s \in DOMAIN flight' : Named(s)' =>
            flight'[s].run > issued \/ (s \in DOMAIN flight /\ Named(s) /\ flight'[s].run = flight[s].run)
      BY <1>1, <3>1, <3>2 DEF Named
    <3> QED
      BY <1>1, <1>2, <2>1, <3>1, <3>3, AsksStay
  <2> QED
    BY <1>4, <1>7, <2>1, <2>2 DEF ReadTeam, Reject, Resolve
<1>8. ASSUME NEW r \in Runs, CommitReceipt(r) \/ CommitFails(r), UNCHANGED requestVars
      PROVE  AskedInv'
  <2>1. UNCHANGED <<live, issued, acceptance, asked>> /\ r \in DOMAIN flight /\ flight[r].step = "committing"
    BY <1>8 DEF CommitReceipt, CommitFails, requestVars
  <2>2. CASE Advance(r, "launching")
    <3>1. \A s \in DOMAIN flight' : Named(s)' => s \in DOMAIN flight /\ Named(s) /\ flight'[s].run = flight[s].run
      BY <2>1, <2>2, EntryAdvances DEF Named
    <3> QED
      BY <1>1, <1>2, <2>1, <3>1, AsksStay
  <2> QED
    BY <1>4, <1>8, <2>1, <2>2 DEF CommitReceipt, CommitFails, Reject, Resolve
<1>9. ASSUME NEW r \in Runs, Launch(r), UNCHANGED requestVars
      PROVE  AskedInv'
  <2>1. UNCHANGED <<issued, acceptance, asked>> /\ r \in DOMAIN flight /\ flight[r].step = "launching"
    BY <1>9 DEF Launch, requestVars
  <2>2. CASE Reject(r) /\ UNCHANGED live
    BY <1>4, <2>1, <2>2 DEF Reject, Resolve
  <2>3. CASE ~(Reject(r) /\ UNCHANGED live)
    <3>1. ~Reject(r)
      <4>1. DOMAIN flight' = DOMAIN flight
        BY <1>9, <2>3 DEF Launch, Advance
      <4> QED
        BY <2>1, <4>1, EntryGone DEF Reject, Resolve
    <3>2. /\ live' = live \union {flight[r].run} /\ Named(r)
          /\ DOMAIN flight' = DOMAIN flight /\ flight'[r].step = "running"
          /\ \A x \in DOMAIN flight : x # r => flight'[x] = flight[x]
      BY <1>9, <2>1, <3>1, Launched
    <3>3. flight[r].run \notin DOMAIN asked
      BY <2>1, <3>2 DEF AskedInv, RequestsAreNew
    <3>4. \A s \in DOMAIN flight' : Named(s)' => s \in DOMAIN flight /\ Named(s) /\ flight'[s].run = flight[s].run
      BY <3>2 DEF Named
    <3> QED
      BY <1>1, <1>2, <2>1, <3>2, <3>3, <3>4, AsksStay
  <2> QED
    BY <2>2, <2>3
<1>10. ASSUME NEW r \in Runs, Settle(r) \/ Delete(r), UNCHANGED requestVars
       PROVE  AskedInv'
  BY <1>3, <1>10 DEF Settle, Delete, requestVars
<1>11. ASSUME NEW r \in Runs, Finish(r), UNCHANGED requestVars
       PROVE  AskedInv'
  BY <1>4, <1>11 DEF Finish, Reject, Resolve, requestVars
<1>12. ASSUME NEW c \in Calls, NEW q \in Requests, AskForRun(c, q)
       PROVE  AskedInv'
  <2>1. UNCHANGED <<live, issued, flight, asked>>
    BY <1>12 DEF AskForRun
  <2>2. CASE BeginAcceptance(c, q)
    <3>1. /\ DOMAIN acceptance' = DOMAIN acceptance \union {q} /\ acceptance'[q].step = "reading"
          /\ q \notin DOMAIN acceptance /\ \A x \in DOMAIN acceptance : acceptance'[x] = acceptance[x]
      BY <2>2, BeginAdds
    <3>2. \A r \in live \intersect DOMAIN asked : asked[r] # q
      BY <2>2 DEF BeginAcceptance, Accepted, PlanInv, Typed
    <3> QED
      BY <1>1, <1>2, <2>1, <3>1, <3>2, AsksStay
  <2> QED
    BY <1>3, <1>12, <2>1, <2>2 DEF AskForRun, RefuseRetry, FindAccepted, JoinAcceptance
<1>13. ASSUME NEW q \in Requests, ReadSquad(q)
       PROVE  AskedInv'
  <2>1. UNCHANGED <<live, flight, asked>> /\ q \in DOMAIN acceptance
    BY <1>13 DEF ReadSquad, At
  <2>2. CASE Identify /\ acceptance' = [acceptance EXCEPT ![q] = [step |-> "putting", run |-> issued']]
    <3>1. issued' = issued + 1
      BY <2>2 DEF Identify
    <3>2. /\ DOMAIN acceptance' = DOMAIN acceptance /\ acceptance'[q].run = issued'
          /\ \A x \in DOMAIN acceptance : x # q => acceptance'[x] = acceptance[x]
      BY <2>1, <2>2, SquadNamed
    <3> QED
      BY <1>1, <1>2, <2>1, <3>1, <3>2, AsksStay
  <2> QED
    BY <1>5, <1>13, <2>1, <2>2 DEF ReadSquad
<1>14. ASSUME NEW q \in Requests, Put(q) \/ PutFails(q)
       PROVE  AskedInv'
  <2>1. UNCHANGED <<issued, flight, launched>> /\ At(q, "putting")
    BY <1>14 DEF Put, PutFails
  <2> QED
    BY <1>5, <1>14, <2>1, AsksStored DEF Put, PutFails
<1>15. ASSUME NEW q \in Requests, Withdraw(q)
       PROVE  AskedInv'
  BY <1>5, <1>15 DEF Withdraw
<1>16. CASE Restart
  <2>1. DOMAIN flight' = {} /\ DOMAIN acceptance' = {} /\ live' = {} /\ UNCHANGED <<issued, asked>>
    BY <1>16 DEF Restart, Crash
  <2> QED
    BY <1>1, <2>1, AsksStay
<1>17. CASE UNCHANGED allVars
  BY <1>3, <1>17 DEF allVars, vars, requestVars
<1> QED
  BY <1>6, <1>7, <1>8, <1>9, <1>10, <1>11, <1>12, <1>13, <1>14, <1>15, <1>16, <1>17
     DEF SystemNext, Step, Proceed, Accepting
-----------------------------------------------------------------------------
(* What a refusal leaves: r is active, was asked for, and is accounted for.  *)
Accounted(r) == r \in live \/ (\E q \in DOMAIN acceptance : acceptance[q].run = r) \/ faults > 1

LEMMA AllAccounted ==
  RefusalLeavesNothing <=> \A r \in DOMAIN rows \intersect DOMAIN asked : rows[r].status = "active" => Accounted(r)
  BY DEF RefusalLeavesNothing, Accounted

(* No acceptance begins or changes, and no row becomes active that was asked *)
(* for.                                                                      *)
LEMMA WithdrawnStay ==
  ASSUME WithdrawnInv, faults' \in Nat, faults <= faults', UNCHANGED asked,
         \A r \in DOMAIN rows' \intersect DOMAIN asked :
           rows'[r].status = "active" => r \in DOMAIN rows /\ rows[r].status = "active" /\ (r \in live => r \in live'),
         \A q \in DOMAIN acceptance' : q \in DOMAIN acceptance /\ acceptance'[q] = acceptance[q],
         \A q \in DOMAIN acceptance \ DOMAIN acceptance' :
           acceptance[q].run \in DOMAIN rows' => rows'[acceptance[q].run].status # "active" \/ faults' > 1
  PROVE  WithdrawnInv'
<1>1. WithdrawnByFault'
  BY DEF WithdrawnInv, WithdrawnByFault
<1>2. ASSUME NEW r \in DOMAIN rows' \intersect DOMAIN asked', rows'[r].status = "active"
      PROVE  r \in live' \/ (\E q \in DOMAIN acceptance' : acceptance'[q].run = r) \/ faults' > 1
  <2>1. r \in DOMAIN rows /\ rows[r].status = "active" /\ Accounted(r)
    BY <1>2, AllAccounted DEF WithdrawnInv
  <2>2. CASE r \in live
    BY <1>2, <2>2
  <2>3. CASE faults > 1
    BY <2>3 DEF WithdrawnInv, WithdrawnByFault
  <2>4. CASE \E q \in DOMAIN acceptance : acceptance[q].run = r
    BY <1>2, <2>4
  <2> QED
    BY <2>1, <2>2, <2>3, <2>4 DEF Accounted
<1> QED
  BY <1>1, <1>2 DEF WithdrawnInv, RefusalLeavesNothing

(* One acceptance begins, is identified, or has its row written.             *)
LEMMA WithdrawnChanges ==
  ASSUME WithdrawnInv, NEW q, faults' \in Nat, faults <= faults',
         q \in DOMAIN acceptance => acceptance[q].run \notin DOMAIN rows,
         \A x \in DOMAIN acceptance : x # q => x \in DOMAIN acceptance' /\ acceptance'[x] = acceptance[x],
         DOMAIN acceptance' \subseteq DOMAIN acceptance \union {q},
         q \in DOMAIN acceptance' =>
           /\ acceptance'[q].step = "withdrawing" => faults' > 0
           /\ acceptance'[q].step = "reading" => acceptance'[q].run = Nothing,
         live \subseteq live',
         \A r \in DOMAIN rows' \intersect DOMAIN asked' :
           \/ r \in DOMAIN rows /\ r \in DOMAIN asked /\ rows'[r] = rows[r]
           \/ r \in live' \/ (q \in DOMAIN acceptance' /\ acceptance'[q].run = r)
  PROVE  WithdrawnInv'
<1>1. WithdrawnByFault'
  BY DEF WithdrawnInv, WithdrawnByFault
<1>2. ASSUME NEW r \in DOMAIN rows' \intersect DOMAIN asked', rows'[r].status = "active"
      PROVE  r \in live' \/ (\E x \in DOMAIN acceptance' : acceptance'[x].run = r) \/ faults' > 1
  <2>1. CASE r \in DOMAIN rows /\ r \in DOMAIN asked /\ rows'[r] = rows[r]
    <3>1. Accounted(r)
      BY <1>2, <2>1, AllAccounted DEF WithdrawnInv
    <3>2. CASE faults > 1
      BY <3>2 DEF WithdrawnInv, WithdrawnByFault
    <3>3. CASE \E x \in DOMAIN acceptance : acceptance[x].run = r
      BY <2>1, <3>3
    <3> QED
      BY <3>1, <3>2, <3>3 DEF Accounted
  <2> QED
    BY <1>2, <2>1
<1> QED
  BY <1>1, <1>2 DEF WithdrawnInv, RefusalLeavesNothing

LEMMA WithdrawnStored ==
  ASSUME PlanInv, WithdrawnInv, NEW q \in Requests, At(q, "putting"), Store(q), NEW n \in Nat, faults <= n,
         HandOver(q, n)
  PROVE  WithdrawnInv'
<1> DEFINE r == acceptance[q].run
<1>1. q \in DOMAIN acceptance /\ Unused(r)
  BY DEF At, PlanInv, NamesAreUnused
<1>2. /\ DOMAIN rows' = DOMAIN rows \union {r} /\ \A x \in DOMAIN rows : x # r => rows'[x] = rows[x]
      /\ DOMAIN asked' = DOMAIN asked \union {r}
  BY DEF Store, With
<1>3. r \notin DOMAIN rows
  BY <1>1 DEF Unused
<1>4. faults \in Nat
  BY DEF WithdrawnInv, WithdrawnByFault
<1>5. /\ faults' \in Nat /\ faults <= faults' /\ live \subseteq live'
      /\ \A x \in DOMAIN acceptance : x # q => x \in DOMAIN acceptance' /\ acceptance'[x] = acceptance[x]
      /\ DOMAIN acceptance' \subseteq DOMAIN acceptance \union {q}
      /\ q \in DOMAIN acceptance' =>
           acceptance'[q].step = "withdrawing" /\ acceptance'[q].run = r /\ faults' > 0
      /\ q \notin DOMAIN acceptance' => r \in live'
  <2>1. CASE live' = live \union {r} /\ Settles(q, "told", r) /\ faults' = n
    <3>1. /\ DOMAIN acceptance' = DOMAIN acceptance \ {q}
          /\ \A x \in DOMAIN acceptance' : acceptance'[x] = acceptance[x]
      BY <2>1, AcceptanceGone DEF Settles
    <3> QED
      BY <1>4, <2>1, <3>1
  <2>2. CASE /\ UNCHANGED live /\ faults' = n + 1 /\ DOMAIN acceptance' = DOMAIN acceptance
             /\ acceptance'[q].step = "withdrawing" /\ acceptance'[q].run = r
             /\ \A x \in DOMAIN acceptance : x # q => acceptance'[x] = acceptance[x]
    BY <1>1, <1>4, <2>2
  <2> QED
    BY <1>1, <2>1, <2>2, HandedOver
<1> HIDE DEF r
<1>6. \A x \in DOMAIN rows' \intersect DOMAIN asked' :
         \/ x \in DOMAIN rows /\ x \in DOMAIN asked /\ rows'[x] = rows[x]
         \/ x \in live' \/ (q \in DOMAIN acceptance' /\ acceptance'[q].run = x)
  BY <1>2, <1>5
<1>7. acceptance[q].run \notin DOMAIN rows
  BY <1>3 DEF r
<1> QED
  BY <1>5, <1>6, <1>7, WithdrawnChanges

LEMMA WithdrawnStep ==
  ASSUME PlanInv, AskedInv, WithdrawnInv, [SystemNext]_allVars
  PROVE  WithdrawnInv'
<1>1. faults \in Nat
  BY DEF WithdrawnInv, WithdrawnByFault
<1>2. ASSUME UNCHANGED <<live, acceptance, asked>>, faults' \in Nat, faults <= faults',
             \A r \in DOMAIN rows' \intersect DOMAIN asked :
               rows'[r].status = "active" => r \in DOMAIN rows /\ rows[r].status = "active"
      PROVE  WithdrawnInv'
  BY <1>2, WithdrawnStay
<1>3. CASE UNCHANGED <<rows, live, acceptance, asked, faults>>
  BY <1>1, <1>2, <1>3
<1>4. ASSUME NEW q, NEW at, NEW run, Settles(q, at, run), acceptance[q].run \notin DOMAIN rows,
             UNCHANGED <<rows, live, asked>>, faults' \in Nat, faults <= faults'
      PROVE  WithdrawnInv'
  <2>1. /\ \A x \in DOMAIN acceptance' : x \in DOMAIN acceptance /\ acceptance'[x] = acceptance[x]
        /\ \A x \in DOMAIN acceptance \ DOMAIN acceptance' : x = q
    BY <1>4, AcceptanceGone DEF Settles
  <2> QED
    BY <1>4, <2>1, WithdrawnStay
<1>5. ASSUME NEW r \in Runs, CommitReceipt(r) \/ CommitFails(r), UNCHANGED requestVars
      PROVE  WithdrawnInv'
  <2>1. UNCHANGED <<live, acceptance, asked>> /\ faults' \in Nat /\ faults <= faults'
    BY <1>1, <1>5 DEF CommitReceipt, CommitFails, requestVars
  <2>2. DOMAIN rows' = DOMAIN rows /\ \A x \in DOMAIN rows : rows'[x].status = rows[x].status
    <3>1. \A x \in DOMAIN rows : rows[x] \in RowRecords
      BY DEF PlanInv, Typed
    <3> QED
      BY <1>5, <3>1 DEF CommitReceipt, CommitFails, Receipted, RowRecords
  <2> QED
    BY <1>2, <2>1, <2>2
<1>6. ASSUME NEW r \in Runs, Launch(r), UNCHANGED requestVars
      PROVE  WithdrawnInv'
  <2>1. UNCHANGED <<acceptance, asked, faults>> /\ r \in DOMAIN flight /\ Named(r)
    BY <1>6 DEF Launch, requestVars, Named
  <2>2. CASE UNCHANGED <<rows, live>>
    BY <1>3, <2>1, <2>2
  <2>3. CASE rows' = With(rows, flight[r].run, Row("active", flight[r].revision + 1, TRUE)) /\ live \subseteq live'
    <3>1. flight[r].run \notin DOMAIN asked
      BY <2>1 DEF AskedInv, RequestsAreNew
    <3>2. \A x \in DOMAIN rows' \intersect DOMAIN asked : x \in DOMAIN rows /\ rows'[x] = rows[x]
      BY <2>3, <3>1 DEF With
    <3>3. live \subseteq live'
      BY <2>3
    <3> QED
      BY <1>1, <2>1, <3>2, <3>3, WithdrawnStay
  <2> QED
    BY <1>6, <2>2, <2>3 DEF Launch
<1>7. ASSUME NEW r \in Runs, Settle(r), UNCHANGED requestVars
      PROVE  WithdrawnInv'
  <2>1. /\ UNCHANGED <<acceptance, asked, faults>> /\ live' = live \ {r} /\ DOMAIN rows' = DOMAIN rows
        /\ \A x \in DOMAIN rows : x # r => rows'[x] = rows[x]
    BY <1>7 DEF Settle, requestVars
  <2>2. rows'[r].status # "active"
    <3>1. rows[r] \in RowRecords /\ r \in DOMAIN rows
      BY <1>7 DEF Settle, PlanInv, Typed
    <3> QED
      BY <1>7, <3>1 DEF Settle, RowRecords, Settled
  <2> QED
    BY <1>1, <2>1, <2>2, WithdrawnStay
<1>8. ASSUME NEW r \in Runs, Delete(r), UNCHANGED requestVars
      PROVE  WithdrawnInv'
  <2>1. UNCHANGED <<live, acceptance, asked, faults>>
    BY <1>8 DEF Delete, requestVars
  <2>2. DOMAIN rows' \subseteq DOMAIN rows /\ \A x \in DOMAIN rows' : rows'[x] = rows[x]
    BY <1>8 DEF Delete, Less
  <2> QED
    BY <1>1, <1>2, <2>1, <2>2
<1>9. ASSUME NEW c \in Calls, NEW q \in Requests, AskForRun(c, q)
      PROVE  WithdrawnInv'
  <2>1. UNCHANGED <<rows, live, asked, faults>>
    BY <1>9 DEF AskForRun
  <2>2. CASE BeginAcceptance(c, q)
    <3>1. /\ DOMAIN acceptance' = DOMAIN acceptance \union {q} /\ q \notin DOMAIN acceptance
          /\ acceptance'[q].step = "reading" /\ acceptance'[q].run = Nothing
          /\ \A x \in DOMAIN acceptance : acceptance'[x] = acceptance[x]
      BY <2>2, BeginAdds
    <3> QED
      BY <1>1, <2>1, <3>1, WithdrawnChanges
  <2> QED
    BY <1>3, <1>9, <2>1, <2>2 DEF AskForRun, RefuseRetry, FindAccepted, JoinAcceptance
<1>10. ASSUME NEW q \in Requests, ReadSquad(q)
       PROVE  WithdrawnInv'
  <2>1. /\ UNCHANGED <<rows, live, asked, faults>> /\ q \in DOMAIN acceptance
        /\ acceptance[q].run \notin DOMAIN rows
    <3>1. DOMAIN rows \subseteq Runs
      BY Bounds DEF PlanInv, Typed, Runs, Root
    <3> QED
      BY <1>10, <3>1, NothingIsNoRun DEF ReadSquad, At, WithdrawnInv, WithdrawnByFault
  <2>2. CASE Settles(q, "refused", Nothing)
    BY <1>1, <1>4, <2>1, <2>2
  <2>3. CASE Identify /\ acceptance' = [acceptance EXCEPT ![q] = [step |-> "putting", run |-> issued']]
    <3>1. /\ DOMAIN acceptance' = DOMAIN acceptance /\ acceptance'[q].step = "putting"
          /\ \A x \in DOMAIN acceptance : x # q => acceptance'[x] = acceptance[x]
      BY <2>1, <2>3, SquadNamed
    <3> QED
      BY <1>1, <2>1, <3>1, WithdrawnChanges
  <2> QED
    BY <1>10, <2>2, <2>3 DEF ReadSquad
<1>11. ASSUME NEW q \in Requests, Put(q) \/ PutFails(q)
       PROVE  WithdrawnInv'
  <2>1. At(q, "putting")
    BY <1>11 DEF Put, PutFails
  <2>2. CASE Settles(q, "refused", Nothing) /\ faults' = faults + 1 /\ UNCHANGED <<rows, live, asked>>
    <3>1. acceptance[q].run \notin DOMAIN rows
      BY <2>1 DEF At, PlanInv, NamesAreUnused, Unused
    <3> QED
      BY <1>1, <1>4, <2>2, <3>1
  <2>3. ASSUME Store(q), NEW n \in {faults, faults + 1}, HandOver(q, n) PROVE WithdrawnInv'
    BY <1>1, <2>1, <2>3, WithdrawnStored
  <2> QED
    BY <1>11, <2>2, <2>3 DEF Put, PutFails
<1>12. ASSUME NEW q \in Requests, Withdraw(q)
       PROVE  WithdrawnInv'
  <2>1. /\ Settles(q, "refused", Nothing) /\ UNCHANGED <<live, asked>>
        /\ q \in DOMAIN acceptance /\ acceptance[q].step = "withdrawing" /\ faults > 0
    BY <1>12 DEF Withdraw, At, WithdrawnInv, WithdrawnByFault
  <2>2. /\ \A x \in DOMAIN acceptance' : x \in DOMAIN acceptance /\ acceptance'[x] = acceptance[x]
        /\ \A x \in DOMAIN acceptance \ DOMAIN acceptance' : x = q
    BY <2>1, AcceptanceGone DEF Settles
  <2>3. CASE rows' = [rows EXCEPT ![acceptance[q].run].status = "final"] /\ UNCHANGED faults
    <3>1. DOMAIN rows' = DOMAIN rows /\ \A x \in DOMAIN rows : x # acceptance[q].run => rows'[x] = rows[x]
      BY <2>3
    <3>2. acceptance[q].run \in DOMAIN rows => rows'[acceptance[q].run].status = "final"
      <4>1. \A x \in DOMAIN rows : rows[x] \in RowRecords
        BY DEF PlanInv, Typed
      <4> QED
        BY <2>3, <4>1 DEF RowRecords
    <3>3. \A r \in DOMAIN rows' \intersect DOMAIN asked : rows'[r].status = "active" => rows'[r] = rows[r]
      BY <3>1, <3>2
    <3> QED
      BY <1>1, <2>1, <2>2, <2>3, <3>1, <3>2, <3>3, WithdrawnStay
  <2>4. CASE faults' = faults + 1 /\ UNCHANGED rows
    <3>1. faults' \in Nat /\ faults <= faults' /\ faults' > 1
      BY <1>1, <2>1, <2>4
    <3> QED
      BY <2>1, <2>2, <2>4, <3>1, WithdrawnStay
  <2> QED
    BY <1>12, <2>3, <2>4 DEF Withdraw
<1>13. CASE Restart
  <2>1. DOMAIN acceptance' = {} /\ UNCHANGED <<asked, faults>> /\ DOMAIN rows' = DOMAIN rows
    BY <1>13 DEF Restart, Crash
  <2>2. \A r \in DOMAIN rows : rows'[r].status # "active"
    <3>1. \A r \in DOMAIN rows : rows[r] \in RowRecords
      BY DEF PlanInv, Typed
    <3> QED
      BY <1>13, <3>1 DEF Restart, Crash, RowRecords
  <2> QED
    BY <1>1, <2>1, <2>2, WithdrawnStay
<1>14. CASE UNCHANGED allVars
  BY <1>3, <1>14 DEF allVars, vars, requestVars
<1>15. ASSUME NEW c \in Calls, NEW r \in DOMAIN rows, NEW k \in Keys, Ask(c, r, k), UNCHANGED requestVars
       PROVE  WithdrawnInv'
  BY <1>3, <1>15 DEF Ask, requestVars
<1>16. ASSUME NEW r \in Runs, ReadTeam(r) \/ Finish(r), UNCHANGED requestVars
       PROVE  WithdrawnInv'
  BY <1>3, <1>16 DEF ReadTeam, Finish, requestVars
<1> QED
  BY <1>5, <1>6, <1>7, <1>8, <1>9, <1>10, <1>11, <1>12, <1>13, <1>14, <1>15, <1>16
     DEF SystemNext, Step, Proceed, Accepting
-----------------------------------------------------------------------------
LEMMA RequestInvStarts == SystemInit => RequestInv
<1> SUFFICES ASSUME SystemInit PROVE RequestInv
  OBVIOUS
<1>1. /\ DOMAIN rows = {Root} /\ rows[Root].receipt = Nothing /\ live = {Root} /\ DOMAIN flight = {}
      /\ DOMAIN acceptance = {} /\ DOMAIN asked = {} /\ launched = {} /\ faults = 0
      /\ \A c \in Calls : call[c].at = "unmade"
  BY DEF SystemInit, Init, Row, Unmade, Made
<1>2. ReceiptsLead
  BY <1>1 DEF ReceiptsLead
<1>3. CallsInv
  BY <1>1 DEF CallsInv, WaitersAgree, AnswersAgree, AnswersToRequests
<1>4. AskedInv
  BY <1>1 DEF AskedInv, RequestsAreNew, OneLiveRun
<1>5. WithdrawnInv
  BY <1>1 DEF WithdrawnInv, WithdrawnByFault, RefusalLeavesNothing
<1> QED
  BY <1>2, <1>3, <1>4, <1>5 DEF RequestInv

LEMMA RequestInvKept == PlanInv /\ RequestInv /\ [SystemNext]_allVars => RequestInv'
  BY ReceiptsLeadStep, CallsStep, AskedStep, WithdrawnStep DEF RequestInv, AskedInv

\* A background request is carried out by one run at a time, however often it is
\* repeated while its team is read, its row written or its job handed over; who is told
\* of a run asked for that run.  For any number of calls, faults and crashes.
THEOREM OneRunForARequest == SystemSpec => []OneRunPerRequest
<1>1. RequestInv => OneRunPerRequest
  BY DEF RequestInv, CallsInv, AskedInv, OneLiveRun, AnswersToRequests, OneRunPerRequest
<1> QED
  BY <1>1, RequestInvStarts, RequestInvKept, PlanInvStarts, PlanInvKept, FaultsAreCounted, PTL DEF SystemSpec

\* After a refusal nothing is left that a repeated request would be answered with: it
\* takes two faults, a refused job and a failing write, to leave an active row behind.
THEOREM RefusalsLeaveNothing == SystemSpec => []RefusalLeavesNothing
<1>1. RequestInv => RefusalLeavesNothing
  BY DEF RequestInv, WithdrawnInv
<1> QED
  BY <1>1, RequestInvStarts, RequestInvKept, PlanInvStarts, PlanInvKept, FaultsAreCounted, PTL DEF SystemSpec
=============================================================================
