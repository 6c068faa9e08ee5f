----------------------------- MODULE ModeProofs -----------------------------
(***************************************************************************)
(* The mode of a conversation, at the host and in the control that shows   *)
(* it, for every number of calls, messages, choices, writes and faults.    *)
(*                                                                         *)
(* Admission: what the user chose for a message counts there and nowhere   *)
(* else, a message starts at most one squad, and a choice that nobody took *)
(* is kept.  Composer: a forced load of the catalog resolves with every    *)
(* write committed before it, and a control at rest shows the mode that    *)
(* the host applies to the next message.                                   *)
(***************************************************************************)
EXTENDS Admission, Composer, SequenceTheorems, FiniteSetTheorems, TLAPS

-----------------------------------------------------------------------------
(***************************************************************************)
(* Admission: the invariant.                                               *)
(***************************************************************************)
\* A call that may still claim its message.
Early == {"next", "solo", "mode", "team"}

\* Open calls are about messages that were sent, and only a host that is ready has any.
CallsInv ==
  /\ \A c \in Calls : /\ call[c].pc # "idle" => call[c].msg \in 1..current
                      /\ call[c].pc = "idle" => call[c] = Idle
                      /\ call[c].pc \in Early => ~call[c].claimed
  /\ host # "ready" => \A c \in Calls : call[c] = Idle

\* Who may claim an older message than the latest.
Behind == {c \in Calls : call[c].pc \in Early /\ call[c].msg # current}

\* A message has one receipt, and after that of the latest message there is
\* room at the start for those of everybody who is behind.
ReceiptsInv ==
  /\ \A i, j \in DOMAIN claims : claims[i].msg = claims[j].msg => i = j
  /\ \A i \in DOMAIN claims : claims[i].msg <= current
  /\ \A i \in DOMAIN claims :
       claims[i].msg = current => Len(claims) - i + Cardinality(Behind) < Cardinality(Calls)

\* The call c claimed m and will start its squad.
Claimed(r) == r.pc = "launch" \/ (r.pc = "clear" /\ r.claimed)
Holds(c, m) == call[c].msg = m /\ Claimed(call[c])

\* No call is about m, now or later.
Gone(m) == m < current /\ \A c \in Calls : call[c].msg # m

\* A message is claimed by one call, before it is started, and whatever was
\* started is protected by its receipt, or nobody asks for it any more.
ServedInv ==
  /\ \A m \in Messages : starts[m] \in {0, 1}
  /\ \A c \in Calls, m \in Messages : Holds(c, m) => starts[m] = 0 /\ Receipt(m, "team")
  /\ \A c, d \in Calls, m \in Messages : Holds(c, m) /\ Holds(d, m) => c = d
  /\ \A m \in Messages : starts[m] # 0 => Receipt(m, "team") \/ (Gone(m) /\ ~Receipt(m, "solo"))

\* The stored choice is the newest one, and who took it is its claimer.
ChoicesInv ==
  /\ next.id <= choices
  /\ \A k \in Choices : k > choices => taken[k] = {}
  /\ next.id # 0 => taken[next.id] = IF next.by = 0 THEN {} ELSE {next.by}
  /\ \A k \in Choices : \A a, b \in taken[k] : a = b

\* What nobody took and is stored is newer than what the pass of a start will delete.
PassInv ==
  stale # 0 => /\ host = "choices" /\ stale <= choices
               /\ next.id # 0 /\ next.by = 0 => stale < next.id

AdmissionInv == TypeOK /\ CallsInv /\ ReceiptsInv /\ ServedInv /\ ChoicesInv /\ PassInv
-----------------------------------------------------------------------------
(***************************************************************************)
(* How a step of one call changes its record.                              *)
(***************************************************************************)
CallType ==
  [pc : {"idle", "next", "solo", "mode", "team", "clear", "launch", "return"},
   msg : Messages \union {0}, choice : {"none", "solo", "team"}, claimed : BOOLEAN]

\* Only the record of c changes.
OthersStay(c) == \A d \in Calls : d # c => call'[d] = call[d]

LEMMA GotoIs ==
  ASSUME TypeOK, NEW c \in Calls, NEW p, Goto(c, p)
  PROVE  /\ OthersStay(c) /\ call'[c].pc = p /\ call'[c].msg = call[c].msg
         /\ call'[c].choice = call[c].choice /\ call'[c].claimed = call[c].claimed
         /\ p \in {"idle", "next", "solo", "mode", "team", "clear", "launch", "return"} => call' \in [Calls -> CallType]
<1>1. call \in [Calls -> CallType] /\ call' = [call EXCEPT ![c].pc = p]
  BY DEF TypeOK, CallType, Goto
<1>2. call[c] \in CallType /\ call'[c] = [call[c] EXCEPT !.pc = p] /\ OthersStay(c)
  BY <1>1 DEF OthersStay
<1> QED
  BY <1>1, <1>2 DEF CallType

LEMMA ReturnIs ==
  ASSUME TypeOK, NEW c \in Calls, Return(c)
  PROVE  OthersStay(c) /\ call'[c] = Idle /\ call' \in [Calls -> CallType]
<1>1. call \in [Calls -> CallType] /\ call' = [call EXCEPT ![c] = Idle] /\ Idle \in CallType
  BY DEF TypeOK, CallType, Return, Idle
<1> QED
  BY <1>1 DEF OthersStay

LEMMA IdleIs == Idle.pc = "idle" /\ Idle.msg = 0 /\ Idle.choice = "none" /\ Idle.claimed = FALSE
BY DEF Idle

LEMMA EnterIs ==
  ASSUME TypeOK, NEW c \in Calls, NEW p \in {"next", "team"}, current > 0,
         call' = [call EXCEPT ![c] = [Idle EXCEPT !.pc = p, !.msg = current]]
  PROVE  /\ OthersStay(c) /\ call'[c].pc = p /\ call'[c].msg = current /\ call'[c].claimed = FALSE
         /\ call' \in [Calls -> CallType]
<1> DEFINE r == [Idle EXCEPT !.pc = p, !.msg = current]
<1>1. call \in [Calls -> CallType] /\ current \in Messages \union {0} /\ Idle \in CallType
  BY DEF TypeOK, CallType, Idle
<1>2. r.pc = p /\ r.msg = current /\ r.claimed = FALSE /\ r \in CallType
  BY <1>1, IdleIs DEF CallType
<1> HIDE DEF r
<1>3. call' = [call EXCEPT ![c] = r]
  BY DEF r
<1> QED
  BY <1>1, <1>2, <1>3 DEF OthersStay

LEMMA ClaimNextIs ==
  ASSUME TypeOK, NEW h \in Calls, ClaimNext(h)
  PROVE  /\ OthersStay(h) /\ call'[h].pc \in {"solo", "mode"} /\ call'[h].msg = call[h].msg
         /\ call'[h].claimed = call[h].claimed /\ call' \in [Calls -> CallType]
<1> DEFINE mine == next.id # 0 /\ next.by \in {0, call[h].msg}
           choice == IF mine THEN next.state ELSE "none"
           pc == IF mine /\ next.state = "solo" THEN "solo" ELSE "mode"
<1>1. call \in [Calls -> CallType] /\ next.state \in {"none", "solo", "team"}
  BY DEF TypeOK, CallType
<1>2. call' = [call EXCEPT ![h].choice = choice, ![h].pc = pc]
  BY DEF ClaimNext
<1>3. choice \in {"none", "solo", "team"} /\ pc \in {"solo", "mode"}
  BY <1>1
<1> HIDE DEF choice, pc
<1>4. call[h] \in CallType /\ call'[h] = [call[h] EXCEPT !.choice = choice, !.pc = pc] /\ OthersStay(h)
  BY <1>1, <1>2 DEF OthersStay
<1>5. /\ call'[h].pc = pc /\ call'[h].msg = call[h].msg /\ call'[h].claimed = call[h].claimed
      /\ call'[h] \in CallType
  BY <1>3, <1>4 DEF CallType
<1> QED
  BY <1>1, <1>2, <1>3, <1>4, <1>5

LEMMA ClaimTeamIs ==
  ASSUME TypeOK, NEW h \in Calls, ClaimTeam(h)
  PROVE  /\ OthersStay(h) /\ call'[h].pc \in {"clear", "launch", "return"} /\ call'[h].msg = call[h].msg
         /\ Claimed(call'[h]) => Claimable(call[h].msg)
         /\ call' \in [Calls -> CallType]
<1> DEFINE ok == Claimable(call[h].msg)
           pc == IF call[h].choice = "team" THEN "clear" ELSE IF ok THEN "launch" ELSE "return"
<1>1. call \in [Calls -> CallType] /\ ok \in BOOLEAN
  BY DEF TypeOK, CallType, Claimable
<1>2. call' = [call EXCEPT ![h].claimed = ok, ![h].pc = pc]
  BY DEF ClaimTeam
<1>3. pc \in {"clear", "launch", "return"} /\ (pc = "launch" => ok)
  OBVIOUS
<1> HIDE DEF ok, pc
<1>4. call[h] \in CallType /\ call'[h] = [call[h] EXCEPT !.claimed = ok, !.pc = pc] /\ OthersStay(h)
  BY <1>1, <1>2 DEF OthersStay
<1>5. /\ call'[h].pc = pc /\ call'[h].msg = call[h].msg /\ call'[h].claimed = ok
      /\ call'[h] \in CallType
  BY <1>1, <1>3, <1>4 DEF CallType
<1> QED
  BY <1>1, <1>2, <1>3, <1>4, <1>5 DEF ok, Claimed

(***************************************************************************)
(* Receipts and the calls that may still write one.                        *)
(***************************************************************************)
LEMMA BehindIsFinite ==
  /\ IsFiniteSet(Calls) /\ Cardinality(Calls) \in Nat
  /\ IsFiniteSet(Behind) /\ Behind \subseteq Calls /\ Cardinality(Behind) \in Nat
<1>1. IsFiniteSet(Calls) /\ Behind \subseteq Calls
  BY AdmissionAssumption DEF Behind
<1>2. IsFiniteSet(Behind)
  BY <1>1, FS_Subset
<1> QED
  BY <1>1, <1>2, FS_CardinalityType

\* Only calls that were behind are behind: no more of them.
LEMMA BehindShrinks ==
  ASSUME Behind' \subseteq Behind
  PROVE  Cardinality(Behind') \in Nat /\ Cardinality(Behind') <= Cardinality(Behind)
BY BehindIsFinite, FS_Subset, FS_CardinalityType

\* One call that was behind is behind no more.
LEMMA BehindLosesOne ==
  ASSUME NEW c \in Behind, Behind' \subseteq Behind \ {c}
  PROVE  Cardinality(Behind') \in Nat /\ Cardinality(Behind') < Cardinality(Behind)
<1>1. IsFiniteSet(Behind \ {c}) /\ Cardinality(Behind \ {c}) = Cardinality(Behind) - 1
  BY BehindIsFinite, FS_RemoveElement
<1>2. Cardinality(Behind') \in Nat /\ Cardinality(Behind') <= Cardinality(Behind \ {c})
  BY <1>1, FS_Subset, FS_CardinalityType
<1> QED
  BY <1>1, <1>2, BehindIsFinite

\* A call that is about to claim counts among Calls, but not among the late.
LEMMA BehindWithout ==
  ASSUME NEW c \in Calls, Behind' \subseteq Calls \ {c}
  PROVE  Cardinality(Behind') \in Nat /\ Cardinality(Behind') < Cardinality(Calls)
<1>1. IsFiniteSet(Calls \ {c}) /\ Cardinality(Calls \ {c}) = Cardinality(Calls) - 1
  BY BehindIsFinite, FS_RemoveElement
<1>2. Cardinality(Behind') \in Nat /\ Cardinality(Behind') <= Cardinality(Calls \ {c})
  BY <1>1, FS_Subset, FS_CardinalityType
<1> QED
  BY <1>1, <1>2, BehindIsFinite

\* What a step of the call c may do to its record when it claims nothing.
MayBecome(c, r) ==
  /\ r.pc # "idle" => r.msg \in 1..current
  /\ r.pc = "idle" => r = Idle
  /\ r.pc \in Early => ~r.claimed
  /\ r.msg # call[c].msg => r.msg = current \/ r.msg = 0
  /\ r.pc \in Early /\ r.msg # current => c \in Behind
  /\ Claimed(r) => Claimed(call[c]) /\ r.msg = call[c].msg

LEMMA CallMoves ==
  ASSUME AdmissionInv, NEW c \in Calls, OthersStay(c), host = "ready", host' = host,
         call' \in [Calls -> CallType], MayBecome(c, call'[c]),
         claims' = claims, current' = current, starts' = starts
  PROVE  CallsInv' /\ ReceiptsInv' /\ ServedInv'
<1> USE DEF AdmissionInv, OthersStay
<1>1. CallsInv'
  BY DEF CallsInv, MayBecome
<1>2. Behind' \subseteq Behind
  BY DEF Behind, MayBecome
<1>3. Cardinality(Behind') \in Nat /\ Cardinality(Behind') <= Cardinality(Behind)
  BY <1>2, BehindShrinks
<1>4. ReceiptsInv'
  <2>1. \A i \in DOMAIN claims : i \in Nat /\ Len(claims) \in Nat
    BY DEF TypeOK
  <2> QED
    BY <1>3, <2>1, BehindIsFinite DEF ReceiptsInv
<1>5. \A d \in Calls, m \in Messages : Holds(d, m)' => Holds(d, m)
  BY DEF Holds, MayBecome
<1>6. \A m \in Messages : Gone(m) => Gone(m)'
  <2>1. \A m \in Messages : m \in Nat /\ m # 0
    BY AdmissionAssumption DEF Messages
  <2>2. \A m \in Messages : m < current => m # current
    BY <2>1, AdmissionAssumption DEF Messages, TypeOK
  <2>3. \A m \in Messages, d \in Calls : m < current /\ call[d].msg # m => call'[d].msg # m
    BY <2>1, <2>2 DEF MayBecome
  <2> QED
    BY <2>3 DEF Gone
<1>7. \A m \in Messages, kind \in {"solo", "team"} : Receipt(m, kind)' <=> Receipt(m, kind)
  BY DEF Receipt
<1>8. ServedInv'
  <2>1. \A m \in Messages : (starts[m] \in {0, 1})'
    BY DEF ServedInv
  <2>2. \A d \in Calls, m \in Messages : Holds(d, m)' => starts'[m] = 0 /\ Receipt(m, "team")'
    BY <1>5, <1>7 DEF ServedInv
  <2>3. \A d, e \in Calls, m \in Messages : Holds(d, m)' /\ Holds(e, m)' => d = e
    BY <1>5 DEF ServedInv
  <2>4. \A m \in Messages : starts'[m] # 0 => Receipt(m, "team")' \/ (Gone(m)' /\ ~Receipt(m, "solo")')
    BY <1>6, <1>7 DEF ServedInv
  <2> QED
    BY <2>1, <2>2, <2>3, <2>4 DEF ServedInv
<1> QED
  BY <1>1, <1>4, <1>8

\* What a call that writes a receipt for its message, or finds one, becomes.
HasClaimed(c, r, kind) ==
  /\ r.pc \notin Early
  /\ r.pc = "idle" => r = Idle
  /\ r.pc # "idle" => r.msg = call[c].msg
  /\ Claimed(r) => kind = "team" /\ Claimable(call[c].msg) /\ r.msg = call[c].msg

LEMMA CallTypeOK ==
  ASSUME TypeOK
  PROVE  call \in [Calls -> CallType] /\ current \in Nat /\ \A c \in Calls : call[c] \in CallType
<1>1. call \in [Calls -> CallType]
  BY DEF TypeOK, CallType
<1>2. current \in Nat
  BY AdmissionAssumption DEF TypeOK, Messages
<1> QED
  BY <1>1, <1>2

LEMMA SentIsMessage ==
  ASSUME AdmissionInv, NEW c \in Calls, call[c].pc # "idle"
  PROVE  call[c].msg \in 1..current /\ call[c].msg \in Messages /\ current \in Nat /\ host = "ready"
<1>1. TypeOK /\ CallsInv
  BY DEF AdmissionInv
<1>2. call[c].msg \in 1..current /\ current \in Messages \union {0}
  BY <1>1 DEF CallsInv, TypeOK
<1>3. host = "ready"
  BY <1>1, IdleIs DEF CallsInv, TypeOK
<1> QED
  BY <1>2, <1>3, AdmissionAssumption DEF Messages

\* The members of a sequence, and what an append adds.
LEMMA SeqElements ==
  ASSUME NEW S, NEW s \in Seq(S)
  PROVE  Len(s) \in Nat /\ DOMAIN s = 1..Len(s) /\ \A i \in DOMAIN s : s[i] \in S
OBVIOUS

LEMMA AppendIs ==
  ASSUME NEW S, NEW s \in Seq(S), NEW x \in S
  PROVE  /\ Append(s, x) \in Seq(S) /\ Len(Append(s, x)) = Len(s) + 1
         /\ Append(s, x)[Len(s) + 1] = x /\ \A i \in DOMAIN s : Append(s, x)[i] = s[i]
OBVIOUS

\* Which receipts there are after a claim.
LEMMA ReceiptWritten ==
  ASSUME TypeOK, NEW m \in Messages, NEW kind \in {"solo", "team"}, Claimable(m), Claim(m, kind)
  PROVE  /\ Len(claims) \in Nat /\ Len(claims') = Len(claims) + 1
         /\ claims'[Len(claims) + 1] = [msg |-> m, kind |-> kind]
         /\ \A i \in DOMAIN claims : claims'[i] = claims[i] /\ claims[i].msg # m
         /\ DOMAIN claims = 1..Len(claims) /\ DOMAIN claims' = 1..(Len(claims) + 1)
         /\ claims' \in Seq([msg : Messages, kind : {"solo", "team"}]) /\ last' = m
<1>1. claims \in Seq([msg : Messages, kind : {"solo", "team"}]) /\ claims' = Append(claims, [msg |-> m, kind |-> kind]) /\ last' = m
  BY DEF TypeOK, Claim
<1>2. \A i \in DOMAIN claims : claims[i].msg # m
  <2> SUFFICES ASSUME NEW i \in DOMAIN claims, claims[i].msg = m
               PROVE  FALSE
    OBVIOUS
  <2>1. claims[i] \in [msg : Messages, kind : {"solo", "team"}]
    BY <1>1, SeqElements
  <2>2. claims[i] = [msg |-> m, kind |-> claims[i].kind] /\ claims[i].kind \in {"solo", "team"}
    BY <2>1
  <2> QED
    BY <2>2 DEF Claimable, Receipt
<1> DEFINE x == [msg |-> m, kind |-> kind]
<1>3. x \in [msg : Messages, kind : {"solo", "team"}]
  OBVIOUS
<1> HIDE DEF x
<1>4. claims' = Append(claims, x)
  BY <1>1 DEF x
<1>5. /\ claims' \in Seq([msg : Messages, kind : {"solo", "team"}]) /\ Len(claims') = Len(claims) + 1
      /\ claims'[Len(claims) + 1] = x /\ \A i \in DOMAIN claims : claims'[i] = claims[i]
  BY <1>1, <1>3, <1>4, AppendIs
<1>6. Len(claims) \in Nat /\ DOMAIN claims = 1..Len(claims) /\ DOMAIN claims' = 1..Len(claims')
  BY <1>1, <1>5, SeqElements
<1> QED
  BY <1>1, <1>2, <1>5, <1>6 DEF x

LEMMA CallClaims ==
  ASSUME AdmissionInv, NEW c \in Calls, NEW kind \in {"solo", "team"},
         call[c].pc \in Early, Claim(call[c].msg, kind), OthersStay(c), HasClaimed(c, call'[c], kind),
         host = "ready", host' = host, call' \in [Calls -> CallType], current' = current, starts' = starts
  PROVE  CallsInv' /\ ReceiptsInv' /\ ServedInv'
<1>0. PICK m : m = call[c].msg
  OBVIOUS
<1>1. /\ TypeOK /\ CallsInv /\ ReceiptsInv /\ ServedInv
      /\ call[c].pc # "idle" /\ m \in 1..current /\ m \in Messages /\ current \in Nat
  <2>1. call[c].pc # "idle"
    BY DEF Early
  <2>2. m \in 1..current /\ m \in Messages /\ current \in Nat
    BY <1>0, <2>1, SentIsMessage
  <2> QED
    BY <2>1, <2>2 DEF AdmissionInv
<1>2. CASE ~Claimable(m)
  <2>1. claims' = claims
    BY <1>0, <1>2 DEF Claim
  <2>2. MayBecome(c, call'[c])
    BY <1>0, <1>1, <1>2, IdleIs DEF MayBecome, HasClaimed
  <2> QED
    BY <2>1, <2>2, CallMoves
<1>3. CASE Claimable(m)
  <2>1. /\ Len(claims) \in Nat /\ Len(claims') = Len(claims) + 1
        /\ claims'[Len(claims) + 1] = [msg |-> m, kind |-> kind]
        /\ \A i \in DOMAIN claims : claims'[i] = claims[i] /\ claims[i].msg # m
        /\ DOMAIN claims = 1..Len(claims) /\ DOMAIN claims' = 1..(Len(claims) + 1)
    BY <1>0, <1>1, <1>3, ReceiptWritten
  <2>1a. claims'[Len(claims) + 1].msg = m
    BY <2>1
  <2>2. Behind' \subseteq Behind \ {c}
    BY DEF Behind, OthersStay, HasClaimed
  <2>3. CallsInv'
    BY <1>0, <1>1 DEF CallsInv, HasClaimed, OthersStay
  <2>4. \A i, j \in DOMAIN claims' : claims'[i].msg = claims'[j].msg => i = j
    <3>1. \A i, j \in DOMAIN claims : claims[i].msg = claims[j].msg => i = j
      BY <1>0, <1>1 DEF ReceiptsInv
    <3>2. \A i \in DOMAIN claims' : i \in DOMAIN claims \/ i = Len(claims) + 1
      BY <2>1
    <3> QED
      BY <2>1, <2>1a, <3>1, <3>2
  <2>5. \A i \in DOMAIN claims' : claims'[i].msg <= current
    <3>1. \A i \in DOMAIN claims : claims[i].msg <= current
      BY <1>0, <1>1 DEF ReceiptsInv
    <3>2. \A i \in DOMAIN claims' : i \in DOMAIN claims \/ i = Len(claims) + 1
      BY <2>1
    <3> QED
      BY <1>0, <1>1, <2>1, <2>1a, <3>1, <3>2
  <2>6. ASSUME NEW i \in DOMAIN claims', claims'[i].msg = current
        PROVE  Len(claims') - i + Cardinality(Behind') < Cardinality(Calls)
    <3>1. CASE i = Len(claims) + 1
      <4>1. Behind' \subseteq Calls \ {c}
        BY <2>2 DEF Behind
      <4>2. Cardinality(Behind') \in Nat /\ Cardinality(Behind') < Cardinality(Calls)
        BY <4>1, BehindWithout
      <4> QED
        BY <2>1, <3>1, <4>2, BehindIsFinite
    <3>2. CASE i # Len(claims) + 1
      <4>1. i \in DOMAIN claims /\ claims[i].msg = current /\ m # current
        BY <2>1, <2>6, <3>2
      <4>2. c \in Behind
        BY <1>0, <4>1 DEF Behind
      <4>3. Cardinality(Behind') \in Nat /\ Cardinality(Behind') < Cardinality(Behind)
        BY <2>2, <4>2, BehindLosesOne
      <4>4. Len(claims) - i + Cardinality(Behind) < Cardinality(Calls)
        BY <1>0, <1>1, <4>1 DEF ReceiptsInv
      <4>5. i \in Nat
        BY <2>1, <4>1
      <4> QED
        BY <2>1, <4>3, <4>4, <4>5, BehindIsFinite
    <3> QED
      BY <3>1, <3>2
  <2>7. ReceiptsInv'
    BY <2>4, <2>5, <2>6 DEF ReceiptsInv
  <2>8. /\ \A k \in {"solo", "team"} : ~Receipt(m, k)
        /\ \A n \in Messages, k \in {"solo", "team"} : Receipt(n, k) => Receipt(n, k)'
        /\ \A n \in Messages, k \in {"solo", "team"} : Receipt(n, k)' => Receipt(n, k) \/ (n = m /\ k = kind)
        /\ Receipt(m, kind)'
    <3>1. \A k \in {"solo", "team"} : ~Receipt(m, k)
      BY <1>3 DEF Claimable
    <3>2. \A i \in DOMAIN claims : i \in DOMAIN claims' /\ claims'[i] = claims[i]
      BY <2>1
    <3>3. \A n \in Messages, k \in {"solo", "team"} : Receipt(n, k) => Receipt(n, k)'
      BY <3>2 DEF Receipt
    <3>4. \A i \in DOMAIN claims' : i \in DOMAIN claims \/ i = Len(claims) + 1
      BY <2>1
    <3>5. \A n \in Messages, k \in {"solo", "team"} : Receipt(n, k)' => Receipt(n, k) \/ (n = m /\ k = kind)
      BY <2>1, <3>2, <3>4 DEF Receipt
    <3>6. Len(claims) + 1 \in DOMAIN claims'
      BY <2>1
    <3>7. Receipt(m, kind)'
      BY <2>1, <3>6 DEF Receipt
    <3> QED
      BY <3>1, <3>3, <3>5, <3>7
  <2>9. starts[m] = 0
    BY <1>0, <1>1, <2>8 DEF ServedInv, Gone
  <2>10. \A d \in Calls, n \in Messages : Holds(d, n)' => Holds(d, n) \/ (d = c /\ n = m /\ kind = "team")
    BY <1>0 DEF Holds, OthersStay, HasClaimed
  <2>11. \A d \in Calls : ~Holds(d, m)
    BY <1>0, <1>1, <2>8 DEF ServedInv
  <2>12. \A n \in Messages : Gone(n) => Gone(n)' /\ n # m
    <3>1. \A n \in Messages : n \in Nat /\ n # 0
      BY AdmissionAssumption DEF Messages
    <3>2. call'[c].msg = m \/ call'[c].msg = 0
      BY <1>0, IdleIs DEF HasClaimed
    <3> QED
      BY <1>0, <1>1, <3>1, <3>2 DEF Gone, OthersStay
  <2>13. ServedInv'
    <3>1. \A n \in Messages : starts'[n] \in {0, 1}
      BY <1>0, <1>1 DEF ServedInv
    <3>2. \A d \in Calls, n \in Messages : Holds(d, n)' => starts'[n] = 0 /\ Receipt(n, "team")'
      <4>1. \A d \in Calls, n \in Messages : Holds(d, n) => starts[n] = 0 /\ Receipt(n, "team")
        BY <1>0, <1>1 DEF ServedInv
      <4> QED
        BY <1>0, <1>1, <2>8, <2>9, <2>10, <4>1
    <3>3. \A d, e \in Calls, n \in Messages : Holds(d, n)' /\ Holds(e, n)' => d = e
      BY <1>0, <1>1, <2>10, <2>11 DEF ServedInv
    <3>4. \A n \in Messages : starts'[n] # 0 => Receipt(n, "team")' \/ (Gone(n)' /\ ~Receipt(n, "solo")')
      BY <1>0, <1>1, <2>8, <2>12 DEF ServedInv
    <3> QED
      BY <3>1, <3>2, <3>3, <3>4 DEF ServedInv
  <2> QED
    BY <2>3, <2>7, <2>13
<1> QED
  BY <1>2, <1>3

(***************************************************************************)
(* Each step keeps the invariant.                                          *)
(***************************************************************************)
LEMMA ChoicesStay ==
  ASSUME ChoicesInv, next' = next, choices' = choices, taken' = taken
  PROVE  ChoicesInv'
BY DEF ChoicesInv

LEMMA PassStays ==
  ASSUME PassInv, host' = host, stale' = stale,
         host = "ready" \/ (next' = next /\ choices' = choices)
  PROVE  PassInv'
BY DEF PassInv

\* The stored choice goes.
LEMMA ChoicesLeft ==
  ASSUME TypeOK, ChoicesInv, next' \in {next, NoChoice}, choices' = choices, taken' = taken
  PROVE  ChoicesInv'
<1>1. CASE next' = next
  BY <1>1, ChoicesStay
<1>2. CASE next' = NoChoice
  <2>1. next'.id = 0 /\ 0 <= choices
    BY <1>2, AdmissionAssumption DEF NoChoice, TypeOK, Choices
  <2> QED
    BY <2>1 DEF ChoicesInv
<1> QED
  BY <1>1, <1>2

\* A claim keeps the types of what it writes.
LEMMA ClaimType ==
  ASSUME TypeOK, NEW m \in Messages, NEW kind \in {"solo", "team"}, Claim(m, kind)
  PROVE  claims' \in Seq([msg : Messages, kind : {"solo", "team"}]) /\ last' \in Messages \union {0}
<1>1. CASE Claimable(m)
  BY <1>1, ReceiptWritten
<1>2. CASE ~Claimable(m)
  BY <1>2 DEF Claim, TypeOK
<1> QED
  BY <1>1, <1>2

LEMMA EnterHookKeeps ==
  ASSUME AdmissionInv, NEW h \in Calls, EnterHook(h)
  PROVE  AdmissionInv'
<1> USE DEF EnterHook, vars, durable, ghosts
<1>1. TypeOK /\ ChoicesInv
  BY DEF AdmissionInv
<1>2. /\ OthersStay(h) /\ call'[h].pc = "next" /\ call'[h].msg = current /\ call'[h].claimed = FALSE
      /\ call' \in [Calls -> CallType]
  BY <1>1, EnterIs
<1>3. MayBecome(h, call'[h])
  BY <1>1, <1>2, CallTypeOK DEF MayBecome, Early, Claimed
<1>4. CallsInv' /\ ReceiptsInv' /\ ServedInv'
  BY <1>2, <1>3, CallMoves
<1>5. TypeOK'
  BY <1>1, <1>2 DEF TypeOK, CallType
<1> QED
  BY <1>1, <1>4, <1>5, ChoicesStay, PassStays DEF AdmissionInv

LEMMA EnterToolKeeps ==
  ASSUME AdmissionInv, NEW t \in Calls, EnterTool(t)
  PROVE  AdmissionInv'
<1> USE DEF EnterTool, vars, durable, ghosts
<1>1. TypeOK /\ ChoicesInv
  BY DEF AdmissionInv
<1>2. /\ OthersStay(t) /\ call'[t].pc = "team" /\ call'[t].msg = current /\ call'[t].claimed = FALSE
      /\ call' \in [Calls -> CallType]
  BY <1>1, EnterIs
<1>3. MayBecome(t, call'[t])
  BY <1>1, <1>2, CallTypeOK DEF MayBecome, Early, Claimed
<1>4. CallsInv' /\ ReceiptsInv' /\ ServedInv'
  BY <1>2, <1>3, CallMoves
<1>5. TypeOK'
  BY <1>1, <1>2 DEF TypeOK, CallType
<1> QED
  BY <1>1, <1>4, <1>5, ChoicesStay, PassStays DEF AdmissionInv

LEMMA ClaimNextKeeps ==
  ASSUME AdmissionInv, NEW h \in Calls, ClaimNext(h)
  PROVE  AdmissionInv'
<1>0. PICK m : m = call[h].msg
  OBVIOUS
<1> DEFINE mine == next.id # 0 /\ next.by \in {0, m}
<1>1. /\ TypeOK /\ ChoicesInv /\ CallsInv /\ call[h].pc = "next" /\ m \in 1..current /\ m \in Messages
      /\ current \in Nat /\ host = "ready" /\ m # 0
  BY <1>0, SentIsMessage, AdmissionAssumption DEF AdmissionInv, ClaimNext, Messages
<1>2. /\ OthersStay(h) /\ call'[h].pc \in {"solo", "mode"} /\ call'[h].msg = m
      /\ call'[h].claimed = call[h].claimed /\ call' \in [Calls -> CallType]
  BY <1>0, <1>1, ClaimNextIs
<1>3. /\ next' = IF mine THEN [next EXCEPT !.by = m] ELSE next
      /\ taken' = [k \in Choices |-> IF mine /\ k = next.id THEN taken[k] \union {m} ELSE taken[k]]
      /\ solos' = IF mine /\ next.state = "solo" THEN solos \union {m} ELSE solos
      /\ UNCHANGED <<trigger, session, claims, rows, last, current, choices, starts, host, stale, crashes>>
  BY <1>0 DEF ClaimNext
<1>4. MayBecome(h, call'[h])
  <2>1. h \in Behind <=> m # current
    BY <1>0, <1>1 DEF Behind, Early
  <2>2. ~call[h].claimed
    BY <1>1 DEF CallsInv, Early
  <2> QED
    BY <1>0, <1>1, <1>2, <2>1, <2>2 DEF MayBecome, Claimed
<1>5. CallsInv' /\ ReceiptsInv' /\ ServedInv'
  BY <1>1, <1>2, <1>3, <1>4, CallMoves
<1>6. next \in [id : Choices \union {0}, state : {"none", "solo", "team"}, by : Messages \union {0}]
  BY <1>1 DEF TypeOK
<1>7. /\ next' \in [id : Choices \union {0}, state : {"none", "solo", "team"}, by : Messages \union {0}]
      /\ next'.id = next.id /\ next'.by = IF mine THEN m ELSE next.by
  BY <1>1, <1>3, <1>6
<1>8. taken' \in [Choices -> SUBSET Messages] /\ solos' \subseteq Messages
  BY <1>1, <1>3 DEF TypeOK
<1>9. TypeOK'
  BY <1>1, <1>2, <1>3, <1>7, <1>8 DEF TypeOK, CallType
<1>10. \A k \in Choices : k # next.id => taken'[k] = taken[k]
  BY <1>3
<1>11. next.id # 0 => next.id \in Choices /\ taken'[next.id] = IF next'.by = 0 THEN {} ELSE {next'.by}
  <2>1. next.id # 0 => next.id \in Choices /\ taken[next.id] = IF next.by = 0 THEN {} ELSE {next.by}
    BY <1>1, <1>6 DEF ChoicesInv
  <2>2. CASE next.id # 0 /\ mine
    <3>1. taken'[next.id] = taken[next.id] \union {m} /\ taken[next.id] \subseteq {m}
      BY <1>1, <1>3, <2>1, <2>2
    <3> QED
      BY <1>1, <1>7, <2>1, <2>2, <3>1
  <2>3. CASE next.id # 0 /\ ~mine
    BY <1>3, <1>7, <2>1, <2>3
  <2> QED
    BY <2>2, <2>3
<1>12. ChoicesInv'
  <2>1. next'.id <= choices'
    BY <1>1, <1>3, <1>7 DEF ChoicesInv
  <2>2. \A k \in Choices : k > choices' => taken'[k] = {}
    <3>1. \A k \in Choices : k > choices => taken[k] = {} /\ k # next.id
      BY <1>1, <1>6, AdmissionAssumption DEF ChoicesInv, TypeOK, Choices
    <3> QED
      BY <1>3, <1>10, <3>1
  <2>3. \A k \in Choices : \A a, b \in taken'[k] : a = b
    <3>1. \A k \in Choices : \A a, b \in taken[k] : a = b
      BY <1>1 DEF ChoicesInv
    <3> QED
      BY <1>10, <1>11, <3>1, AdmissionAssumption DEF Choices
  <2> QED
    BY <1>7, <1>11, <2>1, <2>2, <2>3 DEF ChoicesInv
<1> QED
  BY <1>1, <1>3, <1>5, <1>9, <1>12, PassStays DEF AdmissionInv

LEMMA ClaimSoloKeeps ==
  ASSUME AdmissionInv, NEW h \in Calls, ClaimSolo(h)
  PROVE  AdmissionInv'
<1>1. /\ TypeOK /\ ChoicesInv /\ call[h].pc = "solo" /\ call[h].msg \in Messages /\ host = "ready"
      /\ Claim(call[h].msg, "solo") /\ Goto(h, "clear") /\ ~call[h].claimed
      /\ UNCHANGED <<trigger, session, next, rows, ghosts, host, stale, crashes>>
  BY SentIsMessage DEF AdmissionInv, CallsInv, ClaimSolo, Early
<1>2. /\ OthersStay(h) /\ call'[h].pc = "clear" /\ call'[h].msg = call[h].msg
      /\ call'[h].claimed = call[h].claimed /\ call' \in [Calls -> CallType]
  BY <1>1, GotoIs
<1>3. HasClaimed(h, call'[h], "solo")
  BY <1>1, <1>2 DEF HasClaimed, Claimed, Early
<1>4. CallsInv' /\ ReceiptsInv' /\ ServedInv'
  BY <1>1, <1>2, <1>3, CallClaims DEF Early, ghosts
<1>5. claims' \in Seq([msg : Messages, kind : {"solo", "team"}]) /\ last' \in Messages \union {0}
  BY <1>1, ClaimType
<1>6. TypeOK'
  BY <1>1, <1>2, <1>5 DEF TypeOK, CallType, ghosts
<1> QED
  BY <1>1, <1>4, <1>6, ChoicesStay, PassStays DEF AdmissionInv, ghosts

LEMMA ClaimTeamKeeps ==
  ASSUME AdmissionInv, NEW h \in Calls, ClaimTeam(h)
  PROVE  AdmissionInv'
<1>1. /\ TypeOK /\ ChoicesInv /\ call[h].pc = "team" /\ call[h].msg \in Messages /\ host = "ready"
      /\ Claim(call[h].msg, "team")
      /\ UNCHANGED <<trigger, session, next, rows, ghosts, host, stale, crashes>>
  BY SentIsMessage DEF AdmissionInv, ClaimTeam
<1>2. /\ OthersStay(h) /\ call'[h].pc \in {"clear", "launch", "return"} /\ call'[h].msg = call[h].msg
      /\ Claimed(call'[h]) => Claimable(call[h].msg)
      /\ call' \in [Calls -> CallType]
  BY <1>1, ClaimTeamIs
<1>3. HasClaimed(h, call'[h], "team")
  BY <1>1, <1>2 DEF HasClaimed, Early
<1>4. CallsInv' /\ ReceiptsInv' /\ ServedInv'
  BY <1>1, <1>2, <1>3, CallClaims DEF Early, ghosts
<1>5. claims' \in Seq([msg : Messages, kind : {"solo", "team"}]) /\ last' \in Messages \union {0}
  BY <1>1, ClaimType
<1>6. TypeOK'
  BY <1>1, <1>2, <1>5 DEF TypeOK, CallType, ghosts
<1> QED
  BY <1>1, <1>4, <1>6, ChoicesStay, PassStays DEF AdmissionInv, ghosts

LEMMA ClaimToolKeeps ==
  ASSUME AdmissionInv, NEW t \in Calls, ClaimTool(t)
  PROVE  AdmissionInv'
<1>1. /\ TypeOK /\ ChoicesInv /\ call[t].pc = "team" /\ call[t].msg \in Messages /\ host = "ready"
      /\ Claim(call[t].msg, "team")
      /\ IF Claimable(call[t].msg) THEN Goto(t, "launch") ELSE Return(t)
      /\ UNCHANGED <<trigger, session, next, rows, ghosts, host, stale, crashes>>
  BY SentIsMessage DEF AdmissionInv, ClaimTool
<1>2. OthersStay(t) /\ call' \in [Calls -> CallType] /\ HasClaimed(t, call'[t], "team")
  <2>1. CASE Claimable(call[t].msg)
    <3>1. /\ OthersStay(t) /\ call'[t].pc = "launch" /\ call'[t].msg = call[t].msg
          /\ call' \in [Calls -> CallType]
      BY <1>1, <2>1, GotoIs
    <3> QED
      BY <2>1, <3>1 DEF HasClaimed, Early
  <2>2. CASE ~Claimable(call[t].msg)
    <3>1. OthersStay(t) /\ call'[t] = Idle /\ call' \in [Calls -> CallType]
      BY <1>1, <2>2, ReturnIs
    <3> QED
      BY <3>1, IdleIs DEF HasClaimed, Claimed, Early
  <2> QED
    BY <2>1, <2>2
<1>4. CallsInv' /\ ReceiptsInv' /\ ServedInv'
  BY <1>1, <1>2, CallClaims DEF Early, ghosts
<1>5. claims' \in Seq([msg : Messages, kind : {"solo", "team"}]) /\ last' \in Messages \union {0}
  BY <1>1, ClaimType
<1>6. TypeOK'
  BY <1>1, <1>2, <1>5 DEF TypeOK, CallType, ghosts
<1> QED
  BY <1>1, <1>4, <1>6, ChoicesStay, PassStays DEF AdmissionInv, ghosts

LEMMA ChooseModeKeeps ==
  ASSUME AdmissionInv, NEW h \in Calls, ChooseMode(h)
  PROVE  AdmissionInv'
<1>1. /\ TypeOK /\ ChoicesInv /\ CallsInv /\ call[h].pc = "mode" /\ call[h].msg \in 1..current /\ host = "ready"
      /\ Goto(h, "team") \/ Return(h)
      /\ UNCHANGED <<durable, last, ghosts, host, stale, crashes>>
  BY SentIsMessage DEF AdmissionInv, ChooseMode
<1>2. h \in Behind <=> call[h].msg # current
  BY <1>1 DEF Behind, Early
<1>3. OthersStay(h) /\ call' \in [Calls -> CallType] /\ MayBecome(h, call'[h])
  <2>1. CASE Goto(h, "team")
    <3>1. /\ OthersStay(h) /\ call'[h].pc = "team" /\ call'[h].msg = call[h].msg
          /\ call'[h].claimed = call[h].claimed /\ call' \in [Calls -> CallType]
      BY <1>1, <2>1, GotoIs
    <3>2. ~call[h].claimed
      BY <1>1 DEF CallsInv, Early
    <3> QED
      BY <1>1, <1>2, <3>1, <3>2 DEF MayBecome, Claimed
  <2>2. CASE Return(h)
    <3>1. OthersStay(h) /\ call'[h] = Idle /\ call' \in [Calls -> CallType]
      BY <1>1, <2>2, ReturnIs
    <3> QED
      BY <3>1, IdleIs DEF MayBecome, Claimed, Early
  <2> QED
    BY <1>1, <2>1, <2>2
<1>4. CallsInv' /\ ReceiptsInv' /\ ServedInv'
  BY <1>1, <1>3, CallMoves DEF durable, ghosts
<1>5. TypeOK'
  BY <1>1, <1>3 DEF TypeOK, CallType, durable, ghosts
<1> QED
  BY <1>1, <1>4, <1>5, ChoicesStay, PassStays DEF AdmissionInv, durable, ghosts

LEMMA ReturnHookKeeps ==
  ASSUME AdmissionInv, NEW h \in Calls, ReturnHook(h)
  PROVE  AdmissionInv'
<1>1. /\ TypeOK /\ ChoicesInv /\ call[h].pc = "return" /\ host = "ready"
      /\ Return(h) /\ UNCHANGED <<durable, last, ghosts, host, stale, crashes>>
  BY SentIsMessage DEF AdmissionInv, ReturnHook
<1>2. OthersStay(h) /\ call'[h] = Idle /\ call' \in [Calls -> CallType]
  BY <1>1, ReturnIs
<1>3. MayBecome(h, call'[h])
  BY <1>2, IdleIs DEF MayBecome, Claimed, Early
<1>4. CallsInv' /\ ReceiptsInv' /\ ServedInv'
  BY <1>1, <1>2, <1>3, CallMoves DEF durable, ghosts
<1>5. TypeOK'
  BY <1>1, <1>2 DEF TypeOK, CallType, durable, ghosts
<1> QED
  BY <1>1, <1>4, <1>5, ChoicesStay, PassStays DEF AdmissionInv, durable, ghosts

LEMMA ClearKeeps ==
  ASSUME AdmissionInv, NEW h \in Calls, Clear(h)
  PROVE  AdmissionInv'
<1>0. PICK p \in {"launch", "return"} : p = IF call[h].claimed THEN "launch" ELSE "return"
  OBVIOUS
<1>1. /\ TypeOK /\ ChoicesInv /\ call[h].pc = "clear" /\ call[h].msg \in 1..current /\ host = "ready"
      /\ Goto(h, p) /\ next' \in {next, NoChoice} /\ (p = "launch" => call[h].claimed)
      /\ UNCHANGED <<trigger, session, claims, rows, last, ghosts, host, stale, crashes>>
  BY <1>0, SentIsMessage DEF AdmissionInv, Clear, ClearClaimed
<1>2. /\ OthersStay(h) /\ call'[h].pc = p /\ call'[h].msg = call[h].msg
      /\ call' \in [Calls -> CallType]
  BY <1>1, GotoIs
<1>3. MayBecome(h, call'[h])
  BY <1>0, <1>1, <1>2 DEF MayBecome, Claimed, Early
<1>4. CallsInv' /\ ReceiptsInv' /\ ServedInv'
  BY <1>1, <1>2, <1>3, CallMoves DEF ghosts
<1>5. TypeOK'
  BY <1>1, <1>2 DEF TypeOK, CallType, ghosts, NoChoice
<1>6. ChoicesInv'
  BY <1>1, ChoicesLeft DEF ghosts
<1> QED
  BY <1>1, <1>4, <1>5, <1>6, PassStays DEF AdmissionInv

LEMMA LaunchKeeps ==
  ASSUME AdmissionInv, NEW c \in Calls, Launch(c)
  PROVE  AdmissionInv'
<1>0. PICK m : m = call[c].msg
  OBVIOUS
<1>1. /\ TypeOK /\ ChoicesInv /\ CallsInv /\ ReceiptsInv /\ ServedInv /\ call[c].pc = "launch" /\ m \in Messages /\ host = "ready"
      /\ rows' \in {rows, rows \union {m}}
      /\ starts' = starts \/ starts' = [starts EXCEPT ![m] = @ + 1]
      /\ Return(c)
      /\ UNCHANGED <<trigger, session, next, claims, last, current, choices, taken, solos, host, stale, crashes>>
  BY <1>0, SentIsMessage DEF AdmissionInv, Launch
<1>2. OthersStay(c) /\ call'[c] = Idle /\ call' \in [Calls -> CallType]
  BY <1>1, ReturnIs
<1>3. Holds(c, m) /\ starts[m] = 0 /\ Receipt(m, "team")
  BY <1>0, <1>1 DEF Holds, Claimed, ServedInv
<1>4. starts' \in [Messages -> Nat] /\ starts'[m] \in {0, 1} /\ \A n \in Messages : n # m => starts'[n] = starts[n]
  BY <1>1, <1>3 DEF TypeOK
<1>5. CallsInv'
  BY <1>1, <1>2, IdleIs DEF CallsInv, OthersStay, Early
<1>6. ReceiptsInv'
  <2>1. Behind' \subseteq Behind
    BY <1>1, <1>2, IdleIs DEF Behind, OthersStay, Early
  <2>2. Cardinality(Behind') \in Nat /\ Cardinality(Behind') <= Cardinality(Behind)
    BY <2>1, BehindShrinks
  <2>3. Len(claims) \in Nat /\ \A i \in DOMAIN claims : i \in Nat
    BY <1>1, SeqElements DEF TypeOK
  <2> QED
    BY <1>1, <2>2, <2>3, BehindIsFinite DEF ReceiptsInv
<1>7. ServedInv'
  <2>1. \A d \in Calls, n \in Messages : Holds(d, n)' => Holds(d, n) /\ n # m
    <3>1. \A d \in Calls, n \in Messages : Holds(d, n)' => Holds(d, n) /\ d # c
      BY <1>2, IdleIs DEF Holds, Claimed, OthersStay
    <3> QED
      BY <1>1, <1>3, <3>1 DEF ServedInv
  <2>2. \A n \in Messages : Gone(n) => Gone(n)'
    <3>1. \A n \in Messages : n # 0
      BY AdmissionAssumption DEF Messages
    <3> QED
      BY <1>1, <1>2, <3>1, IdleIs DEF Gone, OthersStay
  <2>3. \A n \in Messages, k \in {"solo", "team"} : Receipt(n, k)' <=> Receipt(n, k)
    BY <1>1 DEF Receipt
  <2>4. \A n \in Messages : starts'[n] \in {0, 1}
    BY <1>1, <1>4 DEF ServedInv
  <2>5. \A d \in Calls, n \in Messages : Holds(d, n)' => starts'[n] = 0 /\ Receipt(n, "team")'
    <3>1. \A d \in Calls, n \in Messages : Holds(d, n) => starts[n] = 0 /\ Receipt(n, "team")
      BY <1>1 DEF ServedInv
    <3> QED
      BY <1>4, <2>1, <2>3, <3>1
  <2>6. \A d, e \in Calls, n \in Messages : Holds(d, n)' /\ Holds(e, n)' => d = e
    BY <1>1, <2>1 DEF ServedInv
  <2>7. \A n \in Messages : starts'[n] # 0 => Receipt(n, "team")' \/ (Gone(n)' /\ ~Receipt(n, "solo")')
    BY <1>1, <1>3, <1>4, <2>2, <2>3 DEF ServedInv
  <2> QED
    BY <2>4, <2>5, <2>6, <2>7 DEF ServedInv
<1>8. TypeOK'
  BY <1>1, <1>2, <1>4 DEF TypeOK, CallType
<1> QED
  BY <1>1, <1>5, <1>6, <1>7, <1>8, ChoicesStay, PassStays DEF AdmissionInv

LEMMA SendKeeps ==
  ASSUME AdmissionInv, Send
  PROVE  AdmissionInv'
<1>1. /\ TypeOK /\ ChoicesInv /\ CallsInv /\ ReceiptsInv /\ ServedInv
      /\ current < MaxMessages /\ current' = current + 1 /\ current \in Nat
      /\ UNCHANGED <<durable, last, call, choices, taken, solos, starts, host, stale, crashes>>
  BY CallTypeOK DEF AdmissionInv, Send
<1>2. current + 1 \in Messages
  BY <1>1, AdmissionAssumption DEF Messages
<1>3. \A c \in Calls : call[c].msg \in 1..current => call[c].msg \in 1..(current + 1)
  BY <1>1
<1>4. CallsInv'
  BY <1>1, <1>3 DEF CallsInv, Early
<1>5. \A i \in DOMAIN claims : claims[i].msg \in Messages /\ claims[i].msg <= current
  <2>1. \A i \in DOMAIN claims : claims[i] \in [msg : Messages, kind : {"solo", "team"}]
    BY <1>1, SeqElements DEF TypeOK
  <2> QED
    BY <1>1, <2>1 DEF ReceiptsInv
<1>6. \A i \in DOMAIN claims : claims[i].msg <= current + 1 /\ claims[i].msg # current + 1
  BY <1>1, <1>5, AdmissionAssumption DEF Messages
<1>7. ReceiptsInv'
  BY <1>1, <1>6 DEF ReceiptsInv, durable
<1>8. \A n \in Messages : Gone(n) => Gone(n)'
  BY <1>1, AdmissionAssumption DEF Gone, Messages
<1>9. ServedInv'
  BY <1>1, <1>8 DEF ServedInv, Holds, Claimed, Receipt, durable
<1>10. TypeOK'
  BY <1>1, <1>2 DEF TypeOK, durable
<1> QED
  BY <1>1, <1>4, <1>7, <1>9, <1>10, ChoicesStay, PassStays DEF AdmissionInv, durable

\* The steps that touch neither calls, receipts nor starts.
LEMMA ServiceStays ==
  ASSUME CallsInv, ReceiptsInv, ServedInv, UNCHANGED <<claims, call, current, starts>>,
         host' # "ready" => host # "ready"
  PROVE  CallsInv' /\ ReceiptsInv' /\ ServedInv'
<1>1. CallsInv'
  BY DEF CallsInv, Early
<1>2. ReceiptsInv'
  BY DEF ReceiptsInv, Behind, Early
<1>3. ServedInv'
  BY DEF ServedInv, Holds, Claimed, Gone, Receipt
<1> QED
  BY <1>1, <1>2, <1>3

LEMMA SetNextKeeps ==
  ASSUME AdmissionInv, NEW state \in {"inherit", "solo", "team"}, SetNext(state)
  PROVE  AdmissionInv'
<1>1. /\ TypeOK /\ ChoicesInv /\ CallsInv /\ ReceiptsInv /\ ServedInv
      /\ choices < MaxChoices /\ choices' = choices + 1 /\ choices \in Nat
      /\ UNCHANGED <<trigger, session, claims, rows, last, call, current, taken, solos, starts, host, stale, crashes>>
  BY AdmissionAssumption DEF AdmissionInv, SetNext, TypeOK, Choices
<1>2. choices + 1 \in Choices
  BY <1>1, AdmissionAssumption DEF Choices
<1>3. \/ next'.id = 0
      \/ next'.id = choices + 1 /\ next'.by = 0
  BY DEF SetNext, NoChoice
<1>4. next' \in [id : Choices \union {0}, state : {"none", "solo", "team"}, by : Messages \union {0}]
  BY <1>2 DEF SetNext, NoChoice
<1>5. TypeOK'
  BY <1>1, <1>2, <1>4 DEF TypeOK
<1>6. ChoicesInv'
  <2>1. \A k \in Choices : k > choices => taken[k] = {}
    BY <1>1 DEF ChoicesInv
  <2>2. taken[choices + 1] = {}
    BY <1>1, <1>2, <2>1
  <2>3. \A k \in Choices : k > choices + 1 => k > choices
    BY <1>1, AdmissionAssumption DEF Choices
  <2>4. next'.id <= choices'
    BY <1>1, <1>3
  <2>5. next'.id # 0 => taken'[next'.id] = IF next'.by = 0 THEN {} ELSE {next'.by}
    BY <1>1, <1>3, <2>2
  <2> QED
    BY <1>1, <2>1, <2>3, <2>4, <2>5 DEF ChoicesInv
<1>7. PassInv'
  <2>1. PassInv /\ (stale # 0 => stale \in Nat)
    BY <1>1, AdmissionAssumption DEF AdmissionInv, TypeOK, Choices
  <2> QED
    BY <1>1, <1>3, <2>1 DEF PassInv
<1> QED
  BY <1>1, <1>5, <1>6, <1>7, ServiceStays DEF AdmissionInv

LEMMA OwnerKeeps ==
  ASSUME AdmissionInv,
         (\E chosen \in {"team", "solo"} : SetSession(chosen)) \/ (\E m \in rows : ClearRow(m))
  PROVE  AdmissionInv'
<1>1. /\ TypeOK /\ ChoicesInv /\ CallsInv /\ ReceiptsInv /\ ServedInv
      /\ session' \in {"team", "solo"} /\ rows' \subseteq rows
      /\ UNCHANGED <<trigger, next, claims, last, call, ghosts, host, stale, crashes>>
  BY DEF AdmissionInv, SetSession, ClearRow, TypeOK
<1>2. TypeOK'
  BY <1>1 DEF TypeOK, ghosts
<1> QED
  BY <1>1, <1>2, ServiceStays, ChoicesStay, PassStays DEF AdmissionInv, ghosts

LEMMA CrashKeeps ==
  ASSUME AdmissionInv, Crash
  PROVE  AdmissionInv'
<1>1. /\ TypeOK /\ ChoicesInv /\ CallsInv /\ ReceiptsInv /\ ServedInv
      /\ call' = [c \in Calls |-> Idle] /\ last' = 0 /\ crashes' = crashes + 1 /\ host' = "down" /\ stale' = 0
      /\ UNCHANGED <<durable, ghosts>>
  BY DEF AdmissionInv, Crash
<1>2. \A c \in Calls : call'[c] = Idle
  BY <1>1
<1>3. call' \in [Calls -> CallType]
  BY <1>1 DEF CallType, Idle
<1>4. CallsInv'
  BY <1>2, IdleIs DEF CallsInv, Early
<1>5. ReceiptsInv'
  <2>1. Behind' \subseteq Behind
    BY <1>2, IdleIs DEF Behind, Early
  <2>2. Cardinality(Behind') \in Nat /\ Cardinality(Behind') <= Cardinality(Behind)
    BY <2>1, BehindShrinks
  <2>3. Len(claims) \in Nat /\ \A i \in DOMAIN claims : i \in Nat
    BY <1>1, SeqElements DEF TypeOK
  <2>4. claims' = claims /\ current' = current
    BY <1>1 DEF durable, ghosts
  <2> QED
    BY <1>1, <2>2, <2>3, <2>4, BehindIsFinite DEF ReceiptsInv
<1>6. ServedInv'
  <2>1. \A d \in Calls, n \in Messages : ~Holds(d, n)'
    BY <1>2, IdleIs DEF Holds, Claimed
  <2>2. \A n \in Messages : Gone(n) => Gone(n)'
    <3>1. \A n \in Messages : n # 0
      BY AdmissionAssumption DEF Messages
    <3> QED
      BY <1>1, <1>2, <3>1, IdleIs DEF Gone, ghosts
  <2>3. \A n \in Messages, k \in {"solo", "team"} : Receipt(n, k)' <=> Receipt(n, k)
    BY <1>1 DEF Receipt, durable
  <2> QED
    BY <1>1, <2>1, <2>2, <2>3 DEF ServedInv, ghosts
<1>7. TypeOK'
  <2>1. crashes' \in Nat /\ last' \in Messages \union {0}
    BY <1>1 DEF TypeOK
  <2>2. host' = "down" /\ stale' \in Choices \union {0}
    BY <1>1
  <2> QED
    BY <1>1, <1>3, <2>1, <2>2 DEF TypeOK, CallType, durable, ghosts
<1>8. PassInv'
  BY <1>1 DEF PassInv
<1> QED
  BY <1>1, <1>4, <1>5, <1>6, <1>7, <1>8, ChoicesStay DEF AdmissionInv, durable, ghosts

\* One receipt goes: which are left, and where they were.
LEMMA WithoutIs ==
  ASSUME TypeOK, NEW k \in 1..Len(claims)
  PROVE  /\ Without(k) \in Seq([msg : Messages, kind : {"solo", "team"}])
         /\ Len(Without(k)) = Len(claims) - 1
         /\ \A i \in 1..(Len(claims) - 1) : Without(k)[i] = claims[IF i < k THEN i ELSE i + 1]
<1> DEFINE S == [msg : Messages, kind : {"solo", "team"}]
           n == Len(claims)
           A == SubSeq(claims, 1, k - 1)
           B == SubSeq(claims, k + 1, Len(claims))
<1>1. claims \in Seq(S)
  BY DEF TypeOK
<1> HIDE DEF S
<1>2. n \in Nat /\ k \in Nat /\ 1 <= k /\ k <= n /\ DOMAIN claims = 1..n
  BY <1>1, SeqElements
<1>3. \A i \in 1..n : claims[i] \in S
  BY <1>1, <1>2, SeqElements
<1> HIDE DEF n
<1>4. /\ A \in Seq(S) /\ Len(A) = k - 1
      /\ \A i \in 1..(k - 1) : A[i] = claims[i]
  <2>1. 1 \in Int /\ k - 1 \in Int /\ \A i \in 1..(k - 1) : claims[i] \in S
    BY <1>2, <1>3
  <2>2. /\ A \in Seq(S)
        /\ Len(A) = IF 1 <= k - 1 THEN (k - 1) - 1 + 1 ELSE 0
        /\ \A i \in 1..((k - 1) - 1 + 1) : A[i] = claims[1 + i - 1]
    BY <2>1, SubSeqProperties
  <2> QED
    BY <1>2, <2>2
<1>5. /\ B \in Seq(S) /\ Len(B) = n - k
      /\ \A i \in 1..(n - k) : B[i] = claims[k + i]
  <2>1. k + 1 \in Int /\ n \in Int /\ \A i \in (k + 1)..n : claims[i] \in S
    BY <1>2, <1>3
  <2>2. B = SubSeq(claims, k + 1, n)
    BY DEF n
  <2>3. /\ B \in Seq(S)
        /\ Len(B) = IF k + 1 <= n THEN n - (k + 1) + 1 ELSE 0
        /\ \A i \in 1..(n - (k + 1) + 1) : B[i] = claims[(k + 1) + i - 1]
    BY <2>1, <2>2, SubSeqProperties
  <2> QED
    BY <1>2, <2>3
<1> HIDE DEF A, B
<1>6. Without(k) = A \o B
  BY DEF Without, A, B
<1>7. /\ A \o B \in Seq(S) /\ Len(A \o B) = Len(A) + Len(B)
      /\ \A i \in 1..(Len(A) + Len(B)) : (A \o B)[i] = IF i <= Len(A) THEN A[i] ELSE B[i - Len(A)]
  BY <1>4, <1>5, ConcatProperties
<1>8. Len(Without(k)) = n - 1
  BY <1>2, <1>4, <1>5, <1>6, <1>7
<1>9. ASSUME NEW i \in 1..(n - 1)
      PROVE  Without(k)[i] = claims[IF i < k THEN i ELSE i + 1]
  <2>1. i \in 1..(Len(A) + Len(B))
    BY <1>2, <1>4, <1>5
  <2>2. CASE i < k
    <3>1. i <= Len(A) /\ i \in 1..(k - 1)
      BY <1>2, <1>4, <2>2
    <3> QED
      BY <1>4, <1>6, <1>7, <2>1, <2>2, <3>1
  <2>3. CASE ~(i < k)
    <3>1. ~(i <= Len(A)) /\ i - Len(A) \in 1..(n - k) /\ k + (i - Len(A)) = i + 1
      BY <1>2, <1>4, <2>3
    <3>2. B[i - Len(A)] = claims[i + 1]
      BY <1>5, <3>1
    <3> QED
      BY <1>6, <1>7, <2>1, <2>3, <3>1, <3>2
  <2> QED
    BY <2>2, <2>3
<1> QED
  BY <1>6, <1>7, <1>8, <1>9 DEF S, n

\* While the host starts nobody is late: the receipts that go are older than
\* that of the latest message.
LEMMA PruneReceiptKeeps ==
  ASSUME AdmissionInv, PruneReceipt
  PROVE  AdmissionInv'
<1> DEFINE k == Superfluous
           was(i) == IF i < k THEN i ELSE i + 1
<1>1. /\ TypeOK /\ ChoicesInv /\ CallsInv /\ ReceiptsInv /\ ServedInv /\ PassInv
      /\ host = "receipts" /\ Len(claims) > MaxClaims /\ claims' = Without(k)
      /\ UNCHANGED <<trigger, session, next, rows, last, call, ghosts, host, stale, crashes>>
  BY DEF AdmissionInv, PruneReceipt
<1>2. \A c \in Calls : call[c] = Idle /\ call'[c] = Idle
  BY <1>1 DEF CallsInv
<1>3. /\ Len(claims) \in Nat /\ DOMAIN claims = 1..Len(claims)
      /\ \A i \in DOMAIN claims : claims[i] \in [msg : Messages, kind : {"solo", "team"}]
  BY <1>1, SeqElements DEF TypeOK
<1>4. k = Len(claims) - MaxClaims /\ k \in 1..Len(claims)
  BY <1>1, <1>3, AdmissionAssumption DEF Superfluous
<1> HIDE DEF k
<1>5. /\ claims' \in Seq([msg : Messages, kind : {"solo", "team"}])
      /\ Len(claims') = Len(claims) - 1
      /\ \A i \in 1..(Len(claims) - 1) : claims'[i] = claims[was(i)]
  BY <1>1, <1>4, WithoutIs
<1>6. DOMAIN claims' = 1..(Len(claims) - 1)
  BY <1>5, SeqElements
<1>7. \A i \in DOMAIN claims' : was(i) \in DOMAIN claims /\ claims'[i] = claims[was(i)]
  BY <1>3, <1>5, <1>6
<1>8. \A i \in DOMAIN claims : claims[i].msg = current => i > k
  <2> SUFFICES ASSUME NEW i \in DOMAIN claims, claims[i].msg = current
               PROVE  i > k
    OBVIOUS
  <2>1. Len(claims) - i + Cardinality(Behind) < Cardinality(Calls)
    BY <1>1 DEF ReceiptsInv
  <2> QED
    BY <1>3, <1>4, <2>1, BehindIsFinite, AdmissionAssumption
<1>9. Behind' = Behind /\ current' = current
  BY <1>1 DEF Behind, ghosts
<1>10. CallsInv'
  BY <1>1, <1>2, IdleIs DEF CallsInv, Early
<1>11. ReceiptsInv'
  <2>1. \A i, j \in DOMAIN claims' : claims'[i].msg = claims'[j].msg => i = j
    <3>1. \A i, j \in DOMAIN claims' : claims'[i].msg = claims'[j].msg => was(i) = was(j)
      BY <1>1, <1>7 DEF ReceiptsInv
    <3>2. \A i, j \in DOMAIN claims' : was(i) = was(j) => i = j
      BY <1>4, <1>6
    <3> QED
      BY <3>1, <3>2
  <2>2. \A i \in DOMAIN claims' : claims'[i].msg <= current'
    BY <1>1, <1>7, <1>9 DEF ReceiptsInv
  <2>3. ASSUME NEW i \in DOMAIN claims', claims'[i].msg = current
        PROVE  Len(claims') - i + Cardinality(Behind)' < Cardinality(Calls)
    <3>1. was(i) \in DOMAIN claims /\ claims[was(i)].msg = current
      BY <1>7, <2>3
    <3>2. was(i) = i + 1 /\ i \in Nat
      BY <1>4, <1>6, <1>8, <3>1
    <3>3. Len(claims) - (i + 1) + Cardinality(Behind) < Cardinality(Calls)
      BY <1>1, <3>1, <3>2 DEF ReceiptsInv
    <3>4. Len(claims') - i = Len(claims) - (i + 1)
      BY <1>3, <1>5, <3>2
    <3> QED
      BY <1>9, <3>3, <3>4
  <2> QED
    BY <1>9, <2>1, <2>2, <2>3 DEF ReceiptsInv
<1>12. \A n \in Messages, kind \in {"solo", "team"} : Receipt(n, kind)' => Receipt(n, kind)
  BY <1>7 DEF Receipt
<1>13. \A n \in Messages : Receipt(n, "team") => Receipt(n, "team")' \/ (Gone(n)' /\ ~Receipt(n, "solo"))
  <2> SUFFICES ASSUME NEW n \in Messages, NEW i \in DOMAIN claims, claims[i] = [msg |-> n, kind |-> "team"]
               PROVE  Receipt(n, "team")' \/ (Gone(n)' /\ ~Receipt(n, "solo"))
    BY DEF Receipt
  <2>1. claims[i].msg = n /\ claims[i].kind = "team" /\ i \in Nat /\ n \in Nat /\ n # 0 /\ current \in Nat
    BY <1>1, <1>3, CallTypeOK, AdmissionAssumption DEF Messages
  <2>2. CASE i < k
    <3>1. i \in DOMAIN claims' /\ was(i) = i
      BY <1>4, <1>6, <2>1, <2>2, <1>3
    <3>2. claims'[i] = [msg |-> n, kind |-> "team"]
      BY <1>7, <3>1
    <3> QED
      BY <3>1, <3>2 DEF Receipt
  <2>3. CASE i > k
    <3>1. i - 1 \in DOMAIN claims' /\ was(i - 1) = i
      BY <1>3, <1>4, <1>6, <2>1, <2>3
    <3>2. claims'[i - 1] = [msg |-> n, kind |-> "team"]
      BY <1>7, <3>1
    <3> QED
      BY <3>1, <3>2 DEF Receipt
  <2>4. CASE i = k
    <3>1. n # current
      BY <1>8, <2>1, <2>4
    <3>2. n < current
      BY <1>1, <2>1, <3>1 DEF ReceiptsInv
    <3>3. Gone(n)'
      BY <1>2, <1>9, <2>1, <3>2, IdleIs DEF Gone
    <3>4. \A j \in DOMAIN claims : claims[j].msg = n => j = i
      BY <1>1, <2>1 DEF ReceiptsInv
    <3>5. ~Receipt(n, "solo")
      BY <2>1, <3>4 DEF Receipt
    <3> QED
      BY <3>3, <3>5
  <2> QED
    BY <1>4, <2>1, <2>2, <2>3, <2>4
<1>14. ServedInv'
  <2>1. \A d \in Calls, n \in Messages : ~Holds(d, n)'
    BY <1>2, IdleIs DEF Holds, Claimed
  <2>2. \A n \in Messages : Gone(n) => Gone(n)'
    BY <1>1 DEF Gone, ghosts
  <2> QED
    BY <1>1, <1>12, <1>13, <2>1, <2>2 DEF ServedInv, ghosts
<1>15. TypeOK'
  BY <1>1, <1>5 DEF TypeOK, ghosts
<1> QED
  BY <1>1, <1>10, <1>11, <1>14, <1>15, ChoicesStay, PassStays DEF AdmissionInv, ghosts

\* The other steps of a start: calls and receipts stay as they are.
LEMMA StartKeeps ==
  ASSUME AdmissionInv, Restart \/ FindClaimed \/ PruneChoice \/ Ready
  PROVE  AdmissionInv'
<1>1. /\ TypeOK /\ ChoicesInv /\ CallsInv /\ ReceiptsInv /\ ServedInv /\ PassInv
      /\ host # "ready" /\ host' \in {"receipts", "choices", "ready"}
      /\ next' \in {next, NoChoice} /\ stale' \in {stale, 0, next.id}
      /\ UNCHANGED <<trigger, session, claims, rows, last, call, ghosts, crashes>>
  BY DEF AdmissionInv, Restart, FindClaimed, PruneChoice, Ready, durable
<1>2. TypeOK'
  BY <1>1 DEF TypeOK, NoChoice, ghosts
<1>3. CallsInv' /\ ReceiptsInv' /\ ServedInv'
  BY <1>1, ServiceStays DEF ghosts
<1>4. ChoicesInv'
  BY <1>1, ChoicesLeft DEF ghosts
<1>5. PassInv'
  <2>1. CASE Restart \/ Ready
    BY <1>1, <2>1 DEF PassInv, Restart, Ready, durable, ghosts
  <2>2. CASE FindClaimed
    BY <1>1, <2>2 DEF PassInv, FindClaimed, ChoicesInv, durable, ghosts
  <2>3. CASE PruneChoice
    BY <2>3 DEF PassInv, PruneChoice
  <2> QED
    BY <2>1, <2>2, <2>3
<1> QED
  BY <1>2, <1>3, <1>4, <1>5 DEF AdmissionInv

-----------------------------------------------------------------------------
(***************************************************************************)
(* The theorems.                                                           *)
(***************************************************************************)
LEMMA StutterKeeps ==
  ASSUME AdmissionInv, UNCHANGED vars
  PROVE  AdmissionInv'
<1>1. /\ TypeOK /\ ChoicesInv /\ CallsInv /\ ReceiptsInv /\ ServedInv
      /\ UNCHANGED <<durable, last, call, ghosts, host, stale, crashes>>
  BY DEF AdmissionInv, vars
<1>2. TypeOK'
  BY <1>1 DEF TypeOK, durable, ghosts
<1> QED
  BY <1>1, <1>2, ServiceStays, ChoicesStay, PassStays DEF AdmissionInv, durable, ghosts

LEMMA NextKeeps ==
  ASSUME AdmissionInv, [Next]_vars
  PROVE  AdmissionInv'
<1>1. CASE Send
  BY <1>1, SendKeeps
<1>2. CASE \E state \in {"inherit", "solo", "team"} : SetNext(state)
  BY <1>2, SetNextKeeps
<1>3. CASE (\E chosen \in {"team", "solo"} : SetSession(chosen)) \/ (\E m \in rows : ClearRow(m))
  BY <1>3, OwnerKeeps
<1>4. CASE \E h \in Hooks : Hook(h)
  <2> PICK h \in Hooks : Hook(h)
    BY <1>4
  <2>1. h \in Calls
    BY DEF Calls
  <2> QED
    BY <2>1, EnterHookKeeps, ClaimNextKeeps, ClaimSoloKeeps, ChooseModeKeeps, ClaimTeamKeeps, ClearKeeps, ReturnHookKeeps DEF Hook
<1>5. CASE \E t \in Tools : EnterTool(t) \/ ClaimTool(t)
  BY <1>5, EnterToolKeeps, ClaimToolKeeps DEF Calls
<1>6. CASE \E c \in Calls : Launch(c)
  BY <1>6, LaunchKeeps
<1>7. CASE Crash
  BY <1>7, CrashKeeps
<1>8. CASE Start
  BY <1>8, PruneReceiptKeeps, StartKeeps DEF Start
<1>9. CASE UNCHANGED vars
  BY <1>9, StutterKeeps
<1> QED
  BY <1>1, <1>2, <1>3, <1>4, <1>5, <1>6, <1>7, <1>8, <1>9 DEF Next, User

LEMMA InitKeeps == Init => AdmissionInv
<1> SUFFICES ASSUME Init
             PROVE  AdmissionInv
  OBVIOUS
<1>1. \A c \in Calls : call[c] = Idle
  BY DEF Init
<1>2. claims = <<>> /\ DOMAIN claims = {} /\ claims \in Seq([msg : Messages, kind : {"solo", "team"}])
  BY DEF Init
<1>3. TypeOK
  <2>1. call \in [Calls -> CallType]
    BY DEF Init, CallType, Idle
  <2> QED
    BY <1>2, <2>1 DEF Init, TypeOK, NoChoice, CallType
<1>4. CallsInv
  BY <1>1, IdleIs DEF CallsInv, Early
<1>5. ReceiptsInv
  BY <1>2 DEF ReceiptsInv
<1>6. ServedInv
  BY <1>1, IdleIs DEF ServedInv, Holds, Claimed, Init
<1>7. ChoicesInv
  BY DEF ChoicesInv, Init, NoChoice
<1>8. PassInv
  BY DEF PassInv, Init
<1> QED
  BY <1>3, <1>4, <1>5, <1>6, <1>7, <1>8 DEF AdmissionInv

\* A message with a Solo receipt was not started: its only receipt is that one.
LEMMA InvHonours ==
  ASSUME AdmissionInv
  PROVE  ChoicesHonoured
<1>1. TypeOK /\ ReceiptsInv /\ ServedInv /\ ChoicesInv
  BY DEF AdmissionInv
<1>2. AtMostOneDispatch
  BY <1>1 DEF AtMostOneDispatch, ServedInv
<1>3. ChoiceTakenOnce
  <2> SUFFICES ASSUME NEW k \in Choices
               PROVE  Cardinality(taken[k]) <= 1
    BY DEF ChoiceTakenOnce
  <2>1. \A a, b \in taken[k] : a = b
    BY <1>1 DEF ChoicesInv
  <2>2. taken[k] = {} \/ \E a \in taken[k] : taken[k] = {a}
    BY <2>1
  <2>3. CASE taken[k] = {}
    BY <2>3, FS_EmptySet
  <2>4. CASE \E a \in taken[k] : taken[k] = {a}
    <3>1. PICK a \in taken[k] : taken[k] = {a}
      BY <2>4
    <3>2. Cardinality({a}) = 1
      BY FS_Singleton
    <3> QED
      BY <3>1, <3>2
  <2> QED
    BY <2>2, <2>3, <2>4
<1>4. SoloReceiptHonoured
  <2> SUFFICES ASSUME NEW m \in Messages, Receipt(m, "solo"), starts[m] # 0
               PROVE  FALSE
    BY DEF SoloReceiptHonoured
  <2>1. Receipt(m, "team")
    BY <1>1 DEF ServedInv
  <2>2. PICK i \in DOMAIN claims : claims[i] = [msg |-> m, kind |-> "solo"]
    BY DEF Receipt
  <2>3. PICK j \in DOMAIN claims : claims[j] = [msg |-> m, kind |-> "team"]
    BY <2>1 DEF Receipt
  <2>4. i = j
    <3>1. claims[i].msg = claims[j].msg
      BY <2>2, <2>3
    <3> QED
      BY <1>1, <3>1 DEF ReceiptsInv
  <2>5. claims[i].kind = "solo" /\ claims[j].kind = "team"
    BY <2>2, <2>3
  <2> QED
    BY <2>4, <2>5
<1> QED
  BY <1>2, <1>3, <1>4 DEF ChoicesHonoured

\* For any number of hook and tool calls, messages, choices and crashes: a
\* user message starts at most one squad, a one-shot choice is taken by one
\* message, and a message with a Solo receipt is never given to a squad, also
\* across start-up pruning of the receipts.
THEOREM ChoicesAreHonoured == Spec => []ChoicesHonoured
<1>1. Init => AdmissionInv
  BY InitKeeps
<1>2. AdmissionInv /\ [Next]_vars => AdmissionInv'
  BY NextKeeps
<1>3. AdmissionInv => ChoicesHonoured
  BY InvHonours
<1> QED
  BY <1>1, <1>2, <1>3, PTL DEF Spec

\* Only the user replaces a choice that nobody took, or the start whose pass
\* found an older one claimed.
LEMMA StepKeepsChoice ==
  ASSUME AdmissionInv, [Next]_vars, next.id # 0, next.by = 0, choices' = choices
  PROVE  next'.id = next.id \/ (stale # 0 /\ next.id > stale)
<1>1. /\ next \in [id : Choices \union {0}, state : {"none", "solo", "team"}, by : Messages \union {0}]
      /\ choices \in Nat /\ stale \in Choices \union {0} /\ \A n \in Choices \union {0} : n \in Nat
  BY AdmissionAssumption DEF AdmissionInv, TypeOK, Choices
<1>2. CASE next' = next
  BY <1>2
<1>3. CASE \E state \in {"inherit", "solo", "team"} : SetNext(state)
  BY <1>1, <1>3 DEF SetNext
<1>4. ASSUME NEW h \in Hooks, ClaimNext(h)
      PROVE  next'.id = next.id
  BY <1>1, <1>4 DEF ClaimNext
<1>5. ASSUME NEW h \in Hooks, Clear(h)
      PROVE  next'.id = next.id
  <2>1. h \in Calls
    BY DEF Calls
  <2>2. call[h].msg \in 1..current
    BY <1>5, <2>1, SentIsMessage DEF Clear
  <2>3. next.by # call[h].msg
    BY <2>2
  <2> QED
    BY <1>5, <2>3 DEF Clear, ClearClaimed
<1>6. CASE PruneChoice
  BY <1>1, <1>6 DEF PruneChoice, AdmissionInv, PassInv
<1> QED
  BY <1>2, <1>3, <1>4, <1>5, <1>6
  DEF Next, User, Hook, Send, SetSession, ClearRow, EnterHook, ClaimSolo, ChooseMode, ClaimTeam, ReturnHook,
      EnterTool, ClaimTool, Launch, Crash, Start, Restart, PruneReceipt, FindClaimed, Ready, vars, durable

\* No claim, late clear for an older message or crash loses a one-shot choice that no
\* message took, and a start only one made in place of a choice its pass had found
\* claimed, for any calls, messages, choices and crashes.
THEOREM UnclaimedChoicesStay == Spec => UnclaimedChoiceKept
<1>1. Init => AdmissionInv
  BY InitKeeps
<1>2. AdmissionInv /\ [Next]_vars => AdmissionInv'
  BY NextKeeps
<1>3. AdmissionInv /\ [Next]_vars => [next.id # 0 /\ next.by = 0 /\ choices' = choices =>
                                       next'.id = next.id \/ (stale # 0 /\ next.id > stale)]_vars
  BY StepKeepsChoice
<1> QED
  BY <1>1, <1>2, <1>3, PTL DEF Spec, UnclaimedChoiceKept

-----------------------------------------------------------------------------
(***************************************************************************)
(* Composer.                                                               *)
(***************************************************************************)
Stages == {"idle", "asked", "answered"}

\* Nothing the client holds or waits for is newer than the host's log.
CatalogOK ==
  /\ log \in Seq({"write"})
  /\ seen \in 0..Len(log)
  /\ load \in [stage : Stages, data : 0..Len(log), need : 0..Len(log)]
  /\ queued \in [on : BOOLEAN, need : 0..Len(log)]
  /\ RefreshIsFresh

LEMMA CatalogStarts == ComposerInit => CatalogOK
  BY DEF ComposerInit, CatalogInit, CatalogOK, Stages, NewLoad, NotQueued, RefreshIsFresh

(* A request begins: what it is to hold is what the log holds now.          *)
LEMMA ForcedLoadFresh ==
  ASSUME CatalogOK, ForcedLoad, UNCHANGED log
  PROVE  CatalogOK'
<1>1. Len(log) \in Nat /\ seen' = seen
  BY DEF CatalogOK, ForcedLoad
<1>2. CASE Pending
  <2>1. queued' = [on |-> TRUE, need |-> Len(log)] /\ load' = load
    BY <1>2 DEF ForcedLoad
  <2>2. queued' \in [on : BOOLEAN, need : 0..Len(log)]
    BY <1>1, <2>1
  <2> QED
    BY <1>1, <2>1, <2>2 DEF CatalogOK, RefreshIsFresh
<1>3. CASE ~Pending
  BY <1>1, <1>3 DEF ForcedLoad, CatalogOK, RefreshIsFresh, NewLoad, Stages
<1> QED
  BY <1>2, <1>3

LEMMA AnswerFresh ==
  ASSUME CatalogOK, LoadAnswered
  PROVE  CatalogOK'
<1>1. /\ load' = [load EXCEPT !.stage = "answered", !.data = Len(log)]
      /\ UNCHANGED <<log, seen, queued>>
  BY DEF LoadAnswered
<1>2. Len(log) \in Nat /\ seen \in 0..Len(log) /\ load \in [stage : Stages, data : 0..Len(log), need : 0..Len(log)]
  BY DEF CatalogOK
<1>3. /\ load' \in [stage : Stages, data : 0..Len(log), need : 0..Len(log)]
      /\ load'.data = Len(log) /\ load'.need = load.need
  <2>1. "answered" \in Stages /\ Len(log) \in 0..Len(log)
    BY <1>2 DEF Stages
  <2> QED
    BY <1>1, <1>2, <2>1
<1>4. load'.data >= load'.need /\ load'.data >= seen
  BY <1>2, <1>3
<1> QED
  BY <1>1, <1>3, <1>4 DEF CatalogOK, RefreshIsFresh

(* The queued request goes on with the need of whoever queued it.           *)
LEMMA SettleFresh ==
  ASSUME CatalogOK, NEW ok \in BOOLEAN, LoadSettles(ok)
  PROVE  CatalogOK'
<1>1. /\ seen' = IF ok THEN load.data ELSE seen
      /\ load' = IF queued.on THEN NewLoad(queued.need) ELSE NoLoad
      /\ queued' = NotQueued /\ log' = log
  BY DEF LoadSettles
<1>2. seen' \in 0..Len(log) /\ Len(log) \in Nat /\ queued.need \in 0..Len(log)
  BY <1>1 DEF CatalogOK
<1> QED
  BY <1>1, <1>2 DEF CatalogOK, RefreshIsFresh, NewLoad, NoLoad, NotQueued, Stages

LEMMA WriteFresh ==
  ASSUME CatalogOK, Commit("write"), UNCHANGED catalogVars
  PROVE  CatalogOK'
<1>1. log' \in Seq({"write"}) /\ Len(log) \in Nat /\ Len(log') = Len(log) + 1
  BY DEF CatalogOK, Commit
<1>2. UNCHANGED <<seen, load, queued>>
  BY DEF catalogVars
<1> QED
  BY <1>1, <1>2 DEF CatalogOK, RefreshIsFresh

LEMMA CatalogStepFresh == CatalogOK /\ [ComposerNext]_composerVars => CatalogOK'
<1> SUFFICES ASSUME CatalogOK, [ComposerNext]_composerVars
             PROVE  CatalogOK'
  OBVIOUS
<1>1. CASE CatalogAnswered
  BY <1>1, AnswerFresh DEF CatalogAnswered
<1>2. CASE CatalogDelivered
  BY <1>2, SettleFresh DEF CatalogDelivered, LoadDelivered
<1>3. CASE CatalogFails
  BY <1>3, SettleFresh DEF CatalogFails, LoadFails
<1>4. CASE LinkLost
  BY <1>4 DEF LinkLost, Disconnect, CatalogOK, RefreshIsFresh
<1>5. CASE LinkBack \/ CatalogTimer \/ CatalogRefresh
  BY <1>5, ForcedLoadFresh DEF LinkBack, Reconnect, CatalogTimer, LoopTimer, CatalogRefresh, Refresh
<1>6. CASE DefinitionWritten
  BY <1>6, WriteFresh DEF DefinitionWritten
<1>7. CASE UNCHANGED <<log, catalogVars>>
  BY <1>7 DEF catalogVars, CatalogOK, RefreshIsFresh
<1> QED
  BY <1>1, <1>2, <1>3, <1>4, <1>5, <1>6, <1>7 DEF ComposerNext, CatalogStep, composerVars

\* A caller of load(true) sees every write committed before the call, and the catalog
\* never goes back, whatever was in flight and whatever is lost.
THEOREM ForcedLoadIsFresh == ComposerSpec => []RefreshIsFresh
<1>1. CatalogOK => RefreshIsFresh
  BY DEF CatalogOK
<1> QED
  BY CatalogStarts, CatalogStepFresh, <1>1, PTL DEF ComposerSpec
-----------------------------------------------------------------------------
(***************************************************************************)
(* The mode at rest.                                                       *)
(***************************************************************************)
Responses == [override : Durable, effective : BOOLEAN, next : {"none", "solo"}, key : BOOLEAN, default : BOOLEAN]
ModeRecords == [override : Durable, next : {"none", "solo"}, default : BOOLEAN, ready : BOOLEAN]
DefaultActs == {"default-on", "default-off"}
ActRecords ==
  [kind : Durable \union OneShot \union DefaultActs, stage : {"sent", "executed", "answered", "done"},
   answer : Responses, current : BOOLEAN]

ModeTypes ==
  /\ mode \in ModeRecords
  /\ shown \in Responses
  /\ ui \in [busy : BOOLEAN, error : BOOLEAN, initialized : BOOLEAN]
  /\ read \in [stage : {"none", "asked", "answered", "timer"}, answer : Responses]
  /\ acts \in Seq(ActRecords)
  /\ late \in BOOLEAN

\* At most one request is listened to: a read, or the newest action, which
\* has not ended, under a control that is locked or not initialized.
OneIsHeard ==
  \A i \in DOMAIN acts : acts[i].current =>
    /\ i = Len(acts)
    /\ read.stage = "none"
    /\ acts[i].stage # "done"
    /\ ui.busy \/ ~ui.initialized

\* A project that an answer names is the project of a session that was loaded.
KeysAreKnown ==
  /\ shown.key => mode.ready
  /\ read.stage = "answered" /\ read.answer.key => mode.ready
  /\ \A i \in DOMAIN acts :
       /\ acts[i].answer.key => mode.ready
       /\ acts[i].kind \in DefaultActs => mode.ready

\* What is answered and listened to is the mode the host has, and so is what is
\* shown by a control that shows no error and waits for nothing.
AnswersHold ==
  ~late =>
    /\ read.stage = "answered" => read.answer = Response(mode)
    /\ \A i \in DOMAIN acts : acts[i].current =>
         /\ acts[i].stage = "executed" /\ acts[i].kind \in DefaultActs => mode.default = (acts[i].kind = "default-on")
         /\ acts[i].stage = "answered" => acts[i].answer = Response(mode)
    /\ ui.initialized /\ ~ui.busy /\ ~ui.error /\ read.stage = "none" => shown = Response(mode)

ModeInv == ModeTypes /\ OneIsHeard /\ KeysAreKnown /\ AnswersHold

LEMMA ResponseType ==
  ASSUME mode \in ModeRecords
  PROVE  Response(mode) \in Responses /\ Response(mode).key = mode.ready
BY DEF ModeRecords, Response, Responses, Effective

LEMMA NothingType == Nothing \in Responses /\ ~Nothing.key
BY DEF Nothing, Responses, Durable

LEMMA ModeStarts == ComposerInit => ModeInv
<1> SUFFICES ASSUME ComposerInit PROVE ModeInv
  OBVIOUS
<1>1. mode \in ModeRecords
  BY ComposerAssumption DEF ComposerInit, ModeRecords
<1>2. /\ shown = Nothing /\ ui = [busy |-> FALSE, error |-> FALSE, initialized |-> FALSE]
      /\ read = [stage |-> "none", answer |-> Nothing] /\ acts = <<>> /\ late = FALSE
  BY DEF ComposerInit, NoRead
<1>3. ModeTypes
  <2>1. ui \in [busy : BOOLEAN, error : BOOLEAN, initialized : BOOLEAN]
    BY <1>2
  <2>2. read \in [stage : {"none", "asked", "answered", "timer"}, answer : Responses]
    BY <1>2, NothingType
  <2>3. acts \in Seq(ActRecords)
    BY <1>2
  <2>4. late \in BOOLEAN
    BY <1>2
  <2> QED
    BY <1>1, <1>2, <2>1, <2>2, <2>3, <2>4, NothingType DEF ModeTypes
<1>4. DOMAIN acts = {} /\ ~ui.initialized /\ read.stage = "none" /\ ~shown.key
  BY <1>2, NothingType
<1> QED
  BY <1>3, <1>4 DEF ModeInv, OneIsHeard, KeysAreKnown, AnswersHold

\* An action with one field changed.
LEMMA ActType ==
  ASSUME NEW a \in ActRecords
  PROVE  /\ [a EXCEPT !.current = FALSE] \in ActRecords
         /\ ~[a EXCEPT !.current = FALSE].current
         /\ [a EXCEPT !.current = FALSE].kind = a.kind /\ [a EXCEPT !.current = FALSE].answer = a.answer
BY DEF ActRecords

\* When the generation moves on, nobody is heard, and nothing else changes.
LEMMA SupersedeType ==
  ASSUME acts \in Seq(ActRecords)
  PROVE  /\ Supersede \in Seq(ActRecords) /\ Len(Supersede) = Len(acts) /\ DOMAIN Supersede = DOMAIN acts
         /\ \A i \in DOMAIN acts : /\ ~Supersede[i].current
                                   /\ Supersede[i].kind = acts[i].kind /\ Supersede[i].answer = acts[i].answer
<1>1. \A i \in DOMAIN acts : acts[i] \in ActRecords
  OBVIOUS
<1>2. \A i \in DOMAIN acts : Supersede[i] = [acts[i] EXCEPT !.current = FALSE]
  BY DEF Supersede
<1>3. \A i \in DOMAIN acts : Supersede[i] \in ActRecords
  BY <1>1, <1>2, ActType
<1>4. Supersede \in Seq(ActRecords) /\ Len(Supersede) = Len(acts) /\ DOMAIN Supersede = DOMAIN acts
  <2>1. DOMAIN Supersede = 1..Len(acts) /\ Len(acts) \in Nat
    BY DEF Supersede
  <2>2. Supersede \in [1..Len(acts) -> ActRecords]
    BY <1>3, <2>1 DEF Supersede
  <2>3. Supersede \in Seq(ActRecords)
    BY <2>1, <2>2, SeqDef
  <2> QED
    BY <2>1, <2>3
<1> QED
  BY <1>1, <1>2, <1>4, ActType

\* Nobody is heard any more: a step that leaves the mode as it is has only the
\* read and what is shown to answer for.
LEMMA NobodyHeard ==
  ASSUME ModeInv, acts' = Supersede, mode' = mode, shown' = shown, late' = late,
         ui' \in [busy : BOOLEAN, error : BOOLEAN, initialized : BOOLEAN],
         ui'.busy \/ ~ui'.initialized, read' \in {NoRead, Asked}
  PROVE  ModeInv'
<1>1. ModeTypes /\ KeysAreKnown
  BY DEF ModeInv
<1>2. /\ acts' \in Seq(ActRecords) /\ DOMAIN acts' = DOMAIN acts
      /\ \A i \in DOMAIN acts : ~acts'[i].current /\ acts'[i].kind = acts[i].kind /\ acts'[i].answer = acts[i].answer
  BY <1>1, SupersedeType DEF ModeTypes
<1>3. /\ read' \in [stage : {"none", "asked", "answered", "timer"}, answer : Responses]
      /\ read'.stage # "answered"
  BY NothingType DEF NoRead, Asked
<1>4. ModeTypes'
  BY <1>1, <1>2, <1>3 DEF ModeTypes
<1>5. OneIsHeard'
  BY <1>2 DEF OneIsHeard
<1>6. KeysAreKnown'
  BY <1>1, <1>2, <1>3 DEF KeysAreKnown
<1>7. AnswersHold'
  BY <1>2, <1>3 DEF AnswersHold
<1> QED
  BY <1>4, <1>5, <1>6, <1>7 DEF ModeInv

LEMMA CatalogLostKeeps ==
  ASSUME ModeInv, NEW wasReady \in BOOLEAN, CatalogLost(wasReady)
  PROVE  ModeInv'
<1>1. /\ ui' = [ui EXCEPT !.busy = FALSE, !.initialized = FALSE]
      /\ mode' = mode /\ shown' = shown /\ late' = late /\ ModeTypes
  BY DEF CatalogLost, ModeInv
<1>2. ui' \in [busy : BOOLEAN, error : BOOLEAN, initialized : BOOLEAN] /\ ui'.initialized = FALSE
  BY <1>1 DEF ModeTypes
<1>3. CASE wasReady
  BY <1>1, <1>2, <1>3, NobodyHeard DEF CatalogLost
<1>4. CASE ~wasReady
  <2>1. read' = read /\ acts' = acts
    BY <1>4 DEF CatalogLost
  <2> QED
    BY <1>1, <1>2, <2>1 DEF ModeInv, ModeTypes, OneIsHeard, KeysAreKnown, AnswersHold
<1> QED
  BY <1>3, <1>4

LEMMA ReadModeKeeps ==
  ASSUME ModeInv, ReadMode
  PROVE  ModeInv'
<1>1. /\ ui' = [ui EXCEPT !.busy = TRUE, !.error = FALSE] /\ acts' = Supersede /\ read' = Asked
      /\ mode' = mode /\ shown' = shown /\ late' = late /\ ModeTypes
  BY DEF ReadMode, ModeInv
<1>2. ui' \in [busy : BOOLEAN, error : BOOLEAN, initialized : BOOLEAN] /\ ui'.busy = TRUE
  BY <1>1 DEF ModeTypes
<1> QED
  BY <1>1, <1>2, NobodyHeard

LEMMA ModeUntouched == ModeInv /\ UNCHANGED modeVars => ModeInv'
BY DEF modeVars, ModeInv, ModeTypes, OneIsHeard, KeysAreKnown, AnswersHold

LEMMA CatalogStepKeeps ==
  ASSUME ModeInv, CatalogStep
  PROVE  ModeInv'
<1>1. CASE LoadSeen
  <2>1. (status = "ready") \in BOOLEAN
    OBVIOUS
  <2> QED
    BY <1>1, <2>1, CatalogLostKeeps, ModeUntouched DEF LoadSeen
<1>2. CASE ReadMode \/ CatalogLost(TRUE) \/ CatalogLost(FALSE)
  BY <1>2, ReadModeKeeps, CatalogLostKeeps
<1>3. CASE UNCHANGED modeVars
  BY <1>3, ModeUntouched
<1> QED
  BY <1>1, <1>2, <1>3 DEF CatalogStep, CatalogAnswered, CatalogDelivered, CatalogFails, LinkLost, LinkBack,
     CatalogTimer, CatalogRefresh, DefinitionWritten, modeVars

-----------------------------------------------------------------------------
LEMMA ReadStepKeeps ==
  ASSUME ModeInv, ReadAnswered \/ ReadDelivered \/ ReadTimer \/ ReadFails
  PROVE  ModeInv'
<1>0. ModeTypes /\ OneIsHeard /\ KeysAreKnown /\ AnswersHold
  BY DEF ModeInv
<1>1. mode' = mode /\ acts' = acts /\ read.stage # "none"
  BY DEF ReadAnswered, ReadDelivered, ReadTimer, ReadFails
<1>2. \A i \in DOMAIN acts : ~acts[i].current
  BY <1>0, <1>1 DEF OneIsHeard
<1>3. OneIsHeard'
  BY <1>1, <1>2 DEF OneIsHeard
<1>4. CASE ReadAnswered
  <2>1. read' = [stage |-> "answered", answer |-> Response(mode)] /\ UNCHANGED <<shown, ui>> /\ late' = FALSE
    BY <1>4 DEF ReadAnswered
  <2>2. Response(mode) \in Responses /\ Response(mode).key = mode.ready
    BY <1>0, ResponseType DEF ModeTypes
  <2> QED
    BY <1>0, <1>1, <1>2, <1>3, <2>1, <2>2 DEF ModeInv, ModeTypes, KeysAreKnown, AnswersHold
<1>5. CASE ReadDelivered
  <2>1. /\ read.stage = "answered" /\ late' = late
        /\ ui' = [busy |-> FALSE, error |-> FALSE, initialized |-> TRUE]
        /\ read' = IF Authoritative(read.answer) THEN NoRead ELSE Waiting
        /\ shown' = IF Authoritative(read.answer) THEN read.answer
                    ELSE [read.answer EXCEPT !.override = shown.override, !.effective = shown.effective]
    BY <1>5 DEF ReadDelivered
  <2>2. read.answer \in Responses /\ shown \in Responses
    BY <1>0 DEF ModeTypes
  <2>3. shown' \in Responses /\ shown'.key = read.answer.key
    BY <2>1, <2>2 DEF Responses
  <2>4. /\ read' \in [stage : {"none", "asked", "answered", "timer"}, answer : Responses]
        /\ read'.stage # "answered"
        /\ read'.stage = "none" => shown' = read.answer
    BY <2>1, NothingType DEF NoRead, Waiting
  <2> QED
    BY <1>0, <1>1, <1>2, <1>3, <2>1, <2>3, <2>4 DEF ModeInv, ModeTypes, KeysAreKnown, AnswersHold
<1>6. CASE ReadTimer \/ ReadFails
  <2>1. /\ read' \in {Asked, Waiting} /\ UNCHANGED <<shown, late>>
        /\ ui' = ui \/ ui' = [busy |-> FALSE, error |-> TRUE, initialized |-> TRUE]
    BY <1>6 DEF ReadTimer, ReadFails
  <2>2. /\ read' \in [stage : {"none", "asked", "answered", "timer"}, answer : Responses]
        /\ read'.stage \notin {"none", "answered"}
    BY <2>1, NothingType DEF Asked, Waiting
  <2>3. ui' \in [busy : BOOLEAN, error : BOOLEAN, initialized : BOOLEAN]
    <3>1. CASE ui' = ui
      BY <1>0, <3>1 DEF ModeTypes
    <3>2. CASE ui' = [busy |-> FALSE, error |-> TRUE, initialized |-> TRUE]
      BY <3>2
    <3> QED BY <2>1, <3>1, <3>2
  <2> QED
    BY <1>0, <1>1, <1>2, <1>3, <2>1, <2>2, <2>3 DEF ModeInv, ModeTypes, KeysAreKnown, AnswersHold
<1> QED
  BY <1>4, <1>5, <1>6

LEMMA ActKeeps ==
  ASSUME ModeInv, NEW kind \in Clicks, Act(kind)
  PROVE  ModeInv'
<1> DEFINE name == IF kind # "default" THEN kind ELSE IF shown.default THEN "default-off" ELSE "default-on"
           new == [kind |-> name, stage |-> "sent", answer |-> Nothing, current |-> TRUE]
<1>0. ModeTypes /\ KeysAreKnown
  BY DEF ModeInv
<1>1. /\ acts' = Append(Supersede, new) /\ read' = NoRead /\ UNCHANGED <<mode, shown, late>>
      /\ ui' = [ui EXCEPT !.busy = TRUE, !.error = FALSE] /\ (kind = "default" => shown.key)
  BY DEF Act
<1>2. name \in Durable \union OneShot \union DefaultActs /\ (name \in DefaultActs => shown.key)
  BY <1>1, ComposerAssumption DEF Kinds, DefaultActs, Durable, OneShot
<1>3. new \in ActRecords /\ new.kind = name /\ new.answer = Nothing /\ new.stage = "sent"
  BY <1>2, NothingType DEF ActRecords
<1>4. /\ Supersede \in Seq(ActRecords) /\ Len(Supersede) = Len(acts) /\ DOMAIN acts = 1..Len(acts) /\ Len(acts) \in Nat
      /\ \A i \in DOMAIN acts : ~Supersede[i].current /\ Supersede[i].kind = acts[i].kind /\ Supersede[i].answer = acts[i].answer
  BY <1>0, SupersedeType DEF ModeTypes
<1> HIDE DEF new, name
<1>5. /\ acts' \in Seq(ActRecords) /\ DOMAIN acts' = 1..Len(acts) + 1 /\ Len(acts') = Len(acts) + 1
      /\ acts'[Len(acts) + 1] = new
      /\ \A i \in 1..Len(acts) : acts'[i] = Supersede[i]
  BY <1>1, <1>3, <1>4
<1>6. \A i \in DOMAIN acts' : i = Len(acts') \/ (i \in DOMAIN acts /\ ~acts'[i].current /\ acts'[i].kind = acts[i].kind
                                                 /\ acts'[i].answer = acts[i].answer)
  BY <1>4, <1>5
<1>7. /\ ui' \in [busy : BOOLEAN, error : BOOLEAN, initialized : BOOLEAN] /\ ui'.busy = TRUE
      /\ read' \in [stage : {"none", "asked", "answered", "timer"}, answer : Responses] /\ read'.stage = "none"
  BY <1>0, <1>1, NothingType DEF ModeTypes, NoRead
<1>8. ModeTypes'
  BY <1>0, <1>1, <1>5, <1>7 DEF ModeTypes
<1>9. OneIsHeard'
  BY <1>3, <1>5, <1>6, <1>7 DEF OneIsHeard
<1>10. KeysAreKnown'
  BY <1>0, <1>1, <1>2, <1>3, <1>5, <1>6, <1>7, NothingType DEF KeysAreKnown
<1>11. AnswersHold'
  BY <1>3, <1>5, <1>6, <1>7 DEF AnswersHold
<1> QED
  BY <1>8, <1>9, <1>10, <1>11 DEF ModeInv

\* One action is replaced by another of its kind.
LEMMA ActReplaced ==
  ASSUME ModeTypes, NEW i \in DOMAIN acts, NEW a \in ActRecords, acts' = [acts EXCEPT ![i] = a]
  PROVE  /\ acts' \in Seq(ActRecords) /\ DOMAIN acts' = DOMAIN acts /\ Len(acts') = Len(acts)
         /\ acts'[i] = a /\ \A j \in DOMAIN acts \ {i} : acts'[j] = acts[j]
BY DEF ModeTypes

LEMMA ActExecutedKeeps ==
  ASSUME ModeInv, NEW i \in DOMAIN acts, ActExecuted(i)
  PROVE  ModeInv'
<1> DEFINE a == [acts[i] EXCEPT !.stage = "executed"]
<1>0. ModeTypes /\ OneIsHeard /\ KeysAreKnown /\ AnswersHold
  BY DEF ModeInv
<1>1. acts[i] \in ActRecords /\ acts[i].stage = "sent" /\ UNCHANGED <<shown, ui, read>>
      /\ mode' = Written(mode, acts[i].kind) /\ late' = ~acts[i].current /\ acts' = [acts EXCEPT ![i] = a]
  BY <1>0 DEF ActExecuted, ModeTypes
<1>2. a \in ActRecords /\ a.kind = acts[i].kind /\ a.answer = acts[i].answer /\ a.current = acts[i].current
      /\ a.stage = "executed"
  BY <1>1 DEF ActRecords
<1>3. /\ mode' \in ModeRecords /\ mode'.ready = mode.ready
      /\ acts[i].kind \in DefaultActs => mode'.default = (acts[i].kind = "default-on")
  BY <1>0, <1>1 DEF ModeTypes, Written, ModeRecords, ActRecords, DefaultActs, Durable, OneShot
<1> HIDE DEF a
<1>4. /\ acts' \in Seq(ActRecords) /\ DOMAIN acts' = DOMAIN acts /\ Len(acts') = Len(acts)
      /\ acts'[i] = a /\ \A j \in DOMAIN acts \ {i} : acts'[j] = acts[j]
  BY <1>0, <1>1, <1>2, ActReplaced
<1>5. ModeTypes'
  <2>1. late' \in BOOLEAN
    BY <1>1
  <2> QED
    BY <1>0, <1>1, <1>3, <1>4, <2>1 DEF ModeTypes
<1>6. OneIsHeard'
  BY <1>0, <1>1, <1>2, <1>4 DEF OneIsHeard
<1>7. KeysAreKnown'
  BY <1>0, <1>1, <1>2, <1>3, <1>4 DEF KeysAreKnown
<1>8. AnswersHold'
  <2> SUFFICES ASSUME acts[i].current PROVE AnswersHold'
    BY <1>1 DEF AnswersHold
  <2>1. read'.stage = "none" /\ (ui'.busy \/ ~ui'.initialized) /\ \A j \in DOMAIN acts \ {i} : ~acts'[j].current
    BY <1>0, <1>1, <1>4 DEF OneIsHeard
  <2> QED
    BY <1>2, <1>3, <1>4, <2>1 DEF AnswersHold
<1> QED
  BY <1>5, <1>6, <1>7, <1>8 DEF ModeInv

LEMMA ActAnsweredKeeps ==
  ASSUME ModeInv, NEW i \in DOMAIN acts, ActAnswered(i)
  PROVE  ModeInv'
<1> DEFINE answer == [Response(mode) EXCEPT !.default =
                        IF acts[i].kind \in DefaultActs THEN acts[i].kind = "default-on" ELSE @]
           a == [acts[i] EXCEPT !.stage = "answered", !.answer = answer]
<1>0. ModeTypes /\ OneIsHeard /\ KeysAreKnown /\ AnswersHold
  BY DEF ModeInv
<1>1. acts[i] \in ActRecords /\ acts[i].stage = "executed" /\ UNCHANGED <<mode, shown, ui, read, late>>
      /\ acts' = [acts EXCEPT ![i] = a]
  <2>1. acts[i] \in ActRecords /\ acts[i].stage = "executed" /\ UNCHANGED <<mode, shown, ui, read, late>>
    BY <1>0 DEF ActAnswered, ModeTypes
  <2>2. acts' = [acts EXCEPT ![i].stage = "answered", ![i].answer = answer]
    BY DEF ActAnswered, DefaultActs
  <2> HIDE DEF answer
  <2>3. acts' = [acts EXCEPT ![i] = a]
    BY <1>0, <2>1, <2>2 DEF ModeTypes
  <2> QED BY <2>1, <2>3
<1>2. Response(mode) \in Responses /\ Response(mode).key = mode.ready /\ mode \in ModeRecords
  BY <1>0, ResponseType DEF ModeTypes
<1>3. /\ answer \in Responses /\ answer.key = mode.ready
      /\ acts[i].kind \notin DefaultActs => answer = Response(mode)
      /\ acts[i].kind \in DefaultActs => answer.default = (acts[i].kind = "default-on")
      /\ acts[i].kind \in DefaultActs /\ Response(mode).default = (acts[i].kind = "default-on") => answer = Response(mode)
  BY <1>2 DEF Responses
<1>4. acts[i].kind \in DefaultActs => Response(mode).default = mode.default
  BY <1>0, <1>2 DEF KeysAreKnown, Response, ModeRecords
<1> HIDE DEF answer
<1>5. a \in ActRecords /\ a.kind = acts[i].kind /\ a.answer = answer /\ a.current = acts[i].current /\ a.stage = "answered"
  BY <1>1, <1>3 DEF ActRecords
<1> HIDE DEF a
<1>6. /\ acts' \in Seq(ActRecords) /\ DOMAIN acts' = DOMAIN acts /\ Len(acts') = Len(acts)
      /\ acts'[i] = a /\ \A j \in DOMAIN acts \ {i} : acts'[j] = acts[j]
  BY <1>0, <1>1, <1>5, ActReplaced
<1>7. ModeTypes'
  BY <1>0, <1>1, <1>6 DEF ModeTypes
<1>8. OneIsHeard'
  BY <1>0, <1>1, <1>5, <1>6 DEF OneIsHeard
<1>9. KeysAreKnown'
  BY <1>0, <1>1, <1>3, <1>5, <1>6 DEF KeysAreKnown
<1>10. ~late /\ acts[i].current => answer = Response(mode)
  BY <1>0, <1>1, <1>3, <1>4 DEF AnswersHold
<1>11. Response(mode)' = Response(mode)
  BY <1>1
<1>12. AnswersHold'
  BY <1>0, <1>1, <1>5, <1>6, <1>10, <1>11 DEF AnswersHold
<1> QED
  BY <1>7, <1>8, <1>9, <1>12 DEF ModeInv

LEMMA ActEndsKeeps ==
  ASSUME ModeInv, NEW i \in DOMAIN acts, ActDelivered(i) \/ ActFails(i)
  PROVE  ModeInv'
<1>0. ModeTypes /\ OneIsHeard /\ KeysAreKnown /\ AnswersHold
  BY DEF ModeInv
<1>1. acts[i] \in ActRecords /\ acts[i].current /\ UNCHANGED <<mode, read, late>>
  BY <1>0 DEF ActDelivered, ActFails, Heard, ModeTypes
<1>2. i = Len(acts) /\ read.stage = "none" /\ \A j \in DOMAIN acts \ {i} : ~acts[j].current
  BY <1>0, <1>1 DEF OneIsHeard
<1>3. CASE ActDelivered(i)
  <2> DEFINE a == [acts[i] EXCEPT !.stage = "done", !.answer = Nothing, !.current = FALSE]
  <2>1. /\ acts[i].stage = "answered" /\ shown' = acts[i].answer /\ acts' = [acts EXCEPT ![i] = a]
        /\ ui' = [ui EXCEPT !.busy = FALSE, !.initialized = @ \/ acts[i].kind \notin {"default-on", "default-off"}]
    BY <1>3 DEF ActDelivered
  <2>2. a \in ActRecords /\ a.kind = acts[i].kind /\ a.answer = Nothing /\ a.current = FALSE
    BY <1>1, NothingType DEF ActRecords
  <2> HIDE DEF a
  <2>3. /\ acts' \in Seq(ActRecords) /\ DOMAIN acts' = DOMAIN acts /\ Len(acts') = Len(acts)
        /\ acts'[i] = a /\ \A j \in DOMAIN acts \ {i} : acts'[j] = acts[j]
    BY <1>0, <2>1, <2>2, ActReplaced
  <2>4. ui' \in [busy : BOOLEAN, error : BOOLEAN, initialized : BOOLEAN]
    BY <1>0, <2>1 DEF ModeTypes
  <2>5. shown' \in Responses /\ (shown'.key => mode.ready) /\ (~late => shown' = Response(mode))
    BY <1>0, <1>1, <2>1 DEF KeysAreKnown, AnswersHold, ActRecords
  <2>6. \A j \in DOMAIN acts' : ~acts'[j].current
    BY <1>2, <2>2, <2>3
  <2>7. ModeTypes'
    BY <1>0, <1>1, <2>3, <2>4, <2>5 DEF ModeTypes
  <2>8. KeysAreKnown'
    BY <1>0, <1>1, <2>2, <2>3, <2>5, NothingType DEF KeysAreKnown
  <2>9. Response(mode)' = Response(mode)
    BY <1>1
  <2>10. AnswersHold'
    BY <1>0, <1>1, <1>2, <2>5, <2>6, <2>9 DEF AnswersHold
  <2> QED
    BY <2>6, <2>7, <2>8, <2>10 DEF ModeInv, OneIsHeard
<1>4. CASE ActFails(i)
  <2> DEFINE a == [acts[i] EXCEPT !.current = FALSE]
  <2>1. /\ shown' = shown /\ acts' = [acts EXCEPT ![i] = a]
        /\ ui' = [ui EXCEPT !.busy = FALSE, !.error = TRUE]
    BY <1>4 DEF ActFails
  <2>2. a \in ActRecords /\ a.kind = acts[i].kind /\ a.answer = acts[i].answer /\ a.current = FALSE
    BY <1>1 DEF ActRecords
  <2> HIDE DEF a
  <2>3. /\ acts' \in Seq(ActRecords) /\ DOMAIN acts' = DOMAIN acts /\ Len(acts') = Len(acts)
        /\ acts'[i] = a /\ \A j \in DOMAIN acts \ {i} : acts'[j] = acts[j]
    BY <1>0, <2>1, <2>2, ActReplaced
  <2>4. ui' \in [busy : BOOLEAN, error : BOOLEAN, initialized : BOOLEAN] /\ ui'.error = TRUE
    BY <1>0, <2>1 DEF ModeTypes
  <2>5. \A j \in DOMAIN acts' : ~acts'[j].current
    BY <1>2, <2>2, <2>3
  <2>6. ModeTypes'
    BY <1>0, <1>1, <2>1, <2>3, <2>4 DEF ModeTypes
  <2>7. KeysAreKnown'
    BY <1>0, <1>1, <2>1, <2>2, <2>3 DEF KeysAreKnown
  <2>8. AnswersHold'
    BY <1>1, <1>2, <2>4, <2>5 DEF AnswersHold
  <2> QED
    BY <2>5, <2>6, <2>7, <2>8 DEF ModeInv, OneIsHeard
<1> QED
  BY <1>3, <1>4

LEMMA HostStepKeeps ==
  ASSUME ModeInv, MessageSent \/ SessionLoaded
  PROVE  ModeInv'
<1>0. ModeTypes /\ OneIsHeard /\ KeysAreKnown
  BY DEF ModeInv
<1>1. UNCHANGED <<shown, ui, read, acts>> /\ late' = TRUE
  BY DEF MessageSent, SessionLoaded
<1>2. mode' \in ModeRecords /\ (mode.ready => mode'.ready)
  BY <1>0 DEF MessageSent, SessionLoaded, ModeTypes, ModeRecords
<1> QED
  BY <1>0, <1>1, <1>2 DEF ModeInv, ModeTypes, OneIsHeard, KeysAreKnown, AnswersHold

LEMMA ModeStepKeeps == ModeInv /\ [ComposerNext]_composerVars => ModeInv'
<1> SUFFICES ASSUME ModeInv, [ComposerNext]_composerVars
             PROVE  ModeInv'
  OBVIOUS
<1>1. CASE CatalogStep
  BY <1>1, CatalogStepKeeps
<1>2. CASE ModeStep
  BY <1>2, ReadStepKeeps, ActKeeps, ActExecutedKeeps, ActAnsweredKeeps, ActEndsKeeps, HostStepKeeps DEF ModeStep
<1>3. CASE ModeFault
  BY <1>3, ReadStepKeeps, ActEndsKeeps DEF ModeFault
<1>4. CASE UNCHANGED composerVars
  <2>1. UNCHANGED modeVars
    BY <1>4 DEF composerVars
  <2> QED
    BY <2>1, ModeUntouched
<1> QED
  BY <1>1, <1>2, <1>3, <1>4 DEF ComposerNext

\* A control at rest shows the mode the host applies to the next message, however
\* many actions, answers, lost connections and rejected requests came before, and
\* in whatever order they arrived.
THEOREM RestIsTrue == ComposerSpec => []RestShowsTheMode
<1>1. ModeInv => RestShowsTheMode
  BY DEF ModeInv, AnswersHold, RestShowsTheMode, AtRest
<1> QED
  BY ModeStarts, ModeStepKeeps, <1>1, PTL DEF ComposerSpec
=============================================================================
