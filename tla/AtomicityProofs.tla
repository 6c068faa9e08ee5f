-------------------------- MODULE AtomicityProofs --------------------------
(***************************************************************************)
(* Definitions implements AtomicDefinitions: for any tables, clients and   *)
(* operations, what the others see of a service whose operations are many  *)
(* storage calls, with faults, aborts and compensations, are operations    *)
(* that change all of their tables in one step, until one was cut short.   *)
(*                                                                         *)
(* A list of changes Leads from the tables of now to one graph, whatever   *)
(* the order in which rows are put, dropped or recorded; every plan leads  *)
(* to what its operation Makes, each storage call keeps that, and nothing  *)
(* is left of the list when the operation commits.                         *)
(***************************************************************************)
EXTENDS DefinitionProofs

(***************************************************************************)
(* What the others see of an operation: its storage calls, faults, aborts  *)
(* and compensations stutter, only its last storage call shows.            *)
(***************************************************************************)
\* Half of the atomicity of operations: what is committed changes at no step but
\* the last storage call of an operation that nobody aborted, and then to the
\* tables as that call leaves them.
OnlyCommitsShow ==
  Committed' # Committed /\ damage' = "none" =>
    /\ Step /\ ~tx.aborted
    /\ tx' = Free /\ Committed' = db'
    /\ currentRevision' = currentRevision + 1

\* A storage call is the last of its operation, or keeps what is committed.
LEMMA StepCommits ==
  ASSUME DataInv(db, tx, damage), Step, Committed' # Committed
  PROVE  ~tx.aborted /\ tx' = Free /\ currentRevision' = currentRevision + 1
<1>1. Forward
  BY DEF Step
<1>2. tx # Free /\ IsTx(tx) /\ tx.phase = "forward"
  BY <1>1, Phases DEF DataInv, Forward
<1>3. PICK left : \/ tx' = Compensate
                  \/ ~tx.aborted /\ tx' = Free /\ currentRevision' = currentRevision + 1
                  \/ tx' = [tx EXCEPT !.changes = left]
  BY DEF Step
<1>4. ASSUME NEW t, t = Compensate \/ t = [tx EXCEPT !.changes = left] PROVE t # Free /\ t.before = tx.before
  <2>1. CASE t = Compensate
    <3>1. t.phase = "rollback" /\ SameBut(t, tx, {"phase", "changes"})
      BY <1>2, <2>1, TxUpdates DEF Compensate
    <3> QED
      BY <3>1 DEF SameBut, TxFields, Free
  <2>2. CASE t = [tx EXCEPT !.changes = left]
    <3>1. SameBut(t, tx, {"changes"})
      BY <1>2, <2>2, TxUpdates
    <3> QED
      BY <1>2, <3>1 DEF SameBut, TxFields, Free
  <2> QED
    BY <1>4, <2>1, <2>2
<1>5. CASE tx' = Compensate \/ tx' = [tx EXCEPT !.changes = left]
  <2>1. tx' # Free /\ tx'.before = tx.before
    BY <1>4, <1>5
  <2> QED
    BY <1>2, <2>1 DEF Committed
<1> QED
  BY <1>3, <1>5

\* No other step changes what is committed.
LEMMA OthersKeep ==
  ASSUME DInv, [DefinitionsNext]_definitionsVars, ~Step, damage' = "none"
  PROVE  Committed' = Committed
<1>1. DataInv(db, tx, damage) /\ currentRevision \in Nat
  BY DEF DInv, CallsInv
<1>2. CASE UNCHANGED <<db, tx>>
  BY <1>2 DEF Committed
<1>3. CASE \E c \in Clients, op \in Operations : Begin(c, op)
  BY <1>3 DEF Begin, MayAsk, Run, Committed, Free
<1>4. CASE \E c \in Clients : EnterSection(c)
  BY <1>4 DEF EnterSection, Run, Committed, Free
<1>5. CASE Refuse \/ StepFails \/ AbortOperation \/ RestoreTable \/ RestoreFails
  <2>1. Advanced
    BY <1>1, <1>5, StepAdvances
  <2>2. currentRevision' = currentRevision
    BY <1>5 DEF Refuse, StepFails, AbortOperation, RestoreTable, RestoreFails
  <2> QED
    BY <1>1, <2>1, <2>2 DEF Advanced
<1>6. CASE Crash
  <2>1. tx = Free
    BY <1>6 DEF Crash
  <2> QED
    BY <1>6, <2>1 DEF Crash, Committed
<1> QED
  BY <1>2, <1>3, <1>4, <1>5, <1>6 DEF DefinitionsNext, definitionsVars, Preview, PreviewImport, PreviewRecipe,
     PreviewRestore, Show, Observe, ConfirmPreview, GiveUp

\* The definitions that the others see -- the tables, or the snapshot while an
\* operation is under way -- start as the abstract service's do, and every step
\* but the last storage call of an operation is a stuttering step of that service:
\* a request, a preview, a call half way, a fault, an abort and every call of a
\* compensation leave them as they were, until an operation was cut short.
THEOREM OnlyCommits == DefinitionsSpec => Atomic!AtomicInit /\ [][OnlyCommitsShow]_definitionsVars
<1>1. DefinitionsInit => Atomic!AtomicInit
  BY DEF DefinitionsInit, Atomic!AtomicInit, Committed
<1>2. DInv /\ [DefinitionsNext]_definitionsVars => OnlyCommitsShow
  <2> SUFFICES ASSUME DInv, [DefinitionsNext]_definitionsVars, Committed' # Committed, damage' = "none"
               PROVE  /\ Step /\ ~tx.aborted
                      /\ tx' = Free /\ Committed' = db'
                      /\ currentRevision' = currentRevision + 1
    BY DEF OnlyCommitsShow
  <2>1. Step
    BY OthersKeep
  <2>2. ~tx.aborted /\ tx' = Free /\ currentRevision' = currentRevision + 1
    BY <2>1, StepCommits DEF DInv
  <2> QED
    BY <2>1, <2>2 DEF Committed
<1> QED
  BY <1>1, <1>2, InvHolds, PTL DEF DefinitionsSpec

(***************************************************************************)
(* What a storage call is part of.  A change as a whole has one result; so *)
(* has a list of changes, whatever the order in which the rows of each of  *)
(* them are put, dropped or recorded.                                      *)
(***************************************************************************)
\* Two tables of versions that hold the same versions of squad s.
SameVersions(v, w, s) ==
  \A k : k[1] = s => /\ k \in DOMAIN v <=> k \in DOMAIN w
                     /\ k \in DOMAIN v => v[k] = w[k]

\* They have the same latest version, and the same ones are too many.
LEMMA SameLatest ==
  ASSUME NEW g, NEW h, NEW s, SameVersions(g.squadVersions, h.squadVersions, s)
  PROVE  Latest(g, s) = Latest(h, s)
<1>1. \A n : <<s, n>> \in DOMAIN g.squadVersions <=> <<s, n>> \in DOMAIN h.squadVersions
  <2> TAKE n
  <2>1. <<s, n>>[1] = s
    OBVIOUS
  <2> QED
    BY <2>1 DEF SameVersions
<1>2. \A x, n : n \in VersionNumbers(x, s) <=> <<s, n>> \in DOMAIN x.squadVersions
  <2> TAKE x, n
  <2>1. <<s, n>>[2] = n
    OBVIOUS
  <2> QED
    BY <2>1 DEF VersionNumbers
<1>3. VersionNumbers(g, s) \subseteq VersionNumbers(h, s) /\ VersionNumbers(h, s) \subseteq VersionNumbers(g, s)
  BY <1>1, <1>2
<1>4. VersionNumbers(g, s) = VersionNumbers(h, s)
  BY <1>3
<1> QED
  BY <1>4 DEF Latest

\* The same versions of the squad are too many in both.
LEMMA SameExcess ==
  ASSUME NEW v, NEW w, NEW s, SameVersions(v, w, s)
  PROVE  Excess(v, s) = Excess(w, s)
<1> DEFINE newer(x, m) == {n \in {j[2] : j \in DOMAIN x} : <<s, n>> \in DOMAIN x /\ n > m}
<1>1. \A n : <<s, n>> \in DOMAIN v <=> <<s, n>> \in DOMAIN w
  <2> TAKE n
  <2>1. <<s, n>>[1] = s
    OBVIOUS
  <2> QED
    BY <2>1 DEF SameVersions
<1>2. ASSUME NEW m PROVE newer(v, m) = newer(w, m)
  <2>1. ASSUME NEW x, NEW n PROVE n \in newer(x, m) <=> <<s, n>> \in DOMAIN x /\ n > m
    <3>1. <<s, n>>[2] = n
      OBVIOUS
    <3> QED
      BY <3>1
  <2> HIDE DEF newer
  <2>2. newer(v, m) \subseteq newer(w, m) /\ newer(w, m) \subseteq newer(v, m)
    BY <1>1, <2>1
  <2> QED
    BY <2>2
<1>3. \A x, k : k \in Excess(x, s) <=>
        k \in DOMAIN x /\ KeepVersions # 0 /\ k[1] = s /\ Cardinality(newer(x, k[2])) >= KeepVersions
  BY DEF Excess
<1> HIDE DEF newer
<1>4. \A k : k[1] = s => (k \in DOMAIN v <=> k \in DOMAIN w)
  BY DEF SameVersions
<1>5. \A k : k \in Excess(v, s) <=> k \in Excess(w, s)
  BY <1>2, <1>3, <1>4
<1>6. Excess(v, s) \subseteq DOMAIN v /\ Excess(w, s) \subseteq DOMAIN w
  BY DEF Excess
<1> QED
  BY <1>5

\* Tables are equal when they hold the same versions of every squad.
LEMMA EqualVersions ==
  ASSUME NEW v, NEW w, IsMap(v), IsMap(w), \A s : SameVersions(v, w, s)
  PROVE  v = w
<1>1. \A k : (k \in DOMAIN v <=> k \in DOMAIN w) /\ (k \in DOMAIN v => v[k] = w[k])
  BY DEF SameVersions
<1>2. DOMAIN v = DOMAIN w
  BY <1>1
<1> QED
  BY <1>1, <1>2 DEF IsMap

\* The versions that are there after one more of squad s, and one more of each squad of S.
AllVersions(g, S) ==
  Laid([k \in {<<s, Latest(g, s) + 1>> : s \in S} |-> Snapshot(g, k[1])], g.squadVersions)
TooMany(v, S) == UNION {Excess(v, s) : s \in S}

\* Recording squads: their snapshots are added, what is too many for any of them goes.
LEMMA RecordedIs ==
  ASSUME NEW g, IsGraph(g), NEW S
  PROVE  /\ IsGraph(Recorded(g, S))
         /\ Recorded(g, S)["squadVersions"] = Without(AllVersions(g, S), TooMany(AllVersions(g, S), S))
         /\ \A t \in Tables : t # "squadVersions" => Recorded(g, S)[t] = g[t]
<1> DEFINE v == Without(AllVersions(g, S), TooMany(AllVersions(g, S), S))
<1>1. Recorded(g, S) = [g EXCEPT !["squadVersions"] = v]
  BY DEF Recorded, AllVersions, TooMany
<1>2. "squadVersions" \in Tables
  BY DEF Tables
<1> HIDE DEF v
<1>3. IsGraph([g EXCEPT !["squadVersions"] = v])
  BY <1>2, GraphUpdate
<1>4. Recorded(g, S)["squadVersions"] = v /\ Written(g, Recorded(g, S), "squadVersions")
  BY <1>1, <1>2, WrittenGraph
<1> QED
  BY <1>1, <1>3, <1>4 DEF v, Written

\* The versions of squad s among all: its new one and those it had.
LEMMA AllVersionsOf ==
  ASSUME NEW g, NEW S, NEW s, NEW k, k[1] = s
  PROVE  LET new == <<s, Latest(g, s) + 1>>
             all == AllVersions(g, S)
         IN  /\ k \in DOMAIN all <=> (s \in S /\ k = new) \/ k \in DOMAIN g.squadVersions
             /\ s \in S /\ k = new => all[k] = Snapshot(g, s)
             /\ ~(s \in S /\ k = new) /\ k \in DOMAIN g.squadVersions => all[k] = g.squadVersions[k]
<1> DEFINE new == <<s, Latest(g, s) + 1>>
           keys == {<<x, Latest(g, x) + 1>> : x \in S}
           fresh == [y \in keys |-> Snapshot(g, y[1])]
           all == AllVersions(g, S)
<1>1. k \in keys <=> s \in S /\ k = new
  <2>1. \A x : <<x, Latest(g, x) + 1>>[1] = x
    OBVIOUS
  <2> QED
    BY <2>1
<1>2. DOMAIN fresh = keys /\ (k \in keys => fresh[k] = Snapshot(g, s))
  OBVIOUS
<1>3. all = Laid(fresh, g.squadVersions)
  BY DEF AllVersions
<1> HIDE DEF new, keys, fresh, all
<1>4. /\ k \in DOMAIN all <=> k \in keys \/ k \in DOMAIN g.squadVersions
      /\ k \in keys => all[k] = fresh[k]
      /\ k \notin keys /\ k \in DOMAIN g.squadVersions => all[k] = g.squadVersions[k]
  BY <1>2, <1>3 DEF Laid
<1>5. /\ k \in DOMAIN all <=> (s \in S /\ k = new) \/ k \in DOMAIN g.squadVersions
      /\ s \in S /\ k = new => all[k] = Snapshot(g, s)
      /\ ~(s \in S /\ k = new) /\ k \in DOMAIN g.squadVersions => all[k] = g.squadVersions[k]
  BY <1>1, <1>2, <1>4
<1> QED
  BY <1>5 DEF new, all

\* What is recorded for a squad depends on its versions and its snapshot only.
LEMMA AllAlike ==
  ASSUME NEW g, NEW h, NEW S, NEW T, NEW s, SameVersions(g.squadVersions, h.squadVersions, s),
         s \in S <=> s \in T, s \in S => Snapshot(g, s) = Snapshot(h, s)
  PROVE  SameVersions(AllVersions(g, S), AllVersions(h, T), s)
<1> SUFFICES ASSUME NEW k, k[1] = s
             PROVE  /\ k \in DOMAIN AllVersions(g, S) <=> k \in DOMAIN AllVersions(h, T)
                    /\ k \in DOMAIN AllVersions(g, S) => AllVersions(g, S)[k] = AllVersions(h, T)[k]
  BY DEF SameVersions
<1> DEFINE a == AllVersions(g, S)
           b == AllVersions(h, T)
           new == <<s, Latest(g, s) + 1>>
<1>1. Latest(g, s) = Latest(h, s)
  BY SameLatest
<1>2. /\ k \in DOMAIN a <=> (s \in S /\ k = new) \/ k \in DOMAIN g.squadVersions
      /\ s \in S /\ k = new => a[k] = Snapshot(g, s)
      /\ ~(s \in S /\ k = new) /\ k \in DOMAIN g.squadVersions => a[k] = g.squadVersions[k]
  BY AllVersionsOf
<1>3. /\ k \in DOMAIN b <=> (s \in T /\ k = new) \/ k \in DOMAIN h.squadVersions
      /\ s \in T /\ k = new => b[k] = Snapshot(h, s)
      /\ ~(s \in T /\ k = new) /\ k \in DOMAIN h.squadVersions => b[k] = h.squadVersions[k]
  BY <1>1, AllVersionsOf
<1>4. (k \in DOMAIN g.squadVersions <=> k \in DOMAIN h.squadVersions)
      /\ (k \in DOMAIN g.squadVersions => g.squadVersions[k] = h.squadVersions[k])
  BY DEF SameVersions
<1> HIDE DEF a, b, new
<1>5. (k \in DOMAIN a <=> k \in DOMAIN b) /\ (k \in DOMAIN a => a[k] = b[k])
  BY <1>2, <1>3, <1>4
<1> QED
  BY <1>5 DEF a, b

\* Recording a squad depends on its snapshot and on its versions only.
LEMMA RecordedAlike ==
  ASSUME NEW g, IsGraph(g), NEW h, IsGraph(h), NEW S, NEW T, NEW s, SameVersions(g.squadVersions, h.squadVersions, s),
         s \in S <=> s \in T, s \in S => Snapshot(g, s) = Snapshot(h, s)
  PROVE  SameVersions(Recorded(g, S)["squadVersions"], Recorded(h, T)["squadVersions"], s)
<1> DEFINE a == AllVersions(g, S)
           b == AllVersions(h, T)
<1>1. SameVersions(a, b, s)
  BY AllAlike
<1>2. Recorded(g, S)["squadVersions"] = Without(a, TooMany(a, S)) /\ Recorded(h, T)["squadVersions"] = Without(b, TooMany(b, T))
  BY RecordedIs
<1> HIDE DEF a, b
<1>3. Excess(a, s) = Excess(b, s)
  BY <1>1, SameExcess
<1>4. \A v, X, k : k[1] = s => (k \in TooMany(v, X) <=> s \in X /\ k \in Excess(v, s))
  <2>1. \A v, x, k : k \in Excess(v, x) => k[1] = x
    BY DEF Excess
  <2> QED
    BY <2>1 DEF TooMany
<1>5. \A k : k[1] = s => (k \in TooMany(a, S) <=> k \in TooMany(b, T))
  BY <1>3, <1>4
<1>6. \A v, X, k : /\ k \in DOMAIN Without(v, X) <=> k \in DOMAIN v /\ k \notin X
                   /\ k \in DOMAIN Without(v, X) => Without(v, X)[k] = v[k]
  BY DEF Without
<1>7. SameVersions(Without(a, TooMany(a, S)), Without(b, TooMany(b, T)), s)
  BY <1>1, <1>5, <1>6 DEF SameVersions
<1> QED
  BY <1>2, <1>7

\* A squad that is not recorded keeps its versions.
LEMMA NotRecorded ==
  ASSUME NEW g, IsGraph(g), NEW S, NEW s, s \notin S
  PROVE  SameVersions(Recorded(g, S)["squadVersions"], g["squadVersions"], s)
<1> DEFINE a == AllVersions(g, S)
<1>1. SameVersions(a, g.squadVersions, s)
  BY AllVersionsOf DEF SameVersions
<1>2. Recorded(g, S)["squadVersions"] = Without(a, TooMany(a, S))
  BY RecordedIs
<1> HIDE DEF a
<1>3. \A v, k : k[1] = s => k \notin TooMany(v, S)
  <2>1. \A v, x, k : k \in Excess(v, x) => k[1] = x
    BY DEF Excess
  <2> QED
    BY <2>1 DEF TooMany
<1>4. \A v, X, k : /\ k \in DOMAIN Without(v, X) <=> k \in DOMAIN v /\ k \notin X
                   /\ k \in DOMAIN Without(v, X) => Without(v, X)[k] = v[k]
  BY DEF Without
<1>5. SameVersions(Without(a, TooMany(a, S)), g.squadVersions, s)
  BY <1>1, <1>3, <1>4 DEF SameVersions
<1> QED
  BY <1>2, <1>5

\* A graph whose tables are maps; it is known by them.
Maps(g) == IsGraph(g) /\ \A t \in Tables : IsMap(g[t])

\* Graphs with the same tables are the same.
LEMMA SameGraphs ==
  ASSUME NEW g, IsGraph(g), NEW h, IsGraph(h), \A t \in Tables : g[t] = h[t]
  PROVE  g = h
  BY GraphFun

\* Recording squads writes the table of versions only.
LEMMA RecordedMaps ==
  ASSUME NEW g, Maps(g), NEW S
  PROVE  Maps(Recorded(g, S)) /\ \A t \in Tables : t # "squadVersions" => Recorded(g, S)[t] = g[t]
<1>1. /\ IsGraph(Recorded(g, S))
      /\ Recorded(g, S)["squadVersions"] = Without(AllVersions(g, S), TooMany(AllVersions(g, S), S))
      /\ \A t \in Tables : t # "squadVersions" => Recorded(g, S)[t] = g[t]
  BY RecordedIs DEF Maps
<1>2. IsMap(Recorded(g, S)["squadVersions"])
  BY <1>1, WithoutRows
<1> QED
  BY <1>1, <1>2 DEF Maps

\* A graph is known by its tables and by the versions of each squad.
LEMMA SameRecorded ==
  ASSUME NEW g, Maps(g), NEW h, Maps(h), \A t \in Tables : t # "squadVersions" => g[t] = h[t],
         \A s : SameVersions(g["squadVersions"], h["squadVersions"], s)
  PROVE  g = h
<1>1. "squadVersions" \in Tables
  BY DEF Tables
<1>2. g["squadVersions"] = h["squadVersions"]
  BY <1>1, EqualVersions DEF Maps
<1> QED
  BY <1>2, SameGraphs DEF Maps

\* Laying and taking out rows yields maps.
LEMMA LaidMaps == \A v, w : IsMap(Laid(v, w)) /\ IsMap(Without(v, w))
  BY DEF IsMap, Laid, Without

(***************************************************************************)
(* What a change, and what a list of changes leads to.                     *)
(***************************************************************************)
Does(g, c, h) ==
  \/ c.do = "put" /\ h = [g EXCEPT ![c.table] = Laid(c.rows, @)]
  \/ c.do = "delete" /\ h = [g EXCEPT ![c.table] = Without(@, c.keys)]
  \/ c.do = "record" /\ h = Recorded(g, c.squads)

Passes(g, cs, h, f) ==
  /\ f[0] = g /\ f[Len(cs)] = h
  /\ \A i \in 1..Len(cs) : Does(f[i - 1], cs[i], f[i])
Leads(g, cs, h) == \E f : Passes(g, cs, h, f)

\* An empty list leads nowhere.
LEMMA LeadsNowhere ==
  ASSUME NEW g, NEW h
  PROVE  Leads(g, <<>>, h) <=> g = h
<1>1. Len(<<>>) = 0
  OBVIOUS
<1> DEFINE none == <<>>
           f == [i \in {0} |-> g]
<1>2. f[0] = g
  OBVIOUS
<1> HIDE DEF none, f
<1>3. Len(none) = 0
  BY <1>1 DEF none
<1>4. g = h => Passes(g, none, h, f)
  BY <1>2, <1>3 DEF Passes
<1>5. Leads(g, none, h) => g = h
  BY <1>3 DEF Leads, Passes
<1> QED
  BY <1>4, <1>5 DEF Leads, none

\* One change leads to its result.
LEMMA LeadsOnce ==
  ASSUME NEW g, NEW h, NEW c \in Change, Does(g, c, h)
  PROVE  Leads(g, <<c>>, h)
<1> DEFINE cs == <<c>>
           f == [i \in {0, 1} |-> IF i = 0 THEN g ELSE h]
<1>1. Len(cs) = 1 /\ cs[1] = c
  OBVIOUS
<1>2. f[0] = g /\ f[1] = h
  OBVIOUS
<1> HIDE DEF cs, f
<1>3. Passes(g, cs, h, f)
  BY <1>1, <1>2 DEF Passes
<1> QED
  BY <1>3 DEF Leads, cs

\* A list, then another one.
LEMMA LeadsOn ==
  ASSUME NEW p \in Seq(Change), NEW r \in Seq(Change), NEW g, NEW h, NEW k, Leads(g, p, h), Leads(h, r, k)
  PROVE  Leads(g, p \o r, k)
<1> DEFINE m == Len(p)
           n == Len(r)
           cs == p \o r
<1>1. PICK a : Passes(g, p, h, a)
  BY DEF Leads
<1>2. PICK b : Passes(h, r, k, b)
  BY DEF Leads
<1> DEFINE f == [i \in 0..(m + n) |-> IF i <= m THEN a[i] ELSE b[i - m]]
<1>3. /\ m \in Nat /\ n \in Nat /\ Len(cs) = m + n
      /\ \A i \in 1..m : cs[i] = p[i]
      /\ \A i \in 1..n : cs[m + i] = r[i]
  BY Appended
<1>4. /\ a[0] = g /\ a[m] = h /\ \A i \in 1..m : Does(a[i - 1], p[i], a[i])
      /\ b[0] = h /\ b[n] = k /\ \A i \in 1..n : Does(b[i - 1], r[i], b[i])
  BY <1>1, <1>2 DEF Passes
<1> HIDE DEF m, n, cs
<1>5. /\ \A i \in 0..m : f[i] = a[i]
      /\ \A i \in 0..n : f[m + i] = b[i]
  <2>1. \A i \in 0..m : f[i] = a[i]
    BY <1>3
  <2>2. ASSUME NEW i \in 0..n PROVE f[m + i] = b[i]
    <3>1. CASE i = 0
      BY <1>3, <1>4, <3>1
    <3>2. CASE i # 0
      BY <1>3, <3>2
    <3> QED
      BY <3>1, <3>2
  <2> QED
    BY <2>1, <2>2
<1> HIDE DEF f
<1>6. f[0] = g /\ f[Len(cs)] = k
  <2>1. 0 \in 0..m /\ n \in 0..n
    BY <1>3
  <2> QED
    BY <1>3, <1>4, <1>5, <2>1
<1>7. ASSUME NEW i \in 1..Len(cs) PROVE Does(f[i - 1], cs[i], f[i])
  <2>1. CASE i \in 1..m
    <3>1. i \in 0..m /\ i - 1 \in 0..m
      BY <1>3, <2>1
    <3> QED
      BY <1>3, <1>4, <1>5, <2>1, <3>1
  <2>2. CASE i \notin 1..m
    <3>1. PICK j \in 1..n : i = m + j
      BY <1>3, <2>2
    <3>2. j \in 0..n /\ j - 1 \in 0..n /\ i - 1 = m + (j - 1)
      BY <1>3, <3>1
    <3>3. f[i] = b[j] /\ f[i - 1] = b[j - 1] /\ cs[i] = r[j]
      BY <1>3, <1>5, <3>1, <3>2
    <3> QED
      BY <1>4, <3>3
  <2> QED
    BY <2>1, <2>2
<1>8. Passes(g, cs, k, f)
  BY <1>6, <1>7 DEF Passes
<1> QED
  BY <1>8 DEF Leads, cs

\* A list leads through the result of its first change.
LEMMA LeadsFirst ==
  ASSUME NEW cs \in Seq(Change), cs # <<>>, NEW g, NEW h, Leads(g, cs, h)
  PROVE  \E k : Does(g, cs[1], k) /\ Leads(k, Tail(cs), h)
<1> DEFINE n == Len(cs)
           r == Tail(cs)
<1>1. PICK a : Passes(g, cs, h, a)
  BY DEF Leads
<1>2. n \in Nat \ {0} /\ Len(r) = n - 1 /\ \A i \in 1..(n - 1) : r[i] = cs[i + 1]
  OBVIOUS
<1>3. a[0] = g /\ a[n] = h /\ \A i \in 1..n : Does(a[i - 1], cs[i], a[i])
  BY <1>1 DEF Passes
<1> DEFINE f == [i \in 0..(n - 1) |-> a[i + 1]]
<1> HIDE DEF n, r
<1>4. \A i \in 0..(n - 1) : f[i] = a[i + 1]
  OBVIOUS
<1> HIDE DEF f
<1>5. Does(g, cs[1], a[1])
  BY <1>2, <1>3
<1>6. f[0] = a[1] /\ f[Len(r)] = h
  BY <1>2, <1>3, <1>4
<1>7. ASSUME NEW i \in 1..Len(r) PROVE Does(f[i - 1], r[i], f[i])
  <2>1. i \in 0..(n - 1) /\ i - 1 \in 0..(n - 1) /\ i + 1 \in 1..n /\ (i - 1) + 1 = i /\ (i + 1) - 1 = i /\ i \in 1..(n - 1)
    BY <1>2
  <2>2. f[i - 1] = a[i] /\ f[i] = a[i + 1] /\ r[i] = cs[i + 1]
    BY <1>2, <1>4, <2>1
  <2>3. Does(a[(i + 1) - 1], cs[i + 1], a[i + 1])
    BY <1>3, <2>1
  <2> QED
    BY <2>1, <2>2, <2>3
<1>8. Passes(a[1], r, h, f)
  BY <1>6, <1>7 DEF Passes
<1> QED
  BY <1>5, <1>8 DEF Leads, r

(***************************************************************************)
(* What the changes of a plan lead to, one by one.                         *)
(***************************************************************************)
\* Graph h is g with table t replaced by v.
Rewritten(g, t, v, h) == Maps(h) /\ h[t] = v /\ \A u \in Tables : u # t => h[u] = g[u]

\* There is one such graph,
LEMMA RewrittenOnce ==
  ASSUME NEW g, Maps(g), NEW t \in Tables, NEW v, NEW h, NEW k, Rewritten(g, t, v, h), Rewritten(g, t, v, k)
  PROVE  h = k
<1>1. \A u \in Tables : h[u] = k[u]
  BY DEF Rewritten
<1> QED
  BY <1>1, SameGraphs DEF Rewritten, Maps

\* which is the update of the table.
LEMMA RewriteIs ==
  ASSUME NEW g, Maps(g), NEW t \in Tables, NEW v, IsMap(v), NEW h, h = [g EXCEPT ![t] = v]
  PROVE  Rewritten(g, t, v, h)
<1>1. IsGraph([g EXCEPT ![t] = v])
  BY GraphUpdate DEF Maps
<1>2. h[t] = v /\ \A u \in Tables : u # t => h[u] = g[u]
  BY WrittenGraph DEF Maps, Written
<1> QED
  BY <1>1, <1>2 DEF Maps, Rewritten

\* Laying nothing over a table, or taking nothing out of it.
LEMMA LaidNothing ==
  ASSUME NEW v, IsMap(v)
  PROVE  Laid(<<>>, v) = v /\ Without(v, {}) = v
<1>1. DOMAIN <<>> = {}
  OBVIOUS
<1>2. Laid(<<>>, v) = v
  BY <1>1 DEF Laid, IsMap
<1>3. Without(v, {}) = v
  BY DEF Without, IsMap
<1> QED
  BY <1>2, <1>3

\* A change that rewrites one table.
LEMMA LeadsPut ==
  ASSUME NEW g, Maps(g), NEW t \in Tables \ {"squadVersions"}, NEW rows, IsTable(rows, Schema[t]),
         NEW h, Rewritten(g, t, Laid(rows, g[t]), h)
  PROVE  Leads(g, Put(t, rows), h) /\ Put(t, rows) \in Seq(Change)
<1> DEFINE c == [do |-> "put", table |-> t, rows |-> rows]
           k == [g EXCEPT ![t] = Laid(rows, @)]
<1>1. c \in Change /\ c.do = "put" /\ c.table = t /\ c.rows = rows
  BY PutIsChange
<1>2. Put(t, rows) = IF rows = <<>> THEN <<>> ELSE <<c>>
  BY DEF Put
<1>3. k = [g EXCEPT ![t] = Laid(rows, g[t])] /\ IsMap(Laid(rows, g[t]))
  BY LaidMaps
<1> HIDE DEF c
<1>4. Does(g, c, k)
  BY <1>1 DEF Does
<1> HIDE DEF k
<1>5. Rewritten(g, t, Laid(rows, g[t]), k)
  BY <1>3, RewriteIs
<1>6. h = k
  BY <1>5, RewrittenOnce
<1>7. Leads(g, <<c>>, h) /\ <<c>> \in Seq(Change)
  BY <1>1, <1>4, <1>6, LeadsOnce, ShortLists
<1>8. CASE rows = <<>>
  <2>1. IsMap(g[t])
    BY DEF Maps
  <2>2. Laid(rows, g[t]) = g[t]
    BY <1>8, <2>1, LaidNothing
  <2>3. \A u \in Tables : h[u] = g[u]
    BY <2>2 DEF Rewritten
  <2>4. g = h
    BY <2>3, SameGraphs DEF Rewritten, Maps
  <2> QED
    BY <1>2, <1>8, <2>4, LeadsNowhere, ShortLists
<1>9. CASE rows # <<>>
  BY <1>2, <1>7, <1>9
<1> QED
  BY <1>8, <1>9

\* Deleting keys, also when there are none to delete.
LEMMA LeadsDelete ==
  ASSUME NEW g, Maps(g), NEW t \in Tables, NEW keys \in SUBSET Keys,
         NEW h, Rewritten(g, t, Without(g[t], keys), h)
  PROVE  Leads(g, Delete(t, keys), h) /\ Delete(t, keys) \in Seq(Change)
<1> DEFINE c == [do |-> "delete", table |-> t, keys |-> keys]
           k == [g EXCEPT ![t] = Without(@, keys)]
<1>1. c \in Change /\ c.do = "delete" /\ c.table = t /\ c.keys = keys
  BY OtherChanges
<1>2. Delete(t, keys) = IF keys = {} THEN <<>> ELSE <<c>>
  BY DEF Delete
<1>3. k = [g EXCEPT ![t] = Without(g[t], keys)] /\ IsMap(Without(g[t], keys))
  BY LaidMaps
<1> HIDE DEF c
<1>4. Does(g, c, k)
  BY <1>1 DEF Does
<1> HIDE DEF k
<1>5. Rewritten(g, t, Without(g[t], keys), k)
  BY <1>3, RewriteIs
<1>6. h = k
  BY <1>5, RewrittenOnce
<1>7. Leads(g, <<c>>, h) /\ <<c>> \in Seq(Change)
  BY <1>1, <1>4, <1>6, LeadsOnce, ShortLists
<1>8. CASE keys = {}
  <2>1. IsMap(g[t])
    BY DEF Maps
  <2>2. Without(g[t], keys) = g[t]
    BY <1>8, <2>1, LaidNothing
  <2>3. \A u \in Tables : h[u] = g[u]
    BY <2>2 DEF Rewritten
  <2>4. g = h
    BY <2>3, SameGraphs DEF Rewritten, Maps
  <2> QED
    BY <1>2, <1>8, <2>4, LeadsNowhere, ShortLists
<1>9. CASE keys # {}
  BY <1>2, <1>7, <1>9
<1> QED
  BY <1>8, <1>9

\* Recording squads, also when there are none.
LEMMA LeadsRecord ==
  ASSUME NEW g, Maps(g), NEW S \in SUBSET Squads
  PROVE  Leads(g, Record(S), Recorded(g, S)) /\ Record(S) \in Seq(Change)
<1> DEFINE c == [do |-> "record", squads |-> S]
           k == Recorded(g, S)
<1>1. c \in Change /\ c.do = "record" /\ c.squads = S
  BY OtherChanges
<1>2. Record(S) = IF S = {} THEN <<>> ELSE <<c>>
  BY DEF Record
<1> HIDE DEF c
<1>3. Does(g, c, k)
  BY <1>1 DEF Does
<1>4. Leads(g, <<c>>, k) /\ <<c>> \in Seq(Change)
  BY <1>1, <1>3, LeadsOnce, ShortLists
<1>5. CASE S = {}
  <2>1. Maps(k) /\ \A t \in Tables : t # "squadVersions" => g[t] = k[t]
    BY RecordedMaps
  <2>2. ASSUME NEW s PROVE SameVersions(g["squadVersions"], k["squadVersions"], s)
    <3>1. SameVersions(k["squadVersions"], g["squadVersions"], s)
      BY <1>5, NotRecorded DEF Maps
    <3> HIDE DEF k
    <3> QED
      BY <3>1 DEF SameVersions
  <2> HIDE DEF k
  <2>3. g = k
    BY <2>1, <2>2, SameRecorded
  <2> QED
    BY <1>2, <1>5, <2>3, LeadsNowhere, ShortLists DEF k
<1>6. CASE S # {}
  BY <1>2, <1>4, <1>6
<1> QED
  BY <1>5, <1>6

\* Holding the same versions of a squad is symmetric and transitive.
LEMMA SameVersionsOn ==
  /\ \A v, w, s : SameVersions(v, w, s) => SameVersions(w, v, s)
  /\ \A u, v, w, s : SameVersions(u, v, s) /\ SameVersions(v, w, s) => SameVersions(u, w, s)
  BY DEF SameVersions

\* A snapshot is taken of the squad and the agents only.
LEMMA SnapshotAlike ==
  ASSUME NEW g, NEW h, g["squads"] = h["squads"], g["agents"] = h["agents"], NEW s
  PROVE  Snapshot(g, s) = Snapshot(h, s)
  BY DEF Snapshot

\* Squads may be recorded one after the other.
LEMMA RecordedApart ==
  ASSUME NEW g, Maps(g), NEW A, NEW B, A \intersect B = {}
  PROVE  Recorded(Recorded(g, A), B) = Recorded(g, A \union B)
<1> DEFINE h == Recorded(g, A)
           k == Recorded(h, B)
           m == Recorded(g, A \union B)
           t == "squadVersions"
<1>1. Maps(h) /\ \A u \in Tables : u # t => h[u] = g[u]
  BY RecordedMaps
<1>2. Maps(m) /\ \A u \in Tables : u # t => m[u] = g[u]
  BY RecordedMaps
<1>3. Maps(k) /\ \A u \in Tables : u # t => k[u] = h[u]
  <2> HIDE DEF h
  <2> QED
    BY <1>1, RecordedMaps
<1>4. \A s : Snapshot(h, s) = Snapshot(g, s)
  <2>1. h["squads"] = g["squads"] /\ h["agents"] = g["agents"]
    BY <1>1 DEF Tables
  <2> HIDE DEF h
  <2> QED
    BY <2>1, SnapshotAlike
<1>5. IsGraph(g) /\ IsGraph(h)
  BY <1>1 DEF Maps
<1>6. ASSUME NEW s PROVE SameVersions(k[t], m[t], s)
  <2>1. CASE s \in B
    <3>1. SameVersions(h[t], g[t], s)
      BY <2>1, <1>5, NotRecorded
    <3> HIDE DEF h
    <3> QED
      BY <1>4, <1>5, <2>1, <3>1, RecordedAlike
  <2>2. CASE s \notin B
    <3>1. SameVersions(k[t], h[t], s)
      <4> HIDE DEF h
      <4> QED
        BY <1>5, <2>2, NotRecorded
    <3>2. SameVersions(g[t], g[t], s)
      BY DEF SameVersions
    <3>3. s \in A <=> s \in A \union B
      BY <2>2
    <3>4. SameVersions(h[t], m[t], s)
      BY <1>5, <3>2, <3>3, RecordedAlike
    <3> QED
      BY <3>1, <3>4, SameVersionsOn
  <2> QED
    BY <2>1, <2>2
<1>7. \A u \in Tables : u # t => k[u] = m[u]
  BY <1>1, <1>2, <1>3
<1> HIDE DEF k, m
<1>8. k = m
  BY <1>2, <1>3, <1>6, <1>7, SameRecorded
<1> QED
  BY <1>8 DEF k, m

\* A table may be written before or after the versions are recorded that do not show it.
LEMMA RecordedBefore ==
  ASSUME NEW g, Maps(g), NEW t \in Tables \ {"squadVersions"}, NEW v, NEW h, Rewritten(g, t, v, h),
         NEW A, \A s \in A : Snapshot(h, s) = Snapshot(g, s)
  PROVE  Rewritten(Recorded(g, A), t, v, Recorded(h, A))
<1> DEFINE m == Recorded(g, A)
           k == Recorded(h, A)
           w == "squadVersions"
<1>1. Maps(h) /\ h[t] = v /\ (\A u \in Tables : u # t => h[u] = g[u])
  BY DEF Rewritten
<1>2. Maps(m) /\ \A u \in Tables : u # w => m[u] = g[u]
  BY RecordedMaps
<1>3. Maps(k) /\ \A u \in Tables : u # w => k[u] = h[u]
  BY <1>1, RecordedMaps
<1>4. w \in Tables /\ t # w /\ t \in Tables
  BY DEF Tables
<1>5. h[w] = g[w]
  BY <1>1, <1>4
<1>6. ASSUME NEW s PROVE SameVersions(k[w], m[w], s)
  <2>1. SameVersions(h[w], g[w], s)
    BY <1>5 DEF SameVersions
  <2>2. IsGraph(g) /\ IsGraph(h)
    BY <1>1 DEF Maps
  <2> QED
    BY <2>1, <2>2, RecordedAlike
<1> HIDE DEF m, k
<1>7. k[w] = m[w]
  <2>1. IsMap(k[w]) /\ IsMap(m[w])
    BY <1>2, <1>3, <1>4 DEF Maps
  <2> QED
    BY <1>6, <2>1, EqualVersions
<1>8. \A u \in Tables : u # t => k[u] = m[u]
  BY <1>1, <1>2, <1>3, <1>7
<1>9. k[t] = v
  BY <1>1, <1>3, <1>4
<1>10. Rewritten(m, t, v, k)
  BY <1>3, <1>8, <1>9 DEF Rewritten
<1> QED
  BY <1>10 DEF m, k

(***************************************************************************)
(* A storage call leaves what its list of changes leads to.                *)
(***************************************************************************)
\* The rows of a table may be laid one after the other, and dropped so.
LEMMA LaidInTurn ==
  ASSUME NEW rows, NEW k \in DOMAIN rows, NEW u
  PROVE  Laid(Without(rows, {k}), Laid(Row(k, rows[k]), u)) = Laid(rows, u)
<1> DEFINE one == Laid(Row(k, rows[k]), u)
           rest == Without(rows, {k})
           a == Laid(rest, one)
           b == Laid(rows, u)
<1>1. DOMAIN one = DOMAIN u \union {k} /\ one[k] = rows[k] /\ \A x \in DOMAIN u : x # k => one[x] = u[x]
  <2>1. DOMAIN one = DOMAIN u \union {k}
    BY LaidDomain
  <2>2. one[k] = rows[k] /\ \A x \in DOMAIN u : x # k => one[x] = u[x]
    BY LaidRow
  <2> QED
    BY <2>1, <2>2
<1>2. DOMAIN rest = DOMAIN rows \ {k} /\ \A x \in DOMAIN rest : rest[x] = rows[x]
  BY DEF Without
<1> HIDE DEF one, rest
<1>3. /\ DOMAIN a = DOMAIN rest \union DOMAIN one
      /\ \A x \in DOMAIN a : a[x] = IF x \in DOMAIN rest THEN rest[x] ELSE one[x]
  BY DEF Laid
<1>4. /\ DOMAIN b = DOMAIN rows \union DOMAIN u
      /\ \A x \in DOMAIN b : b[x] = IF x \in DOMAIN rows THEN rows[x] ELSE u[x]
  BY DEF Laid
<1>5. IsMap(a) /\ IsMap(b)
  BY LaidMaps
<1> HIDE DEF a, b
<1>6. DOMAIN a = DOMAIN b
  BY <1>1, <1>2, <1>3, <1>4
<1>7. ASSUME NEW x \in DOMAIN a PROVE a[x] = b[x]
  <2>1. CASE x = k
    BY <1>1, <1>2, <1>3, <1>4, <1>6, <2>1
  <2>2. CASE x # k
    BY <1>1, <1>2, <1>3, <1>4, <1>6, <2>2
  <2> QED
    BY <2>1, <2>2
<1>8. a = b
  BY <1>5, <1>6, <1>7 DEF IsMap
<1> QED
  BY <1>8 DEF a, b, one, rest

\* Rows may be taken out one after the other.
LEMMA DroppedInTurn ==
  ASSUME NEW keys, NEW k \in keys, NEW u
  PROVE  Without(Without(u, {k}), keys \ {k}) = Without(u, keys)
<1> DEFINE one == Without(u, {k})
           a == Without(one, keys \ {k})
           b == Without(u, keys)
<1>1. DOMAIN one = DOMAIN u \ {k} /\ \A x \in DOMAIN one : one[x] = u[x]
  BY DEF Without
<1> HIDE DEF one
<1>2. DOMAIN a = DOMAIN one \ (keys \ {k}) /\ \A x \in DOMAIN a : a[x] = one[x]
  BY DEF Without
<1>3. DOMAIN b = DOMAIN u \ keys /\ \A x \in DOMAIN b : b[x] = u[x]
  BY DEF Without
<1>4. IsMap(a) /\ IsMap(b)
  BY LaidMaps
<1> HIDE DEF a, b
<1>5. DOMAIN a = DOMAIN b
  BY <1>1, <1>2, <1>3
<1>6. a = b
  BY <1>1, <1>2, <1>3, <1>4, <1>5 DEF IsMap
<1> QED
  BY <1>6 DEF a, b, one

\* Rewriting a table twice.
LEMMA RewrittenTwice ==
  ASSUME NEW g, NEW t, NEW v, NEW h, Rewritten(g, t, v, h), NEW w, NEW k, Rewritten(g, t, w, k)
  PROVE  Rewritten(h, t, w, k)
  BY DEF Rewritten

\* The tables of a graph of the right types are maps.
LEMMA GoodMaps ==
  ASSUME NEW g, Good(g)
  PROVE  Maps(g)
<1>1. ASSUME NEW t \in Tables PROVE IsMap(g[t])
  <2>1. IsTable(g[t], Schema[t])
    BY TypedTables DEF Good
  <2> QED
    BY <2>1 DEF IsTable, IsMap
<1> QED
  BY <1>1 DEF Good, Maps

\* A call of a put leaves what the rest of the put leads on from.
LEMMA PutLeads ==
  ASSUME Good(db), NEW c \in Change, c.do = "put", NEW o \in PutOne(c), NEW h, Does(db, c, h)
  PROVE  Leads(o.db, o.rest, h) /\ o.rest \in Seq(Change)
<1> DEFINE t == c.table
<1>1. PICK k \in DOMAIN c.rows :
        o = [db |-> [db EXCEPT ![t] = Laid(Row(k, c.rows[k]), @)], rest |-> Put(t, Without(c.rows, {k}))]
  BY DEF PutOne
<1> DEFINE rest == Without(c.rows, {k})
           one == Laid(Row(k, c.rows[k]), db[t])
           all == Laid(c.rows, db[t])
<1>2. t \in Tables \ {"squadVersions"} /\ IsTable(c.rows, Schema[t])
  BY ChangeKinds
<1>3. IsTable(rest, Schema[t])
  BY <1>2, WithoutIsTable
<1>4. o.db = [db EXCEPT ![t] = one] /\ o.rest = Put(t, rest)
  BY <1>1
<1>5. h = [db EXCEPT ![t] = all]
  BY DEF Does
<1>6. Laid(rest, one) = all
  BY LaidInTurn
<1>7. IsMap(one) /\ IsMap(all)
  BY LaidMaps
<1>8. Maps(db)
  BY GoodMaps
<1>9. t \in Tables
  BY <1>2
<1> HIDE DEF t, rest, one, all
<1>10. Rewritten(db, t, one, o.db)
  BY <1>4, <1>7, <1>8, <1>9, RewriteIs
<1>11. Rewritten(db, t, all, h)
  BY <1>5, <1>7, <1>8, <1>9, RewriteIs
<1>12. Rewritten(o.db, t, all, h)
  BY <1>10, <1>11, RewrittenTwice
<1>13. Maps(o.db) /\ o.db[t] = one
  BY <1>10 DEF Rewritten
<1>14. Rewritten(o.db, t, Laid(rest, o.db[t]), h)
  BY <1>6, <1>12, <1>13
<1>15. Leads(o.db, Put(t, rest), h) /\ Put(t, rest) \in Seq(Change)
  BY <1>2, <1>3, <1>13, <1>14, LeadsPut
<1> QED
  BY <1>4, <1>15

\* So does a call of a deletion,
LEMMA DeleteLeads ==
  ASSUME Good(db), NEW c \in Change, c.do = "delete", NEW o \in DeleteOne(c), NEW h, Does(db, c, h)
  PROVE  Leads(o.db, o.rest, h) /\ o.rest \in Seq(Change)
<1> DEFINE t == c.table
<1>1. PICK k \in c.keys :
        o = [db |-> [db EXCEPT ![t] = Without(@, {k})], rest |-> Delete(t, c.keys \ {k})]
  BY DEF DeleteOne
<1> DEFINE rest == c.keys \ {k}
           one == Without(db[t], {k})
           all == Without(db[t], c.keys)
<1>2. t \in Tables /\ c.keys \subseteq Keys
  BY ChangeKinds
<1>3. rest \in SUBSET Keys
  BY <1>2
<1>4. o.db = [db EXCEPT ![t] = one] /\ o.rest = Delete(t, rest)
  BY <1>1
<1>5. h = [db EXCEPT ![t] = all]
  BY DEF Does
<1>6. Without(one, rest) = all
  BY DroppedInTurn
<1>7. IsMap(one) /\ IsMap(all)
  BY LaidMaps
<1>8. Maps(db)
  BY GoodMaps
<1> HIDE DEF t, rest, one, all
<1>10. Rewritten(db, t, one, o.db)
  BY <1>2, <1>4, <1>7, <1>8, RewriteIs
<1>11. Rewritten(db, t, all, h)
  BY <1>2, <1>5, <1>7, <1>8, RewriteIs
<1>12. Rewritten(o.db, t, all, h)
  BY <1>10, <1>11, RewrittenTwice
<1>13. Maps(o.db) /\ o.db[t] = one
  BY <1>10 DEF Rewritten
<1>14. Rewritten(o.db, t, Without(o.db[t], rest), h)
  BY <1>6, <1>12, <1>13
<1>15. Leads(o.db, Delete(t, rest), h) /\ Delete(t, rest) \in Seq(Change)
  BY <1>2, <1>3, <1>13, <1>14, LeadsDelete
<1> QED
  BY <1>4, <1>15

\* The new version of one squad.
LEMMA OneRecorded ==
  ASSUME NEW g, Maps(g), NEW q
  PROVE  LET new == Laid(Row(<<q, Latest(g, q) + 1>>, Snapshot(g, q)), g["squadVersions"])
         IN  Rewritten(g, "squadVersions", Without(new, Excess(new, q)), Recorded(g, {q}))
<1> DEFINE key == <<q, Latest(g, q) + 1>>
           new == Laid(Row(key, Snapshot(g, q)), g["squadVersions"])
           all == AllVersions(g, {q})
<1>1. Row(key, Snapshot(g, q)) = [k \in {<<s, Latest(g, s) + 1>> : s \in {q}} |-> Snapshot(g, k[1])]
  <2>1. {<<s, Latest(g, s) + 1>> : s \in {q}} = {key}
    OBVIOUS
  <2>2. \A k \in {key} : k[1] = q
    OBVIOUS
  <2> HIDE DEF key
  <2>3. Row(key, Snapshot(g, q)) = [k \in {key} |-> Snapshot(g, k[1])]
    BY <2>2 DEF Row
  <2> QED
    BY <2>1, <2>3
<1>2. all = new
  BY <1>1 DEF AllVersions
<1>3. TooMany(all, {q}) = Excess(all, q)
  BY DEF TooMany
<1>4. Recorded(g, {q})["squadVersions"] = Without(all, TooMany(all, {q}))
  BY RecordedIs DEF Maps
<1>5. Maps(Recorded(g, {q})) /\ \A t \in Tables : t # "squadVersions" => Recorded(g, {q})[t] = g[t]
  BY RecordedMaps
<1> HIDE DEF all, new
<1>6. Rewritten(g, "squadVersions", Without(new, Excess(new, q)), Recorded(g, {q}))
  BY <1>2, <1>3, <1>4, <1>5 DEF Rewritten
<1> QED
  BY <1>6 DEF new

\* and a call of a recording, with the versions that it pushes out.
LEMMA RecordLeads ==
  ASSUME Good(db), NEW c \in Change, c.do = "record", c.squads \subseteq DOMAIN db.squads, NEW o \in RecordOne(c),
         Good(o.db), NEW h, Does(db, c, h)
  PROVE  Leads(o.db, o.rest, h) /\ o.rest \in Seq(Change)
<1> DEFINE t == "squadVersions"
<1>1. PICK q \in c.squads :
        o = LET versions == Laid(Row(<<q, NextVersion(q)>>, Snapshot(db, q)), db.squadVersions)
            IN [db |-> [db EXCEPT !.squadVersions = versions],
                rest |-> Delete("squadVersions", Excess(versions, q)) \o Record(c.squads \ {q})]
  BY DEF RecordOne
<1> DEFINE new == Laid(Row(<<q, Latest(db, q) + 1>>, Snapshot(db, q)), db["squadVersions"])
           gone == Excess(new, q)
           others == c.squads \ {q}
           one == Recorded(db, {q})
<1>2. o.db = [db EXCEPT ![t] = new] /\ o.rest = Delete(t, gone) \o Record(others)
  BY <1>1 DEF NextVersion
<1>3. h = Recorded(db, c.squads)
  BY DEF Does
<1>4. c.squads \subseteq Squads
  BY ChangeKinds
<1>5. Maps(db) /\ t \in Tables
  BY GoodMaps DEF Tables
<1>6. Rewritten(db, t, Without(new, gone), one)
  BY <1>5, OneRecorded
<1>7. Recorded(one, others) = h
  <2>1. Recorded(Recorded(db, {q}), others) = Recorded(db, {q} \union others)
    BY <1>5, RecordedApart
  <2>2. {q} \union others = c.squads
    OBVIOUS
  <2> QED
    BY <1>3, <2>1, <2>2
<1>8. others \in SUBSET Squads
  BY <1>4
<1>9. gone \subseteq DOMAIN new
  BY DEF Excess
<1>10. IsMap(new)
  BY LaidMaps
<1> HIDE DEF new, gone, others, one
<1>11. Rewritten(db, t, new, o.db)
  BY <1>2, <1>5, <1>10, RewriteIs
<1>12. Maps(o.db) /\ o.db[t] = new
  BY <1>11 DEF Rewritten
<1>13. gone \in SUBSET Keys
  <2>1. gone \subseteq DOMAIN o.db[t]
    BY <1>9, <1>12
  <2> QED
    BY <1>5, <2>1, ManyKeys DEF Good
<1>14. Rewritten(o.db, t, Without(o.db[t], gone), one)
  BY <1>6, <1>11, <1>12, RewrittenTwice
<1>15. Leads(o.db, Delete(t, gone), one) /\ Delete(t, gone) \in Seq(Change)
  BY <1>5, <1>12, <1>13, <1>14, LeadsDelete
<1>16. Maps(one)
  BY <1>6 DEF Rewritten
<1>17. Leads(one, Record(others), h) /\ Record(others) \in Seq(Change)
  BY <1>7, <1>8, <1>16, LeadsRecord
<1>18. Leads(o.db, Delete(t, gone) \o Record(others), h) /\ Delete(t, gone) \o Record(others) \in Seq(Change)
  <2>1. Leads(o.db, Delete(t, gone) \o Record(others), h)
    BY <1>15, <1>17, LeadsOn
  <2>2. Delete(t, gone) \o Record(others) \in Seq(Change)
    BY <1>15, <1>17, Appended
  <2> QED
    BY <2>1, <2>2
<1> QED
  BY <1>2, <1>18

\* A storage call leaves a graph and a list that lead where the list led before.
LEMMA CallLeads ==
  ASSUME Good(db), NEW cs \in Seq(Change), cs # <<>>, RecordsHeld(db, cs), ~Blocked(cs[1]),
         NEW o \in Outcomes(cs[1]), NEW h, Leads(db, cs, h)
  PROVE  Leads(o.db, o.rest \o Tail(cs), h)
<1>1. cs[1] \in Change /\ Tail(cs) \in Seq(Change)
  OBVIOUS
<1>2. PICK k : Does(db, cs[1], k) /\ Leads(k, Tail(cs), h)
  BY LeadsFirst
<1>3. Good(o.db)
  BY CallMoves
<1>4. Leads(o.db, o.rest, k) /\ o.rest \in Seq(Change)
  <2>1. CASE cs[1].do = "put"
    <3>1. o \in PutOne(cs[1])
      BY <2>1 DEF Outcomes
    <3> QED
      BY <1>1, <1>2, <2>1, <3>1, PutLeads
  <2>2. CASE cs[1].do = "delete"
    <3>1. o \in DeleteOne(cs[1])
      BY <2>2 DEF Outcomes
    <3> QED
      BY <1>1, <1>2, <2>2, <3>1, DeleteLeads
  <2>3. CASE cs[1].do = "record"
    <3>1. o \in RecordOne(cs[1])
      BY <2>3 DEF Outcomes
    <3>2. cs[1].squads \subseteq DOMAIN db.squads
      BY <2>3 DEF RecordsHeld, Holds
    <3> QED
      BY <1>1, <1>2, <1>3, <2>3, <3>1, <3>2, RecordLeads
  <2> QED
    BY <1>2, <2>1, <2>2, <2>3 DEF Does
<1> QED
  BY <1>1, <1>2, <1>4, LeadsOn

(***************************************************************************)
(* Squads put and recorded, one after the other.                           *)
(***************************************************************************)
\* The rows of table R under the keys of N.
Only(R, N) == [s \in N |-> R[s]]

\* Graph g with the squads of N put as R has them, and recorded.
Brought(g, R, N) == Recorded([g EXCEPT !["squads"] = Laid(Only(R, N), @)], N)

\* Squads put in one step.
LEMMA SquadsRewritten ==
  ASSUME NEW g, Maps(g), NEW R, NEW N
  PROVE  Rewritten(g, "squads", Laid(Only(R, N), g["squads"]), [g EXCEPT !["squads"] = Laid(Only(R, N), @)])
<1> DEFINE h == [g EXCEPT !["squads"] = Laid(Only(R, N), @)]
<1>1. h = [g EXCEPT !["squads"] = Laid(Only(R, N), g["squads"])]
  OBVIOUS
<1>2. "squads" \in Tables /\ IsMap(Laid(Only(R, N), g["squads"]))
  BY LaidMaps DEF Tables
<1> HIDE DEF h
<1>3. Rewritten(g, "squads", Laid(Only(R, N), g["squads"]), h)
  BY <1>1, <1>2, RewriteIs
<1> QED
  BY <1>3 DEF h

\* One more of them.
LEMMA OneMoreLaid ==
  ASSUME NEW R, NEW N, NEW s, s \notin N, NEW u
  PROVE  Laid(Row(s, R[s]), Laid(Only(R, N), u)) = Laid(Only(R, N \union {s}), u)
<1> DEFINE one == Laid(Only(R, N), u)
           a == Laid(Row(s, R[s]), one)
           b == Laid(Only(R, N \union {s}), u)
<1>1. DOMAIN one = N \union DOMAIN u /\ \A x \in DOMAIN one : one[x] = IF x \in N THEN R[x] ELSE u[x]
  BY DEF Laid, Only
<1> HIDE DEF one
<1>2. DOMAIN a = DOMAIN one \union {s} /\ a[s] = R[s] /\ \A x \in DOMAIN one : x # s => a[x] = one[x]
  <2>1. DOMAIN a = DOMAIN one \union {s}
    BY LaidDomain
  <2>2. a[s] = R[s] /\ \A x \in DOMAIN one : x # s => a[x] = one[x]
    BY LaidRow
  <2> QED
    BY <2>1, <2>2
<1>3. DOMAIN b = N \union {s} \union DOMAIN u /\ \A x \in DOMAIN b : b[x] = IF x \in N \union {s} THEN R[x] ELSE u[x]
  BY DEF Laid, Only
<1>4. IsMap(a) /\ IsMap(b)
  BY LaidMaps
<1> HIDE DEF a, b
<1>5. DOMAIN a = DOMAIN b
  BY <1>1, <1>2, <1>3
<1>6. ASSUME NEW x \in DOMAIN a PROVE a[x] = b[x]
  <2>1. CASE x = s
    BY <1>2, <1>3, <1>5, <2>1
  <2>2. CASE x # s
    <3>1. x \in DOMAIN one /\ a[x] = one[x] /\ b[x] = IF x \in N \union {s} THEN R[x] ELSE u[x]
      BY <1>2, <1>3, <1>5, <2>2
    <3> QED
      BY <1>1, <2>2, <3>1
  <2> QED
    BY <2>1, <2>2
<1>7. a = b
  BY <1>4, <1>5, <1>6 DEF IsMap
<1> QED
  BY <1>7 DEF a, b, one

\* Putting and recording one more squad than those brought in so far.
LEMMA OneMoreSquad ==
  ASSUME NEW g, Maps(g), NEW R, NEW N, NEW s \in Squads, s \notin N, R[s] \in SquadRecordSet
  PROVE  /\ Leads(Brought(g, R, N), PutAndRecord(s, R[s]), Brought(g, R, N \union {s}))
         /\ PutAndRecord(s, R[s]) \in Seq(Change)
<1> DEFINE r == R[s]
           w == [g EXCEPT !["squads"] = Laid(Only(R, N), @)]
           b == Recorded(w, N)
           w2 == [g EXCEPT !["squads"] = Laid(Only(R, N \union {s}), @)]
           m == Recorded(w2, N)
           v == Laid(Only(R, N), g["squads"])
           v2 == Laid(Only(R, N \union {s}), g["squads"])
<1>1. Rewritten(g, "squads", v, w) /\ Rewritten(g, "squads", v2, w2)
  BY SquadsRewritten
<1>2. Brought(g, R, N) = b /\ Brought(g, R, N \union {s}) = Recorded(w2, N \union {s})
  BY DEF Brought
<1>3. v2 = Laid(Row(s, r), v)
  <2>1. PICK u : u = g["squads"]
    OBVIOUS
  <2>2. Laid(Row(s, R[s]), Laid(Only(R, N), u)) = Laid(Only(R, N \union {s}), u)
    BY OneMoreLaid
  <2> QED
    BY <2>1, <2>2
<1>4. \A x \in N : x \in DOMAIN v /\ x \in DOMAIN v2 /\ v[x] = R[x] /\ v2[x] = R[x]
  BY DEF Laid, Only
<1>t. "squads" \in Tables /\ "agents" \in Tables /\ "squads" \in Tables \ {"squadVersions"}
  BY DEF Tables
<1> HIDE DEF v, v2, w, w2
<1>5. Rewritten(w, "squads", v2, w2)
  BY <1>1, RewrittenTwice
<1>6. Maps(w) /\ Maps(w2) /\ w["squads"] = v /\ w2["squads"] = v2 /\ w["agents"] = g["agents"] /\ w2["agents"] = g["agents"]
  BY <1>1, <1>t DEF Rewritten
<1>7. ASSUME NEW x \in N PROVE Snapshot(w2, x) = Snapshot(w, x)
  <2>1. w2["squads"][x] = w["squads"][x] /\ w2["agents"] = w["agents"]
    BY <1>4, <1>6
  <2> QED
    BY <2>1 DEF Snapshot
<1>8. Rewritten(b, "squads", v2, m)
  BY <1>5, <1>6, <1>7, <1>t, RecordedBefore
<1>9. Maps(b) /\ b["squads"] = v
  BY <1>6, <1>t, RecordedMaps
<1>10. Maps(m)
  BY <1>8 DEF Rewritten
<1>11. Recorded(w2, N \union {s}) = Recorded(m, {s})
  BY <1>6, RecordedApart
<1>12. IsTable(Row(s, r), Schema["squads"])
  <2>1. s \in Schema["squads"].keys /\ r \in Schema["squads"].rows
    BY DEF Schema
  <2> QED
    BY <2>1, RowIsTable
<1> HIDE DEF b, m, r
<1>13. Leads(b, Put("squads", Row(s, r)), m) /\ Put("squads", Row(s, r)) \in Seq(Change)
  <2>1. Rewritten(b, "squads", Laid(Row(s, r), b["squads"]), m)
    BY <1>3, <1>8, <1>9
  <2> QED
    BY <1>9, <1>12, <1>t, <2>1, LeadsPut
<1>14. Leads(m, Record({s}), Recorded(m, {s})) /\ Record({s}) \in Seq(Change)
  BY <1>10, LeadsRecord
<1>15. Leads(b, PutAndRecord(s, r), Recorded(m, {s})) /\ PutAndRecord(s, r) \in Seq(Change)
  <2>1. Leads(b, Put("squads", Row(s, r)) \o Record({s}), Recorded(m, {s}))
    BY <1>13, <1>14, LeadsOn
  <2>2. Put("squads", Row(s, r)) \o Record({s}) \in Seq(Change)
    BY <1>13, <1>14, Appended
  <2> QED
    BY <2>1, <2>2 DEF PutAndRecord
<1> QED
  BY <1>2, <1>11, <1>15 DEF r

\* A list of a set's elements holds each of them once.
LEMMA SetToSeqOnce ==
  ASSUME NEW S, IsFiniteSet(S)
  PROVE  \A i, j \in 1..Cardinality(S) : SetToSeq(S)[i] = SetToSeq(S)[j] => i = j
<1> DEFINE n == Cardinality(S)
           f == SetToSeq(S)
<1>1. n \in Nat /\ ExistsBijection(1..n, S)
  BY FS_CardinalityType
<1>2. PICK b : b \in Bijection(1..n, S)
  BY <1>1 DEF ExistsBijection
<1>3. b \in [1..n -> S] /\ IsInjective(b)
  BY <1>2 DEF Bijection, Injection, IsInjective
<1>4. f \in [1..n -> S] /\ IsInjective(f)
  BY <1>3 DEF SetToSeq
<1> HIDE DEF f
<1>5. \A i, j \in 1..n : f[i] = f[j] => i = j
  BY <1>4 DEF IsInjective
<1> QED
  BY <1>5 DEF f

\* Without squads nothing is brought in.
LEMMA BroughtNone ==
  ASSUME NEW g, Maps(g), NEW R
  PROVE  Brought(g, R, {}) = g
<1>1. Only(R, {}) = <<>>
  BY DEF Only
<1>2. Rewritten(g, "squads", Laid(Only(R, {}), g["squads"]), [g EXCEPT !["squads"] = Laid(Only(R, {}), @)])
  BY SquadsRewritten
<1> DEFINE w == [g EXCEPT !["squads"] = Laid(Only(R, {}), @)]
<1>3. IsMap(g["squads"]) /\ "squads" \in Tables
  BY DEF Maps, Tables
<1>4. Laid(Only(R, {}), g["squads"]) = g["squads"]
  BY <1>1, <1>3, LaidNothing
<1>5. Maps(w) /\ \A u \in Tables : w[u] = g[u]
  BY <1>2, <1>4 DEF Rewritten
<1>6. Brought(g, R, {}) = Recorded(w, {})
  BY DEF Brought
<1> HIDE DEF w
<1>7. w = g
  BY <1>5, SameGraphs DEF Maps
<1>8. Record({}) = <<>>
  BY DEF Record
<1>9. Leads(g, Record({}), Recorded(g, {}))
  BY LeadsRecord
<1> QED
  BY <1>6, <1>7, <1>8, <1>9, LeadsNowhere

\* A list of the n elements of a set; the lists of changes that put and record each.
Enumerates(names, n, K) ==
  /\ n \in Nat /\ names \in [1..n -> K]
  /\ \A i, j \in 1..n : names[i] = names[j] => i = j
  /\ \A s \in K : \E i \in 1..n : names[i] = s
PutsEach(F, n, names, R) ==
  DOMAIN F = 1..n /\ Len(F) = n /\ \A i \in 1..n : F[i] = PutAndRecord(names[i], R[names[i]])

\* All of them.
LEMMA SquadsBrought ==
  ASSUME NEW g, Maps(g), NEW K, K \subseteq Squads, NEW R, \A s \in K : R[s] \in SquadRecordSet,
         NEW n, n # 0, NEW names, Enumerates(names, n, K), NEW F, PutsEach(F, n, names, R)
  PROVE  Leads(g, FlattenSeq(F), Brought(g, R, K)) /\ FlattenSeq(F) \in Seq(Change)
<1>a. /\ n \in Nat \ {0} /\ names \in [1..n -> K] /\ (\A i, j \in 1..n : names[i] = names[j] => i = j)
      /\ \A s \in K : \E i \in 1..n : names[i] = s
  BY DEF Enumerates
<1>b. DOMAIN F = 1..n /\ Len(F) = n /\ \A i \in 1..n : F[i] = PutAndRecord(names[i], R[names[i]])
  BY DEF PutsEach
<1> DEFINE Until(i) == {names[j] : j \in 1..i}
           Right(i, p) == Leads(g, p, Brought(g, R, Until(i))) /\ p \in Seq(Change)
<1>1. PICK f : Flat(F, n, f) /\ FlattenSeq(F) = f[n]
  BY <1>a, <1>b, FlattenSeqIs
<1>2. \A x \in 1..n : f[x] = IF x = 1 THEN F[x] ELSE f[x - 1] \o F[x]
  BY <1>1 DEF Flat
<1>3. \A i \in 1..n : names[i] \notin Until(i - 1) /\ Until(i) = Until(i - 1) \union {names[i]}
  <2> SUFFICES ASSUME NEW i \in 1..n
               PROVE  names[i] \notin Until(i - 1) /\ Until(i) = Until(i - 1) \union {names[i]}
    OBVIOUS
  <2>1. 1..i = (1..(i - 1)) \union {i} /\ i \notin 1..(i - 1) /\ 1..(i - 1) \subseteq 1..n
    BY <1>a
  <2>2. names[i] \notin Until(i - 1)
    BY <1>a, <2>1
  <2>3. Until(i) = Until(i - 1) \union {names[i]}
    BY <1>a, <2>1
  <2> QED
    BY <2>2, <2>3
<1>4. Until(0) = {}
  OBVIOUS
<1>5. Brought(g, R, {}) = g
  BY BroughtNone
<1> HIDE DEF Until
<1>6. ASSUME NEW i \in 1..n PROVE /\ F[i] \in Seq(Change)
                                  /\ Leads(Brought(g, R, Until(i - 1)), F[i], Brought(g, R, Until(i)))
  <2>1. names[i] \in Squads /\ R[names[i]] \in SquadRecordSet /\ names[i] \notin Until(i - 1)
    BY <1>a, <1>3
  <2>2. /\ Leads(Brought(g, R, Until(i - 1)), PutAndRecord(names[i], R[names[i]]), Brought(g, R, Until(i - 1) \union {names[i]}))
        /\ PutAndRecord(names[i], R[names[i]]) \in Seq(Change)
    BY <2>1, OneMoreSquad
  <2> QED
    BY <1>b, <1>3, <2>2
<1> DEFINE bad == {x \in 1..n : ~Right(x, f[x])}
<1>7. bad = {}
  <2>1. SUFFICES ASSUME bad # {} PROVE FALSE
    OBVIOUS
  <2>2. bad \in SUBSET Nat
    BY <1>a
  <2> HIDE DEF bad
  <2>3. PICK x \in bad : \A y \in bad : x <= y
    BY <2>1, <2>2, Least
  <2>4. x \in 1..n /\ ~Right(x, f[x])
    BY DEF bad
  <2>5. CASE x = 1
    <3>1. f[x] = F[x] /\ x - 1 = 0
      BY <1>2, <2>4, <2>5
    <3>2. Leads(Brought(g, R, Until(x - 1)), F[x], Brought(g, R, Until(x))) /\ F[x] \in Seq(Change)
      BY <1>6, <2>4
    <3>3. Brought(g, R, Until(x - 1)) = g
      BY <1>4, <1>5, <3>1
    <3> QED
      BY <2>4, <3>1, <3>2, <3>3
  <2>6. CASE x # 1
    <3>1. x - 1 \in 1..n /\ x - 1 \notin bad
      BY <1>a, <2>3, <2>4, <2>6
    <3>2. Leads(g, f[x - 1], Brought(g, R, Until(x - 1))) /\ f[x - 1] \in Seq(Change)
      BY <3>1 DEF bad
    <3>3. F[x] \in Seq(Change) /\ Leads(Brought(g, R, Until(x - 1)), F[x], Brought(g, R, Until(x)))
      BY <1>6, <2>4
    <3>4. f[x] = f[x - 1] \o F[x]
      BY <1>2, <2>4, <2>6
    <3>5. Leads(g, f[x - 1] \o F[x], Brought(g, R, Until(x)))
      BY <3>2, <3>3, LeadsOn
    <3>6. f[x - 1] \o F[x] \in Seq(Change)
      BY <3>2, <3>3, Appended
    <3> QED
      BY <2>4, <3>4, <3>5, <3>6
  <2> QED
    BY <2>5, <2>6
<1>8. Right(n, f[n])
  <2>1. n \in 1..n /\ n \notin bad
    BY <1>a, <1>7
  <2> QED
    BY <2>1
<1>9. Leads(g, f[n], Brought(g, R, Until(n))) /\ f[n] \in Seq(Change)
  BY <1>8
<1>10. Until(n) = K
  <2>1. Until(n) \subseteq K /\ K \subseteq Until(n)
    BY <1>a DEF Until
  <2> QED
    BY <2>1
<1> QED
  BY <1>1, <1>9, <1>10

\* A list of changes that leads from a graph to another one.
Led(g, cs, h) == Maps(g) /\ cs \in Seq(Change) /\ Leads(g, cs, h) /\ Maps(h)

\* What is left alone when squads are brought in.
LEMMA BroughtMaps ==
  ASSUME NEW g, Maps(g), NEW R, NEW N
  PROVE  /\ Maps(Brought(g, R, N))
         /\ \A t \in Tables \ {"squads", "squadVersions"} : Brought(g, R, N)[t] = g[t]
         /\ Brought(g, R, N)["squads"] = Laid(Only(R, N), g["squads"])
<1> DEFINE w == [g EXCEPT !["squads"] = Laid(Only(R, N), @)]
<1>1. Rewritten(g, "squads", Laid(Only(R, N), g["squads"]), w)
  BY SquadsRewritten
<1>2. Brought(g, R, N) = Recorded(w, N)
  BY DEF Brought
<1> HIDE DEF w
<1>3. /\ Maps(w) /\ w["squads"] = Laid(Only(R, N), g["squads"])
      /\ \A t \in Tables \ {"squads", "squadVersions"} : w[t] = g[t]
  BY <1>1 DEF Rewritten
<1>4. Maps(Recorded(w, N)) /\ \A t \in Tables : t # "squadVersions" => Recorded(w, N)[t] = w[t]
  BY <1>3, RecordedMaps
<1>5. "squads" \in Tables
  BY DEF Tables
<1> QED
  BY <1>2, <1>3, <1>4, <1>5

\* The squads of a set, put and recorded one after the other.
LEMMA SetBrought ==
  ASSUME NEW g, Maps(g), NEW K, K \subseteq Squads, IsFiniteSet(K), NEW R, \A s \in K : R[s] \in SquadRecordSet,
         NEW F, IsMap(F), DOMAIN F = 1..Cardinality(K),
         \A i \in 1..Cardinality(K) : F[i] = PutAndRecord(SetToSeq(K)[i], R[SetToSeq(K)[i]])
  PROVE  Led(g, FlattenSeq(F), Brought(g, R, K))
<1> DEFINE n == Cardinality(K)
           names == SetToSeq(K)
<1>1. n \in Nat /\ names \in [1..n -> K] /\ \A s \in K : \E i \in 1..n : names[i] = s
  BY SetToSeqCovers
<1>2. \A i, j \in 1..n : names[i] = names[j] => i = j
  BY SetToSeqOnce
<1>3. DOMAIN F = 1..n /\ \A i \in 1..n : F[i] = PutAndRecord(names[i], R[names[i]])
  OBVIOUS
<1> HIDE DEF n, names
<1>4. F \in Seq({F[i] : i \in 1..n}) /\ Len(F) = n
  <2>1. PICK X : X = {F[i] : i \in 1..n}
    OBVIOUS
  <2>2. F \in [1..n -> X]
    BY <1>3, <2>1 DEF IsMap
  <2>3. F \in Seq(X) /\ Len(F) = n
    BY <1>1, <2>2
  <2> QED
    BY <2>1, <2>3
<1>5. Enumerates(names, n, K) /\ PutsEach(F, n, names, R)
  BY <1>1, <1>2, <1>3, <1>4 DEF Enumerates, PutsEach
<1>6. Maps(Brought(g, R, K))
  BY BroughtMaps
<1>7. CASE n = 0
  <2>1. F = <<>>
    BY <1>4, <1>7
  <2>2. FlattenSeq(F) = <<>>
    BY <2>1 DEF FlattenSeq
  <2>3. K = {}
    BY <1>1, <1>7
  <2>4. Brought(g, R, K) = g
    BY <2>3, BroughtNone
  <2> QED
    BY <1>6, <2>2, <2>4, LeadsNowhere, ShortLists DEF Led
<1>8. CASE n # 0
  <2>1. Leads(g, FlattenSeq(F), Brought(g, R, K)) /\ FlattenSeq(F) \in Seq(Change)
    BY <1>5, <1>8, SquadsBrought
  <2> QED
    BY <1>6, <2>1 DEF Led
<1> QED
  BY <1>7, <1>8

\* One change more.
LEMMA ThenMore ==
  ASSUME NEW g, NEW p, NEW h, Led(g, p, h), NEW r, NEW k, Led(h, r, k)
  PROVE  Led(g, p \o r, k)
<1>1. p \in Seq(Change) /\ r \in Seq(Change) /\ Leads(g, p, h) /\ Leads(h, r, k)
  BY DEF Led
<1>2. Leads(g, p \o r, k)
  BY <1>1, LeadsOn
<1>3. p \o r \in Seq(Change)
  BY <1>1, Appended
<1> QED
  BY <1>2, <1>3 DEF Led

\* A put more, or on its own.
LEMMA ThenPut ==
  ASSUME NEW g, NEW p, NEW h, Led(g, p, h), NEW t \in Tables \ {"squadVersions"}, NEW rows, IsTable(rows, Schema[t]),
         NEW k, Rewritten(h, t, Laid(rows, h[t]), k)
  PROVE  Led(g, p \o Put(t, rows), k) /\ Led(h, Put(t, rows), k)
<1>1. Maps(h) /\ Maps(k)
  BY DEF Led, Rewritten
<1>2. Leads(h, Put(t, rows), k) /\ Put(t, rows) \in Seq(Change)
  BY <1>1, LeadsPut
<1>3. Led(h, Put(t, rows), k)
  BY <1>1, <1>2 DEF Led
<1>4. Led(g, p \o Put(t, rows), k)
  BY <1>3, ThenMore
<1> QED
  BY <1>3, <1>4

\* A deletion more, or on its own.
LEMMA ThenDelete ==
  ASSUME NEW g, NEW p, NEW h, Led(g, p, h), NEW t \in Tables, NEW keys \in SUBSET Keys,
         NEW k, Rewritten(h, t, Without(h[t], keys), k)
  PROVE  Led(g, p \o Delete(t, keys), k) /\ Led(h, Delete(t, keys), k)
<1>1. Maps(h) /\ Maps(k)
  BY DEF Led, Rewritten
<1>2. Leads(h, Delete(t, keys), k) /\ Delete(t, keys) \in Seq(Change)
  BY <1>1, LeadsDelete
<1>3. Led(h, Delete(t, keys), k)
  BY <1>1, <1>2 DEF Led
<1>4. Led(g, p \o Delete(t, keys), k)
  BY <1>3, ThenMore
<1> QED
  BY <1>3, <1>4

\* A recording more, or on its own.
LEMMA ThenRecorded ==
  ASSUME NEW g, NEW p, NEW h, Led(g, p, h), NEW S, S \subseteq Squads
  PROVE  Led(g, p \o Record(S), Recorded(h, S)) /\ Led(h, Record(S), Recorded(h, S))
<1>1. Maps(h) /\ Maps(Recorded(h, S))
  BY RecordedMaps DEF Led
<1>2. Leads(h, Record(S), Recorded(h, S)) /\ Record(S) \in Seq(Change)
  BY <1>1, LeadsRecord
<1>3. Led(h, Record(S), Recorded(h, S))
  BY <1>1, <1>2 DEF Led
<1>4. Led(g, p \o Record(S), Recorded(h, S))
  BY <1>3, ThenMore
<1> QED
  BY <1>3, <1>4

\* No change at all.
LEMMA LedNowhere ==
  ASSUME NEW g, Maps(g)
  PROVE  Led(g, <<>>, g)
  BY LeadsNowhere, ShortLists DEF Led

\* The squads of a document.
LEMMA ThenImport ==
  ASSUME NEW g, Maps(g), NEW d, IsTable(d.squads, Schema["squads"])
  PROVE  Led(g, ImportSquads(d), Recorded([g EXCEPT !["squads"] = Laid(d.squads, @)], DOMAIN d.squads))
<1> DEFINE K == DOMAIN d.squads
           R == d.squads
           names == SetToSeq(K)
           F == [i \in 1..Len(names) |-> Put("squads", Row(names[i], R[names[i]])) \o Record({names[i]})]
<1>1. IsFiniteSet(K) /\ K \subseteq Squads /\ (\A s \in K : R[s] \in SquadRecordSet) /\ IsMap(R)
  BY DEF IsTable, Schema, IsMap
<1>2. Cardinality(K) \in Nat /\ names \in [1..Cardinality(K) -> K]
  BY <1>1, SetToSeqCovers
<1>3. Len(names) = Cardinality(K)
  BY <1>2
<1>4. ImportSquads(d) = FlattenSeq(F)
  BY DEF ImportSquads
<1>5. /\ IsMap(F) /\ DOMAIN F = 1..Cardinality(K)
      /\ \A i \in 1..Cardinality(K) : F[i] = PutAndRecord(names[i], R[names[i]])
  BY <1>3 DEF IsMap, PutAndRecord
<1>6. Only(R, K) = R
  BY <1>1 DEF Only, IsMap
<1>7. Brought(g, R, K) = Recorded([g EXCEPT !["squads"] = Laid(R, @)], K)
  BY <1>6 DEF Brought
<1> HIDE DEF F, K, R
<1>8. Led(g, FlattenSeq(F), Brought(g, R, K))
  BY <1>1, <1>5, SetBrought
<1> QED
  BY <1>4, <1>7, <1>8 DEF K, R

(***************************************************************************)
(* What every operation makes of the definitions: graph h of graph g, as   *)
(* its action of AtomicDefinitions does in one step.                       *)
(***************************************************************************)
MakesAgent(g, op, h) ==
  LET w == [g EXCEPT !.agents = Laid(Row(op.agent, op.content), @)]
  IN \/ op.kind = "createAgent" /\ op.agent \notin DOMAIN g.agents /\ h = w
     \/ op.kind = "updateAgent" /\ op.agent \in DOMAIN g.agents /\ h = Recorded(w, MembersOf(g, op.agent))

MakesAway(g, op, h) ==
  /\ op.kind = "deleteAgent" /\ op.agent \in DOMAIN g.agents
  /\ \A s \in MembersOf(g, op.agent) : g.squads[s].members # {op.agent} /\ op.agent \notin g.squads[s].gate
  /\ h = Recorded([g EXCEPT !.agents = Without(@, {op.agent}),
                            !.squads = [s \in DOMAIN @ |-> DropMember(@[s], op.agent)]],
                  MembersOf(g, op.agent))

SquadIn(g, s, r, h) ==
  ValidSquad(r, DOMAIN g.agents) /\ h = Recorded([g EXCEPT !.squads = Laid(Row(s, r), @)], {s})

MakesSquad(g, op, h) ==
  LET s == op.squad
      r == g.squads[s]
  IN \/ op.kind = "createSquad" /\ s \notin DOMAIN g.squads /\ SquadIn(g, s, op.record, h)
     \/ op.kind = "updateSquad" /\ s \in DOMAIN g.squads /\ SquadIn(g, s, op.record, h)
     \/ op.kind = "addMember" /\ s \in DOMAIN g.squads /\ op.agent \notin r.members /\ SquadIn(g, s, AddTo(r, op.agent), h)
     \/ op.kind = "removeMember" /\ s \in DOMAIN g.squads /\ op.agent \notin r.gate /\ SquadIn(g, s, DropMember(r, op.agent), h)
     \/ op.kind = "deleteSquad" /\ s \in DOMAIN g.squads /\ h = WithoutSquads(g, {s})

MakesPointer(g, op, h) ==
  /\ op.kind = "point"
  /\ \/ h = [g EXCEPT ![op.table] = Without(@, {op.key})]
     \/ /\ op.squad \in DOMAIN g.squads \union {NoSquad}
        /\ op.table = "projectDefaults" => op.squad \in DOMAIN g.squads
        /\ h = [g EXCEPT ![op.table] = Laid(Row(op.key, op.squad), @)]

MakesMerged(g, op, h) ==
  LET d == op.document
      merged == Overlaid(g, d.agents, d.squads)
  IN /\ op.kind \in {"merge", "recipe"} /\ ValidDocument(d, DOMAIN g.agents)
     /\ h = Recorded(merged, DOMAIN d.squads \union Affected(merged, Changed(g, d.agents), {}))

MakesReplaced(g, op, h) ==
  LET d == op.document
      cleared == WithoutSquads([g EXCEPT !.agents = d.agents], DOMAIN g.squads \ DOMAIN d.squads)
  IN /\ op.kind = "replace" /\ ValidDocument(d, {})
     /\ h = Recorded([cleared EXCEPT !.squads = d.squads], DOMAIN d.squads)

MakesRestored(g, op, h) ==
  LET found == g.squadVersions[op.version]
      s == op.version[1]
      changed == {a \in DOMAIN found.members : a \notin DOMAIN g.agents \/ g.agents[a] # found.members[a]}
      restored == Overlaid(g, found.members, Row(s, found.record))
  IN /\ op.kind = "restore" /\ op.version \in DOMAIN g.squadVersions
     /\ ValidSquad(found.record, DOMAIN restored.agents)
     /\ h = Recorded(restored, {s} \union Affected(restored, changed, {s}))

Makes(g, op, h) ==
  \/ MakesAgent(g, op, h) \/ MakesAway(g, op, h) \/ MakesSquad(g, op, h) \/ MakesPointer(g, op, h)
  \/ MakesMerged(g, op, h) \/ MakesReplaced(g, op, h) \/ MakesRestored(g, op, h)

(***************************************************************************)
(* The plans lead there.                                                   *)
(***************************************************************************)
LEMMA MembersAreSquads ==
  ASSUME NEW g, Good(g)
  PROVE  DOMAIN g.squads \subseteq Squads /\ IsFiniteSet(DOMAIN g.squads) /\ \A a : MembersOf(g, a) \subseteq DOMAIN g.squads
<1>1. IsTable(g["squads"], Schema["squads"])
  BY TypedTables DEF Good, Tables
<1> QED
  BY <1>1 DEF IsTable, Schema, MembersOf

\* An agent record is written.
LEMMA AgentPutLeads ==
  ASSUME Good(db), NEW a \in Agents, NEW c \in Contents, NEW h, h = [db EXCEPT !.agents = Laid(Row(a, c), @)]
  PROVE  Led(db, Put("agents", Row(a, c)), h)
<1>1. Maps(db)
  BY GoodMaps
<1>2. IsTable(Row(a, c), Schema["agents"]) /\ "agents" \in Tables \ {"squadVersions"} /\ "agents" \in Tables
  BY AgentRow DEF Tables
<1>3. h = [db EXCEPT !["agents"] = Laid(Row(a, c), db["agents"])] /\ IsMap(Laid(Row(a, c), db["agents"]))
  BY LaidMaps
<1>4. Rewritten(db, "agents", Laid(Row(a, c), db["agents"]), h)
  BY <1>1, <1>2, <1>3, RewriteIs
<1>5. Led(db, <<>>, db)
  BY <1>1, LedNowhere
<1> QED
  BY <1>2, <1>4, <1>5, ThenPut

\* An agent is created or updated.
LEMMA AgentLeads ==
  ASSUME Good(db), NEW op, op.kind \in {"createAgent", "updateAgent"}, op.agent \in Agents, op.content \in Contents, Admitted(op)
  PROVE  \E h : Makes(db, op, h) /\ Led(db, PlanOf(op).changes, h)
<1> DEFINE w == [db EXCEPT !.agents = Laid(Row(op.agent, op.content), @)]
           p == Put("agents", Row(op.agent, op.content))
           S == MembersOf(db, op.agent)
<1>1. Led(db, p, w)
  BY AgentPutLeads
<1>2. CASE op.kind = "createAgent"
  <2>1. PlanOf(op).changes = p
    BY <1>2 DEF PlanOf, CreateAgentPlan, Plan
  <2>2. Makes(db, op, w)
    <3>1. op.agent \notin DOMAIN db.agents
      BY <1>2 DEF Admitted
    <3> QED
      BY <1>2, <3>1 DEF Makes, MakesAgent
  <2> QED
    BY <1>1, <2>1, <2>2
<1>3. CASE op.kind = "updateAgent"
  <2>1. PlanOf(op).changes = p \o Record(S)
    BY <1>3 DEF PlanOf, UpdateAgentPlan, Plan
  <2>2. Makes(db, op, Recorded(w, S))
    <3>1. op.agent \in DOMAIN db.agents
      BY <1>3 DEF Admitted
    <3> QED
      BY <1>3, <3>1 DEF Makes, MakesAgent
  <2>3. S \subseteq Squads
    BY MembersAreSquads
  <2> HIDE DEF w, p, S
  <2>4. Led(db, p \o Record(S), Recorded(w, S))
    BY <1>1, <2>3, ThenRecorded
  <2> QED
    BY <2>1, <2>2, <2>4
<1> QED
  BY <1>2, <1>3

\* A squad is written and recorded.
LEMMA SquadInLeads ==
  ASSUME Good(db), NEW s \in Squads, NEW r \in SquadRecordSet, ValidSquad(r, DOMAIN db.agents)
  PROVE  \E h : SquadIn(db, s, r, h) /\ Led(db, PutSquadPlan(s, r).changes, h)
<1> DEFINE w == [db EXCEPT !.squads = Laid(Row(s, r), @)]
<1>1. PutSquadPlan(s, r).changes = Put("squads", Row(s, r)) \o Record({s})
  BY DEF PutSquadPlan, Plan
<1>2. SquadIn(db, s, r, Recorded(w, {s}))
  BY DEF SquadIn
<1>3. Maps(db)
  BY GoodMaps
<1>4. IsTable(Row(s, r), Schema["squads"]) /\ "squads" \in Tables \ {"squadVersions"} /\ "squads" \in Tables
  <2>1. s \in Schema["squads"].keys /\ r \in Schema["squads"].rows
    BY DEF Schema
  <2> QED
    BY <2>1, RowIsTable DEF Tables
<1>5. w = [db EXCEPT !["squads"] = Laid(Row(s, r), db["squads"])] /\ IsMap(Laid(Row(s, r), db["squads"]))
  BY LaidMaps
<1> HIDE DEF w
<1>6. Rewritten(db, "squads", Laid(Row(s, r), db["squads"]), w)
  BY <1>3, <1>4, <1>5, RewriteIs
<1>7. Led(db, <<>>, db)
  BY <1>3, LedNowhere
<1>8. Led(db, Put("squads", Row(s, r)), w)
  BY <1>4, <1>6, <1>7, ThenPut
<1>9. Led(db, Put("squads", Row(s, r)) \o Record({s}), Recorded(w, {s}))
  BY <1>8, ThenRecorded
<1> QED
  BY <1>1, <1>2, <1>9

\* A squad is created or updated.
LEMMA SquadLeads ==
  ASSUME Good(db), NEW op, op.kind \in {"createSquad", "updateSquad"}, op.squad \in Squads, op.record \in SquadRecordSet,
         Admitted(op)
  PROVE  \E h : Makes(db, op, h) /\ Led(db, PlanOf(op).changes, h)
<1>1. /\ ValidSquad(op.record, DOMAIN db.agents)
      /\ op.kind = "createSquad" => op.squad \notin DOMAIN db.squads
      /\ op.kind = "updateSquad" => op.squad \in DOMAIN db.squads
  BY DEF Admitted
<1>2. PlanOf(op) = PutSquadPlan(op.squad, op.record)
  BY DEF PlanOf
<1>3. PICK h : SquadIn(db, op.squad, op.record, h) /\ Led(db, PutSquadPlan(op.squad, op.record).changes, h)
  BY <1>1, SquadInLeads
<1>4. Makes(db, op, h)
  BY <1>1, <1>3 DEF Makes, MakesSquad
<1> QED
  BY <1>2, <1>3, <1>4

\* A member is added or removed, unless the update would throw.
LEMMA MemberLeads ==
  ASSUME Good(db), NEW op, op.kind \in {"addMember", "removeMember"}, op.squad \in Squads, op.agent \in Agents,
         Admitted(op)
  PROVE  \/ Doomed(PlanOf(op).changes)
         \/ \E h : Makes(db, op, h) /\ Led(db, PlanOf(op).changes, h)
<1> DEFINE r == db.squads[op.squad]
<1>1. op.squad \in DOMAIN db.squads
  BY DEF Admitted
<1>2. r \in SquadRecordSet
  BY <1>1, PointersTyped DEF Good
<1>3. Plan(<<"squads", "squadVersions">>, Throw).changes = Throw
  BY DEF Plan
<1>4. CASE op.kind = "addMember"
  <2> DEFINE n == AddTo(r, op.agent)
  <2>1. PlanOf(op) = AddMemberPlan(op)
    BY <1>4 DEF PlanOf
  <2>2. n \in SquadRecordSet
    BY <1>2 DEF AddTo, SquadRecordSet
  <2>3. CASE op.agent \in r.members \/ ~ValidSquad(n, DOMAIN db.agents)
    <3>1. AddMemberPlan(op) = Plan(<<"squads", "squadVersions">>, Throw)
      BY <2>3 DEF AddMemberPlan
    <3> QED
      BY <1>3, <2>1, <3>1, ThrowDooms
  <2>4. CASE op.agent \notin r.members /\ ValidSquad(n, DOMAIN db.agents)
    <3>1. AddMemberPlan(op) = PutSquadPlan(op.squad, n)
      BY <2>4 DEF AddMemberPlan
    <3>2. PICK h : SquadIn(db, op.squad, n, h) /\ Led(db, PutSquadPlan(op.squad, n).changes, h)
      BY <2>2, <2>4, SquadInLeads
    <3>3. Makes(db, op, h)
      BY <1>1, <1>4, <2>4, <3>2 DEF Makes, MakesSquad
    <3> QED
      BY <2>1, <3>1, <3>2, <3>3
  <2> QED
    BY <2>3, <2>4
<1>5. CASE op.kind = "removeMember"
  <2> DEFINE n == DropMember(r, op.agent)
  <2>1. PlanOf(op) = RemoveMemberPlan(op)
    BY <1>5 DEF PlanOf
  <2>2. n \in SquadRecordSet
    BY <1>2, DropMemberTyped
  <2>3. CASE ~ValidSquad(n, DOMAIN db.agents)
    <3>1. RemoveMemberPlan(op) = Plan(<<"squads", "squadVersions">>, Throw)
      BY <2>3 DEF RemoveMemberPlan
    <3> QED
      BY <1>3, <2>1, <3>1, ThrowDooms
  <2>4. CASE ValidSquad(n, DOMAIN db.agents)
    <3>1. RemoveMemberPlan(op) = PutSquadPlan(op.squad, n)
      BY <2>4 DEF RemoveMemberPlan
    <3>2. PICK h : SquadIn(db, op.squad, n, h) /\ Led(db, PutSquadPlan(op.squad, n).changes, h)
      BY <2>2, <2>4, SquadInLeads
    <3>3. op.agent \notin r.gate
      BY <1>5 DEF Admitted
    <3>4. Makes(db, op, h)
      BY <1>1, <1>5, <3>2, <3>3 DEF Makes, MakesSquad
    <3> QED
      BY <2>1, <3>1, <3>2, <3>4
  <2> QED
    BY <2>3, <2>4
<1> QED
  BY <1>4, <1>5

\* A table can be rewritten.
LEMMA RewriteExists ==
  ASSUME NEW g, Maps(g), NEW t \in Tables, NEW v, IsMap(v)
  PROVE  \E h : Rewritten(g, t, v, h)
  BY RewriteIs

\* A pointer is set or dropped.
LEMMA PointLeads ==
  ASSUME Good(db), NEW op \in Operation, op.kind = "point", Admitted(op)
  PROVE  \E h : Makes(db, op, h) /\ Led(db, PlanOf(op).changes, h)
<1> DEFINE t == op.table
           del == Delete(t, {op.key})
           put == Put(t, Row(op.key, op.squad))
<1>1. /\ t \in Pointers /\ op.key \in Schema[t].keys /\ (op.squad # Nothing => op.squad \in Schema[t].rows)
      /\ t = "projectDefaults" /\ op.squad # Nothing => op.squad \in Squads
  <2>1. CASE t \in {"sessionModes", "nextModes"} /\ op.key \in Sessions /\ op.squad \in Squads \union {NoSquad, Nothing}
    <3>1. Schema[t].keys = Sessions /\ Schema[t].rows = Squads \union {NoSquad}
      BY <2>1 DEF Schema
    <3> QED
      BY <2>1, <3>1 DEF Pointers
  <2>2. CASE t = "projectDefaults" /\ op.key \in Projects /\ op.squad \in Squads \union {Nothing}
    <3>1. Schema[t].keys = Projects /\ Schema[t].rows = Squads
      BY <2>2 DEF Schema
    <3> QED
      BY <2>2, <3>1 DEF Pointers
  <2> QED
    BY <2>1, <2>2, OperationCases
<1>2. t \in Tables \ {"squadVersions"} /\ t \in Tables
  BY <1>1, TableNames
<1>3. op.squad \in DOMAIN db.squads \union {Nothing, NoSquad}
  BY DEF Admitted
<1>4. PlanOf(op).changes = IF op.squad = Nothing THEN del ELSE put
  BY DEF PlanOf, PointPlan, Plan
<1>5. Maps(db) /\ Led(db, <<>>, db)
  BY GoodMaps, LedNowhere
<1>6. CASE op.squad = Nothing
  <2> DEFINE h == [db EXCEPT ![t] = Without(@, {op.key})]
             v == Without(db[t], {op.key})
  <2>1. Makes(db, op, h)
    BY DEF Makes, MakesPointer
  <2>2. h = [db EXCEPT ![t] = v] /\ IsMap(v)
    BY LaidMaps
  <2>3. {op.key} \in SUBSET Keys
    BY <1>1, <1>2 DEF Keys
  <2> HIDE DEF h, t
  <2>4. Rewritten(db, t, v, h)
    <3> HIDE DEF v
    <3> QED
      BY <1>2, <1>5, <2>2, RewriteIs
  <2>5. Led(db, del, h)
    BY <1>2, <1>5, <2>3, <2>4, ThenDelete
  <2> QED
    BY <1>4, <1>6, <2>1, <2>5
<1>7. CASE op.squad # Nothing
  <2> DEFINE row == Row(op.key, op.squad)
             h == [db EXCEPT ![t] = Laid(row, @)]
             v == Laid(row, db[t])
  <2>1. op.squad \in DOMAIN db.squads \union {NoSquad} /\ (t = "projectDefaults" => op.squad \in DOMAIN db.squads)
    BY <1>1, <1>3, <1>7, NamesAssumption
  <2>2. Makes(db, op, h)
    BY <2>1 DEF Makes, MakesPointer
  <2>3. h = [db EXCEPT ![t] = v] /\ IsMap(v)
    BY LaidMaps
  <2>4. IsTable(row, Schema[t])
    BY <1>1, <1>7, RowIsTable
  <2> HIDE DEF h, t, row
  <2>5. Rewritten(db, t, v, h)
    <3> HIDE DEF v
    <3> QED
      BY <1>2, <1>5, <2>3, RewriteIs
  <2>6. Led(db, Put(t, row), h)
    BY <1>2, <1>5, <2>4, <2>5, ThenPut
  <2> QED
    BY <1>4, <1>7, <2>2, <2>6 DEF row
<1> QED
  BY <1>6, <1>7

\* Deletions, one after the other.
LEMMA ThenCleared ==
  ASSUME NEW g, NEW p, NEW h, Led(g, p, h), NEW t \in Tables, NEW keys \in SUBSET Keys
  PROVE  \E k : Rewritten(h, t, Without(h[t], keys), k) /\ Led(g, p \o Delete(t, keys), k)
<1>1. Maps(h) /\ IsMap(Without(h[t], keys))
  BY LaidMaps DEF Led
<1>2. PICK k : Rewritten(h, t, Without(h[t], keys), k)
  BY <1>1, RewriteExists
<1> QED
  BY <1>2, ThenDelete

\* Squads that go, with what names them.
SquadsGone(g, gone, h) ==
  /\ Maps(h)
  /\ h["agents"] = g["agents"]
  /\ h["squads"] = Without(g["squads"], gone)
  /\ \A t \in Pointers : h[t] = Without(g[t], PointingInto(g[t], gone))
  /\ h["squadVersions"] = Without(g["squadVersions"], {k \in DOMAIN g["squadVersions"] : k[1] \in gone})

\* The graph without the squads is that one.
LEMMA WithoutSquadsIs ==
  ASSUME NEW g, Maps(g), NEW gone, NEW h, h = WithoutSquads(g, gone)
  PROVE  SquadsGone(g, gone, h)
<1> DEFINE v1 == Without(g["squads"], gone)
           v2 == Without(g["sessionModes"], PointingInto(g["sessionModes"], gone))
           v3 == Without(g["nextModes"], PointingInto(g["nextModes"], gone))
           v4 == Without(g["projectDefaults"], PointingInto(g["projectDefaults"], gone))
           v5 == Without(g["squadVersions"], {k \in DOMAIN g["squadVersions"] : k[1] \in gone})
<1>1. h = [g EXCEPT !["squads"] = v1, !["sessionModes"] = v2, !["nextModes"] = v3, !["projectDefaults"] = v4,
                    !["squadVersions"] = v5]
  BY DEF WithoutSquads
<1>2. IsMap(v1) /\ IsMap(v2) /\ IsMap(v3) /\ IsMap(v4) /\ IsMap(v5)
  BY LaidMaps
<1>3. IsGraph(g) /\ IsMap(g["agents"])
  BY DEF Maps, Tables
<1> HIDE DEF v1, v2, v3, v4, v5
<1>4. h = [t \in Tables |-> CASE t = "agents" -> g["agents"] [] t = "squads" -> v1 [] t = "sessionModes" -> v2
                              [] t = "nextModes" -> v3 [] t = "projectDefaults" -> v4 [] OTHER -> v5]
  <2>1. DOMAIN g = Tables /\ g = [t \in Tables |-> g[t]]
    BY <1>3, GraphFun
  <2> QED
    BY <1>1, <2>1 DEF Tables
<1>5. /\ h["agents"] = g["agents"] /\ h["squads"] = v1 /\ h["sessionModes"] = v2
      /\ h["nextModes"] = v3 /\ h["projectDefaults"] = v4 /\ h["squadVersions"] = v5
  BY <1>4 DEF Tables
<1>6. IsGraph(h)
  <2>1. h = [t \in Tables |-> h[t]]
    BY <1>4
  <2> QED
    BY <2>1, FunGraph
<1>7. Maps(h)
  BY <1>2, <1>3, <1>5, <1>6 DEF Maps, Tables
<1>8. \A t \in Pointers : h[t] = Without(g[t], PointingInto(g[t], gone))
  BY <1>5 DEF v2, v3, v4, Pointers
<1> QED
  BY <1>5, <1>7, <1>8 DEF v1, v5, SquadsGone

\* A squad is deleted.
LEMMA DeleteSquadLeads ==
  ASSUME Good(db), NEW op, op.kind = "deleteSquad", op.squad \in DOMAIN db.squads
  PROVE  \E h : Makes(db, op, h) /\ Led(db, PlanOf(op).changes, h)
<1> DEFINE s == op.squad
           k1 == PointingInto(db["sessionModes"], {s})
           k2 == PointingInto(db["nextModes"], {s})
           k3 == PointingInto(db["projectDefaults"], {s})
           k4 == {k \in DOMAIN db["squadVersions"] : k[1] = s}
           d1 == Delete("sessionModes", k1)
           d2 == Delete("nextModes", k2)
           d3 == Delete("projectDefaults", k3)
           d4 == Delete("squadVersions", k4)
           d5 == Delete("squads", {s})
           h == WithoutSquads(db, {s})
<1>1. PlanOf(op).changes = (((d1 \o d2) \o d3) \o d4) \o d5
  BY DEF PlanOf, DeleteSquadPlan, Plan
<1>2. Makes(db, op, h)
  BY DEF Makes, MakesSquad
<1>3. {"sessionModes", "nextModes", "projectDefaults", "squadVersions", "squads", "agents"} \subseteq Tables
  BY DEF Tables
<1>4. k1 \in SUBSET Keys /\ k2 \in SUBSET Keys /\ k3 \in SUBSET Keys /\ k4 \in SUBSET Keys /\ {s} \in SUBSET Keys
  <2>1. k1 \subseteq DOMAIN db["sessionModes"] /\ k2 \subseteq DOMAIN db["nextModes"]
        /\ k3 \subseteq DOMAIN db["projectDefaults"] /\ k4 \subseteq DOMAIN db["squadVersions"]
        /\ {s} \subseteq DOMAIN db["squads"]
    BY DEF PointingInto
  <2> HIDE DEF k1, k2, k3, k4, s
  <2>2. \A t \in Tables : \A keys : keys \subseteq DOMAIN db[t] => keys \in SUBSET Keys
    BY ManyKeys DEF Good
  <2>4. k1 \in SUBSET Keys /\ k2 \in SUBSET Keys
    BY <1>3, <2>1, <2>2
  <2>5. k3 \in SUBSET Keys /\ k4 \in SUBSET Keys
    BY <1>3, <2>1, <2>2
  <2>6. {s} \in SUBSET Keys
    BY <1>3, <2>1, <2>2
  <2> QED
    BY <2>4, <2>5, <2>6
<1>5. /\ Maps(h) /\ h["agents"] = db["agents"] /\ h["squads"] = Without(db["squads"], {s})
      /\ \A t \in Pointers : h[t] = Without(db[t], PointingInto(db[t], {s}))
      /\ h["squadVersions"] = Without(db["squadVersions"], {k \in DOMAIN db["squadVersions"] : k[1] \in {s}})
  <2>1. Maps(db)
    BY GoodMaps
  <2>2. PICK gone : gone = {s}
    OBVIOUS
  <2>3. h = WithoutSquads(db, gone)
    BY <2>2
  <2> HIDE DEF h, s
  <2>4. SquadsGone(db, gone, h)
    BY <2>1, <2>3, WithoutSquadsIs
  <2> QED
    BY <2>2, <2>4 DEF SquadsGone
<1>6. /\ h["sessionModes"] = Without(db["sessionModes"], k1) /\ h["nextModes"] = Without(db["nextModes"], k2)
      /\ h["projectDefaults"] = Without(db["projectDefaults"], k3) /\ h["squadVersions"] = Without(db["squadVersions"], k4)
  <2>1. {k \in DOMAIN db["squadVersions"] : k[1] \in {s}} = k4
    OBVIOUS
  <2> HIDE DEF h, s
  <2> QED
    BY <1>5, <2>1 DEF Pointers
<1>7. Led(db, <<>>, db)
  BY GoodMaps, LedNowhere
<1> HIDE DEF k1, k2, k3, k4, h
<1>8. PICK g1 : Rewritten(db, "sessionModes", Without(db["sessionModes"], k1), g1) /\ Led(db, d1, g1)
  <2>1. PICK g1 : Rewritten(db, "sessionModes", Without(db["sessionModes"], k1), g1)
    BY <1>3, GoodMaps, LaidMaps, RewriteExists
  <2> QED
    BY <1>3, <1>4, <1>7, <2>1, ThenDelete
<1> HIDE DEF d1
<1>9. PICK g2 : Rewritten(g1, "nextModes", Without(g1["nextModes"], k2), g2) /\ Led(db, d1 \o d2, g2)
  BY <1>3, <1>4, <1>8, ThenCleared
<1>10. PICK g3 : Rewritten(g2, "projectDefaults", Without(g2["projectDefaults"], k3), g3) /\ Led(db, (d1 \o d2) \o d3, g3)
  BY <1>3, <1>4, <1>9, ThenCleared
<1>11. PICK g4 : Rewritten(g3, "squadVersions", Without(g3["squadVersions"], k4), g4) /\ Led(db, ((d1 \o d2) \o d3) \o d4, g4)
  BY <1>3, <1>4, <1>10, ThenCleared
<1>12. PICK g5 : /\ Rewritten(g4, "squads", Without(g4["squads"], {s}), g5)
                 /\ Led(db, (((d1 \o d2) \o d3) \o d4) \o d5, g5)
  BY <1>3, <1>4, <1>11, ThenCleared
<1>13. \A t \in Tables : g5[t] = h[t]
  BY <1>3, <1>5, <1>6, <1>8, <1>9, <1>10, <1>11, <1>12 DEF Rewritten, Tables
<1>14. g5 = h
  BY <1>5, <1>12, <1>13, SameGraphs DEF Rewritten, Maps
<1> QED
  BY <1>1, <1>2, <1>12, <1>14

\* An agent is taken out of its squads: the others are as before.
LEMMA DroppedSquads ==
  ASSUME NEW g, Good(g), SquadsClosed(g), NEW a \in DOMAIN g.agents, NEW R,
         \A s \in MembersOf(g, a) : R[s] = DropMember(g.squads[s], a)
  PROVE  Laid(Only(R, MembersOf(g, a)), g["squads"]) = [s \in DOMAIN g.squads |-> DropMember(g.squads[s], a)]
<1> DEFINE K == MembersOf(g, a)
           v == Laid(Only(R, K), g["squads"])
<1>1. \A s \in DOMAIN g.squads \ K : DropMember(g.squads[s], a) = g.squads[s]
  <2> SUFFICES ASSUME NEW s \in DOMAIN g.squads, s \notin K PROVE DropMember(g.squads[s], a) = g.squads[s]
    OBVIOUS
  <2>1. PICK r : r = g.squads[s]
    OBVIOUS
  <2>2. r \in SquadRecordSet /\ a \in Agents
    BY <2>1, PointersTyped DEF Good
  <2>3. a \notin r.members /\ r.leader \in r.members \union {NoAgent}
    BY <2>1 DEF MembersOf, SquadsClosed, ValidSquad
  <2>4. r.leader # a
    BY <2>2, <2>3, NamesAssumption
  <2>5. r.members \ {a} = r.members
    BY <2>3
  <2>6. DropMember(r, a) = [members |-> r.members, leader |-> r.leader, gate |-> r.gate]
    BY <2>4, <2>5 DEF DropMember
  <2>7. r = [members |-> r.members, leader |-> r.leader, gate |-> r.gate]
    BY <2>2 DEF SquadRecordSet
  <2> QED
    BY <2>1, <2>6, <2>7
<1>2. K \subseteq DOMAIN g.squads
  BY DEF MembersOf
<1>3. DOMAIN v = DOMAIN g.squads /\ \A s \in DOMAIN g.squads : v[s] = IF s \in K THEN R[s] ELSE g.squads[s]
  BY <1>2 DEF Laid, Only
<1>4. IsMap(v)
  BY LaidMaps
<1> HIDE DEF v, K
<1>5. \A s \in DOMAIN g.squads : v[s] = DropMember(g.squads[s], a)
  <2> SUFFICES ASSUME NEW s \in DOMAIN g.squads PROVE v[s] = DropMember(g.squads[s], a)
    OBVIOUS
  <2>1. CASE s \in K
    BY <1>3, <2>1 DEF K
  <2>2. CASE s \notin K
    BY <1>1, <1>3, <2>2
  <2> QED
    BY <2>1, <2>2
<1>6. v = [s \in DOMAIN v |-> v[s]]
  BY <1>4 DEF IsMap
<1>7. v = [s \in DOMAIN g.squads |-> DropMember(g.squads[s], a)]
  BY <1>3, <1>5, <1>6
<1> QED
  BY <1>7 DEF v, K

\* An agent is deleted.
LEMMA DeleteAgentLeads ==
  ASSUME Good(db), SquadsClosed(db), NEW op, op.kind = "deleteAgent", op.agent \in DOMAIN db.agents, Admitted(op)
  PROVE  \E h : Makes(db, op, h) /\ Led(db, PlanOf(op).changes, h)
<1> DEFINE a == op.agent
           K == MembersOf(db, a)
           names == SetToSeq(K)
           R == [s \in K |-> DropMember(db.squads[s], a)]
           F == [i \in 1..Cardinality(K) |-> PutAndRecord(names[i], DropMember(db.squads[names[i]], a))]
           w0 == [db EXCEPT !["squads"] = Laid(Only(R, K), @)]
           squads == [s \in DOMAIN db.squads |-> DropMember(db.squads[s], a)]
           w1 == [db EXCEPT !.agents = Without(@, {a}), !.squads = [s \in DOMAIN @ |-> DropMember(@[s], a)]]
           del == Delete("agents", {a})
           v == Without(db["agents"], {a})
<1>1. PlanOf(op).changes = FlattenSeq(F) \o del
  BY DEF PlanOf, DeleteAgentPlan, Plan, PutAndRecord
<1>2. Makes(db, op, Recorded(w1, K))
  <2>1. \A s \in K : db.squads[s].members # {a} /\ a \notin db.squads[s].gate
    BY DEF Admitted
  <2>2. Recorded(w1, K) = Recorded([db EXCEPT !.agents = Without(@, {a}),
                            !.squads = [s \in DOMAIN @ |-> DropMember(@[s], a)]], K)
    OBVIOUS
  <2>3. MakesAway(db, op, Recorded(w1, K))
    BY <2>1, <2>2 DEF MakesAway
  <2> QED
    BY <2>3 DEF Makes
<1>3. Maps(db)
  BY GoodMaps
<1>4. K \subseteq Squads /\ IsFiniteSet(K) /\ K \subseteq DOMAIN db.squads
  <2>1. DOMAIN db.squads \subseteq Squads /\ IsFiniteSet(DOMAIN db.squads) /\ K \subseteq DOMAIN db.squads
    BY MembersAreSquads
  <2> QED
    BY <2>1, FS_Subset
<1>5. \A s \in K : R[s] \in SquadRecordSet
  BY <1>4, PointersTyped, DropMemberTyped DEF Good
<1>6. IsMap(F) /\ DOMAIN F = 1..Cardinality(K)
  BY DEF IsMap
<1>7. \A i \in 1..Cardinality(K) : F[i] = PutAndRecord(names[i], R[names[i]])
  BY <1>4, SetToSeqCovers
<1>8. \A s \in K : R[s] = DropMember(db.squads[s], a)
  OBVIOUS
<1>9. Brought(db, R, K) = Recorded(w0, K)
  BY DEF Brought
<1>10. Rewritten(db, "squads", Laid(Only(R, K), db["squads"]), w0)
  BY <1>3, SquadsRewritten
<1>11. w1 = [db EXCEPT !["agents"] = v, !["squads"] = squads]
  OBVIOUS
<1> HIDE DEF R, F, w0, w1
<1>12. Laid(Only(R, K), db["squads"]) = squads
  BY <1>8, DroppedSquads
<1>13. Led(db, FlattenSeq(F), Brought(db, R, K))
  BY <1>3, <1>4, <1>5, <1>6, <1>7, SetBrought
<1>14. /\ Maps(w0) /\ w0["squads"] = squads /\ w0["agents"] = db["agents"]
  BY <1>10, <1>12 DEF Rewritten, Tables
<1>15. IsMap(v) /\ IsMap(squads)
  BY LaidMaps DEF IsMap
<1>16. "agents" \in Tables /\ "squads" \in Tables /\ "agents" \in Tables \ {"squadVersions"}
  BY DEF Tables
<1> HIDE DEF v, squads
<1>17. Rewritten(w0, "agents", v, w1)
  <2>1. PICK w : Rewritten(db, "agents", v, w) /\ w = [db EXCEPT !["agents"] = v]
    BY <1>3, <1>15, <1>16, RewriteIs
  <2>2. w1 = [w EXCEPT !["squads"] = squads]
    BY <1>11, <2>1
  <2>3. Rewritten(w, "squads", squads, w1)
    <3>1. Maps(w) /\ IsMap(squads) /\ "squads" \in Tables
      BY <1>15, <1>16, <2>1 DEF Rewritten
    <3> QED
      BY <2>2, <3>1, RewriteIs
  <2> QED
    BY <1>10, <1>14, <1>16, <2>1, <2>3 DEF Rewritten
<1>18. \A s \in K : Snapshot(w1, s) = Snapshot(w0, s)
  <2> SUFFICES ASSUME NEW s \in K PROVE Snapshot(w1, s) = Snapshot(w0, s)
    OBVIOUS
  <2>1. w1["squads"] = squads /\ w1["agents"] = v
    BY <1>14, <1>16, <1>17 DEF Rewritten
  <2>2. PICK r : r = squads[s] /\ a \notin r.members
    BY <1>4, <1>8, PointersTyped, DropMemberTyped DEF Good, squads
  <2>3. PICK b : b = db["agents"]
    OBVIOUS
  <2>4. /\ Snapshot(w0, s) = [record |-> r, members |-> [x \in r.members \intersect DOMAIN b |-> b[x]]]
        /\ Snapshot(w1, s) = [record |-> r, members |-> [x \in r.members \intersect DOMAIN v |-> v[x]]]
    BY <1>14, <2>1, <2>2, <2>3 DEF Snapshot
  <2>5. DOMAIN v = DOMAIN b \ {a} /\ \A x \in DOMAIN v : v[x] = b[x]
    BY <2>3 DEF v, Without
  <2>6. r.members \intersect DOMAIN v = r.members \intersect DOMAIN b
    BY <2>2, <2>5
  <2> QED
    BY <2>4, <2>5, <2>6
<1>19. Rewritten(Recorded(w0, K), "agents", v, Recorded(w1, K))
  BY <1>14, <1>16, <1>17, <1>18, RecordedBefore
<1>20. v = Without(Brought(db, R, K)["agents"], {a})
  <2>1. Recorded(w0, K)["agents"] = w0["agents"]
    BY <1>14, <1>16, RecordedMaps
  <2> QED
    BY <1>9, <1>14, <2>1 DEF v
<1>21. {a} \in SUBSET Keys
  <2>1. {a} \subseteq DOMAIN db["agents"]
    OBVIOUS
  <2> QED
    BY <1>16, <2>1, ManyKeys DEF Good
<1>22. Led(db, FlattenSeq(F) \o del, Recorded(w1, K))
  <2>1. PICK e : e = Brought(db, R, K)
    OBVIOUS
  <2>2. Led(db, FlattenSeq(F), e) /\ Rewritten(e, "agents", Without(e["agents"], {a}), Recorded(w1, K))
    BY <1>9, <1>13, <1>19, <1>20, <2>1
  <2> QED
    BY <1>16, <1>21, <2>2, ThenDelete
<1> QED
  BY <1>1, <1>2, <1>22

\* Agents and squads laid over a graph, one table after the other.
LEMMA OverlaidIs ==
  ASSUME NEW g, Maps(g), NEW A, NEW S, NEW o, o = Overlaid(g, A, S)
  PROVE  \E w : /\ Rewritten(g, "agents", Laid(A, g["agents"]), w)
                /\ Rewritten(w, "squads", Laid(S, w["squads"]), o)
                /\ o = [w EXCEPT !["squads"] = Laid(S, @)]
                /\ w["squads"] = g["squads"] /\ o["agents"] = Laid(A, g["agents"]) /\ o["squads"] = Laid(S, g["squads"])
<1> DEFINE a == Laid(A, g["agents"])
<1>1. "agents" \in Tables /\ "squads" \in Tables /\ IsMap(a)
  BY LaidMaps DEF Tables
<1>2. o = [[g EXCEPT !["agents"] = a] EXCEPT !["squads"] = Laid(S, g["squads"])]
  BY DEF Overlaid
<1> HIDE DEF a
<1>3. PICK w : w = [g EXCEPT !["agents"] = a]
  OBVIOUS
<1>4. Rewritten(g, "agents", a, w)
  BY <1>1, <1>3, RewriteIs
<1>5. Maps(w) /\ w["squads"] = g["squads"] /\ w["agents"] = a
  BY <1>1, <1>4 DEF Rewritten
<1>6. PICK b : b = Laid(S, w["squads"])
  OBVIOUS
<1>7. o = [w EXCEPT !["squads"] = b] /\ IsMap(b)
  BY <1>2, <1>3, <1>5, <1>6, LaidMaps
<1>8. Rewritten(w, "squads", b, o)
  BY <1>1, <1>5, <1>7, RewriteIs
<1>9. o["agents"] = a /\ o["squads"] = b
  BY <1>1, <1>5, <1>8 DEF Rewritten
<1>10. o = [w EXCEPT !["squads"] = Laid(S, @)]
  BY <1>6, <1>7
<1> QED
  BY <1>4, <1>5, <1>6, <1>8, <1>9, <1>10 DEF a

\* The other squads of changed agents are found among the squads that stay as they are.
LEMMA SameAffected ==
  ASSUME NEW g, NEW h, NEW m, NEW X,
         \A s : s \notin X => /\ s \in DOMAIN g.squads <=> s \in DOMAIN h.squads
                              /\ s \in DOMAIN g.squads => g.squads[s] = h.squads[s]
  PROVE  Affected(g, m, X) = Affected(h, m, X)
<1>1. Affected(g, m, X) \subseteq Affected(h, m, X)
  BY DEF Affected
<1>2. Affected(h, m, X) \subseteq Affected(g, m, X)
  BY DEF Affected
<1> QED
  BY <1>1, <1>2

\* The squads affected, among those that are not excluded.
LEMMA AffectedSquads ==
  ASSUME NEW g, NEW m, NEW X
  PROVE  /\ Affected(g, m, X) \subseteq DOMAIN g.squads /\ Affected(g, m, X) \intersect X = {}
         /\ X \union Affected(g, m, {}) = X \union Affected(g, m, X)
<1>1. \A s : s \in Affected(g, m, X) <=> s \in Affected(g, m, {}) /\ s \notin X
  BY DEF Affected
<1>2. Affected(g, m, X) \subseteq DOMAIN g.squads
  BY DEF Affected
<1> QED
  BY <1>1, <1>2

\* A document is merged.
LEMMA MergeLeads ==
  ASSUME Good(db), NEW op, op.kind \in {"merge", "recipe"}, op.document \in DocumentSet, Admitted(op)
  PROVE  \E h : Makes(db, op, h) /\ Led(db, PlanOf(op).changes, h)
<1> DEFINE d == op.document
           K == DOMAIN d.squads
           m == Changed(db, d.agents)
           o == Overlaid(db, d.agents, d.squads)
           part == [db EXCEPT !.squads = Laid(d.squads, @)]
           others == Affected(part, m, K)
           p == Put("agents", d.agents)
           q == ImportSquads(d)
           r == Record(others)
           h == Recorded(o, K \union Affected(o, m, {}))
<1>1. PlanOf(op).changes = (p \o q) \o r
  BY DEF PlanOf, MergePlan, Plan
<1>2. IsTable(d.agents, Schema["agents"]) /\ IsTable(d.squads, Schema["squads"])
  BY DocumentTyped
<1>3. Makes(db, op, h)
  <2>1. ValidDocument(d, DOMAIN db.agents)
    <3>1. ValidDocument(d, DOMAIN db.agents) \/ ValidDocument(d, {})
      BY DEF Admitted
    <3>2. ASSUME NEW s \in K, ValidSquad(d.squads[s], {} \union DOMAIN d.agents)
          PROVE  ValidSquad(d.squads[s], DOMAIN db.agents \union DOMAIN d.agents)
      <4>1. {} \union DOMAIN d.agents \subseteq DOMAIN db.agents \union DOMAIN d.agents
        OBVIOUS
      <4> QED
        BY <3>2, <4>1, ValidSquadMonotone
    <3> QED
      BY <3>1, <3>2 DEF ValidDocument
  <2>2. MakesMerged(db, op, h)
    BY <2>1 DEF MakesMerged
  <2> QED
    BY <2>2 DEF Makes
<1>4. Maps(db)
  BY GoodMaps
<1>5. part["squads"] = Laid(d.squads, db["squads"])
  <2>1. "squads" \in DOMAIN db
    BY GraphFun DEF Good, Tables
  <2> QED
    BY <2>1
<1> HIDE DEF o, part, m
<1>6. PICK w : /\ Rewritten(db, "agents", Laid(d.agents, db["agents"]), w)
               /\ Rewritten(w, "squads", Laid(d.squads, w["squads"]), o)
               /\ o = [w EXCEPT !["squads"] = Laid(d.squads, @)]
               /\ w["squads"] = db["squads"] /\ o["squads"] = Laid(d.squads, db["squads"])
  BY <1>4, OverlaidIs DEF o
<1>7. others = Affected(o, m, K)
  <2>1. part["squads"] = o["squads"]
    BY <1>5, <1>6
  <2>2. \A s : s \notin K => /\ s \in DOMAIN part["squads"] <=> s \in DOMAIN o["squads"]
                             /\ s \in DOMAIN part["squads"] => part["squads"][s] = o["squads"][s]
    BY <2>1
  <2>3. Affected(part, m, K) = Affected(o, m, K)
    <3> HIDE DEF K
    <3> QED
      BY <2>2, SameAffected
  <2> QED
    BY <2>3
<1>8. others \intersect K = {} /\ others \subseteq Squads /\ K \union Affected(o, m, {}) = K \union others
  <2>1. /\ Affected(o, m, K) \subseteq DOMAIN o.squads /\ Affected(o, m, K) \intersect K = {}
        /\ K \union Affected(o, m, {}) = K \union Affected(o, m, K)
    BY AffectedSquads
  <2>2. DOMAIN o["squads"] \subseteq Squads
    <3>1. DOMAIN o["squads"] = DOMAIN d.squads \union DOMAIN db["squads"]
      <4>1. PICK u : u = db["squads"]
        OBVIOUS
      <4>2. PICK v : v = d.squads
        OBVIOUS
      <4>3. o["squads"] = Laid(v, u)
        BY <1>6, <4>1, <4>2
      <4>4. DOMAIN Laid(v, u) = DOMAIN v \union DOMAIN u
        BY DEF Laid
      <4> QED
        BY <4>1, <4>2, <4>3, <4>4
    <3>2. DOMAIN db["squads"] \subseteq Squads /\ DOMAIN d.squads \subseteq Squads
      BY <1>2, MembersAreSquads DEF IsTable, Schema
    <3> QED
      BY <3>1, <3>2
  <2> QED
    BY <1>7, <2>1, <2>2
<1>9. Led(db, <<>>, db) /\ "agents" \in Tables \ {"squadVersions"}
  BY <1>4, LedNowhere DEF Tables
<1> HIDE DEF q, r, others
<1>10. Led(db, p, w)
  <2> HIDE DEF d
  <2> QED
    BY <1>2, <1>6, <1>9, ThenPut
<1>11. Led(db, p \o q, Recorded(o, K))
  <2>1. Maps(w)
    BY <1>6 DEF Rewritten
  <2>2. Led(w, q, Recorded([w EXCEPT !["squads"] = Laid(d.squads, @)], K))
    <3> HIDE DEF d
    <3> QED
      BY <1>2, <2>1, ThenImport DEF q
  <2>3. Led(w, q, Recorded(o, K))
    BY <1>6, <2>2
  <2> QED
    BY <1>10, <2>3, ThenMore
<1>12. Led(db, (p \o q) \o r, Recorded(Recorded(o, K), others))
  BY <1>8, <1>11, ThenRecorded DEF r
<1>13. Recorded(Recorded(o, K), others) = h
  <2>1. Maps(o) /\ K \intersect others = {}
    BY <1>6, <1>8 DEF Rewritten
  <2>2. Recorded(Recorded(o, K), others) = Recorded(o, K \union others)
    BY <2>1, RecordedApart
  <2> QED
    BY <1>8, <2>2
<1> QED
  BY <1>1, <1>3, <1>12, <1>13

\* A version is restored.
LEMMA RestoreLeads ==
  ASSUME Good(db), NEW op, op.kind = "restore", Admitted(op)
  PROVE  \/ Doomed(PlanOf(op).changes)
         \/ \E h : Makes(db, op, h) /\ Led(db, PlanOf(op).changes, h)
<1> DEFINE found == db.squadVersions[op.version]
           s == op.version[1]
           changed == {a \in DOMAIN found.members : a \notin DOMAIN db.agents \/ db.agents[a] # found.members[a]}
           o == Overlaid(db, found.members, Row(s, found.record))
           others == Affected(db, changed, {s})
           known == DOMAIN db.agents \union DOMAIN found.members
           p == Put("agents", found.members)
           put == Put("squads", Row(s, found.record))
           r1 == Record({s})
           r2 == Record(others)
           q == (put \o r1) \o r2
           h == Recorded(o, {s} \union Affected(o, changed, {s}))
<1>1. PlanOf(op).changes = p \o (IF ValidSquad(found.record, known) THEN q ELSE Throw)
  BY DEF PlanOf, RestorePlan, Plan
<1>2. op.version \in DOMAIN db.squadVersions
  BY DEF Admitted
<1>3. IsTable(found.members, Schema["agents"]) /\ found.record \in SquadRecordSet /\ s \in Squads
  <2>1. IsTable(db["squadVersions"], Schema["squadVersions"])
    BY TypedTables DEF Good, Tables
  <2>2. /\ Schema["squadVersions"].keys = Squads \X (Nat \ {0})
        /\ Schema["squadVersions"].rows = [record : SquadRecordSet, members : FiniteTables(Agents, Contents)]
        /\ Schema["agents"].keys = Agents /\ Schema["agents"].rows = Contents
    BY DEF Schema
  <2>3. found \in [record : SquadRecordSet, members : FiniteTables(Agents, Contents)] /\ s \in Squads
    BY <1>2, <2>1, <2>2 DEF IsTable
  <2>4. found.members \in FiniteTables(Schema["agents"].keys, Schema["agents"].rows)
    BY <2>2, <2>3
  <2> QED
    BY <2>3, <2>4, FiniteTable
<1>4. Maps(db)
  BY GoodMaps
<1>5. Led(db, <<>>, db) /\ "agents" \in Tables \ {"squadVersions"} /\ "squads" \in Tables \ {"squadVersions"}
  BY <1>4, LedNowhere DEF Tables
<1>6. IsTable(Row(s, found.record), Schema["squads"])
  <2>1. s \in Schema["squads"].keys /\ found.record \in Schema["squads"].rows
    BY <1>3 DEF Schema
  <2> QED
    BY <2>1, RowIsTable
<1>7. CASE ~ValidSquad(found.record, known)
  <2>1. PlanOf(op).changes = p \o Throw
    BY <1>1, <1>7
  <2>2. p \in Seq(Change)
    BY <1>3, <1>5, PutListed, TableNames
  <2>3. Throw \in Seq(Change) /\ Doomed(Throw)
    BY ThrowListed, ThrowDooms DEF Listed
  <2> HIDE DEF p
  <2>4. Doomed(p \o Throw)
    BY <2>2, <2>3, DoomedLater
  <2> QED
    BY <2>1, <2>4
<1>8. CASE ValidSquad(found.record, known)
  <2>1. PlanOf(op).changes = p \o q
    BY <1>1, <1>8
  <2>2. PICK w : /\ Rewritten(db, "agents", Laid(found.members, db["agents"]), w)
                 /\ Rewritten(w, "squads", Laid(Row(s, found.record), w["squads"]), o)
                 /\ w["squads"] = db["squads"] /\ o["agents"] = Laid(found.members, db["agents"])
                 /\ o["squads"] = Laid(Row(s, found.record), db["squads"])
    <3>1. PICK A, S, g : A = found.members /\ S = Row(s, found.record) /\ g = o /\ g = Overlaid(db, A, S)
      OBVIOUS
    <3> HIDE DEF o, found, s
    <3>2. PICK w : /\ Rewritten(db, "agents", Laid(A, db["agents"]), w)
                   /\ Rewritten(w, "squads", Laid(S, w["squads"]), g)
                   /\ g = [w EXCEPT !["squads"] = Laid(S, @)]
                   /\ w["squads"] = db["squads"] /\ g["agents"] = Laid(A, db["agents"])
                   /\ g["squads"] = Laid(S, db["squads"])
      BY <1>4, <3>1, OverlaidIs
    <3> QED
      BY <3>1, <3>2
  <2>3. Makes(db, op, h)
    <3>1. DOMAIN o["agents"] = known
      <4>1. PICK A, u : A = found.members /\ u = db["agents"] /\ o["agents"] = Laid(A, u)
        BY <2>2
      <4>2. DOMAIN Laid(A, u) = DOMAIN A \union DOMAIN u
        BY DEF Laid
      <4> QED
        BY <4>1, <4>2
    <3>2. ValidSquad(found.record, DOMAIN o.agents)
      BY <1>8, <3>1
    <3>3. MakesRestored(db, op, h)
      BY <1>2, <3>2 DEF MakesRestored
    <3> QED
      BY <3>3 DEF Makes
  <2>4. others = Affected(o, changed, {s})
    <3>1. \A x : x \notin {s} => /\ x \in DOMAIN db["squads"] <=> x \in DOMAIN o["squads"]
                                 /\ x \in DOMAIN db["squads"] => db["squads"][x] = o["squads"][x]
      <4>1. PICK v, u : v = found.record /\ u = db["squads"] /\ o["squads"] = Laid(Row(s, v), u)
        BY <2>2
      <4> HIDE DEF s
      <4>2. DOMAIN Laid(Row(s, v), u) = DOMAIN u \union {s}
        BY LaidDomain
      <4>3. \A x \in DOMAIN u : x # s => Laid(Row(s, v), u)[x] = u[x]
        BY LaidRow
      <4> QED
        BY <4>1, <4>2, <4>3
    <3> HIDE DEF o, changed, s
    <3>2. Affected(db, changed, {s}) = Affected(o, changed, {s})
      BY <3>1, SameAffected
    <3> QED
      BY <3>2
  <2>5. others \subseteq Squads /\ {s} \intersect others = {}
    <3>1. others \subseteq DOMAIN db.squads /\ others \intersect {s} = {}
      <4> HIDE DEF changed, s
      <4> QED
        BY AffectedSquads
    <3> QED
      BY <3>1, MembersAreSquads
  <2> HIDE DEF o, others, changed, s, found
  <2>6. Led(db, p, w)
    BY <1>3, <1>5, <2>2, ThenPut
  <2>7. Led(w, put, o)
    <3>1. Led(w, <<>>, w)
      BY <2>2, LedNowhere DEF Rewritten
    <3> QED
      BY <1>5, <1>6, <2>2, <3>1, ThenPut
  <2>8. Led(w, put \o r1, Recorded(o, {s}))
    BY <1>3, <2>7, ThenRecorded
  <2>9. Led(w, (put \o r1) \o r2, Recorded(Recorded(o, {s}), others))
    BY <2>5, <2>8, ThenRecorded
  <2>10. Recorded(Recorded(o, {s}), others) = Recorded(o, {s} \union others)
    <3>1. Maps(o)
      BY <2>2 DEF Rewritten
    <3> QED
      BY <2>5, <3>1, RecordedApart
  <2>11. Led(db, p \o q, Recorded(o, {s} \union others))
    BY <2>6, <2>9, <2>10, ThenMore
  <2> QED
    BY <2>1, <2>3, <2>4, <2>11
<1> QED
  BY <1>7, <1>8

\* Laying a table over one that was cleared.
LEMMA LaidOverNone ==
  ASSUME NEW v, IsMap(v), NEW u
  PROVE  Laid(v, Without(u, DOMAIN u)) = v
<1>1. DOMAIN Without(u, DOMAIN u) = {}
  BY DEF Without
<1>2. PICK w : w = Without(u, DOMAIN u)
  OBVIOUS
<1>3. Laid(v, w) = [k \in DOMAIN v |-> v[k]]
  BY <1>1, <1>2 DEF Laid
<1> QED
  BY <1>2, <1>3 DEF IsMap

\* What a replacing import drops from a table is what names the squads that go.
LEMMA DanglingGone ==
  ASSUME NEW g, Good(g), Closed(g), NEW K, NEW gone, gone = DOMAIN g.squads \ K
  PROVE  /\ \A t \in Pointers : PointingInto(g[t], gone) = {k \in DOMAIN g[t] : g[t][k] \notin K \union {NoSquad}}
         /\ {k \in DOMAIN g.squadVersions : k[1] \in gone} = {k \in DOMAIN g.squadVersions : k[1] \notin K}
<1>1. \A s \in DOMAIN g.squads : s # NoSquad
  BY PointersTyped, NamesAssumption DEF Good
<1>2. ASSUME NEW t \in Pointers
      PROVE  PointingInto(g[t], gone) = {k \in DOMAIN g[t] : g[t][k] \notin K \union {NoSquad}}
  <2>1. \A k \in DOMAIN g[t] : g[t][k] \in DOMAIN g.squads \union {NoSquad}
    BY DEF Closed, PointersClosed, Pointers
  <2>2. \A k \in DOMAIN g[t] : g[t][k] \in gone <=> g[t][k] \notin K \union {NoSquad}
    BY <1>1, <2>1
  <2> QED
    BY <2>2 DEF PointingInto
<1>3. \A k \in DOMAIN g.squadVersions : k[1] \in gone <=> k[1] \notin K
  BY DEF Closed, VersionsClosed
<1> QED
  BY <1>2, <1>3

\* The graph that a replacing import makes, before its squads are recorded.
Replaced(g, A, S, gone, z) ==
  /\ Maps(z) /\ z["agents"] = A /\ z["squads"] = S
  /\ \A t \in Pointers : z[t] = Without(g[t], PointingInto(g[t], gone))
  /\ z["squadVersions"] = Without(g["squadVersions"], {k \in DOMAIN g["squadVersions"] : k[1] \in gone})

\* Clearing and bringing in yields that graph.
LEMMA ReplacedIs ==
  ASSUME NEW g, Maps(g), NEW A, IsMap(A), NEW S, IsMap(S), NEW gone,
         NEW z, z = [WithoutSquads([g EXCEPT !.agents = A], gone) EXCEPT !.squads = S]
  PROVE  Replaced(g, A, S, gone, z)
<1>1. PICK w : w = [g EXCEPT !["agents"] = A]
  OBVIOUS
<1>2. Maps(w) /\ w["agents"] = A /\ \A t \in Tables : t # "agents" => w[t] = g[t]
  <2>1. Rewritten(g, "agents", A, w)
    BY <1>1, RewriteIs DEF Tables
  <2> QED
    BY <2>1 DEF Rewritten
<1>3. PICK c : c = WithoutSquads(w, gone)
  OBVIOUS
<1>4. SquadsGone(w, gone, c)
  BY <1>2, <1>3, WithoutSquadsIs
<1>5. z = [c EXCEPT !["squads"] = S]
  BY <1>1, <1>3
<1>6. Rewritten(c, "squads", S, z)
  BY <1>4, <1>5, RewriteIs DEF Tables, SquadsGone
<1>7. Maps(z) /\ z["squads"] = S /\ \A t \in Tables : t # "squads" => z[t] = c[t]
  BY <1>6 DEF Rewritten
<1>8. \A t \in Pointers : t \in Tables /\ t # "squads" /\ t # "agents"
  BY DEF Pointers, Tables
<1>9. {"agents", "squadVersions"} \subseteq Tables
  BY DEF Tables
<1>10. w["squadVersions"] = g["squadVersions"]
  BY <1>2, <1>9
<1>11. \A t \in Pointers : w[t] = g[t] /\ z[t] = c[t]
  BY <1>2, <1>7, <1>8
<1>12. \A t \in Pointers : z[t] = Without(g[t], PointingInto(g[t], gone))
  BY <1>4, <1>11 DEF SquadsGone
<1>13. z["agents"] = A /\ z["squadVersions"] = c["squadVersions"]
  BY <1>2, <1>4, <1>7, <1>9 DEF SquadsGone
<1> QED
  BY <1>4, <1>7, <1>10, <1>12, <1>13 DEF SquadsGone, Replaced

\* A document replaces everything.
LEMMA ReplaceLeads ==
  ASSUME Good(db), Closed(db), NEW op, op.kind = "replace", op.document \in DocumentSet, Admitted(op)
  PROVE  \E h : Makes(db, op, h) /\ Led(db, PlanOf(op).changes, h)
<1> DEFINE d == op.document
           K == DOMAIN d.squads
           gone == DOMAIN db.squads \ K
           Dangling(table) == {k \in DOMAIN table : table[k] \notin K \union {NoSquad}}
           k1 == DOMAIN db["agents"]
           k2 == DOMAIN db["squads"]
           k3 == Dangling(db["sessionModes"])
           k4 == Dangling(db["nextModes"])
           k5 == Dangling(db["projectDefaults"])
           k6 == {k \in DOMAIN db["squadVersions"] : k[1] \notin K}
           d1 == Delete("agents", k1)
           d2 == Delete("squads", k2)
           d3 == Delete("sessionModes", k3)
           d4 == Delete("nextModes", k4)
           d5 == Delete("projectDefaults", k5)
           d6 == Delete("squadVersions", k6)
           p == ((((d1 \o d2) \o d3) \o d4) \o d5) \o d6
           a == Put("agents", d.agents)
           q == ImportSquads(d)
           z == [WithoutSquads([db EXCEPT !.agents = d.agents], gone) EXCEPT !.squads = d.squads]
           h == Recorded(z, K)
<1>1. PlanOf(op).changes = (p \o a) \o q
  <2>1. PlanOf(op) = ReplacePlan(op)
    BY DEF PlanOf
  <2>2. ReplacePlan(op) = Plan(AllTables, (p \o a) \o q)
    BY Zenon DEF ReplacePlan
  <2> HIDE DEF p, a, q
  <2> QED
    BY <2>1, <2>2 DEF Plan
<1>2. IsTable(d.agents, Schema["agents"]) /\ IsTable(d.squads, Schema["squads"])
  BY DocumentTyped
<1>3. Makes(db, op, h)
  <2>1. ValidDocument(d, {})
    BY DEF Admitted
  <2>2. MakesReplaced(db, op, h)
    BY <2>1 DEF MakesReplaced
  <2> QED
    BY <2>2 DEF Makes
<1>4. Maps(db) /\ Led(db, <<>>, db)
  BY GoodMaps, LedNowhere
<1>5. {"agents", "squads", "sessionModes", "nextModes", "projectDefaults", "squadVersions"} \subseteq Tables
  BY DEF Tables
<1>6. /\ k1 \in SUBSET Keys /\ k2 \in SUBSET Keys /\ k3 \in SUBSET Keys
      /\ k4 \in SUBSET Keys /\ k5 \in SUBSET Keys /\ k6 \in SUBSET Keys
  <2>1. /\ k1 \subseteq DOMAIN db["agents"] /\ k2 \subseteq DOMAIN db["squads"]
        /\ k3 \subseteq DOMAIN db["sessionModes"] /\ k4 \subseteq DOMAIN db["nextModes"]
        /\ k5 \subseteq DOMAIN db["projectDefaults"] /\ k6 \subseteq DOMAIN db["squadVersions"]
    OBVIOUS
  <2> HIDE DEF k1, k2, k3, k4, k5, k6
  <2>2. \A t \in Tables : \A keys : keys \subseteq DOMAIN db[t] => keys \in SUBSET Keys
    BY ManyKeys DEF Good
  <2>3. k1 \in SUBSET Keys /\ k2 \in SUBSET Keys
    BY <1>5, <2>1, <2>2
  <2>4. k3 \in SUBSET Keys /\ k4 \in SUBSET Keys
    BY <1>5, <2>1, <2>2
  <2>5. k5 \in SUBSET Keys /\ k6 \in SUBSET Keys
    BY <1>5, <2>1, <2>2
  <2> QED
    BY <2>3, <2>4, <2>5
<1>7. IsMap(d.agents) /\ IsMap(d.squads)
  BY <1>2 DEF IsTable, IsMap
<1>8. /\ Maps(z) /\ z["agents"] = d.agents /\ z["squads"] = d.squads
      /\ z["sessionModes"] = Without(db["sessionModes"], k3) /\ z["nextModes"] = Without(db["nextModes"], k4)
      /\ z["projectDefaults"] = Without(db["projectDefaults"], k5)
      /\ z["squadVersions"] = Without(db["squadVersions"], k6)
  <2>1. /\ Maps(z) /\ z["agents"] = d.agents /\ z["squads"] = d.squads
        /\ \A t \in Pointers : z[t] = Without(db[t], PointingInto(db[t], gone))
        /\ z["squadVersions"] = Without(db["squadVersions"], {k \in DOMAIN db["squadVersions"] : k[1] \in gone})
    <3>1. PICK A, S : A = d.agents /\ S = d.squads
      OBVIOUS
    <3>2. z = [WithoutSquads([db EXCEPT !.agents = A], gone) EXCEPT !.squads = S] /\ IsMap(A) /\ IsMap(S)
      BY <1>7, <3>1
    <3> HIDE DEF gone, z, d
    <3>3. Replaced(db, A, S, gone, z)
      BY <1>4, <3>2, ReplacedIs
    <3> QED
      BY <3>1, <3>3 DEF Replaced
  <2>2. /\ \A t \in Pointers : PointingInto(db[t], gone) = Dangling(db[t])
        /\ {k \in DOMAIN db["squadVersions"] : k[1] \in gone} = k6
    <3> HIDE DEF K
    <3> QED
      BY DanglingGone
  <2>3. {"sessionModes", "nextModes", "projectDefaults"} \subseteq Pointers
    BY DEF Pointers
  <2> HIDE DEF z
  <2> QED
    BY <2>1, <2>2, <2>3
<1>a. k1 = DOMAIN db["agents"] /\ k2 = DOMAIN db["squads"]
  OBVIOUS
<1> HIDE DEF k1, k2, k3, k4, k5, k6, z, K, a, q
<1>9. PICK g1 : Rewritten(db, "agents", Without(db["agents"], k1), g1) /\ Led(db, d1, g1)
  <2>1. PICK g1 : Rewritten(db, "agents", Without(db["agents"], k1), g1)
    BY <1>4, <1>5, LaidMaps, RewriteExists
  <2> QED
    <3>1. Led(db, <<>> \o d1, g1) /\ Led(db, d1, g1)
      BY <1>4, <1>5, <1>6, <2>1, ThenDelete
    <3> QED
      BY <2>1, <3>1
<1> HIDE DEF d1
<1>10. PICK g2 : Rewritten(g1, "squads", Without(g1["squads"], k2), g2) /\ Led(db, d1 \o d2, g2)
  BY <1>5, <1>6, <1>9, ThenCleared
<1>11. PICK g3 : Rewritten(g2, "sessionModes", Without(g2["sessionModes"], k3), g3) /\ Led(db, (d1 \o d2) \o d3, g3)
  BY <1>5, <1>6, <1>10, ThenCleared
<1>12. PICK g4 : /\ Rewritten(g3, "nextModes", Without(g3["nextModes"], k4), g4)
                 /\ Led(db, ((d1 \o d2) \o d3) \o d4, g4)
  BY <1>5, <1>6, <1>11, ThenCleared
<1>13. PICK g5 : /\ Rewritten(g4, "projectDefaults", Without(g4["projectDefaults"], k5), g5)
                 /\ Led(db, (((d1 \o d2) \o d3) \o d4) \o d5, g5)
  BY <1>5, <1>6, <1>12, ThenCleared
<1>14. PICK g6 : Rewritten(g5, "squadVersions", Without(g5["squadVersions"], k6), g6) /\ Led(db, p, g6)
  BY <1>5, <1>6, <1>13, ThenCleared
<1> HIDE DEF p
<1>15. /\ g6["agents"] = Without(db["agents"], k1) /\ g6["squads"] = Without(db["squads"], k2)
       /\ g6["sessionModes"] = Without(db["sessionModes"], k3) /\ g6["nextModes"] = Without(db["nextModes"], k4)
       /\ g6["projectDefaults"] = Without(db["projectDefaults"], k5)
       /\ g6["squadVersions"] = Without(db["squadVersions"], k6)
  BY <1>5, <1>9, <1>10, <1>11, <1>12, <1>13, <1>14 DEF Rewritten
<1>16. Laid(d.agents, g6["agents"]) = d.agents /\ Laid(d.squads, g6["squads"]) = d.squads
  <2>1. PICK u, v : u = db["agents"] /\ v = db["squads"]
    OBVIOUS
  <2>2. Laid(d.agents, Without(u, DOMAIN u)) = d.agents /\ Laid(d.squads, Without(v, DOMAIN v)) = d.squads
    BY <1>7, LaidOverNone
  <2> QED
    BY <1>15, <1>a, <2>1, <2>2
<1>17. Maps(g6)
  BY <1>14 DEF Led
<1>18. PICK g7 : Rewritten(g6, "agents", Laid(d.agents, g6["agents"]), g7)
  BY <1>5, <1>17, LaidMaps, RewriteExists
<1>19. Led(db, p \o a, g7)
  <2>1. "agents" \in Tables \ {"squadVersions"}
    BY <1>5
  <2> HIDE DEF d
  <2> QED
    BY <1>2, <1>14, <1>18, <2>1, ThenPut DEF a
<1>20. PICK y : y = [g7 EXCEPT !["squads"] = Laid(d.squads, @)]
  OBVIOUS
<1>21. Led(db, (p \o a) \o q, Recorded(y, K))
  <2>1. Maps(g7)
    BY <1>18 DEF Rewritten
  <2>2. Led(g7, q, Recorded([g7 EXCEPT !["squads"] = Laid(d.squads, @)], K))
    <3> HIDE DEF d
    <3> QED
      BY <1>2, <2>1, ThenImport DEF q, K
  <2> QED
    BY <1>19, <1>20, <2>2, ThenMore
<1>22. y = z
  <2>1. Maps(g7) /\ g7["agents"] = d.agents /\ \A t \in Tables : t # "agents" => g7[t] = g6[t]
    BY <1>16, <1>18 DEF Rewritten
  <2>2. Laid(d.squads, g7["squads"]) = d.squads
    BY <1>5, <1>16, <2>1
  <2>3. y = [g7 EXCEPT !["squads"] = d.squads]
    BY <1>20, <2>2
  <2>4. Rewritten(g7, "squads", d.squads, y)
    <3> HIDE DEF d
    <3> QED
      BY <1>5, <1>7, <2>1, <2>3, RewriteIs
  <2>5. /\ Maps(y) /\ y["agents"] = d.agents /\ y["squads"] = d.squads
        /\ \A t \in Tables : t # "agents" /\ t # "squads" => y[t] = g6[t]
    BY <1>5, <2>1, <2>4 DEF Rewritten
  <2>6. /\ y["sessionModes"] = z["sessionModes"] /\ y["nextModes"] = z["nextModes"]
        /\ y["projectDefaults"] = z["projectDefaults"] /\ y["squadVersions"] = z["squadVersions"]
    BY <1>5, <1>8, <1>15, <2>5
  <2>7. \A t \in Tables : y[t] = z[t]
    BY <1>8, <2>5, <2>6 DEF Tables
  <2> QED
    BY <1>8, <2>5, <2>7, SameGraphs DEF Maps
<1> QED
  BY <1>1, <1>3, <1>21, <1>22

\* Every operation that runs is to throw, or to make of the tables what its action of
\* the abstract service makes of them.
LEMMA RunLeads ==
  ASSUME Good(db), Closed(db), NEW op \in Operation, Admitted(op), ~Vacuous(op)
  PROVE  \/ Doomed(PlanOf(op).changes)
         \/ \E h : Makes(db, op, h) /\ Led(db, PlanOf(op).changes, h)
<1>1. CASE op.kind \in {"createAgent", "updateAgent"}
  <2>1. op.agent \in Agents /\ op.content \in Contents
    BY <1>1, OperationCases
  <2> QED
    BY <1>1, <2>1, AgentLeads
<1>2. CASE op.kind = "deleteAgent"
  <2>1. op.agent \in DOMAIN db.agents
    BY <1>2 DEF Vacuous
  <2> QED
    BY <1>2, <2>1, DeleteAgentLeads DEF Closed
<1>3. CASE op.kind \in {"createSquad", "updateSquad"}
  <2>1. op.squad \in Squads /\ op.record \in SquadRecordSet
    BY <1>3, OperationCases
  <2> QED
    BY <1>3, <2>1, SquadLeads
<1>4. CASE op.kind \in {"addMember", "removeMember"}
  <2>1. op.squad \in Squads /\ op.agent \in Agents
    BY <1>4, OperationCases
  <2> QED
    BY <1>4, <2>1, MemberLeads
<1>5. CASE op.kind = "deleteSquad"
  <2>1. op.squad \in DOMAIN db.squads
    BY <1>5 DEF Vacuous
  <2> QED
    BY <1>5, <2>1, DeleteSquadLeads
<1>6. CASE op.kind = "point"
  BY <1>6, PointLeads
<1>7. CASE op.kind \in {"merge", "recipe"}
  <2>1. op.document \in DocumentSet
    BY <1>7, OperationCases
  <2> QED
    BY <1>7, <2>1, MergeLeads
<1>8. CASE op.kind = "replace"
  <2>1. op.document \in DocumentSet
    BY <1>8, OperationCases
  <2> QED
    BY <1>8, <2>1, ReplaceLeads
<1>9. CASE op.kind = "restore"
  BY <1>9, RestoreLeads
<1> QED
  BY <1>1, <1>2, <1>3, <1>4, <1>5, <1>6, <1>7, <1>8, <1>9, OperationCases

(***************************************************************************)
(* What an operation makes is a step of the abstract service.              *)
(***************************************************************************)
\* The helpers of the abstract service are those of the service.
LEMMA SameHelpers ==
  /\ \A v, w : Atomic!Laid(v, w) = Laid(v, w)
  /\ \A v, w : Atomic!Without(v, w) = Without(v, w)
  /\ \A k, v : Atomic!Row(k, v) = Row(k, v)
  /\ \A r, k : Atomic!ValidSquad(r, k) <=> ValidSquad(r, k)
  /\ \A r, a : Atomic!DropMember(r, a) = DropMember(r, a) /\ Atomic!AddTo(r, a) = AddTo(r, a)
  /\ \A g, a : Atomic!MembersOf(g, a) = MembersOf(g, a) /\ Atomic!Changed(g, a) = Changed(g, a)
  /\ \A g, m, x : Atomic!Affected(g, m, x) = Affected(g, m, x)
<1>1. \A v, w : Atomic!Laid(v, w) = Laid(v, w) /\ Atomic!Without(v, w) = Without(v, w) /\ Atomic!Row(v, w) = Row(v, w)
  BY DEF Atomic!Laid, Laid, Atomic!Without, Without, Atomic!Row, Row
<1>2. \A r, k : Atomic!ValidSquad(r, k) <=> ValidSquad(r, k)
  BY DEF Atomic!ValidSquad, ValidSquad
<1>3. \A r, a : Atomic!DropMember(r, a) = DropMember(r, a) /\ Atomic!AddTo(r, a) = AddTo(r, a)
  BY DEF Atomic!DropMember, DropMember, Atomic!AddTo, AddTo
<1>4. \A g, a : Atomic!MembersOf(g, a) = MembersOf(g, a) /\ Atomic!Changed(g, a) = Changed(g, a)
  BY DEF Atomic!MembersOf, MembersOf, Atomic!Changed, Changed
<1>5. \A g, m, x : Atomic!Affected(g, m, x) = Affected(g, m, x)
  BY DEF Atomic!Affected, Affected
<1> QED
  BY <1>1, <1>2, <1>3, <1>4, <1>5

\* Sets have the same cardinality there.
LEMMA SameCardinality == \A S : Atomic!Cardinality(S) = Cardinality(S)
  BY DEF Atomic!Cardinality, Cardinality

\* So are those that number, copy and prune versions,
LEMMA SameVersionHelpers ==
  /\ \A g, s : Atomic!Latest(g, s) = Latest(g, s) /\ Atomic!Snapshot(g, s) = Snapshot(g, s)
  /\ \A v, s : Atomic!Excess(v, s) = Excess(v, s)
<1>1. ASSUME NEW g, NEW s PROVE Atomic!Latest(g, s) = Latest(g, s)
  <2> DEFINE F(N) == IF N = {} THEN 0 ELSE CHOOSE n \in N : \A m \in N : m <= n
  <2>1. Atomic!VersionNumbers(g, s) = VersionNumbers(g, s)
    BY DEF Atomic!VersionNumbers, VersionNumbers
  <2>2. Atomic!Latest(g, s) = F(Atomic!VersionNumbers(g, s)) /\ Latest(g, s) = F(VersionNumbers(g, s))
    BY DEF Atomic!Latest, Latest
  <2> HIDE DEF F
  <2> QED
    BY <2>1, <2>2
<1>2. \A g, s : Atomic!Snapshot(g, s) = Snapshot(g, s)
  BY DEF Atomic!Snapshot, Snapshot
<1>3. \A v, s : Atomic!Excess(v, s) = Excess(v, s)
  BY SameCardinality DEF Atomic!Excess, Excess
<1> QED
  BY <1>1, <1>2, <1>3

\* the recording of versions,
LEMMA SameRecordings ==
  ASSUME NEW g, NEW x
  PROVE  Atomic!Recorded(g, x) = Recorded(g, x)
<1> DEFINE fresh1 == [k \in {<<s, Atomic!Latest(g, s) + 1>> : s \in x} |-> Atomic!Snapshot(g, k[1])]
           fresh2 == [k \in {<<s, Latest(g, s) + 1>> : s \in x} |-> Snapshot(g, k[1])]
           all1 == Atomic!Laid(fresh1, g.squadVersions)
           all2 == Laid(fresh2, g.squadVersions)
           out1 == UNION {Atomic!Excess(all1, s) : s \in x}
           out2 == UNION {Excess(all2, s) : s \in x}
<1>1. Atomic!Recorded(g, x) = [g EXCEPT !.squadVersions = Atomic!Without(all1, out1)]
  BY DEF Atomic!Recorded
<1>2. Recorded(g, x) = [g EXCEPT !.squadVersions = Without(all2, out2)]
  BY DEF Recorded
<1>3. fresh1 = fresh2
  BY SameVersionHelpers
<1> HIDE DEF fresh1, fresh2
<1>4. all1 = all2
  BY <1>3, SameHelpers
<1> HIDE DEF all1, all2
<1>5. out1 = out2
  BY <1>4, SameVersionHelpers
<1> HIDE DEF out1, out2
<1> QED
  BY <1>1, <1>2, <1>4, <1>5, SameHelpers

\* and what is made of graphs and documents.
LEMMA SameGraphHelpers ==
  /\ \A g, x : Atomic!Recorded(g, x) = Recorded(g, x)
  /\ \A g, x : Atomic!WithoutSquads(g, x) = WithoutSquads(g, x)
  /\ \A g, a, s : Atomic!Overlaid(g, a, s) = Overlaid(g, a, s)
  /\ \A d, k : Atomic!ValidDocument(d, k) <=> ValidDocument(d, k)
<1>1. \A g, x : Atomic!Recorded(g, x) = Recorded(g, x)
  BY SameRecordings
<1>2. \A g, x : Atomic!WithoutSquads(g, x) = WithoutSquads(g, x)
  BY DEF Atomic!WithoutSquads, WithoutSquads, Atomic!Without, Without, Atomic!PointingInto, PointingInto
<1>3. \A g, a, s : Atomic!Overlaid(g, a, s) = Overlaid(g, a, s)
  BY DEF Atomic!Overlaid, Overlaid, Atomic!Laid, Laid
<1>4. \A d, k : Atomic!ValidDocument(d, k) <=> ValidDocument(d, k)
  BY SameHelpers DEF Atomic!ValidDocument, ValidDocument
<1> QED
  BY <1>1, <1>2, <1>3, <1>4

\* Each operation is the action of its kind.
LEMMA AgentAtomic ==
  ASSUME NEW op \in Operation, MakesAgent(Committed, op, Committed') \/ MakesAway(Committed, op, Committed')
  PROVE  Atomic!AtomicNext
<1>2. CASE MakesAgent(Committed, op, Committed')
  <2>1. op.kind \in {"createAgent", "updateAgent"}
    BY <1>2 DEF MakesAgent
  <2>2. op.agent \in Agents /\ op.content \in Contents
    BY <2>1, OperationCases
  <2>3. Atomic!CreateAgent(op.agent, op.content) \/ Atomic!UpdateAgent(op.agent, op.content)
    BY <1>2, SameHelpers, SameGraphHelpers DEF MakesAgent, Atomic!CreateAgent, Atomic!UpdateAgent
  <2> QED
    BY <2>2, <2>3 DEF Atomic!AtomicNext
<1>3. CASE MakesAway(Committed, op, Committed')
  <2>1. op.kind = "deleteAgent"
    BY <1>3 DEF MakesAway
  <2>2. op.agent \in Agents
    BY <2>1, OperationCases
  <2>3. Atomic!DeleteAgent(op.agent)
    BY <1>3, SameHelpers, SameGraphHelpers DEF MakesAway, Atomic!DeleteAgent
  <2> QED
    BY <2>2, <2>3 DEF Atomic!AtomicNext
<1> QED
  BY <1>2, <1>3

\* A squad is put.
LEMMA SquadInAtomic ==
  ASSUME NEW s, NEW r, SquadIn(Committed, s, r, Committed')
  PROVE  Atomic!PutSquad(s, r)
  BY SameHelpers, SameGraphHelpers DEF SquadIn, Atomic!PutSquad

\* The operations on squads.
LEMMA SquadAtomic ==
  ASSUME NEW op \in Operations, MakesSquad(Committed, op, Committed')
  PROVE  Atomic!AtomicNext
<1>1. op \in Operation /\ (op.kind \in {"createSquad", "updateSquad"} => op.record \in SquadRecords)
  BY OperationsAssumption, ChoicesAssumption
<1>2. op.squad \in Squads /\ (op.kind \in {"addMember", "removeMember"} => op.agent \in Agents)
  <2>1. op.kind \in {"createSquad", "updateSquad", "addMember", "removeMember", "deleteSquad"}
    BY DEF MakesSquad
  <2> QED
    BY <1>1, <2>1, OperationCases
<1> DEFINE s == op.squad
           r == Committed.squads[s]
<1>3. CASE op.kind \in {"createSquad", "updateSquad"}
  <2>1. Atomic!CreateSquad(s, op.record) \/ Atomic!UpdateSquad(s, op.record)
    BY <1>3, SquadInAtomic DEF MakesSquad, Atomic!CreateSquad, Atomic!UpdateSquad
  <2> QED
    BY <1>1, <1>2, <1>3, <2>1 DEF Atomic!AtomicNext
<1>4. CASE op.kind = "addMember"
  <2>1. s \in DOMAIN Committed.squads /\ op.agent \notin r.members /\ SquadIn(Committed, s, AddTo(r, op.agent), Committed')
    BY <1>4 DEF MakesSquad
  <2>2. Atomic!PutSquad(s, Atomic!AddTo(r, op.agent))
    BY <2>1, SquadInAtomic, SameHelpers
  <2>3. Atomic!AddMember(s, op.agent)
    BY <2>1, <2>2 DEF Atomic!AddMember
  <2> QED
    BY <1>2, <1>4, <2>3 DEF Atomic!AtomicNext
<1>5. CASE op.kind = "removeMember"
  <2>1. s \in DOMAIN Committed.squads /\ op.agent \notin r.gate /\ SquadIn(Committed, s, DropMember(r, op.agent), Committed')
    BY <1>5 DEF MakesSquad
  <2>2. Atomic!PutSquad(s, Atomic!DropMember(r, op.agent))
    BY <2>1, SquadInAtomic, SameHelpers
  <2>3. Atomic!RemoveMember(s, op.agent)
    BY <2>1, <2>2 DEF Atomic!RemoveMember
  <2> QED
    BY <1>2, <1>5, <2>3 DEF Atomic!AtomicNext
<1>6. CASE op.kind = "deleteSquad"
  <2>1. s \in DOMAIN Committed.squads /\ Committed' = WithoutSquads(Committed, {s})
    BY <1>6 DEF MakesSquad
  <2>2. Atomic!DeleteSquad(s)
    BY <2>1, SameGraphHelpers DEF Atomic!DeleteSquad
  <2> QED
    BY <1>2, <2>2 DEF Atomic!AtomicNext
<1> QED
  BY <1>3, <1>4, <1>5, <1>6 DEF MakesSquad

\* Modes, one-shots and project defaults.
LEMMA PointAtomic ==
  ASSUME NEW op \in Operation, MakesPointer(Committed, op, Committed'), DOMAIN Committed.squads \subseteq Squads
  PROVE  Atomic!AtomicNext
<1> DEFINE t == op.table
           x == op.key
           s == op.squad
<1>1. op.kind = "point"
  BY DEF MakesPointer
<1>2. \/ t = "sessionModes" /\ x \in Sessions
      \/ t = "nextModes" /\ x \in Sessions
      \/ t = "projectDefaults" /\ x \in Projects
  BY <1>1, OperationCases
<1>3. CASE Committed' = [Committed EXCEPT ![t] = Without(@, {x})]
  <2>1. CASE t = "sessionModes" /\ x \in Sessions
    <3>1. Atomic!InheritSessionMode(x)
      BY <1>3, <2>1, SameHelpers DEF Atomic!InheritSessionMode
    <3> QED
      BY <2>1, <3>1 DEF Atomic!AtomicNext
  <2>2. CASE t = "nextModes" /\ x \in Sessions
    <3>1. Atomic!InheritNextMode(x)
      BY <1>3, <2>2, SameHelpers DEF Atomic!InheritNextMode
    <3> QED
      BY <2>2, <3>1 DEF Atomic!AtomicNext
  <2>3. CASE t = "projectDefaults" /\ x \in Projects
    <3>1. Atomic!ClearProjectDefault(x)
      BY <1>3, <2>3, SameHelpers DEF Atomic!ClearProjectDefault
    <3> QED
      BY <2>3, <3>1 DEF Atomic!AtomicNext
  <2> QED
    BY <1>2, <2>1, <2>2, <2>3
<1>4. CASE /\ s \in DOMAIN Committed.squads \union {NoSquad}
           /\ t = "projectDefaults" => s \in DOMAIN Committed.squads
           /\ Committed' = [Committed EXCEPT ![t] = Laid(Row(x, s), @)]
  <2>0. s \in Squads \union {NoSquad} /\ (t = "projectDefaults" => s \in Squads)
    BY <1>4
  <2>1. CASE t = "sessionModes" /\ x \in Sessions
    <3>1. Atomic!SetSessionMode(x, s)
      BY <1>4, <2>1, SameHelpers DEF Atomic!SetSessionMode
    <3> QED
      BY <2>0, <2>1, <3>1 DEF Atomic!AtomicNext
  <2>2. CASE t = "nextModes" /\ x \in Sessions
    <3>1. Atomic!SetNextMode(x, s)
      BY <1>4, <2>2, SameHelpers DEF Atomic!SetNextMode
    <3> QED
      BY <2>0, <2>2, <3>1 DEF Atomic!AtomicNext
  <2>3. CASE t = "projectDefaults" /\ x \in Projects
    <3>1. Atomic!SetProjectDefault(x, s)
      BY <1>4, <2>3, SameHelpers DEF Atomic!SetProjectDefault
    <3> QED
      BY <2>0, <2>3, <3>1 DEF Atomic!AtomicNext
  <2> QED
    BY <1>2, <2>1, <2>2, <2>3
<1> QED
  BY <1>3, <1>4 DEF MakesPointer

\* Imports and recipes.
LEMMA DocumentAtomic ==
  ASSUME NEW op \in Operations, MakesMerged(Committed, op, Committed') \/ MakesReplaced(Committed, op, Committed')
  PROVE  Atomic!AtomicNext
<1> DEFINE d == op.document
<1>1. d \in Documents
  BY ChoicesAssumption DEF MakesMerged, MakesReplaced
<1>2. CASE MakesMerged(Committed, op, Committed')
  <2>1. Atomic!MergeDocument(d)
    BY <1>2, SameHelpers, SameGraphHelpers DEF MakesMerged, Atomic!MergeDocument
  <2> QED
    BY <1>1, <2>1 DEF Atomic!AtomicNext
<1>3. CASE MakesReplaced(Committed, op, Committed')
  <2>1. Atomic!ReplaceWithDocument(d)
    BY <1>3, SameHelpers, SameGraphHelpers DEF MakesReplaced, Atomic!ReplaceWithDocument
  <2> QED
    BY <1>1, <2>1 DEF Atomic!AtomicNext
<1> QED
  BY <1>2, <1>3

\* The restore of a version.
LEMMA RestoreAtomic ==
  ASSUME NEW op \in Operation, MakesRestored(Committed, op, Committed')
  PROVE  Atomic!AtomicNext
<1> DEFINE k == op.version
<1>1. op.kind = "restore" /\ k \in DOMAIN Committed.squadVersions
  BY DEF MakesRestored
<1>2. k = <<k[1], k[2]>>
  <2>1. k \in Squads \X (Nat \ {0})
    BY <1>1, OperationCases
  <2> QED
    BY <2>1
<1>3. Atomic!RestoreVersion(k[1], k[2])
  <2>1. PICK s, n : k = <<s, n>> /\ s = k[1] /\ n = k[2]
    BY <1>2
  <2> QED
    BY <2>1, SameHelpers, SameGraphHelpers DEF MakesRestored, Atomic!RestoreVersion
<1> QED
  BY <1>1, <1>3 DEF Atomic!AtomicNext

\* All of them.
LEMMA MakesAtomic ==
  ASSUME NEW op \in Operations, Makes(Committed, op, Committed'), DOMAIN Committed.squads \subseteq Squads
  PROVE  Atomic!AtomicNext
<1>1. op \in Operation
  BY OperationsAssumption
<1>2. CASE MakesAgent(Committed, op, Committed') \/ MakesAway(Committed, op, Committed')
  BY <1>1, <1>2, AgentAtomic
<1>3. CASE MakesSquad(Committed, op, Committed')
  BY <1>3, SquadAtomic
<1>4. CASE MakesPointer(Committed, op, Committed')
  BY <1>1, <1>4, PointAtomic
<1>5. CASE MakesMerged(Committed, op, Committed') \/ MakesReplaced(Committed, op, Committed')
  BY <1>5, DocumentAtomic
<1>6. CASE MakesRestored(Committed, op, Committed')
  BY <1>1, <1>6, RestoreAtomic
<1> QED
  BY <1>2, <1>3, <1>4, <1>5, <1>6 DEF Makes

(***************************************************************************)
(* The operation in the section is on its way to what it makes.            *)
(***************************************************************************)
\* The calls that are left are to throw, or lead from the tables to what the operation
\* makes of the tables it started from.
Headed(g, t) == Doomed(t.changes) \/ \E h : Makes(t.before, t.op, h) /\ Leads(g, t.changes, h)

\* What callers ask for, and where their operation is headed.
Asked(calls, t) ==
  /\ \A c \in Clients : calls[c] # Idle => calls[c].op \in Operations
  /\ t # Free => t.op \in Operations
OnItsWay(g, t, dm) == dm = "none" /\ t.phase = "forward" => Headed(g, t)

\* An operation begins.
LEMMA HeadedRun ==
  ASSUME DataInv(db, tx, damage), tx = Free, NEW op \in Operations, Admitted(op) \/ Vacuous(op), Run(op)
  PROVE  OnItsWay(db, tx', damage) /\ (tx' # Free => tx'.op \in Operations)
<1>1. Free.phase # "forward"
  BY DEF Free
<1>2. CASE Vacuous(op) \/ PlanOf(op).changes = <<>>
  BY <1>1, <1>2 DEF Run, OnItsWay
<1>3. CASE ~(Vacuous(op) \/ PlanOf(op).changes = <<>>)
  <2> DEFINE captured == PlanOf(op).captured
             changes == PlanOf(op).changes
             t == [op |-> op, before |-> db, phase |-> "forward", aborted |-> FALSE, clearing |-> TRUE,
                   captured |-> captured, changes |-> changes]
  <2>1. tx' = t
    BY <1>3 DEF Run
  <2>2. ASSUME damage = "none"
        PROVE  Doomed(changes) \/ \E h : Makes(db, op, h) /\ Leads(db, changes, h)
    <3>1. Good(db) /\ Closed(db) /\ op \in Operation /\ Admitted(op) /\ ~Vacuous(op)
      BY <1>3, <2>2, OperationsAssumption DEF DataInv, References
    <3>2. Doomed(PlanOf(op).changes) \/ \E h : Makes(db, op, h) /\ Led(db, PlanOf(op).changes, h)
      BY <3>1, RunLeads
    <3> QED
      BY <3>2 DEF Led
  <2> HIDE DEF captured, changes
  <2>3. t.before = db /\ t.changes = changes /\ t.op = op
    OBVIOUS
  <2> HIDE DEF t
  <2>4. OnItsWay(db, t, damage)
    BY <2>2, <2>3 DEF OnItsWay, Headed
  <2> QED
    BY <2>1, <2>3, <2>4
<1> QED
  BY <1>2, <1>3

\* A storage call keeps to the way, and the last one arrives.
LEMMA HeadedCall ==
  ASSUME DataInv(db, tx, damage), damage = "none", OnItsWay(db, tx, damage), Forward, ~Blocked(Head(tx.changes)),
         NEW o \in Outcomes(Head(tx.changes)), NEW left, left = o.rest \o Tail(tx.changes)
  PROVE  Doomed(left) \/ \E h : Makes(tx.before, tx.op, h) /\ Leads(o.db, left, h)
<1> DEFINE cs == tx.changes
<1>1. Good(db) /\ cs \in Seq(Change) /\ cs # <<>> /\ RecordsHeld(db, cs)
  BY DEF DataInv, CallsLeft, Forward
<1>2. Head(cs) = cs[1]
  BY <1>1
<1>3. Headed(db, tx)
  BY DEF OnItsWay, Forward
<1> HIDE DEF cs
<1>4. ~Blocked(cs[1]) /\ o \in Outcomes(cs[1])
  BY <1>2 DEF cs
<1>5. left = o.rest \o Tail(cs)
  BY DEF cs
<1>6. CASE Doomed(cs)
  <2>1. PICK m : Moved(db, cs, o.db, left, m)
    BY CallMade DEF cs
  <2> QED
    BY <1>4, <1>6, <2>1, DoomedKept
<1>7. CASE \E h : Makes(tx.before, tx.op, h) /\ Leads(db, cs, h)
  <2>1. PICK h : Makes(tx.before, tx.op, h) /\ Leads(db, cs, h)
    BY <1>7
  <2>2. Leads(o.db, o.rest \o Tail(cs), h)
    BY <1>1, <1>4, <2>1, CallLeads
  <2> QED
    BY <1>5, <2>1, <2>2
<1> QED
  BY <1>3, <1>6, <1>7 DEF Headed, cs

\* What a storage call does to the transaction.
LEMMA StepTx ==
  ASSUME DataInv(db, tx, damage), Step
  PROVE  \E o \in Outcomes(Head(tx.changes)) : \E left :
           /\ left = o.rest \o Tail(tx.changes) /\ db' = o.db
           /\ \/ tx' # Free /\ tx'.phase = "rollback" /\ tx'.op = tx.op
              \/ left = <<>> /\ tx' = Free
              \/ tx' # Free /\ tx'.op = tx.op /\ tx'.before = tx.before /\ tx'.changes = left
<1>1. Forward
  BY DEF Step
<1>2. tx # Free /\ IsTx(tx) /\ tx.phase = "forward"
  BY <1>1, Phases DEF DataInv, Forward
<1>3. PICK o \in Outcomes(Head(tx.changes)) :
        /\ db' = o.db
        /\ CASE tx.aborted -> tx' = Compensate /\ UNCHANGED currentRevision
             [] ~tx.aborted /\ o.rest \o Tail(tx.changes) = <<>> -> tx' = Free /\ currentRevision' = currentRevision + 1
             [] OTHER -> tx' = [tx EXCEPT !.changes = o.rest \o Tail(tx.changes)] /\ UNCHANGED currentRevision
  BY DEF Step
<1>4. PICK left : left = o.rest \o Tail(tx.changes)
  OBVIOUS
<1>5. tx' = Compensate \/ (left = <<>> /\ tx' = Free) \/ tx' = [tx EXCEPT !.changes = left]
  BY <1>3, <1>4
<1>6. ASSUME NEW t, t = Compensate PROVE t # Free /\ t.phase = "rollback" /\ t.op = tx.op
  <2>1. t.phase = "rollback" /\ SameBut(t, tx, {"phase", "changes"})
    BY <1>2, <1>6, TxUpdates DEF Compensate
  <2> QED
    BY <2>1 DEF SameBut, TxFields, Free
<1>7. ASSUME NEW t, t = [tx EXCEPT !.changes = left]
      PROVE  t # Free /\ t.op = tx.op /\ t.before = tx.before /\ t.changes = left
  <2>1. SameBut(t, tx, {"changes"})
    BY <1>2, <1>7, TxUpdates
  <2>2. t.changes = left
    <3>1. "changes" \in DOMAIN tx
      BY <1>2 DEF IsTx
    <3> QED
      BY <1>7, <3>1
  <2> QED
    BY <1>2, <2>1, <2>2 DEF SameBut, TxFields, Free
<1>8. \/ tx' # Free /\ tx'.phase = "rollback" /\ tx'.op = tx.op
      \/ left = <<>> /\ tx' = Free
      \/ tx' # Free /\ tx'.op = tx.op /\ tx'.before = tx.before /\ tx'.changes = left
  BY <1>5, <1>6, <1>7
<1> QED
  BY <1>3, <1>4, <1>8

\* A storage call keeps an operation on its way.
LEMMA HeadedStep ==
  ASSUME DataInv(db, tx, damage), OnItsWay(db, tx, damage), Asked(call, tx), Step
  PROVE  OnItsWay(db', tx', damage') /\ (tx' # Free => tx'.op \in Operations)
<1>1. Forward /\ ~Blocked(Head(tx.changes)) /\ damage' = damage
  BY DEF Step
<1>2. tx # Free /\ tx.op \in Operations
  BY <1>1, Phases DEF DataInv, Forward, Asked
<1>3. PICK o \in Outcomes(Head(tx.changes)) : \E left :
        /\ left = o.rest \o Tail(tx.changes) /\ db' = o.db
        /\ \/ tx' # Free /\ tx'.phase = "rollback" /\ tx'.op = tx.op
           \/ left = <<>> /\ tx' = Free
           \/ tx' # Free /\ tx'.op = tx.op /\ tx'.before = tx.before /\ tx'.changes = left
  BY StepTx
<1>a. PICK left :
        /\ left = o.rest \o Tail(tx.changes) /\ db' = o.db
        /\ \/ tx' # Free /\ tx'.phase = "rollback" /\ tx'.op = tx.op
           \/ left = <<>> /\ tx' = Free
           \/ tx' # Free /\ tx'.op = tx.op /\ tx'.before = tx.before /\ tx'.changes = left
  BY <1>3
<1>4. Free.phase # "forward"
  BY DEF Free
<1>5. CASE tx' # Free /\ tx'.op = tx.op /\ tx'.before = tx.before /\ tx'.changes = left
  <2>1. damage = "none" => Doomed(left) \/ \E h : Makes(tx.before, tx.op, h) /\ Leads(o.db, left, h)
    BY <1>1, <1>a, HeadedCall
  <2> QED
    BY <1>1, <1>2, <1>a, <1>5, <2>1 DEF OnItsWay, Headed
<1> QED
  BY <1>2, <1>a, <1>4, <1>5 DEF OnItsWay

\* Nothing else puts an operation on its way, or off it.
LEMMA HeadedOther ==
  ASSUME DInv, OnItsWay(db, tx, damage), Asked(call, tx),
         AbortOperation \/ Refuse \/ StepFails \/ RestoreTable \/ RestoreFails \/ Crash
  PROVE  OnItsWay(db', tx', damage') /\ (tx' # Free => tx'.op \in Operations)
<1>1. DataInv(db, tx, damage) /\ Free.phase # "forward"
  BY DEF DInv, Free
<1>2. tx # Free => IsTx(tx) /\ tx.op \in Operations
  BY <1>1 DEF DataInv, TxTyped, Asked
<1>3. CASE AbortOperation
  <2>1. Forward /\ damage' = damage /\ tx' = [tx EXCEPT !.aborted = TRUE] /\ db' = db
    BY <1>3 DEF AbortOperation
  <2>2. tx # Free /\ tx.phase = "forward"
    BY <1>1, <2>1, Phases DEF DataInv, Forward
  <2>3. SameBut(tx', tx, {"aborted"})
    BY <1>2, <2>1, <2>2, TxUpdates
  <2>4. tx'.op = tx.op /\ tx'.before = tx.before /\ tx'.changes = tx.changes
    BY <2>3 DEF SameBut, TxFields
  <2> QED
    BY <1>2, <2>1, <2>2, <2>4 DEF OnItsWay, Headed
<1>4. CASE Refuse \/ StepFails
  <2>1. Forward /\ tx' = Compensate
    BY <1>4 DEF Refuse, StepFails
  <2>2. tx # Free
    BY <1>1, <2>1, Phases DEF DataInv, Forward
  <2>3. tx'.phase = "rollback" /\ SameBut(tx', tx, {"phase", "changes"})
    BY <1>2, <2>1, <2>2, TxUpdates DEF Compensate
  <2>4. tx'.op = tx.op
    BY <2>3 DEF SameBut, TxFields
  <2> QED
    BY <1>2, <2>2, <2>3, <2>4 DEF OnItsWay
<1>5. CASE RestoreTable \/ RestoreFails
  <2>1. Rollback
    BY <1>5 DEF RestoreTable, RestoreFails
  <2>2. tx # Free /\ tx.phase = "rollback" /\ IsTx(tx) /\ tx.op \in Operations
    BY <1>1, <1>2, <2>1, Phases DEF DataInv, Rollback
  <2>3. PICK front : tx' \in {tx, [tx EXCEPT !.clearing = FALSE], Free, [tx EXCEPT !.captured = front, !.clearing = TRUE]}
    BY <1>5 DEF RestoreTable, RestoreFails, NextTable
  <2>4. CASE tx' = [tx EXCEPT !.clearing = FALSE]
    <3>1. SameBut(tx', tx, {"clearing"})
      BY <2>2, <2>4, TxUpdates
    <3> QED
      BY <2>2, <3>1 DEF SameBut, TxFields, OnItsWay
  <2>5. CASE tx' = [tx EXCEPT !.captured = front, !.clearing = TRUE]
    <3>1. SameBut(tx', tx, {"captured", "clearing"})
      BY <2>2, <2>5, TxUpdates
    <3> QED
      BY <2>2, <3>1 DEF SameBut, TxFields, OnItsWay
  <2> QED
    BY <1>1, <2>2, <2>3, <2>4, <2>5 DEF OnItsWay
<1>6. CASE Crash
  BY <1>1, <1>6 DEF Crash, OnItsWay
<1> QED
  BY <1>3, <1>4, <1>5, <1>6

\* The invariant: where operations are headed, and what was asked for.
WayInv == OnItsWay(db, tx, damage) /\ Asked(call, tx)

\* What callers ask for remains what they may ask for.
LEMMA AskedKept ==
  ASSUME Asked(call, tx), tx' # Free => tx'.op \in Operations,
         \A c \in Clients : \/ call'[c] = call[c] \/ call'[c] = Idle
                            \/ call'[c].op \in Operations
  PROVE  Asked(call', tx')
<1>1. \A c \in Clients : call'[c] # Idle => call'[c].op \in Operations
  BY DEF Asked
<1> QED
  BY <1>1 DEF Asked

\* No step takes an operation off its way.
LEMMA WayInvKept ==
  ASSUME DInv, WayInv, [DefinitionsNext]_definitionsVars
  PROVE  WayInv'
<1>1. DataInv(db, tx, damage) /\ OnItsWay(db, tx, damage) /\ Asked(call, tx) /\ DOMAIN call = Clients
  BY DEF DInv, WayInv, CallsInv
<1>2. tx # Free => tx.op \in Operations
  BY <1>1 DEF Asked
<1>3. SUFFICES /\ OnItsWay(db', tx', damage') /\ (tx' # Free => tx'.op \in Operations)
               /\ \A c \in Clients : \/ call'[c] = call[c] \/ call'[c] = Idle
                                     \/ call'[c].op \in Operations
  BY <1>1, AskedKept DEF WayInv
<1>4. ASSUME NEW c \in Clients, NEW op \in Operations, NEW g, NEW rev, NEW proc,
             call' = [call EXCEPT ![c] = [stage |-> "previewed", op |-> op, revision |-> rev, process |-> proc, graph |-> g]]
               \/ call' = [call EXCEPT ![c] = [stage |-> "validating", op |-> op, revision |-> rev, process |-> proc,
                                               graph |-> g]]
      PROVE  \A d \in Clients : call'[d] = call[d] \/ call'[d] = Idle \/ call'[d].op \in Operations
  BY <1>1, <1>4
<1>5. ASSUME NEW c \in Clients, NEW op \in Operations, Preview(c, op) \/ Observe(c, op)
      PROVE  /\ OnItsWay(db', tx', damage') /\ (tx' # Free => tx'.op \in Operations)
             /\ \A d \in Clients : call'[d] = call[d] \/ call'[d] = Idle \/ call'[d].op \in Operations
  <2>1. db' = db /\ tx' = tx /\ damage' = damage
    BY <1>5 DEF Preview, PreviewImport, PreviewRecipe, PreviewRestore, Show, Observe
  <2>2. \A d \in Clients : call'[d] = call[d] \/ call'[d] = Idle \/ call'[d].op \in Operations
    BY <1>4, <1>5 DEF Preview, PreviewImport, PreviewRecipe, PreviewRestore, Show, Observe
  <2> QED
    BY <1>1, <1>2, <2>1, <2>2
<1>6. ASSUME NEW c \in Clients, NEW op \in Operations, Begin(c, op)
      PROVE  /\ OnItsWay(db', tx', damage') /\ (tx' # Free => tx'.op \in Operations)
             /\ call' = call
  <2>1. tx = Free /\ (Admitted(op) \/ Vacuous(op)) /\ Run(op) /\ db' = db /\ damage' = damage /\ call' = call
    BY <1>6 DEF Begin, MayAsk
  <2> QED
    BY <1>1, <2>1, HeadedRun
<1>7. ASSUME NEW c \in Clients, EnterSection(c)
      PROVE  /\ OnItsWay(db', tx', damage') /\ (tx' # Free => tx'.op \in Operations)
             /\ \A d \in Clients : call'[d] = call[d] \/ call'[d] = Idle
  <2>1. /\ tx = Free /\ call[c].stage = "validating" /\ db' = db /\ damage' = damage
        /\ (Admitted(call[c].op) /\ Run(call[c].op)) \/ tx' = tx
        /\ call' = [call EXCEPT ![c] = Idle]
    BY <1>7 DEF EnterSection
  <2>2. call[c].op \in Operations
    BY <1>1, <2>1 DEF Asked, Idle
  <2>3. OnItsWay(db', tx', damage') /\ (tx' # Free => tx'.op \in Operations)
    BY <1>1, <1>2, <2>1, <2>2, HeadedRun
  <2> QED
    BY <1>1, <2>1, <2>3
<1>8. ASSUME NEW c \in Clients, ConfirmPreview(c) \/ GiveUp(c)
      PROVE  /\ OnItsWay(db', tx', damage') /\ (tx' # Free => tx'.op \in Operations)
             /\ \A d \in Clients : call'[d] = call[d] \/ call'[d] = Idle \/ call'[d].op \in Operations
  <2>1. db' = db /\ tx' = tx /\ damage' = damage /\ call[c].stage \in {"previewed", "validating"}
        /\ (call' = [call EXCEPT ![c] = Idle] \/ call' = [call EXCEPT ![c] = [call[c] EXCEPT !.stage = "validating"]])
    BY <1>8 DEF ConfirmPreview, GiveUp
  <2>2. call[c].op \in Operations /\ CallOK(call[c], currentRevision, process, Committed, damage) /\ call[c] # Idle
    BY <1>1, <2>1 DEF Asked, Idle, DInv, CallsInv
  <2>3. PICK x : x = [call[c] EXCEPT !.stage = "validating"]
    OBVIOUS
  <2>4. x.op = call[c].op
    BY <2>2, <2>3 DEF CallOK, CallFields
  <2> QED
    BY <1>1, <1>2, <2>1, <2>2, <2>3, <2>4
<1>9. CASE Step
  <2>1. call' = call
    BY <1>9 DEF Step
  <2> QED
    BY <1>1, <1>9, <2>1, HeadedStep
<1>10. CASE AbortOperation \/ Refuse \/ StepFails \/ RestoreTable \/ RestoreFails \/ Crash
  <2>1. \A c \in Clients : call'[c] = call[c] \/ call'[c] = Idle
    BY <1>10 DEF AbortOperation, Refuse, StepFails, RestoreTable, RestoreFails, Crash
  <2> QED
    BY <1>1, <1>10, <2>1, HeadedOther
<1>11. CASE UNCHANGED definitionsVars
  BY <1>1, <1>2, <1>11 DEF definitionsVars
<1> QED
  BY <1>5, <1>6, <1>7, <1>8, <1>9, <1>10, <1>11 DEF DefinitionsNext

\* The invariant holds throughout.
LEMMA WayInvHolds == DefinitionsSpec => []WayInv
<1>1. DefinitionsInit => WayInv
  BY DEF DefinitionsInit, WayInv, OnItsWay, Asked, Free
<1>2. DInv /\ WayInv /\ [DefinitionsNext]_definitionsVars => WayInv'
  BY WayInvKept
<1> QED
  BY <1>1, <1>2, InvHolds, PTL DEF DefinitionsSpec

\* An operation that is not given up has made what it was to make.
LEMMA CommitMakes ==
  ASSUME DInv, WayInv, damage = "none", Step, Committed' # Committed
  PROVE  Atomic!AtomicNext
<1>1. DataInv(db, tx, damage) /\ OnItsWay(db, tx, damage) /\ Asked(call, tx)
  BY DEF DInv, WayInv
<1>2. tx' = Free
  BY <1>1, StepCommits
<1>3. Forward /\ ~Blocked(Head(tx.changes))
  BY DEF Step
<1>4. tx # Free /\ IsTx(tx) /\ tx.op \in Operations /\ Good(tx.before)
  BY <1>1, <1>3, Phases DEF DataInv, TxTyped, Forward, Asked
<1>5. Free.phase = "free"
  BY DEF Free
<1>6. PICK o \in Outcomes(Head(tx.changes)) : \E left :
        left = o.rest \o Tail(tx.changes) /\ db' = o.db /\ left = <<>>
  BY <1>1, <1>2, <1>5, StepTx
<1> DEFINE left == o.rest \o Tail(tx.changes)
<1>a. left = <<>> /\ db' = o.db
  BY <1>6
<1>7. Doomed(left) \/ \E h : Makes(tx.before, tx.op, h) /\ Leads(o.db, left, h)
  BY <1>1, <1>3, <1>6, HeadedCall
<1>8. ~Doomed(left)
  <2>1. left = <<>>
    BY <1>6
  <2>2. DOMAIN <<>> = {}
    OBVIOUS
  <2> QED
    BY <2>1, <2>2 DEF Doomed
<1>9. PICK h : Makes(tx.before, tx.op, h) /\ Leads(o.db, <<>>, h)
  BY <1>6, <1>7, <1>8
<1>10. h = o.db
  BY <1>9, LeadsNowhere
<1>11. Committed = tx.before /\ Committed' = db'
  BY <1>2, <1>4 DEF Committed
<1>12. Makes(Committed, tx.op, Committed')
  BY <1>6, <1>9, <1>10, <1>11
<1>13. DOMAIN Committed.squads \subseteq Squads
  BY <1>4, <1>11, MembersAreSquads
<1> QED
  BY <1>4, <1>12, <1>13, MakesAtomic

\* Every operation takes effect on all of its tables in one step or on none: until one
\* was cut short, what the others see of the service -- operations of many storage
\* calls, any of which fails or is followed by an abort, and compensations table by
\* table -- are steps of the abstract service.
THEOREM ServiceIsAtomic == DefinitionsSpec => ImplementsAtomicDefinitions
<1>1. DefinitionsInit => Atomic!AtomicInit
  BY DEF DefinitionsInit, Atomic!AtomicInit, Committed
<1>2. DInv /\ WayInv /\ [DefinitionsNext]_definitionsVars => [Atomic!AtomicNext \/ damage' # "none"]_Committed
  <2> SUFFICES ASSUME DInv, WayInv, [DefinitionsNext]_definitionsVars, Committed' # Committed, damage' = "none"
               PROVE  Atomic!AtomicNext
    OBVIOUS
  <2>1. Step
    BY OthersKeep
  <2>2. damage = "none"
    BY <2>1 DEF Step
  <2> QED
    BY <2>1, <2>2, CommitMakes
<1> QED
  BY <1>1, <1>2, InvHolds, WayInvHolds, PTL DEF DefinitionsSpec, ImplementsAtomicDefinitions

=============================================================================
