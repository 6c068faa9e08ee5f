-------------------------- MODULE DefinitionGraph --------------------------
(***************************************************************************)
(* The definition graph of src/src/tools/application/definition-service.ts: *)
(* six tables, what the service's helpers compute from them, and when they *)
(* hold together.  A table is a function from the keys it holds to their   *)
(* rows; member order, names, prompts and policies are left out.           *)
(***************************************************************************)
EXTENDS Naturals, FiniteSets

CONSTANTS
  Agents, Squads, Sessions, Projects,    \* the keys of the tables
  Contents,        \* what an agent record says besides its key
  NoSquad,         \* "disabled" in sessionModes, "solo" in nextModes
  NoAgent,         \* a squad without a leader
  SquadRecords,    \* the squad records a user may write
  Documents,       \* the definition documents and recipes a user may import
  KeepVersions,    \* config.versionMaxPerSquad; 0 keeps every version
  StartGraphs      \* what the tables may hold when the plugin starts

ASSUME NamesAssumption == NoSquad \notin Squads /\ NoAgent \notin Agents
ASSUME KeepAssumption == KeepVersions \in Nat

\* The rows of `over` laid over the table `under`.
Laid(over, under) ==
  [k \in DOMAIN over \union DOMAIN under |-> IF k \in DOMAIN over THEN over[k] ELSE under[k]]
Without(table, keys) == [k \in DOMAIN table \ keys |-> table[k]]
Row(key, value) == [k \in {key} |-> value]
PointingInto(table, squads) == {k \in DOMAIN table : table[k] \in squads}

SquadRecordSet == [members : SUBSET Agents, leader : Agents \union {NoAgent}, gate : SUBSET Agents]

\* validateSquadRecord: the gate is the pair of reviewer and repair owner.
ValidSquad(r, known) ==
  /\ r.members # {}
  /\ r.members \subseteq known
  /\ r.leader \in r.members \union {NoAgent}
  /\ r.gate \subseteq r.members
  /\ r.gate = {} \/ \E p, q \in r.gate : p # q

\* A document holds agents and squads; its squads may name agents already known.
ValidDocument(d, known) ==
  \A s \in DOMAIN d.squads : ValidSquad(d.squads[s], known \union DOMAIN d.agents)

DropMember(r, a) ==
  [members |-> r.members \ {a}, leader |-> IF r.leader = a THEN NoAgent ELSE r.leader, gate |-> r.gate]
AddTo(r, a) == [members |-> r.members \union {a}, leader |-> r.leader, gate |-> r.gate]

MembersOf(g, a) == {s \in DOMAIN g.squads : a \in g.squads[s].members}
\* The other squads of which an agent in `changed` is a member.
Affected(g, changed, excluded) ==
  {s \in DOMAIN g.squads \ excluded : g.squads[s].members \intersect changed # {}}

VersionNumbers(g, s) == {n \in {k[2] : k \in DOMAIN g.squadVersions} : <<s, n>> \in DOMAIN g.squadVersions}
Latest(g, s) ==
  IF VersionNumbers(g, s) = {} THEN 0
  ELSE CHOOSE n \in VersionNumbers(g, s) : \A m \in VersionNumbers(g, s) : m <= n

\* recordSquadVersion: the squad and a copy of every member.
Snapshot(g, s) ==
  [record |-> g.squads[s],
   members |-> [a \in g.squads[s].members \intersect DOMAIN g.agents |-> g.agents[a]]]

\* Versions beyond the newest KeepVersions of a squad.
Excess(versions, s) ==
  {k \in DOMAIN versions :
     /\ KeepVersions # 0
     /\ k[1] = s
     /\ Cardinality({n \in {j[2] : j \in DOMAIN versions} : <<s, n>> \in DOMAIN versions /\ n > k[2]})
          >= KeepVersions}

Recorded(g, squads) ==
  LET fresh == [k \in {<<s, Latest(g, s) + 1>> : s \in squads} |-> Snapshot(g, k[1])]
      all == Laid(fresh, g.squadVersions)
  IN [g EXCEPT !.squadVersions = Without(all, UNION {Excess(all, s) : s \in squads})]

\* Everything that names a squad of the set goes with it.
WithoutSquads(g, gone) ==
  [g EXCEPT !.squads = Without(@, gone),
            !.sessionModes = Without(@, PointingInto(@, gone)),
            !.nextModes = Without(@, PointingInto(@, gone)),
            !.projectDefaults = Without(@, PointingInto(@, gone)),
            !.squadVersions = Without(@, {k \in DOMAIN @ : k[1] \in gone})]

\* The agents a document overwrites with something else.
Changed(g, agents) == {a \in DOMAIN agents \intersect DOMAIN g.agents : g.agents[a] # agents[a]}

Overlaid(g, agents, squads) ==
  [g EXCEPT !.agents = Laid(agents, @), !.squads = Laid(squads, @)]

(***************************************************************************)
(* No dangling reference: squads name known members (leader and gate among *)
(* them), every mode, one-shot and project default names a squad, and every *)
(* version belongs to a squad and carries all of its members.              *)
(***************************************************************************)
SquadsClosed(g) == \A s \in DOMAIN g.squads : ValidSquad(g.squads[s], DOMAIN g.agents)
PointersClosed(g) ==
  /\ \A x \in DOMAIN g.sessionModes : g.sessionModes[x] \in DOMAIN g.squads \union {NoSquad}
  /\ \A x \in DOMAIN g.nextModes : g.nextModes[x] \in DOMAIN g.squads \union {NoSquad}
  /\ \A p \in DOMAIN g.projectDefaults : g.projectDefaults[p] \in DOMAIN g.squads
VersionsClosed(g) ==
  \A k \in DOMAIN g.squadVersions :
    /\ k[1] \in DOMAIN g.squads
    /\ ValidSquad(g.squadVersions[k].record, DOMAIN g.squadVersions[k].members)
Closed(g) == SquadsClosed(g) /\ PointersClosed(g) /\ VersionsClosed(g)

IsGraph(g) ==
  g = [agents |-> g.agents, squads |-> g.squads, sessionModes |-> g.sessionModes,
       nextModes |-> g.nextModes, projectDefaults |-> g.projectDefaults,
       squadVersions |-> g.squadVersions]

(***************************************************************************)
(* What a table may hold: finitely many rows of its type.                  *)
(***************************************************************************)
FiniteTables(keys, rows) == UNION {[held -> rows] : held \in {s \in SUBSET keys : IsFiniteSet(s)}}

Schema ==
  [agents          |-> [keys |-> Agents, rows |-> Contents],
   squads          |-> [keys |-> Squads, rows |-> SquadRecordSet],
   sessionModes    |-> [keys |-> Sessions, rows |-> Squads \union {NoSquad}],
   nextModes       |-> [keys |-> Sessions, rows |-> Squads \union {NoSquad}],
   projectDefaults |-> [keys |-> Projects, rows |-> Squads],
   squadVersions   |-> [keys |-> Squads \X (Nat \ {0}),
                        rows |-> [record : SquadRecordSet, members : FiniteTables(Agents, Contents)]]]

IsTable(t, type) ==
  IsFiniteSet(DOMAIN t) /\ DOMAIN t \subseteq type.keys /\ t \in [DOMAIN t -> type.rows]
Typed(g) == \A table \in DOMAIN Schema : IsTable(g[table], Schema[table])

ASSUME StartAssumption == \A g \in StartGraphs : IsGraph(g) /\ Typed(g) /\ Closed(g)

(***************************************************************************)
(* The newest version of a squad is the squad and its members as they are. *)
(***************************************************************************)
HistoryCurrent(g) ==
  \A s \in DOMAIN g.squads :
    Latest(g, s) # 0 => g.squadVersions[<<s, Latest(g, s)>>] = Snapshot(g, s)

\* The plugin starts without definitions, or with those of a process that left them right.
ASSUME HistoryAssumption == \A g \in StartGraphs : HistoryCurrent(g)
=============================================================================
