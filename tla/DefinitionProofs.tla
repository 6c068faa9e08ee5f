-------------------------- MODULE DefinitionProofs --------------------------
(***************************************************************************)
(* Proofs about the store of the definitions: the graph that every         *)
(* operation leaves behind (AtomicDefinitions), the storage calls and      *)
(* compensations that lead there (Definitions) and the lock that lets one  *)
(* operation in after the other (WriteCoordinator).  For any agents,       *)
(* squads, sessions and projects and any retention of versions, no         *)
(* sequence of operations leaves a dangling reference, nor does any        *)
(* storage call of one, any fault, abort or compensation; the history of   *)
(* the squads is right between operations; a confirmed preview is applied  *)
(* to the tables it showed; and for any calls the lock serves in ticket    *)
(* order, one at a time, with stable versioned reads, and simulates        *)
(* FifoLock.                                                               *)
(***************************************************************************)
EXTENDS AtomicDefinitions, Definitions, WriteCoordinator, FiniteSetTheorems, WellFoundedInduction, TLAPS

(***************************************************************************)
(* The graph of the definitions.                                           *)
(***************************************************************************)
\* An invariant of AtomicSpec: the tables exist, and no row of them dangles.
IInv == IsGraph(graph) /\ Closed(graph)

\* Knowing more agents does not make a squad invalid.
LEMMA ValidSquadMonotone ==
  ASSUME NEW r, NEW known, NEW more, known \subseteq more, ValidSquad(r, known)
  PROVE  ValidSquad(r, more)
  BY DEF ValidSquad

\* Recording versions of squads the graph holds keeps it closed: the fresh
\* versions carry all members, the pruned ones are not missed.
LEMMA RecordedClosed ==
  ASSUME NEW g, IsGraph(g), Closed(g), NEW squads, squads \subseteq DOMAIN g.squads
  PROVE  IsGraph(Recorded(g, squads)) /\ Closed(Recorded(g, squads))
<1> DEFINE fresh == [k \in {<<s, Latest(g, s) + 1>> : s \in squads} |-> Snapshot(g, k[1])]
           all == Laid(fresh, g.squadVersions)
           gone == UNION {Excess(all, s) : s \in squads}
           kept == Without(all, gone)
           r == Recorded(g, squads)
<1>1. r = [agents |-> g.agents, squads |-> g.squads, sessionModes |-> g.sessionModes,
           nextModes |-> g.nextModes, projectDefaults |-> g.projectDefaults, squadVersions |-> kept]
  <2>1. r = [g EXCEPT !.squadVersions = kept]
    BY DEF Recorded
  <2> QED
    BY <2>1 DEF IsGraph
<1>2. ASSUME NEW s \in squads
      PROVE  ValidSquad(Snapshot(g, s).record, DOMAIN Snapshot(g, s).members)
  <2>1. ValidSquad(g.squads[s], DOMAIN g.agents)
    BY DEF Closed, SquadsClosed
  <2>2. g.squads[s].members \intersect DOMAIN g.agents = g.squads[s].members
    BY <2>1 DEF ValidSquad
  <2>3. /\ Snapshot(g, s).record = g.squads[s]
        /\ DOMAIN Snapshot(g, s).members = g.squads[s].members
    BY <2>2 DEF Snapshot
  <2> QED
    BY <2>1, <2>3 DEF ValidSquad
<1>a. /\ DOMAIN kept \subseteq DOMAIN all
      /\ \A k \in DOMAIN kept : kept[k] = all[k]
  <2> HIDE DEF all, gone
  <2> QED
    BY DEF Without
<1>b. /\ DOMAIN all = DOMAIN fresh \union DOMAIN g.squadVersions
      /\ \A k \in DOMAIN fresh : all[k] = fresh[k]
      /\ \A k \in DOMAIN g.squadVersions \ DOMAIN fresh : all[k] = g.squadVersions[k]
  <2> HIDE DEF fresh
  <2> QED
    BY DEF Laid
<1> HIDE DEF all, kept
<1>3. ASSUME NEW k \in DOMAIN kept
      PROVE  k[1] \in DOMAIN g.squads /\ ValidSquad(kept[k].record, DOMAIN kept[k].members)
  <2>1. k \in DOMAIN all /\ kept[k] = all[k]
    BY <1>a
  <2>2. CASE k \in DOMAIN fresh
    <3>1. PICK s \in squads : k = <<s, Latest(g, s) + 1>>
      BY <2>2
    <3>2. k[1] = s
      BY <3>1
    <3>3. all[k] = Snapshot(g, s)
      <4>1. all[k] = fresh[k]
        BY <2>2, <1>b
      <4>2. fresh[k] = Snapshot(g, k[1])
        BY <2>2
      <4> QED
        BY <4>1, <4>2, <3>2
    <3> QED
      BY <3>2, <3>3, <2>1, <1>2
  <2>3. CASE k \notin DOMAIN fresh
    <3>1. k \in DOMAIN g.squadVersions /\ all[k] = g.squadVersions[k]
      BY <2>1, <2>3, <1>b
    <3> QED
      BY <3>1, <2>1 DEF Closed, VersionsClosed
  <2> QED
    BY <2>2, <2>3
<1> HIDE DEF gone, fresh, r
<1>4. IsGraph(r)
  BY <1>1 DEF IsGraph
<1>5. SquadsClosed(r) /\ PointersClosed(r)
  BY <1>1 DEF Closed, SquadsClosed, PointersClosed
<1>6. VersionsClosed(r)
  BY <1>1, <1>3 DEF VersionsClosed
<1> QED
  BY <1>4, <1>5, <1>6 DEF Closed, r

\* Replacing one table and leaving the others.
LEMMA PutAgents ==
  ASSUME NEW g, IsGraph(g), Closed(g), NEW table, DOMAIN g.agents \subseteq DOMAIN table
  PROVE  /\ IsGraph([g EXCEPT !.agents = table])
         /\ Closed([g EXCEPT !.agents = table])
         /\ [g EXCEPT !.agents = table].agents = table
         /\ [g EXCEPT !.agents = table].squads = g.squads
<1> DEFINE h == [g EXCEPT !.agents = table]
<1>1. h = [agents |-> table, squads |-> g.squads, sessionModes |-> g.sessionModes,
           nextModes |-> g.nextModes, projectDefaults |-> g.projectDefaults,
           squadVersions |-> g.squadVersions]
  BY DEF IsGraph
<1> HIDE DEF h
<1>2. SquadsClosed(h)
  BY <1>1, ValidSquadMonotone DEF Closed, SquadsClosed
<1>3. PointersClosed(h) /\ VersionsClosed(h)
  BY <1>1 DEF Closed, PointersClosed, VersionsClosed
<1> QED
  BY <1>1, <1>2, <1>3 DEF h, IsGraph, Closed

LEMMA PutSquads ==
  ASSUME NEW g, IsGraph(g), Closed(g), NEW table, DOMAIN g.squads \subseteq DOMAIN table,
         \A s \in DOMAIN table : ValidSquad(table[s], DOMAIN g.agents)
  PROVE  /\ IsGraph([g EXCEPT !.squads = table])
         /\ Closed([g EXCEPT !.squads = table])
         /\ [g EXCEPT !.squads = table].squads = table
<1> DEFINE h == [g EXCEPT !.squads = table]
<1>1. h = [agents |-> g.agents, squads |-> table, sessionModes |-> g.sessionModes,
           nextModes |-> g.nextModes, projectDefaults |-> g.projectDefaults,
           squadVersions |-> g.squadVersions]
  BY DEF IsGraph
<1> HIDE DEF h
<1>2. SquadsClosed(h)
  BY <1>1 DEF SquadsClosed
<1>3. PointersClosed(h) /\ VersionsClosed(h)
  BY <1>1 DEF Closed, PointersClosed, VersionsClosed
<1> QED
  BY <1>1, <1>2, <1>3 DEF h, IsGraph, Closed

LEMMA UpdateAgentClosed ==
  ASSUME IInv, NEW a \in Agents, NEW c \in Contents, CreateAgent(a, c) \/ UpdateAgent(a, c)
  PROVE  IInv'
<1> DEFINE table == Laid(Row(a, c), graph.agents)
           g == [graph EXCEPT !.agents = table]
<1>1. DOMAIN graph.agents \subseteq DOMAIN table
  BY DEF Laid
<1> HIDE DEF table
<1>2. IsGraph(g) /\ Closed(g) /\ g.squads = graph.squads
  BY <1>1, PutAgents DEF IInv
<1>3. MembersOf(graph, a) \subseteq DOMAIN g.squads
  BY <1>2 DEF MembersOf
<1>4. graph' = g \/ graph' = Recorded(g, MembersOf(graph, a))
  BY DEF CreateAgent, UpdateAgent, table
<1> HIDE DEF g
<1>5. IsGraph(Recorded(g, MembersOf(graph, a))) /\ Closed(Recorded(g, MembersOf(graph, a)))
  BY <1>2, <1>3, RecordedClosed
<1> QED
  BY <1>2, <1>4, <1>5 DEF IInv

\* A squad that loses an agent that is neither its last member nor in its gate.
LEMMA DropMemberValid ==
  ASSUME NEW r, NEW known, NEW a \in Agents, ValidSquad(r, known), r.members # {a}, a \notin r.gate
  PROVE  ValidSquad(DropMember(r, a), known \ {a})
<1>1. /\ DropMember(r, a).members = r.members \ {a}
      /\ DropMember(r, a).leader = (IF r.leader = a THEN NoAgent ELSE r.leader)
      /\ DropMember(r, a).gate = r.gate
  BY DEF DropMember
<1>2. r.members \ {a} # {} /\ r.gate \subseteq r.members \ {a}
  BY DEF ValidSquad
<1> QED
  BY <1>1, <1>2 DEF ValidSquad

LEMMA DeleteAgentClosed ==
  ASSUME IInv, NEW a \in Agents, DeleteAgent(a)
  PROVE  IInv'
<1> DEFINE agents == Without(graph.agents, {a})
           squads == [s \in DOMAIN graph.squads |-> DropMember(graph.squads[s], a)]
           g == [graph EXCEPT !.agents = agents, !.squads = squads]
<1>1. DOMAIN agents = DOMAIN graph.agents \ {a}
  BY DEF Without
<1>2. ASSUME NEW s \in DOMAIN squads
      PROVE  ValidSquad(squads[s], DOMAIN agents)
  <2>1. ValidSquad(graph.squads[s], DOMAIN graph.agents)
    BY DEF IInv, Closed, SquadsClosed
  <2>2. graph.squads[s].members # {a} /\ a \notin graph.squads[s].gate
    BY <2>1 DEF DeleteAgent, MembersOf, ValidSquad
  <2>3. ValidSquad(DropMember(graph.squads[s], a), DOMAIN graph.agents \ {a})
    BY <2>1, <2>2, DropMemberValid
  <2> QED
    BY <2>3, <1>1
<1>3. DOMAIN squads = DOMAIN graph.squads
  OBVIOUS
<1>4. graph' = Recorded(g, MembersOf(graph, a))
  BY DEF DeleteAgent
<1> HIDE DEF agents, squads
<1>5. g = [agents |-> agents, squads |-> squads, sessionModes |-> graph.sessionModes,
           nextModes |-> graph.nextModes, projectDefaults |-> graph.projectDefaults,
           squadVersions |-> graph.squadVersions]
  <2> DEFINE h == [graph EXCEPT !.agents = agents]
  <2>1. h = [agents |-> agents, squads |-> graph.squads, sessionModes |-> graph.sessionModes,
             nextModes |-> graph.nextModes, projectDefaults |-> graph.projectDefaults,
             squadVersions |-> graph.squadVersions]
    BY DEF IInv, IsGraph
  <2>2. g = [h EXCEPT !.squads = squads]
    OBVIOUS
  <2> HIDE DEF h, g
  <2> QED
    BY <2>1, <2>2
<1> HIDE DEF g
<1>6. SquadsClosed(g)
  BY <1>2, <1>5 DEF SquadsClosed
<1>7. PointersClosed(g) /\ VersionsClosed(g) /\ IsGraph(g)
  BY <1>3, <1>5 DEF IInv, Closed, PointersClosed, VersionsClosed, IsGraph
<1>8. MembersOf(graph, a) \subseteq DOMAIN g.squads
  BY <1>3, <1>5 DEF MembersOf
<1> QED
  BY <1>4, <1>6, <1>7, <1>8, RecordedClosed DEF IInv, Closed

LEMMA PutSquadClosed ==
  ASSUME IInv, NEW s, NEW r, PutSquad(s, r)
  PROVE  IInv'
<1> DEFINE table == Laid(Row(s, r), graph.squads)
           g == [graph EXCEPT !.squads = table]
<1>1. DOMAIN table = {s} \union DOMAIN graph.squads
  BY DEF Laid, Row
<1>2. ASSUME NEW q \in DOMAIN table
      PROVE  ValidSquad(table[q], DOMAIN graph.agents)
  <2>1. CASE q = s
    BY <2>1 DEF PutSquad, Laid, Row
  <2>2. CASE q # s
    <3>1. q \in DOMAIN graph.squads /\ table[q] = graph.squads[q]
      BY <1>1, <2>2 DEF Laid, Row
    <3> QED
      BY <3>1 DEF IInv, Closed, SquadsClosed
  <2> QED
    BY <2>1, <2>2
<1>3. graph' = Recorded(g, {s})
  BY DEF PutSquad
<1> HIDE DEF table
<1>4. IsGraph(g) /\ Closed(g) /\ g.squads = table
  BY <1>1, <1>2, PutSquads DEF IInv
<1> HIDE DEF g
<1> QED
  BY <1>1, <1>3, <1>4, RecordedClosed DEF IInv

\* Removing squads with all that names them.
LEMMA WithoutSquadsClosed ==
  ASSUME NEW g, IsGraph(g), PointersClosed(g), VersionsClosed(g), NEW gone
  PROVE  /\ IsGraph(WithoutSquads(g, gone))
         /\ PointersClosed(WithoutSquads(g, gone))
         /\ VersionsClosed(WithoutSquads(g, gone))
         /\ WithoutSquads(g, gone).agents = g.agents
         /\ WithoutSquads(g, gone).squads = Without(g.squads, gone)
<1> DEFINE squads == Without(g.squads, gone)
           modes == Without(g.sessionModes, PointingInto(g.sessionModes, gone))
           nexts == Without(g.nextModes, PointingInto(g.nextModes, gone))
           defaults == Without(g.projectDefaults, PointingInto(g.projectDefaults, gone))
           versions == Without(g.squadVersions, {k \in DOMAIN g.squadVersions : k[1] \in gone})
           h == WithoutSquads(g, gone)
<1>1. h = [agents |-> g.agents, squads |-> squads, sessionModes |-> modes, nextModes |-> nexts,
           projectDefaults |-> defaults, squadVersions |-> versions]
  <2>1. h = [g EXCEPT !.squads = squads, !.sessionModes = modes, !.nextModes = nexts,
                      !.projectDefaults = defaults, !.squadVersions = versions]
    BY DEF WithoutSquads
  <2> HIDE DEF squads, modes, nexts, defaults, versions, h
  <2> QED
    BY <2>1 DEF IsGraph
<1>2. DOMAIN squads = DOMAIN g.squads \ gone
  BY DEF Without
<1>3. /\ \A x \in DOMAIN modes : modes[x] \in DOMAIN squads \union {NoSquad}
      /\ \A x \in DOMAIN nexts : nexts[x] \in DOMAIN squads \union {NoSquad}
      /\ \A x \in DOMAIN defaults : defaults[x] \in DOMAIN squads
  BY <1>2 DEF PointersClosed, PointingInto, Without
<1>4. \A k \in DOMAIN versions :
        k[1] \in DOMAIN squads /\ ValidSquad(versions[k].record, DOMAIN versions[k].members)
  BY <1>2 DEF VersionsClosed, Without
<1> HIDE DEF squads, modes, nexts, defaults, versions, h
<1>5. IsGraph(h) /\ PointersClosed(h) /\ VersionsClosed(h) /\ h.agents = g.agents /\ h.squads = squads
  BY <1>1, <1>3, <1>4 DEF IsGraph, PointersClosed, VersionsClosed
<1> QED
  BY <1>5 DEF h, squads

LEMMA DeleteSquadClosed ==
  ASSUME IInv, NEW s, DeleteSquad(s)
  PROVE  IInv'
<1> DEFINE h == WithoutSquads(graph, {s})
<1>1. /\ IsGraph(h) /\ PointersClosed(h) /\ VersionsClosed(h)
      /\ h.agents = graph.agents /\ h.squads = Without(graph.squads, {s})
  BY WithoutSquadsClosed DEF IInv, Closed
<1>2. graph' = h
  BY DEF DeleteSquad
<1> HIDE DEF h
<1>3. SquadsClosed(h)
  BY <1>1 DEF IInv, Closed, SquadsClosed, Without
<1> QED
  BY <1>1, <1>2, <1>3 DEF IInv, Closed

\* A row put into, or taken out of, a table whose rows are in a set.
LEMMA PointerTables ==
  ASSUME NEW t, NEW S, \A k \in DOMAIN t : t[k] \in S, NEW x, NEW s
  PROVE  /\ s \in S => \A k \in DOMAIN Laid(Row(x, s), t) : Laid(Row(x, s), t)[k] \in S
         /\ \A k \in DOMAIN Without(t, {x}) : Without(t, {x})[k] \in S
<1>1. ASSUME s \in S, NEW k \in DOMAIN Laid(Row(x, s), t)
      PROVE  Laid(Row(x, s), t)[k] \in S
  BY <1>1 DEF Laid, Row
<1>2. ASSUME NEW k \in DOMAIN Without(t, {x})
      PROVE  Without(t, {x})[k] \in S
  BY <1>2 DEF Without
<1> QED
  BY <1>1, <1>2

\* Modes, one-shots and project defaults.
LEMMA SessionModeClosed ==
  ASSUME IInv, NEW x, NEW s, SetSessionMode(x, s) \/ InheritSessionMode(x)
  PROVE  IInv'
<1>1. PICK t : /\ graph' = [graph EXCEPT !.sessionModes = t]
               /\ \A k \in DOMAIN t : t[k] \in DOMAIN graph.squads \union {NoSquad}
  <2>1. \A k \in DOMAIN graph.sessionModes : graph.sessionModes[k] \in DOMAIN graph.squads \union {NoSquad}
    BY DEF IInv, Closed, PointersClosed
  <2>2. CASE SetSessionMode(x, s)
    <3> DEFINE t == Laid(Row(x, s), graph.sessionModes)
    <3>1. graph' = [graph EXCEPT !.sessionModes = t] /\ s \in DOMAIN graph.squads \union {NoSquad}
      BY <2>2 DEF SetSessionMode
    <3>2. \A k \in DOMAIN t : t[k] \in DOMAIN graph.squads \union {NoSquad}
      BY <2>1, <3>1, PointerTables
    <3> HIDE DEF t
    <3> QED
      BY <3>1, <3>2
  <2>3. CASE InheritSessionMode(x)
    <3> DEFINE t == Without(graph.sessionModes, {x})
    <3>1. graph' = [graph EXCEPT !.sessionModes = t]
      BY <2>3 DEF InheritSessionMode
    <3>2. \A k \in DOMAIN t : t[k] \in DOMAIN graph.squads \union {NoSquad}
      BY <2>1, PointerTables
    <3> HIDE DEF t
    <3> QED
      BY <3>1, <3>2
  <2> QED
    BY <2>2, <2>3
<1>2. graph' = [agents |-> graph.agents, squads |-> graph.squads, sessionModes |-> t,
                nextModes |-> graph.nextModes, projectDefaults |-> graph.projectDefaults,
                squadVersions |-> graph.squadVersions]
  BY <1>1 DEF IInv, IsGraph
<1> QED
  BY <1>1, <1>2 DEF IInv, IsGraph, Closed, SquadsClosed, PointersClosed, VersionsClosed

LEMMA NextModeClosed ==
  ASSUME IInv, NEW x, NEW s, SetNextMode(x, s) \/ InheritNextMode(x)
  PROVE  IInv'
<1>1. PICK t : /\ graph' = [graph EXCEPT !.nextModes = t]
               /\ \A k \in DOMAIN t : t[k] \in DOMAIN graph.squads \union {NoSquad}
  <2>1. \A k \in DOMAIN graph.nextModes : graph.nextModes[k] \in DOMAIN graph.squads \union {NoSquad}
    BY DEF IInv, Closed, PointersClosed
  <2>2. CASE SetNextMode(x, s)
    <3> DEFINE t == Laid(Row(x, s), graph.nextModes)
    <3>1. graph' = [graph EXCEPT !.nextModes = t] /\ s \in DOMAIN graph.squads \union {NoSquad}
      BY <2>2 DEF SetNextMode
    <3>2. \A k \in DOMAIN t : t[k] \in DOMAIN graph.squads \union {NoSquad}
      BY <2>1, <3>1, PointerTables
    <3> HIDE DEF t
    <3> QED
      BY <3>1, <3>2
  <2>3. CASE InheritNextMode(x)
    <3> DEFINE t == Without(graph.nextModes, {x})
    <3>1. graph' = [graph EXCEPT !.nextModes = t]
      BY <2>3 DEF InheritNextMode
    <3>2. \A k \in DOMAIN t : t[k] \in DOMAIN graph.squads \union {NoSquad}
      BY <2>1, PointerTables
    <3> HIDE DEF t
    <3> QED
      BY <3>1, <3>2
  <2> QED
    BY <2>2, <2>3
<1>2. graph' = [agents |-> graph.agents, squads |-> graph.squads, sessionModes |-> graph.sessionModes,
                nextModes |-> t, projectDefaults |-> graph.projectDefaults,
                squadVersions |-> graph.squadVersions]
  BY <1>1 DEF IInv, IsGraph
<1> QED
  BY <1>1, <1>2 DEF IInv, IsGraph, Closed, SquadsClosed, PointersClosed, VersionsClosed

LEMMA ProjectDefaultClosed ==
  ASSUME IInv, NEW p, NEW s, SetProjectDefault(p, s) \/ ClearProjectDefault(p)
  PROVE  IInv'
<1>1. PICK t : /\ graph' = [graph EXCEPT !.projectDefaults = t]
               /\ \A k \in DOMAIN t : t[k] \in DOMAIN graph.squads
  <2>1. \A k \in DOMAIN graph.projectDefaults : graph.projectDefaults[k] \in DOMAIN graph.squads
    BY DEF IInv, Closed, PointersClosed
  <2>2. CASE SetProjectDefault(p, s)
    <3> DEFINE t == Laid(Row(p, s), graph.projectDefaults)
    <3>1. graph' = [graph EXCEPT !.projectDefaults = t] /\ s \in DOMAIN graph.squads
      BY <2>2 DEF SetProjectDefault
    <3>2. \A k \in DOMAIN t : t[k] \in DOMAIN graph.squads
      BY <2>1, <3>1, PointerTables
    <3> HIDE DEF t
    <3> QED
      BY <3>1, <3>2
  <2>3. CASE ClearProjectDefault(p)
    <3> DEFINE t == Without(graph.projectDefaults, {p})
    <3>1. graph' = [graph EXCEPT !.projectDefaults = t]
      BY <2>3 DEF ClearProjectDefault
    <3>2. \A k \in DOMAIN t : t[k] \in DOMAIN graph.squads
      BY <2>1, PointerTables
    <3> HIDE DEF t
    <3> QED
      BY <3>1, <3>2
  <2> QED
    BY <2>2, <2>3
<1>2. graph' = [agents |-> graph.agents, squads |-> graph.squads, sessionModes |-> graph.sessionModes,
                nextModes |-> graph.nextModes, projectDefaults |-> t,
                squadVersions |-> graph.squadVersions]
  BY <1>1 DEF IInv, IsGraph
<1> QED
  BY <1>1, <1>2 DEF IInv, IsGraph, Closed, SquadsClosed, PointersClosed, VersionsClosed

\* Laying agents and valid squads over a closed graph.
LEMMA OverlaidClosed ==
  ASSUME NEW g, IsGraph(g), Closed(g), NEW agents, NEW squads,
         \A s \in DOMAIN squads : ValidSquad(squads[s], DOMAIN g.agents \union DOMAIN agents)
  PROVE  /\ IsGraph(Overlaid(g, agents, squads))
         /\ Closed(Overlaid(g, agents, squads))
         /\ Overlaid(g, agents, squads).squads = Laid(squads, g.squads)
         /\ Overlaid(g, agents, squads).agents = Laid(agents, g.agents)
<1> DEFINE more == Laid(agents, g.agents)
           all == Laid(squads, g.squads)
           h == [g EXCEPT !.agents = more]
<1>1. DOMAIN more = DOMAIN g.agents \union DOMAIN agents
  BY DEF Laid
<1>2. DOMAIN g.squads \subseteq DOMAIN all
  BY DEF Laid
<1>3. ASSUME NEW s \in DOMAIN all
      PROVE  ValidSquad(all[s], DOMAIN more)
  <2>1. CASE s \in DOMAIN squads
    BY <2>1, <1>1 DEF Laid
  <2>2. CASE s \notin DOMAIN squads
    <3>1. s \in DOMAIN g.squads /\ all[s] = g.squads[s]
      BY <2>2 DEF Laid
    <3>2. ValidSquad(g.squads[s], DOMAIN g.agents)
      BY <3>1 DEF Closed, SquadsClosed
    <3> QED
      BY <3>1, <3>2, <1>1, ValidSquadMonotone
  <2> QED
    BY <2>1, <2>2
<1>4. Overlaid(g, agents, squads) = [h EXCEPT !.squads = all]
  BY DEF Overlaid
<1> HIDE DEF more, all
<1>5. IsGraph(h) /\ Closed(h) /\ h.agents = more /\ h.squads = g.squads
  BY <1>1, PutAgents
<1> HIDE DEF h
<1>6. /\ IsGraph([h EXCEPT !.squads = all]) /\ Closed([h EXCEPT !.squads = all])
      /\ [h EXCEPT !.squads = all].squads = all
  BY <1>2, <1>3, <1>5, PutSquads
<1>7. [h EXCEPT !.squads = all].agents = more
  BY <1>5 DEF IsGraph
<1> QED
  BY <1>4, <1>6, <1>7 DEF more, all

LEMMA MergeClosed ==
  ASSUME IInv, NEW d, MergeDocument(d)
  PROVE  IInv'
<1> DEFINE merged == Overlaid(graph, d.agents, d.squads)
           others == Affected(merged, Changed(graph, d.agents), {})
<1>1. \A s \in DOMAIN d.squads : ValidSquad(d.squads[s], DOMAIN graph.agents \union DOMAIN d.agents)
  BY DEF MergeDocument, ValidDocument
<1>2. IsGraph(merged) /\ Closed(merged) /\ merged.squads = Laid(d.squads, graph.squads)
  BY <1>1, OverlaidClosed DEF IInv
<1>3. graph' = Recorded(merged, DOMAIN d.squads \union others)
  BY DEF MergeDocument
<1>4. DOMAIN d.squads \union others \subseteq DOMAIN merged.squads
  BY <1>2 DEF Laid, Affected
<1> HIDE DEF merged, others
<1> QED
  BY <1>2, <1>3, <1>4, RecordedClosed DEF IInv

LEMMA RestoreClosed ==
  ASSUME IInv, NEW s, NEW n, RestoreVersion(s, n)
  PROVE  IInv'
<1> DEFINE found == graph.squadVersions[<<s, n>>]
           changed == {a \in DOMAIN found.members :
                         a \notin DOMAIN graph.agents \/ graph.agents[a] # found.members[a]}
           restored == Overlaid(graph, found.members, Row(s, found.record))
           others == Affected(restored, changed, {s})
<1>1. ValidSquad(found.record, DOMAIN found.members)
  BY DEF RestoreVersion, IInv, Closed, VersionsClosed
<1>2. graph' = Recorded(restored, {s} \union others)
  BY DEF RestoreVersion
<1> HIDE DEF found
<1>3. \A q \in DOMAIN Row(s, found.record) :
        ValidSquad(Row(s, found.record)[q], DOMAIN graph.agents \union DOMAIN found.members)
  BY <1>1, ValidSquadMonotone DEF Row
<1>4. /\ IsGraph(restored) /\ Closed(restored)
      /\ restored.squads = Laid(Row(s, found.record), graph.squads)
  BY <1>3, OverlaidClosed DEF IInv
<1>5. {s} \union others \subseteq DOMAIN restored.squads
  BY <1>4 DEF Laid, Row, Affected
<1> HIDE DEF restored, others
<1> QED
  BY <1>2, <1>4, <1>5, RecordedClosed DEF IInv

LEMMA ReplaceClosed ==
  ASSUME IInv, NEW d, ReplaceWithDocument(d)
  PROVE  IInv'
<1> DEFINE gone == DOMAIN graph.squads \ DOMAIN d.squads
           fresh == [graph EXCEPT !.agents = d.agents]
           cleared == WithoutSquads(fresh, gone)
           g == [cleared EXCEPT !.squads = d.squads]
<1>1. \A s \in DOMAIN d.squads : ValidSquad(d.squads[s], DOMAIN d.agents)
  BY DEF ReplaceWithDocument, ValidDocument
<1>2. graph' = Recorded(g, DOMAIN d.squads)
  BY DEF ReplaceWithDocument
<1>3. fresh = [agents |-> d.agents, squads |-> graph.squads, sessionModes |-> graph.sessionModes,
               nextModes |-> graph.nextModes, projectDefaults |-> graph.projectDefaults,
               squadVersions |-> graph.squadVersions]
  BY DEF IInv, IsGraph
<1> HIDE DEF fresh
<1>4. IsGraph(fresh) /\ PointersClosed(fresh) /\ VersionsClosed(fresh)
  BY <1>3 DEF IInv, Closed, IsGraph, PointersClosed, VersionsClosed
<1>5. /\ IsGraph(cleared) /\ PointersClosed(cleared) /\ VersionsClosed(cleared)
      /\ cleared.agents = d.agents /\ cleared.squads = Without(graph.squads, gone)
  BY <1>3, <1>4, WithoutSquadsClosed
<1>6. DOMAIN cleared.squads \subseteq DOMAIN d.squads
  BY <1>5 DEF Without
<1> HIDE DEF gone, cleared
<1>7. g = [agents |-> d.agents, squads |-> d.squads, sessionModes |-> cleared.sessionModes,
           nextModes |-> cleared.nextModes, projectDefaults |-> cleared.projectDefaults,
           squadVersions |-> cleared.squadVersions]
  BY <1>5 DEF IsGraph
<1> HIDE DEF g
<1>8. IsGraph(g) /\ Closed(g) /\ g.squads = d.squads
  BY <1>1, <1>5, <1>6, <1>7 DEF IsGraph, Closed, SquadsClosed, PointersClosed, VersionsClosed
<1> QED
  BY <1>2, <1>8, RecordedClosed DEF IInv

\* An agent joins or leaves a squad by putting the squad.
LEMMA SquadOperationClosed ==
  ASSUME IInv, NEW s, NEW r, NEW a,
         CreateSquad(s, r) \/ UpdateSquad(s, r) \/ AddMember(s, a) \/ RemoveMember(s, a)
  PROVE  IInv'
  BY PutSquadClosed DEF CreateSquad, UpdateSquad, AddMember, RemoveMember

LEMMA InitIInv == AtomicInit => IInv
  BY StartAssumption DEF AtomicInit, IInv

LEMMA NextIInv == IInv /\ [AtomicNext]_graph => IInv'
<1> SUFFICES ASSUME IInv, [AtomicNext]_graph
             PROVE  IInv'
  OBVIOUS
<1>1. CASE UNCHANGED graph
  BY <1>1 DEF IInv
<1>2. ASSUME NEW a \in Agents, NEW c \in Contents, CreateAgent(a, c) \/ UpdateAgent(a, c)
      PROVE  IInv'
  BY <1>2, UpdateAgentClosed
<1>3. ASSUME NEW a \in Agents, DeleteAgent(a)
      PROVE  IInv'
  BY <1>3, DeleteAgentClosed
<1>4. ASSUME NEW s \in Squads, NEW r \in SquadRecords, CreateSquad(s, r) \/ UpdateSquad(s, r)
      PROVE  IInv'
  BY <1>4, SquadOperationClosed
<1>5. ASSUME NEW s \in Squads, NEW a \in Agents, AddMember(s, a) \/ RemoveMember(s, a)
      PROVE  IInv'
  BY <1>5, SquadOperationClosed
<1>6. ASSUME NEW s \in Squads, DeleteSquad(s)
      PROVE  IInv'
  BY <1>6, DeleteSquadClosed
<1>7. ASSUME NEW x \in Sessions, NEW s \in Squads \union {NoSquad}, SetSessionMode(x, s) \/ SetNextMode(x, s)
      PROVE  IInv'
  BY <1>7, SessionModeClosed, NextModeClosed
<1>8. ASSUME NEW x \in Sessions, InheritSessionMode(x) \/ InheritNextMode(x)
      PROVE  IInv'
  BY <1>8, SessionModeClosed, NextModeClosed
<1>9. ASSUME NEW p \in Projects, NEW s \in Squads, SetProjectDefault(p, s)
      PROVE  IInv'
  BY <1>9, ProjectDefaultClosed
<1>10. ASSUME NEW p \in Projects, ClearProjectDefault(p)
       PROVE  IInv'
  BY <1>10, ProjectDefaultClosed
<1>11. ASSUME NEW d \in Documents, MergeDocument(d) \/ ReplaceWithDocument(d)
       PROVE  IInv'
  BY <1>11, MergeClosed, ReplaceClosed
<1>12. ASSUME NEW k \in DOMAIN graph.squadVersions, RestoreVersion(k[1], k[2])
       PROVE  IInv'
  BY <1>12, RestoreClosed
<1> QED
  BY <1>1, <1>2, <1>3, <1>4, <1>5, <1>6, <1>7, <1>8, <1>9, <1>10, <1>11, <1>12 DEF AtomicNext

\* No operation on definitions ever leaves a squad with an unknown member,
\* leader or gate owner, a mode, one-shot, project default or version of a
\* squad that is gone, or a version without all of its members.
THEOREM AtomicClosed == AtomicSpec => []Closed(graph)
<1>1. IInv => Closed(graph)
  BY DEF IInv
<1> QED
  BY <1>1, InitIInv, NextIInv, PTL DEF AtomicSpec

-----------------------------------------------------------------------------
(***************************************************************************)
(* The lock.                                                               *)
(***************************************************************************)
USE DEF Stages, Past, Live

(***************************************************************************)
(* The types of the variables hold at every state.                         *)
(***************************************************************************)
THEOREM TypeCorrect == Spec => []TypeOK
<1>1. Init => TypeOK
  BY DEF Init, TypeOK
<1>2. TypeOK /\ [Next]_vars => TypeOK'
  <2> SUFFICES ASSUME TypeOK, [Next]_vars PROVE TypeOK'
    OBVIOUS
  <2> USE DEF TypeOK
  <2>1. ASSUME NEW c \in Calls, Acquire(c) PROVE TypeOK'
    BY <2>1 DEF Acquire
  <2>2. ASSUME NEW c \in Calls, Resume(c) PROVE TypeOK'
    BY <2>2 DEF Resume
  <2>3. ASSUME NEW c \in Calls, Confirm(c) PROVE TypeOK'
    <3>1. ticket[c] \in Nat
      OBVIOUS
    <3>2. CASE c \in aborted
      BY <2>3, <3>1, <3>2 DEF Confirm
    <3>3. CASE c \notin aborted
      BY <2>3, <3>3 DEF Confirm
    <3> QED
      BY <3>2, <3>3
  <2>4. ASSUME NEW c \in Calls, Enter(c) PROVE TypeOK'
    <3>1. ticket[c] \in Nat
      OBVIOUS
    <3>2. CASE c \in aborted
      BY <2>4, <3>1, <3>2 DEF Enter
    <3>3. CASE c \notin aborted
      BY <2>4, <3>3 DEF Enter
    <3> QED
      BY <3>2, <3>3
  <2>5. ASSUME NEW c \in Calls, Succeed(c) PROVE TypeOK'
    <3>1. /\ ticket[c] \in Nat
          /\ revision' \in Nat
          /\ observed' \in [Calls -> Nat]
      BY <2>5 DEF Succeed
    <3> QED
      BY <2>5, <3>1 DEF Succeed
  <2>6. ASSUME NEW c \in Calls, Fail(c) PROVE TypeOK'
    BY <2>6 DEF Fail
  <2>7. ASSUME NEW c \in Calls, Abort(c) PROVE TypeOK'
    <3>1. /\ ticket[c] \in Nat
          /\ aborted' \in SUBSET Abortable
      BY <2>7 DEF Abort
    <3>2. CASE pc[c] = "queued"
      BY <2>7, <3>1, <3>2 DEF Abort
    <3>3. CASE pc[c] # "queued"
      BY <2>7, <3>1, <3>3 DEF Abort
    <3> QED
      BY <3>2, <3>3
  <2>8. ASSUME NEW t \in orphans, ReleaseOrphan(t) PROVE TypeOK'
    BY <2>8 DEF ReleaseOrphan
  <2>9. CASE UNCHANGED vars
    BY <2>9 DEF vars
  <2> QED
    BY <2>1, <2>2, <2>3, <2>4, <2>5, <2>6, <2>7, <2>8, <2>9
    DEF Next, Proceed, Quiescent
<1> QED
  BY <1>1, <1>2, PTL DEF Spec

(***************************************************************************)
(* The strengthening.  ReleasedInOrder speaks of the promise chain only;   *)
(* to conclude anything about calls the invariant must tie tickets to      *)
(* their owners: a live call's ticket is unresolved, nobody else's, and    *)
(* not already handed over to the orphan path.                             *)
(***************************************************************************)
TicketsBounded ==
  /\ released \subseteq 0..tail
  /\ orphans \subseteq 1..tail
  /\ \A c \in Calls : ticket[c] <= tail

TicketsUnique ==
  \A c, d \in Calls : ticket[c] # 0 /\ ticket[c] = ticket[d] => c = d

LiveUnreleased ==
  \A c \in Calls :
    /\ pc[c] = "new" => ticket[c] = 0
    /\ pc[c] \in Live => ticket[c] \notin released \union orphans \union {0}

OrphansUnreleased == orphans \intersect released = {}

PastPredecessor ==
  \A c \in Calls : pc[c] \in Past => ticket[c] - 1 \in released

ChainInv ==
  /\ TypeOK
  /\ TicketsBounded
  /\ TicketsUnique
  /\ LiveUnreleased
  /\ OrphansUnreleased
  /\ PastPredecessor
  /\ ReleasedInOrder

(***************************************************************************)
(* Resolving a ticket whose predecessor is resolved keeps the resolved     *)
(* tickets downward closed.                                                *)
(***************************************************************************)
LEMMA ReleaseNext ==
  ASSUME NEW S \in SUBSET Nat, NEW t \in Nat, t - 1 \in S,
         \A u \in S : \A s \in 0..u : s \in S
  PROVE  \A u \in S \union {t} : \A s \in 0..u : s \in S \union {t}
<1> SUFFICES ASSUME NEW s \in 0..t PROVE s \in S \union {t}
  OBVIOUS
<1>1. CASE s = t
  BY <1>1
<1>2. CASE s # t
  <2>1. s \in 0..(t - 1)
    BY <1>2
  <2> QED
    BY <2>1
<1> QED
  BY <1>1, <1>2

(***************************************************************************)
(* The chain invariant is inductive.                                       *)
(***************************************************************************)
THEOREM ChainCorrect == Spec => []ChainInv
<1>1. Init => ChainInv
  BY DEF Init, ChainInv, TypeOK, TicketsBounded, TicketsUnique, LiveUnreleased,
         OrphansUnreleased, PastPredecessor, ReleasedInOrder
<1>2. TypeOK' /\ ChainInv /\ [Next]_vars => ChainInv'
  <2> SUFFICES ASSUME TypeOK', ChainInv, [Next]_vars PROVE ChainInv'
    OBVIOUS
  <2> USE DEF ChainInv, TypeOK, TicketsBounded, TicketsUnique, LiveUnreleased,
              OrphansUnreleased, PastPredecessor
  <2>1. ASSUME NEW c \in Calls, Acquire(c) PROVE ChainInv'
    <3>1. CASE c \in aborted
      BY <2>1, <3>1 DEF Acquire, ReleasedInOrder
    <3>2. CASE c \notin aborted
      <4>1. /\ tail' = tail + 1 /\ released' = released /\ orphans' = orphans
            /\ ticket' = [ticket EXCEPT ![c] = tail + 1]
            /\ pc' = [pc EXCEPT ![c] = "queued"]
        BY <2>1, <3>2 DEF Acquire
      <4>2. TicketsBounded' /\ TicketsUnique' /\ OrphansUnreleased'
        BY <4>1
      <4>3. LiveUnreleased'
        BY <4>1, <2>1 DEF Acquire
      <4>4. PastPredecessor' /\ ReleasedInOrder'
        BY <4>1 DEF ReleasedInOrder
      <4> QED
        BY <4>2, <4>3, <4>4
    <3> QED
      BY <3>1, <3>2
  <2>2. ASSUME NEW c \in Calls, Resume(c) PROVE ChainInv'
    BY <2>2 DEF Resume, PredecessorDone, ReleasedInOrder
  <2>3. ASSUME NEW c \in Calls, Confirm(c) PROVE ChainInv'
    BY <2>3 DEF Confirm, ReleasedInOrder
  <2>4. ASSUME NEW c \in Calls, Enter(c) PROVE ChainInv'
    <3>1. CASE c \in aborted
      <4>1. /\ tail' = tail /\ orphans' = orphans /\ ticket' = ticket
            /\ released' = released \union {ticket[c]}
            /\ pc[c] = "holding" /\ pc' = [pc EXCEPT ![c] = "rejected"]
        BY <2>4, <3>1 DEF Enter
      <4>2. ReleasedInOrder'
        BY <4>1, ReleaseNext DEF ReleasedInOrder
      <4> QED
        BY <4>1, <4>2
    <3>2. CASE c \notin aborted
      BY <2>4, <3>2 DEF Enter, ReleasedInOrder
    <3> QED
      BY <3>1, <3>2
  <2>5. ASSUME NEW c \in Calls, Succeed(c) \/ Fail(c) PROVE ChainInv'
    <3>1. /\ tail' = tail /\ orphans' = orphans /\ ticket' = ticket
          /\ released' = released \union {ticket[c]}
          /\ pc[c] = "inside"
          /\ \/ pc' = [pc EXCEPT ![c] = "done"]
             \/ pc' = [pc EXCEPT ![c] = "rejected"]
      BY <2>5 DEF Succeed, Fail
    <3>2. ReleasedInOrder'
      BY <3>1, ReleaseNext DEF ReleasedInOrder
    <3> QED
      BY <3>1, <3>2
  <2>6. ASSUME NEW c \in Calls, Abort(c) PROVE ChainInv'
    BY <2>6 DEF Abort, ReleasedInOrder
  <2>7. ASSUME NEW t \in orphans, ReleaseOrphan(t) PROVE ChainInv'
    <3>1. /\ tail' = tail /\ ticket' = ticket /\ pc' = pc
          /\ released' = released \union {t} /\ orphans' = orphans \ {t}
          /\ t - 1 \in released
      BY <2>7 DEF ReleaseOrphan, PredecessorDone
    <3>2. ReleasedInOrder'
      BY <3>1, ReleaseNext DEF ReleasedInOrder
    <3> QED
      BY <3>1, <3>2
  <2>8. CASE UNCHANGED vars
    BY <2>8 DEF vars, ReleasedInOrder
  <2> QED
    BY <2>1, <2>2, <2>3, <2>4, <2>5, <2>6, <2>7, <2>8
    DEF Next, Proceed, Quiescent
<1> QED
  BY <1>1, <1>2, TypeCorrect, PTL DEF Spec

(***************************************************************************)
(* ServedInOrder and OneInside follow from the chain invariant: the        *)
(* predecessor of a ticket in use is resolved, hence every earlier ticket, *)
(* and a resolved ticket belongs to no live call.                          *)
(***************************************************************************)
LEMMA ChainGivesOrder == ChainInv => ServedInOrder
<1> SUFFICES ASSUME ChainInv, NEW c \in Calls, NEW d \in Calls,
                    pc[c] \in Past, ticket[d] # 0, ticket[d] < ticket[c]
             PROVE  pc[d] \in {"done", "rejected"}
  BY DEF ServedInOrder, ChainInv
<1> USE DEF ChainInv, TypeOK
<1>1. ticket[c] \in Nat /\ ticket[d] \in Nat /\ ticket[c] - 1 \in released
  BY DEF PastPredecessor
<1>2. ticket[d] \in 0..(ticket[c] - 1)
  BY <1>1
<1>3. ticket[d] \in released
  BY <1>1, <1>2 DEF ReleasedInOrder
<1> QED
  BY <1>3 DEF LiveUnreleased

LEMMA OrderGivesOne == ChainInv => OneInside
<1> SUFFICES ASSUME ChainInv, NEW c \in Calls, NEW d \in Calls,
                    pc[c] \in Past, pc[d] \in Past
             PROVE  c = d
  BY DEF OneInside
<1>1. /\ ticket[c] \in Nat \ {0} /\ ticket[d] \in Nat \ {0}
      /\ ticket[c] = ticket[d] => c = d
  BY DEF ChainInv, TypeOK, LiveUnreleased, TicketsUnique
<1>2. ~(ticket[d] < ticket[c]) /\ ~(ticket[c] < ticket[d])
  BY <1>1, ChainGivesOrder DEF ServedInOrder
<1> QED
  BY <1>1, <1>2

(***************************************************************************)
(* Tickets are served in the order they were issued, one call at a time.   *)
(***************************************************************************)
THEOREM FifoOrder == Spec => []ServedInOrder
  BY ChainCorrect, ChainGivesOrder, PTL

THEOREM MutualExclusion == Spec => []OneInside
  BY ChainCorrect, OrderGivesOne, PTL

\* No ticket resolves ahead of an earlier one.
THEOREM ChainNeverOvertaken == Spec => []ReleasedInOrder
<1>1. ChainInv => ReleasedInOrder
  BY DEF ChainInv
<1> QED
  BY <1>1, ChainCorrect, PTL

(***************************************************************************)
(* No transaction commits while a versioned read runs.                     *)
(***************************************************************************)
THEOREM StableReads == Spec => ReadsAreStable
<1>1. OneInside /\ [Next]_vars
        => [\A c \in Readers : pc[c] = "inside" => revision' = revision]_vars
  <2> SUFFICES ASSUME OneInside, [Next]_vars, NEW r \in Readers, pc[r] = "inside"
               PROVE  revision' = revision
    OBVIOUS
  <2>1. ASSUME NEW c \in Calls, Succeed(c) PROVE revision' = revision
    <3>1. c = r
      BY <2>1 DEF Succeed, OneInside, Calls
    <3> QED
      BY <2>1, <3>1, CallsAssumption DEF Succeed
  <2> QED
    BY <2>1 DEF Next, Proceed, Acquire, Resume, Confirm, Enter, Fail, Abort,
                ReleaseOrphan, Quiescent, vars
<1> QED
  BY <1>1, MutualExclusion, PTL DEF Spec, ReadsAreStable

(***************************************************************************)
(* The revision is the number of committed transactions.                   *)
(***************************************************************************)
Successful == {c \in Writers : pc[c] = "done"}

RevisionInv == TypeOK /\ IsFiniteSet(Successful) /\ RevisionCountsCommits

THEOREM RevisionExact == Spec => []RevisionCountsCommits
<1> USE DEF RevisionInv, RevisionCountsCommits, Successful
<1>1. Init => RevisionInv
  <2> SUFFICES ASSUME Init PROVE RevisionInv
    OBVIOUS
  <2>1. Successful = {}
    BY DEF Init, Calls
  <2> QED
    BY <2>1, FS_EmptySet DEF Init, TypeOK
<1>2. TypeOK' /\ RevisionInv /\ [Next]_vars => RevisionInv'
  <2> SUFFICES ASSUME TypeOK', RevisionInv, [Next]_vars PROVE RevisionInv'
    OBVIOUS
  <2>1. ASSUME NEW c \in Calls, Succeed(c) PROVE RevisionInv'
    <3>1. CASE c \in Writers
      <4>1. Successful' = Successful \union {c} /\ c \notin Successful
        BY <2>1, <3>1 DEF Succeed, TypeOK, Calls
      <4>2. revision' = revision + 1
        BY <2>1, <3>1 DEF Succeed
      <4> QED
        BY <4>1, <4>2, FS_AddElement
    <3>2. CASE c \notin Writers
      <4>1. Successful' = Successful
        BY <2>1, <3>2 DEF Succeed, TypeOK, Calls
      <4> QED
        BY <2>1, <3>2, <4>1 DEF Succeed
    <3> QED
      BY <3>1, <3>2
  <2>2. ASSUME Successful' = Successful, revision' = revision PROVE RevisionInv'
    BY <2>2
  <2>3. ASSUME NEW c \in Calls,
               Acquire(c) \/ Resume(c) \/ Confirm(c) \/ Enter(c) \/ Fail(c) \/ Abort(c)
        PROVE  RevisionInv'
    <3>1. Successful' = Successful /\ revision' = revision
      BY <2>3 DEF Acquire, Resume, Confirm, Enter, Fail, Abort, TypeOK, Calls
    <3> QED
      BY <3>1, <2>2
  <2>4. ASSUME NEW t \in orphans, ReleaseOrphan(t) PROVE RevisionInv'
    BY <2>4, <2>2 DEF ReleaseOrphan
  <2>5. CASE UNCHANGED vars
    BY <2>5, <2>2 DEF vars
  <2> QED
    BY <2>1, <2>3, <2>4, <2>5 DEF Next, Proceed, Quiescent
<1>3. RevisionInv => RevisionCountsCommits
  OBVIOUS
<1> QED
  BY <1>1, <1>2, <1>3, TypeCorrect, PTL DEF Spec

(***************************************************************************)
(* The promise chain implements FifoLock: Acquire joins the line, Enter    *)
(* serves its head, Succeed and Fail depart, the three rejections quit,    *)
(* and the microtask hops and orphan releases are invisible.               *)
(***************************************************************************)
THEOREM RefinesFifoLock == Spec => ImplementsFifoLock
<1> USE DEF Line, Serving
<1>1. Init => Lock!LockInit
  BY DEF Init, Lock!LockInit
<1>2. ChainInv /\ [Next]_vars => [Lock!LockNext]_(Lock!lockVars)
  <2> SUFFICES ASSUME ChainInv, [Next]_vars
               PROVE  Lock!LockNext \/ UNCHANGED Lock!lockVars
    OBVIOUS
  <2> USE DEF ChainInv, TypeOK
  <2>1. ASSUME NEW c \in Calls, Acquire(c)
        PROVE  Lock!LockNext \/ UNCHANGED Lock!lockVars
    <3>1. CASE c \in aborted
      BY <2>1, <3>1 DEF Acquire, Lock!lockVars
    <3>2. CASE c \notin aborted
      <4>1. ticket[c] = 0 /\ ticket' = [ticket EXCEPT ![c] = tail + 1]
        BY <2>1, <3>2 DEF Acquire, LiveUnreleased
      <4>2. ticket'[c] = tail + 1 /\ \A d \in Calls : ticket[d] < tail + 1
        BY <4>1 DEF TicketsBounded
      <4>3. Line' = Line \union {c} /\ Serving' = Serving
        BY <2>1, <3>2 DEF Acquire
      <4>4. Lock!Join(c)
        BY <4>1, <4>2, <4>3 DEF Lock!Join
      <4> QED
        BY <4>4 DEF Lock!LockNext
    <3> QED
      BY <3>1, <3>2
  <2>2. ASSUME NEW c \in Calls, Resume(c)
        PROVE  UNCHANGED Lock!lockVars
    BY <2>2 DEF Resume, Lock!lockVars
  <2>3. ASSUME NEW c \in Calls, Confirm(c)
        PROVE  Lock!LockNext \/ UNCHANGED Lock!lockVars
    BY <2>3 DEF Confirm, Lock!lockVars, Lock!LockNext, Lock!Quit
  <2>4. ASSUME NEW c \in Calls, Enter(c)
        PROVE  Lock!LockNext
    <3>1. CASE c \in aborted
      BY <2>4, <3>1 DEF Enter, Lock!LockNext, Lock!Quit
    <3>2. CASE c \notin aborted
      <4>1. pc[c] = "holding" /\ pc' = [pc EXCEPT ![c] = "inside"] /\ ticket' = ticket
        BY <2>4, <3>2 DEF Enter
      <4>2. Serving = {}
        BY <4>1, OrderGivesOne DEF OneInside
      <4>3. Serving' = {c} /\ Line' = Line /\ c \in Line
        BY <4>1, <4>2
      <4>4. \A d \in Line : ticket[c] <= ticket[d]
        BY <4>1, ChainGivesOrder DEF ServedInOrder, LiveUnreleased
      <4>5. Lock!Serve(c)
        BY <4>1, <4>2, <4>3, <4>4 DEF Lock!Serve
      <4> QED
        BY <4>5 DEF Lock!LockNext
    <3> QED
      BY <3>1, <3>2
  <2>5. ASSUME NEW c \in Calls, Succeed(c) \/ Fail(c)
        PROVE  Lock!LockNext
    <3>1. /\ pc[c] = "inside" /\ ticket' = ticket
          /\ \/ pc' = [pc EXCEPT ![c] = "done"]
             \/ pc' = [pc EXCEPT ![c] = "rejected"]
      BY <2>5 DEF Succeed, Fail
    <3>2. Serving = {c}
      BY <3>1, OrderGivesOne DEF OneInside
    <3>3. Serving' = {} /\ Line' = Line \ {c}
      BY <3>1, <3>2
    <3> QED
      BY <3>1, <3>2, <3>3 DEF Lock!LockNext, Lock!Depart
  <2>6. ASSUME NEW c \in Calls, Abort(c)
        PROVE  Lock!LockNext \/ UNCHANGED Lock!lockVars
    <3>1. CASE pc[c] = "queued"
      BY <2>6, <3>1 DEF Abort, Lock!LockNext, Lock!Quit
    <3>2. CASE pc[c] # "queued"
      BY <2>6, <3>2 DEF Abort, Lock!lockVars
    <3> QED
      BY <3>1, <3>2
  <2>7. ASSUME NEW t \in orphans, ReleaseOrphan(t)
        PROVE  UNCHANGED Lock!lockVars
    BY <2>7 DEF ReleaseOrphan, Lock!lockVars
  <2>8. CASE UNCHANGED vars
    BY <2>8 DEF vars, Lock!lockVars
  <2> QED
    BY <2>1, <2>2, <2>3, <2>4, <2>5, <2>6, <2>7, <2>8
    DEF Next, Proceed, Quiescent
<1> QED
  BY <1>1, <1>2, ChainCorrect, PTL DEF Spec, ImplementsFifoLock, Lock!LockSpec

(***************************************************************************)
(* The unit of work.  The invariant of the tables follows the calls that   *)
(* are left of an operation: each of them may be the next, so what its     *)
(* plan owes to its order (agents before the squads that name them,        *)
(* pointers gone before the squad they name) is stated of the list, and    *)
(* every storage call shortens the list and keeps it.  A compensation      *)
(* leads back to the snapshot, which is closed, table by table.            *)
(***************************************************************************)
\* The tables, and those whose rows point to a squad.
Tables == {"agents", "squads", "sessionModes", "nextModes", "projectDefaults", "squadVersions"}
Pointers == {"sessionModes", "nextModes", "projectDefaults"}

\* Every table has a type.
LEMMA SchemaTables == DOMAIN Schema = Tables
  BY DEF Schema, Tables

\* A function over the tables is a graph, and the other way round.
LEMMA FunGraph ==
  ASSUME NEW h, h = [t \in Tables |-> h[t]]
  PROVE  IsGraph(h)
<1> DEFINE r == [agents |-> h.agents, squads |-> h.squads, sessionModes |-> h.sessionModes,
                 nextModes |-> h.nextModes, projectDefaults |-> h.projectDefaults,
                 squadVersions |-> h.squadVersions]
<1>1. r = [t \in Tables |-> r[t]]
  BY DEF Tables
<1>2. \A t \in Tables : r[t] = h[t]
  BY DEF Tables
<1> HIDE DEF r
<1>3. r = h
  BY <1>1, <1>2
<1> QED
  BY <1>3 DEF IsGraph, r

LEMMA GraphFun ==
  ASSUME NEW g, IsGraph(g)
  PROVE  DOMAIN g = Tables /\ g = [t \in Tables |-> g[t]]
  BY DEF IsGraph, Tables

\* One table of a graph is replaced.
LEMMA GraphUpdate ==
  ASSUME NEW g, IsGraph(g), NEW t \in Tables, NEW v
  PROVE  LET h == [g EXCEPT ![t] = v]
         IN  IsGraph(h) /\ h[t] = v /\ \A u \in Tables : u # t => h[u] = g[u]
<1>1. DOMAIN g = Tables
  BY GraphFun
<1> DEFINE h == [g EXCEPT ![t] = v]
<1>2. h[t] = v /\ \A u \in Tables : u # t => h[u] = g[u]
  BY <1>1
<1>3. h = [u \in Tables |-> h[u]]
  BY <1>1
<1>4. IsGraph(h)
  BY <1>3, FunGraph
<1> QED
  BY <1>2, <1>4

(***************************************************************************)
(* Tables.                                                                 *)
(***************************************************************************)
IsMap(u) == u = [x \in DOMAIN u |-> u[x]]

\* One row laid over a table, and rows taken out of one.
LEMMA LaidDomain ==
  ASSUME NEW t, NEW k, NEW v
  PROVE  DOMAIN Laid(Row(k, v), t) = DOMAIN t \union {k}
  BY DEF Laid, Row

LEMMA LaidRow ==
  ASSUME NEW t, NEW k, NEW v, NEW u, u = Laid(Row(k, v), t)
  PROVE  IsMap(u) /\ u[k] = v /\ \A x \in DOMAIN t : x # k => u[x] = t[x]
<1>1. DOMAIN Row(k, v) = {k} /\ Row(k, v)[k] = v
  BY DEF Row
<1>2. u = [x \in {k} \union DOMAIN t |-> IF x \in {k} THEN Row(k, v)[x] ELSE t[x]]
  BY <1>1 DEF Laid
<1> QED
  BY <1>1, <1>2 DEF IsMap

LEMMA WithoutDomain ==
  ASSUME NEW t, NEW keys
  PROVE  DOMAIN Without(t, keys) = DOMAIN t \ keys
  BY DEF Without

LEMMA WithoutRows ==
  ASSUME NEW t, NEW keys, NEW u, u = Without(t, keys)
  PROVE  IsMap(u) /\ \A x \in DOMAIN t : x \notin keys => u[x] = t[x]
  BY DEF Without, IsMap

LEMMA RowOf == \A k, v : DOMAIN Row(k, v) = {k} /\ Row(k, v)[k] = v /\ Row(k, v) # <<>>
<1> SUFFICES ASSUME NEW k, NEW v PROVE DOMAIN Row(k, v) = {k} /\ Row(k, v)[k] = v /\ Row(k, v) # <<>>
  OBVIOUS
<1>1. DOMAIN Row(k, v) = {k} /\ Row(k, v)[k] = v
  BY DEF Row
<1>2. DOMAIN <<>> = {}
  OBVIOUS
<1> QED
  BY <1>1, <1>2

\* Putting one row of its type into a table, or taking rows out of it.
LEMMA LaidIsTable ==
  ASSUME NEW type, NEW t, IsTable(t, type), NEW k \in type.keys, NEW v \in type.rows
  PROVE  IsTable(Laid(Row(k, v), t), type)
<1> SUFFICES ASSUME NEW u, u = Laid(Row(k, v), t) PROVE IsTable(u, type)
  OBVIOUS
<1>1. DOMAIN u = DOMAIN t \union {k}
  BY LaidDomain
<1>a. IsMap(u) /\ u[k] = v /\ \A x \in DOMAIN t : x # k => u[x] = t[x]
  BY LaidRow
<1>2. IsFiniteSet(DOMAIN u)
  BY <1>1, FS_AddElement DEF IsTable
<1>3. u \in [DOMAIN u -> type.rows]
  BY <1>1, <1>a DEF IsTable, IsMap
<1> QED
  BY <1>1, <1>2, <1>3 DEF IsTable

\* Fewer rows of a table are a table.
LEMMA WithoutIsTable ==
  ASSUME NEW type, NEW t, IsTable(t, type), NEW keys
  PROVE  IsTable(Without(t, keys), type)
<1> SUFFICES ASSUME NEW u, u = Without(t, keys) PROVE IsTable(u, type)
  OBVIOUS
<1>1. DOMAIN u = DOMAIN t \ keys
  BY WithoutDomain
<1>a. IsMap(u) /\ \A x \in DOMAIN t : x \notin keys => u[x] = t[x]
  BY WithoutRows
<1>2. IsFiniteSet(DOMAIN u)
  BY <1>1, FS_Subset DEF IsTable
<1> QED
  BY <1>1, <1>2, <1>a DEF IsTable, IsMap

\* A graph stays typed when one table of it is replaced by one of its type.
LEMMA TypedUpdate ==
  ASSUME NEW g, IsGraph(g), Typed(g), NEW t \in Tables, NEW v, IsTable(v, Schema[t])
  PROVE  IsGraph([g EXCEPT ![t] = v]) /\ Typed([g EXCEPT ![t] = v])
<1> DEFINE h == [g EXCEPT ![t] = v]
<1>1. IsGraph(h) /\ h[t] = v /\ \A u \in Tables : u # t => h[u] = g[u]
  BY GraphUpdate
<1> HIDE DEF h
<1>2. ASSUME NEW u \in Tables PROVE IsTable(h[u], Schema[u])
  <2>1. CASE u = t
    BY <1>1, <2>1
  <2>2. CASE u # t
    BY <1>1, <2>2, SchemaTables DEF Typed
  <2> QED
    BY <2>1, <2>2
<1> QED
  BY <1>1, <1>2, SchemaTables DEF Typed, h

(***************************************************************************)
(* The newest version of a squad.                                          *)
(***************************************************************************)
LEMMA Least ==
  ASSUME NEW S \in SUBSET Nat, S # {}
  PROVE  \E x \in S : \A y \in S : x <= y
<1>1. \E x \in S : \A y \in S : <<y, x>> \notin OpToRel(<, Nat)
  BY WFMin, NatLessThanWellFounded
<1>2. \A x, y \in Nat : y < x => <<y, x>> \in OpToRel(<, Nat)
  BY DEF OpToRel
<1>3. \E x \in S : \A y \in S : ~(y < x)
  BY <1>1, <1>2, Zenon
<1> QED
  BY <1>3

\* A finite set of numbers has a greatest one.
LEMMA Greatest ==
  ASSUME NEW S \in SUBSET Nat, IsFiniteSet(S), S # {}
  PROVE  \E x \in S : \A y \in S : y <= x
<1> DEFINE Unbounded(T) == T # {} /\ IsFiniteSet(T) /\ \A x \in T : \E y \in T : x < y
           sizes == {n \in Nat : \E T \in SUBSET S : Unbounded(T) /\ Cardinality(T) = n}
<1>1. SUFFICES ASSUME Unbounded(S) PROVE FALSE
  OBVIOUS
<1>2. sizes # {}
  BY <1>1, FS_CardinalityType
<1> HIDE DEF Unbounded
<1>3. PICK n \in sizes : \A m \in sizes : n <= m
  BY <1>2, Least
<1>4. PICK T \in SUBSET S : Unbounded(T) /\ Cardinality(T) = n
  BY <1>3
<1>5. PICK x \in T : TRUE
  BY <1>4 DEF Unbounded
<1> DEFINE U == T \ {x}
<1>6. IsFiniteSet(U) /\ Cardinality(U) = n - 1 /\ U \in SUBSET S
  BY <1>4, <1>5, FS_RemoveElement DEF Unbounded
<1>7. Cardinality(U) \in Nat
  BY <1>6, FS_CardinalityType
<1>8. ~Unbounded(U)
  BY <1>3, <1>6, <1>7
<1>9. PICK y \in T : x < y
  BY <1>4, <1>5 DEF Unbounded
<1>10. y \in U /\ x \in Nat
  BY <1>5, <1>9
<1>11. PICK z \in U : \A w \in U : ~(z < w)
  BY <1>6, <1>8, <1>10 DEF Unbounded
<1>12. z \in Nat /\ y \in Nat /\ ~(z < y)
  BY <1>10, <1>11
<1>13. PICK w \in T : z < w
  BY <1>4, <1>11 DEF Unbounded
<1>14. w \in Nat
  BY <1>13
<1> QED
  BY <1>9, <1>10, <1>11, <1>12, <1>13, <1>14

\* The latest version number is the greatest one, as the versions are finitely many.
LEMMA LatestIsNewest ==
  ASSUME NEW g, IsTable(g.squadVersions, Schema.squadVersions), NEW s
  PROVE  /\ Latest(g, s) \in Nat
         /\ \A n \in VersionNumbers(g, s) : n <= Latest(g, s)
         /\ VersionNumbers(g, s) # {} => Latest(g, s) \in VersionNumbers(g, s)
<1> DEFINE keys == DOMAIN g.squadVersions
           numbers == {k[2] : k \in keys}
           f == [k \in keys |-> k[2]]
<1>1. IsFiniteSet(keys) /\ keys \subseteq Squads \X (Nat \ {0})
  BY DEF IsTable, Schema
<1>2. f \in Surjection(keys, numbers)
  BY DEF Surjection
<1>3. IsFiniteSet(numbers) /\ numbers \subseteq Nat
  BY <1>1, <1>2, FS_Surjection
<1>4. VersionNumbers(g, s) \subseteq numbers
  BY DEF VersionNumbers
<1>5. IsFiniteSet(VersionNumbers(g, s)) /\ VersionNumbers(g, s) \subseteq Nat
  BY <1>3, <1>4, FS_Subset
<1> HIDE DEF keys, numbers, f
<1>6. CASE VersionNumbers(g, s) = {}
  BY <1>6 DEF Latest
<1>7. CASE VersionNumbers(g, s) # {}
  <2>1. \E n \in VersionNumbers(g, s) : \A m \in VersionNumbers(g, s) : m <= n
    BY <1>5, <1>7, Greatest
  <2>2. Latest(g, s) = CHOOSE n \in VersionNumbers(g, s) : \A m \in VersionNumbers(g, s) : m <= n
    BY <1>7 DEF Latest
  <2>3. Latest(g, s) \in VersionNumbers(g, s) /\ \A m \in VersionNumbers(g, s) : m <= Latest(g, s)
    BY <2>1, <2>2
  <2> QED
    BY <1>5, <2>3
<1> QED
  BY <1>6, <1>7

(***************************************************************************)
(* Changes still to make.  Which keys a change puts or drops, the tables   *)
(* it touches, and the keys that a table will have when its turn comes.    *)
(***************************************************************************)
Keys == UNION {Schema[t].keys : t \in Tables}

\* The changes that an operation lists.
PutsInto(t) == [do : {"put"}, table : {t}, rows : FiniteTables(Schema[t].keys, Schema[t].rows)]
Deletions == [do : {"delete"}, table : Tables, keys : SUBSET Keys]
Recordings == [do : {"record"}, squads : SUBSET Squads]
Throws == [do : {"throw"}]
Puttings == UNION {PutsInto(t) : t \in Tables \ {"squadVersions"}}
Change == Puttings \union Deletions \union Recordings \union Throws

\* A change puts or drops a row, or touches a table.
Puts(c, t, k) == c.do = "put" /\ c.table = t /\ k \in DOMAIN c.rows
Drops(c, t, k) == c.do = "delete" /\ c.table = t /\ k \in c.keys
Touches(c, t) ==
  \/ c.do \in {"put", "delete"} /\ c.table = t
  \/ c.do = "record" /\ t = "squadVersions"

\* The finite tables of a type.
LEMMA FiniteTable ==
  ASSUME NEW t, NEW type
  PROVE  t \in FiniteTables(type.keys, type.rows) <=> IsTable(t, type)
<1>1. ASSUME t \in FiniteTables(type.keys, type.rows) PROVE IsTable(t, type)
  <2>1. PICK held \in SUBSET type.keys : IsFiniteSet(held) /\ t \in [held -> type.rows]
    BY <1>1 DEF FiniteTables
  <2> QED
    BY <2>1 DEF IsTable
<1>2. ASSUME IsTable(t, type) PROVE t \in FiniteTables(type.keys, type.rows)
  BY <1>2 DEF FiniteTables, IsTable
<1> QED
  BY <1>1, <1>2

\* What a change looks like, kind by kind.
LEMMA ChangeKinds ==
  ASSUME NEW c \in Change
  PROVE  \/ /\ c.do = "put" /\ c.table \in Tables \ {"squadVersions"}
            /\ IsTable(c.rows, Schema[c.table])
         \/ c.do = "delete" /\ c.table \in Tables /\ c.keys \subseteq Keys
         \/ c.do = "record" /\ c.squads \subseteq Squads
         \/ c.do = "throw"
<1>1. CASE c \in Puttings
  <2>1. PICK t \in Tables \ {"squadVersions"} : c \in PutsInto(t)
    BY <1>1 DEF Puttings
  <2>2. c.do = "put" /\ c.table = t /\ c.rows \in FiniteTables(Schema[t].keys, Schema[t].rows)
    BY <2>1 DEF PutsInto
  <2> QED
    BY <2>2, FiniteTable
<1>2. CASE c \in Deletions
  BY <1>2 DEF Deletions
<1>3. CASE c \in Recordings
  BY <1>3 DEF Recordings
<1>4. CASE c \in Throws
  BY <1>4 DEF Throws
<1> QED
  BY <1>1, <1>2, <1>3, <1>4 DEF Change

\* The constructors of changes.
LEMMA PutIsChange ==
  ASSUME NEW t \in Tables \ {"squadVersions"}, NEW rows, IsTable(rows, Schema[t])
  PROVE  [do |-> "put", table |-> t, rows |-> rows] \in Change
<1>1. rows \in FiniteTables(Schema[t].keys, Schema[t].rows)
  BY FiniteTable
<1>2. [do |-> "put", table |-> t, rows |-> rows] \in PutsInto(t)
  BY <1>1 DEF PutsInto
<1> QED
  BY <1>2 DEF Change, Puttings

LEMMA OtherChanges ==
  /\ \A t \in Tables, keys \in SUBSET Keys : [do |-> "delete", table |-> t, keys |-> keys] \in Change
  /\ \A squads \in SUBSET Squads : [do |-> "record", squads |-> squads] \in Change
  /\ [do |-> "throw"] \in Change
<1>1. ASSUME NEW t \in Tables, NEW keys \in SUBSET Keys
      PROVE  [do |-> "delete", table |-> t, keys |-> keys] \in Deletions
  BY DEF Deletions
<1>2. ASSUME NEW squads \in SUBSET Squads
      PROVE  [do |-> "record", squads |-> squads] \in Recordings
  BY DEF Recordings
<1>3. [do |-> "throw"] \in Throws
  BY DEF Throws
<1> QED
  BY <1>1, <1>2, <1>3 DEF Change

\* What a list of changes starts with, one call later.
LEMMA SeqShift ==
  ASSUME NEW S, NEW cs \in Seq(S), cs # <<>>, NEW p \in Seq(S), NEW ds, ds = p \o Tail(cs)
  PROVE  /\ ds \in Seq(S) /\ Len(cs) \in Nat \ {0} /\ Len(ds) = Len(cs) + Len(p) - 1
         /\ \A i \in 1..Len(p) : ds[i] = p[i]
         /\ \A j \in 2..Len(cs) : ds[j + Len(p) - 1] = cs[j]
         /\ \A i \in (Len(p) + 1)..Len(ds) : ds[i] = cs[i - Len(p) + 1]
<1>1. Tail(cs) \in Seq(S) /\ Len(Tail(cs)) = Len(cs) - 1 /\ \A i \in 1..(Len(cs) - 1) : Tail(cs)[i] = cs[i + 1]
  OBVIOUS
<1>2. /\ ds \in Seq(S) /\ Len(ds) = Len(p) + Len(Tail(cs))
      /\ \A i \in 1..Len(p) : ds[i] = p[i]
      /\ \A i \in (Len(p) + 1)..Len(ds) : ds[i] = Tail(cs)[i - Len(p)]
  BY <1>1
<1>3. Len(cs) \in Nat \ {0} /\ Len(p) \in Nat
  OBVIOUS
<1>4. Len(ds) = Len(cs) + Len(p) - 1
  BY <1>1, <1>2, <1>3
<1>5. ASSUME NEW j \in 2..Len(cs) PROVE ds[j + Len(p) - 1] = cs[j]
  <2>1. j + Len(p) - 1 \in (Len(p) + 1)..Len(ds)
    BY <1>3, <1>4
  <2>2. ds[j + Len(p) - 1] = Tail(cs)[j + Len(p) - 1 - Len(p)]
    BY <1>2, <2>1
  <2>3. j + Len(p) - 1 - Len(p) = j - 1 /\ j - 1 \in 1..(Len(cs) - 1)
    BY <1>3
  <2>4. Tail(cs)[j - 1] = cs[j - 1 + 1]
    BY <1>1, <2>3
  <2> QED
    BY <1>3, <2>2, <2>3, <2>4
<1>6. ASSUME NEW i \in (Len(p) + 1)..Len(ds) PROVE ds[i] = cs[i - Len(p) + 1]
  <2>1. i - Len(p) \in 1..(Len(cs) - 1)
    BY <1>3, <1>4
  <2> QED
    BY <1>1, <1>2, <2>1
<1> QED
  BY <1>2, <1>3, <1>4, <1>5, <1>6

(***************************************************************************)
(* One storage call of the first change of cs turns the tables g into h    *)
(* and cs into ds, whose first m changes are what is left of that change.  *)
(***************************************************************************)
Shifted(cs, ds, m) ==
  /\ m \in Nat /\ Len(ds) = Len(cs) + m - 1
  /\ \A j \in 2..Len(cs) : ds[j + m - 1] = cs[j]
  /\ \A i \in (m + 1)..Len(ds) : ds[i] = cs[i - m + 1]

\* A call leaves a part of its change, and recording leaves the versions to prune.
PartOf(d, c) ==
  \/ /\ c.do = "put" /\ d.do = "put" /\ d.table = c.table
     /\ DOMAIN d.rows \subseteq DOMAIN c.rows /\ \A k \in DOMAIN d.rows : d.rows[k] = c.rows[k]
  \/ c.do = "delete" /\ d.do = "delete" /\ d.table = c.table /\ d.keys \subseteq c.keys
  \/ c.do = "record" /\ d.do = "record" /\ d.squads \subseteq c.squads
  \/ c.do = "record" /\ d.do = "delete" /\ d.table = "squadVersions"

\* What a call does to a table: a row it puts, a row it drops, the rest as before.
RowsMove(g, h, c, ds, m, t) ==
  /\ \A k \in DOMAIN h[t] : \/ k \in DOMAIN g[t] /\ h[t][k] = g[t][k]
                            \/ Puts(c, t, k) /\ h[t][k] = c.rows[k]
  /\ \A k \in DOMAIN g[t] : k \in DOMAIN h[t] \/ Drops(c, t, k)
  /\ \A k : Puts(c, t, k) => \/ \E i \in 1..m : Puts(ds[i], t, k)
                             \/ k \in DOMAIN h[t] /\ h[t][k] = c.rows[k]

\* A new version is the snapshot of a squad under its next number.
VersionsMove(g, h, c) ==
  \A v \in DOMAIN h["squadVersions"] :
    \/ v \in DOMAIN g["squadVersions"] /\ h["squadVersions"][v] = g["squadVersions"][v]
    \/ /\ c.do = "record"
       /\ \E q \in c.squads : v = <<q, Latest(g, q) + 1>> /\ h["squadVersions"][v] = Snapshot(g, q)

\* What the change was to drop is still to be dropped, or is gone.
DropsMove(h, c, ds, m) ==
  \A t \in Tables : \A k : Drops(c, t, k) => (\E i \in 1..m : Drops(ds[i], t, k)) \/ k \notin DOMAIN h[t]

\* A call at the head of the list cs leads from the tables g to h, with ds left to do.
Advances(g, cs, h, ds, m) ==
  /\ Shifted(cs, ds, m)
  /\ \A i \in 1..m : PartOf(ds[i], cs[1])
  /\ \A t \in Tables \ {"squadVersions"} : RowsMove(g, h, cs[1], ds, m, t)
  /\ VersionsMove(g, h, cs[1])
  /\ DropsMove(h, cs[1], ds, m)
  /\ \A t \in Tables : Touches(cs[1], t) \/ h[t] = g[t]

\* A graph of typed tables; h differs from g in one table only.
Good(g) == IsGraph(g) /\ Typed(g)

Written(g, h, t) == \A u \in Tables : u # t => h[u] = g[u]

\* A list that starts with what is left of its first change.
Continued(cs, ds, p) == Shifted(cs, ds, Len(p)) /\ \A i \in 1..Len(p) : ds[i] = p[i]

\* What is left of a call goes before the rest of the list.
LEMMA ContinuedList ==
  ASSUME NEW cs \in Seq(Change), cs # <<>>, NEW p \in Seq(Change)
  PROVE  p \o Tail(cs) \in Seq(Change) /\ Continued(cs, p \o Tail(cs), p)
  BY SeqShift DEF Continued, Shifted

\* One row of a change is put.
PutMade(g, h, c, p, t, k, rest) ==
  /\ t \in Tables \ {"squadVersions"} /\ c.do = "put" /\ c.table = t /\ k \in DOMAIN c.rows
  /\ \A x : x \in DOMAIN rest <=> x \in DOMAIN c.rows /\ x # k
  /\ \A x \in DOMAIN rest : rest[x] = c.rows[x]
  /\ \/ Len(p) = 0 /\ \A x : x \notin DOMAIN rest
     \/ Len(p) = 1 /\ p[1].do = "put" /\ p[1].table = t /\ p[1].rows = rest
  /\ Written(g, h, t)
  /\ \A x : x \in DOMAIN h[t] <=> x \in DOMAIN g[t] \/ x = k
  /\ h[t][k] = c.rows[k] /\ \A x \in DOMAIN g[t] : x # k => h[t][x] = g[t][x]

\* Each kind of call advances the list.
LEMMA PutAdvances ==
  ASSUME NEW g, NEW h, NEW cs, NEW ds, NEW p, NEW t, NEW k, NEW rest,
         PutMade(g, h, cs[1], p, t, k, rest), Continued(cs, ds, p)
  PROVE  Advances(g, cs, h, ds, Len(p))
<1> DEFINE c == cs[1]
<1> HIDE DEF c
<1>1. /\ t \in Tables \ {"squadVersions"} /\ c.do = "put" /\ c.table = t /\ k \in DOMAIN c.rows
      /\ \A x : x \in DOMAIN rest <=> x \in DOMAIN c.rows /\ x # k
      /\ \A x \in DOMAIN rest : rest[x] = c.rows[x]
      /\ \/ Len(p) = 0 /\ \A x : x \notin DOMAIN rest
         \/ Len(p) = 1 /\ p[1].do = "put" /\ p[1].table = t /\ p[1].rows = rest
      /\ Written(g, h, t)
      /\ \A x : x \in DOMAIN h[t] <=> x \in DOMAIN g[t] \/ x = k
      /\ h[t][k] = c.rows[k] /\ \A x \in DOMAIN g[t] : x # k => h[t][x] = g[t][x]
  BY DEF PutMade, c
<1> USE <1>1
<1>17. \/ Len(p) = 0 /\ \A x : x \notin DOMAIN rest
       \/ Len(p) = 1 /\ ds[1].do = "put" /\ ds[1].table = t /\ ds[1].rows = rest
  BY DEF Continued
<1>18. \A i \in 1..Len(p) : PartOf(ds[i], c)
  <2>1. CASE Len(p) = 0
    BY <2>1
  <2>2. CASE Len(p) = 1
    <3>1. PartOf(ds[1], c)
      BY <1>17, <2>2 DEF PartOf
    <3> QED
      BY <2>2, <3>1
  <2> QED
    BY <1>17, <2>1, <2>2
<1>19. ASSUME NEW u \in Tables \ {"squadVersions"} PROVE RowsMove(g, h, c, ds, Len(p), u)
  <2>1. CASE u # t
    BY <2>1 DEF RowsMove, Puts, Written
  <2>2. CASE u = t
    <3>1. ASSUME NEW x, x \in DOMAIN c.rows
          PROVE  (\E i \in 1..Len(p) : Puts(ds[i], t, x)) \/ (x \in DOMAIN h[t] /\ h[t][x] = c.rows[x])
      <4>1. CASE x = k
        BY <4>1
      <4>2. CASE x # k
        BY <1>17, <3>1, <4>2 DEF Puts
      <4> QED
        BY <4>1, <4>2
    <3>2. \A x \in DOMAIN h[t] : \/ x \in DOMAIN g[t] /\ h[t][x] = g[t][x]
                                 \/ Puts(c, t, x) /\ h[t][x] = c.rows[x]
      BY DEF Puts
    <3>3. \A x \in DOMAIN g[t] : x \in DOMAIN h[t]
      OBVIOUS
    <3> QED
      BY <2>2, <3>1, <3>2, <3>3 DEF RowsMove, Puts
  <2> QED
    BY <2>1, <2>2
<1>20. VersionsMove(g, h, c)
  BY DEF VersionsMove, Tables, Written
<1>21. DropsMove(h, c, ds, Len(p))
  BY DEF DropsMove, Drops
<1>22. \A u \in Tables : Touches(c, u) \/ h[u] = g[u]
  BY DEF Touches, Written
<1> QED
  BY <1>18, <1>19, <1>20, <1>21, <1>22 DEF Advances, Continued, c

LEMMA DeleteAdvances ==
  ASSUME NEW g, NEW h, NEW cs, NEW ds, NEW p, NEW t \in Tables, NEW k, NEW rest,
         NEW c, c = cs[1], c.do = "delete", c.table = t,
         rest = c.keys \ {k},
         Continued(cs, ds, p),
         \/ Len(p) = 0 /\ rest = {}
         \/ Len(p) = 1 /\ p[1].do = "delete" /\ p[1].table = t /\ p[1].keys = rest,
         Written(g, h, t), k \in c.keys,
         \A x : x \in DOMAIN h[t] <=> x \in DOMAIN g[t] /\ x # k,
         \A x \in DOMAIN h[t] : h[t][x] = g[t][x]
  PROVE  Advances(g, cs, h, ds, Len(p))
<1>17. \/ Len(p) = 0 /\ rest = {}
       \/ Len(p) = 1 /\ ds[1].do = "delete" /\ ds[1].table = t /\ ds[1].keys = rest
  BY DEF Continued
<1>18. \A i \in 1..Len(p) : PartOf(ds[i], c)
  <2>1. CASE Len(p) = 0
    BY <2>1
  <2>2. CASE Len(p) = 1
    <3>1. PartOf(ds[1], c)
      BY <1>17, <2>2 DEF PartOf
    <3> QED
      BY <2>2, <3>1
  <2> QED
    BY <1>17, <2>1, <2>2
<1>19. ASSUME NEW u \in Tables \ {"squadVersions"} PROVE RowsMove(g, h, c, ds, Len(p), u)
  <2>1. CASE u # t
    BY <2>1 DEF RowsMove, Puts, Written
  <2>2. CASE u = t
    BY <2>2 DEF RowsMove, Puts, Drops
  <2> QED
    BY <2>1, <2>2
<1>20. VersionsMove(g, h, c)
  <2>1. CASE t = "squadVersions"
    BY <2>1 DEF VersionsMove
  <2>2. CASE t # "squadVersions"
    BY <2>2 DEF VersionsMove, Tables, Written
  <2> QED
    BY <2>1, <2>2
<1>21. DropsMove(h, c, ds, Len(p))
  <2>1. ASSUME NEW x, x \in c.keys
        PROVE  (\E i \in 1..Len(p) : Drops(ds[i], t, x)) \/ x \notin DOMAIN h[t]
    <3>1. CASE x = k
      BY <3>1
    <3>2. CASE x # k
      BY <1>17, <2>1, <3>2 DEF Drops
    <3> QED
      BY <3>1, <3>2
  <2> QED
    BY <2>1 DEF DropsMove, Drops
<1>22. \A u \in Tables : Touches(c, u) \/ h[u] = g[u]
  BY DEF Touches, Written
<1> QED
  BY <1>18, <1>19, <1>20, <1>21, <1>22 DEF Advances, Continued

LEMMA RecordAdvances ==
  ASSUME NEW g, NEW h, NEW cs, NEW ds, NEW p, NEW q,
         NEW c, c = cs[1], c.do = "record", q \in c.squads,
         Continued(cs, ds, p),
         \A i \in 1..Len(p) :
           \/ p[i].do = "delete" /\ p[i].table = "squadVersions"
           \/ p[i].do = "record" /\ p[i].squads \subseteq c.squads,
         Written(g, h, "squadVersions"),
         \A v \in DOMAIN h["squadVersions"] :
           \/ v \in DOMAIN g["squadVersions"] /\ h["squadVersions"][v] = g["squadVersions"][v]
           \/ v = <<q, Latest(g, q) + 1>> /\ h["squadVersions"][v] = Snapshot(g, q)
  PROVE  Advances(g, cs, h, ds, Len(p))
<1>18. \A i \in 1..Len(p) : PartOf(ds[i], c)
  BY DEF PartOf, Continued
<1>19. ASSUME NEW u \in Tables \ {"squadVersions"} PROVE RowsMove(g, h, c, ds, Len(p), u)
  BY DEF RowsMove, Puts, Written
<1>20. VersionsMove(g, h, c)
  BY DEF VersionsMove
<1>21. DropsMove(h, c, ds, Len(p))
  BY DEF DropsMove, Drops
<1>22. \A u \in Tables : Touches(c, u) \/ h[u] = g[u]
  BY DEF Touches, Written
<1> QED
  BY <1>18, <1>19, <1>20, <1>21, <1>22 DEF Advances, Continued

\* Writing one table leaves the others alone.
LEMMA WrittenGraph ==
  ASSUME NEW g, IsGraph(g), NEW t \in Tables, NEW v, NEW h, h = [g EXCEPT ![t] = v]
  PROVE  h[t] = v /\ Written(g, h, t)
  BY GraphUpdate DEF Written

\* The lists of no and of one change.
LEMMA ShortLists ==
  /\ <<>> \in Seq(Change) /\ Len(<<>>) = 0
  /\ \A c \in Change : <<c>> \in Seq(Change) /\ Len(<<c>>) = 1 /\ <<c>>[1] = c
  OBVIOUS

\* The outcomes of a put.
LEMMA PutCall ==
  ASSUME Good(db), NEW cs \in Seq(Change), cs # <<>>, cs[1].do = "put", NEW o \in PutOne(cs[1])
  PROVE  /\ Good(o.db) /\ o.rest \o Tail(cs) \in Seq(Change)
         /\ Advances(db, cs, o.db, o.rest \o Tail(cs), Len(o.rest))
<1> DEFINE c == cs[1]
           t == c.table
<1>1. PICK k \in DOMAIN c.rows :
        o = [db |-> [db EXCEPT ![t] = Laid(Row(k, c.rows[k]), @)], rest |-> Put(t, Without(c.rows, {k}))]
  BY DEF PutOne
<1> DEFINE rest == Without(c.rows, {k})
           new == Laid(Row(k, c.rows[k]), db[t])
           left == [do |-> "put", table |-> t, rows |-> rest]
<1>2. c \in Change
  OBVIOUS
<1>3. t \in Tables \ {"squadVersions"} /\ IsTable(c.rows, Schema[t])
  BY <1>2, ChangeKinds
<1>4. DOMAIN rest = DOMAIN c.rows \ {k}
  BY WithoutDomain
<1>5. \A x \in DOMAIN rest : rest[x] = c.rows[x]
  BY <1>4, WithoutRows
<1>6. IsTable(rest, Schema[t])
  BY <1>3, WithoutIsTable
<1>7. k \in Schema[t].keys /\ c.rows[k] \in Schema[t].rows
  BY <1>3 DEF IsTable
<1>8. IsTable(db[t], Schema[t])
  BY <1>3, SchemaTables DEF Good, Typed
<1>9. IsTable(new, Schema[t])
  BY <1>7, <1>8, LaidIsTable
<1>10. o.db = [db EXCEPT ![t] = new] /\ o.rest = Put(t, rest)
  BY <1>1
<1>11. DOMAIN new = DOMAIN db[t] \union {k}
  BY LaidDomain
<1>12. new[k] = c.rows[k] /\ \A x \in DOMAIN db[t] : x # k => new[x] = db[t][x]
  BY LaidRow
<1> HIDE DEF rest, new, t, c
<1>a. t \in Tables /\ IsGraph(db) /\ Typed(db)
  BY <1>3 DEF Good
<1>13. Good(o.db)
  BY <1>a, <1>9, <1>10, TypedUpdate DEF Good
<1>14. o.db[t] = new /\ Written(db, o.db, t)
  BY <1>a, <1>10, WrittenGraph
<1>15. \/ o.rest = <<>> /\ Len(o.rest) = 0 /\ DOMAIN rest = {}
       \/ o.rest = <<left>>
  <2>1. o.rest = IF rest = <<>> THEN <<>> ELSE <<[do |-> "put", table |-> t, rows |-> rest]>>
    BY <1>10 DEF Put
  <2>2. DOMAIN <<>> = {} /\ Len(<<>>) = 0
    OBVIOUS
  <2> QED
    BY <2>1, <2>2
<1>16. left \in Change /\ left.do = "put" /\ left.table = t /\ left.rows = rest
  BY <1>3, <1>6, PutIsChange
<1> HIDE DEF left
<1>17. o.rest \in Seq(Change)
  BY <1>15, <1>16, ShortLists
<1>18. o.rest \o Tail(cs) \in Seq(Change) /\ Continued(cs, o.rest \o Tail(cs), o.rest)
  BY <1>17, ContinuedList
<1>19. \/ Len(o.rest) = 0 /\ DOMAIN rest = {}
       \/ Len(o.rest) = 1 /\ o.rest[1].do = "put" /\ o.rest[1].table = t /\ o.rest[1].rows = rest
  BY <1>15, <1>16, ShortLists
<1>20. c.do = "put" /\ c.table = t /\ k \in DOMAIN c.rows
  BY DEF c, t
<1>21. ASSUME NEW ds, Continued(cs, ds, o.rest) PROVE Advances(db, cs, o.db, ds, Len(o.rest))
  <2>1. /\ \A x : x \in DOMAIN rest <=> x \in DOMAIN c.rows /\ x # k
        /\ \A x : x \in DOMAIN o.db[t] <=> x \in DOMAIN db[t] \/ x = k
        /\ o.db[t][k] = c.rows[k] /\ \A x \in DOMAIN db[t] : x # k => o.db[t][x] = db[t][x]
    BY <1>4, <1>11, <1>12, <1>14
  <2>2. \/ Len(o.rest) = 0 /\ \A x : x \notin DOMAIN rest
        \/ Len(o.rest) = 1 /\ o.rest[1].do = "put" /\ o.rest[1].table = t /\ o.rest[1].rows = rest
    BY <1>19
  <2>3. PutMade(db, o.db, c, o.rest, t, k, rest)
    BY <1>3, <1>5, <1>14, <1>20, <2>1, <2>2 DEF PutMade
  <2> QED
    BY <1>21, <2>3, PutAdvances DEF c
<1> QED
  BY <1>13, <1>18, <1>21

\* The outcomes of a deletion.
LEMMA DeleteCall ==
  ASSUME Good(db), NEW cs \in Seq(Change), cs # <<>>, cs[1].do = "delete", NEW o \in DeleteOne(cs[1])
  PROVE  /\ Good(o.db) /\ o.rest \o Tail(cs) \in Seq(Change)
         /\ Advances(db, cs, o.db, o.rest \o Tail(cs), Len(o.rest))
<1> DEFINE c == cs[1]
           t == c.table
<1>1. PICK k \in c.keys :
        o = [db |-> [db EXCEPT ![t] = Without(@, {k})], rest |-> Delete(t, c.keys \ {k})]
  BY DEF DeleteOne
<1> DEFINE rest == c.keys \ {k}
           new == Without(db[t], {k})
           left == [do |-> "delete", table |-> t, keys |-> rest]
<1>2. c \in Change
  OBVIOUS
<1>3. t \in Tables /\ c.keys \subseteq Keys
  BY <1>2, ChangeKinds
<1>8. IsTable(db[t], Schema[t])
  BY <1>3, SchemaTables DEF Good, Typed
<1>9. IsTable(new, Schema[t])
  BY <1>8, WithoutIsTable
<1>10. o.db = [db EXCEPT ![t] = new] /\ o.rest = Delete(t, rest)
  BY <1>1
<1>11. DOMAIN new = DOMAIN db[t] \ {k}
  BY WithoutDomain
<1>12. \A x \in DOMAIN new : new[x] = db[t][x]
  BY <1>11, WithoutRows
<1>4. rest \subseteq Keys
  BY <1>3
<1> HIDE DEF rest, new, t, c
<1>a. t \in Tables /\ IsGraph(db) /\ Typed(db)
  BY <1>3 DEF Good
<1>13. Good(o.db)
  BY <1>a, <1>9, <1>10, TypedUpdate DEF Good
<1>14. o.db[t] = new /\ Written(db, o.db, t)
  BY <1>a, <1>10, WrittenGraph
<1>15. \/ o.rest = <<>> /\ rest = {}
       \/ o.rest = <<left>>
  BY <1>10 DEF Delete
<1>16. left \in Change /\ left.do = "delete" /\ left.table = t /\ left.keys = rest
  BY <1>3, <1>4, OtherChanges
<1> HIDE DEF left
<1>17. o.rest \in Seq(Change)
  BY <1>15, <1>16, ShortLists
<1>18. o.rest \o Tail(cs) \in Seq(Change) /\ Continued(cs, o.rest \o Tail(cs), o.rest)
  BY <1>17, ContinuedList
<1>19. \/ Len(o.rest) = 0 /\ rest = {}
       \/ Len(o.rest) = 1 /\ o.rest[1].do = "delete" /\ o.rest[1].table = t /\ o.rest[1].keys = rest
  BY <1>15, <1>16, ShortLists
<1>20. c.do = "delete" /\ c.table = t /\ k \in c.keys /\ rest = c.keys \ {k}
  BY DEF c, t, rest
<1>21. ASSUME NEW ds, Continued(cs, ds, o.rest) PROVE Advances(db, cs, o.db, ds, Len(o.rest))
  <2>1. /\ \A x : x \in DOMAIN o.db[t] <=> x \in DOMAIN db[t] /\ x # k
        /\ \A x \in DOMAIN o.db[t] : o.db[t][x] = db[t][x]
    BY <1>11, <1>12, <1>14
  <2> QED
    BY <1>3, <1>14, <1>19, <1>20, <1>21, <2>1, DeleteAdvances DEF c
<1> QED
  BY <1>13, <1>18, <1>21

\* The snapshot of a squad is a row of squadVersions.
LEMMA SnapshotTyped ==
  ASSUME NEW g, Typed(g), NEW q \in DOMAIN g.squads
  PROVE  Snapshot(g, q) \in Schema.squadVersions.rows /\ q \in Squads
<1> DEFINE held == g.squads[q].members \intersect DOMAIN g.agents
           copies == [a \in held |-> g.agents[a]]
<1>1. IsTable(g.squads, Schema.squads) /\ IsTable(g.agents, Schema.agents)
  BY SchemaTables DEF Typed, Tables
<1>2. g.squads[q] \in SquadRecordSet /\ q \in Squads
  BY <1>1 DEF IsTable, Schema
<1>3. IsFiniteSet(held)
  BY <1>1, FS_Subset DEF IsTable
<1>4. IsTable(copies, [keys |-> Agents, rows |-> Contents])
  BY <1>1, <1>3 DEF IsTable, Schema
<1>5. copies \in FiniteTables(Agents, Contents)
  <2>1. PICK type : type = [keys |-> Agents, rows |-> Contents]
    OBVIOUS
  <2>2. type.keys = Agents /\ type.rows = Contents
    BY <2>1
  <2> QED
    BY <1>4, <2>1, <2>2, FiniteTable
<1>6. Snapshot(g, q) = [record |-> g.squads[q], members |-> copies]
  BY DEF Snapshot
<1> HIDE DEF copies
<1>7. Schema.squadVersions.rows = [record : SquadRecordSet, members : FiniteTables(Agents, Contents)]
  BY DEF Schema
<1> QED
  BY <1>2, <1>5, <1>6, <1>7

\* A list of at most two changes.
LEMMA PairLists ==
  ASSUME NEW p \in Seq(Change), NEW r \in Seq(Change), Len(p) \in 0..1, Len(r) \in 0..1
  PROVE  /\ p \o r \in Seq(Change)
         /\ \A i \in 1..Len(p \o r) : (Len(p) = 1 /\ (p \o r)[i] = p[1]) \/ (Len(r) = 1 /\ (p \o r)[i] = r[1])
<1>1. p \o r \in Seq(Change) /\ Len(p \o r) = Len(p) + Len(r)
  OBVIOUS
<1>2. \A i \in 1..Len(p) : (p \o r)[i] = p[i]
  OBVIOUS
<1>3. \A i \in (Len(p) + 1)..Len(p \o r) : (p \o r)[i] = r[i - Len(p)]
  OBVIOUS
<1>4. CASE Len(p) = 0
  BY <1>1, <1>3, <1>4
<1>5. CASE Len(p) = 1
  BY <1>1, <1>2, <1>3, <1>5
<1> QED
  BY <1>1, <1>4, <1>5

\* One version is recorded, and others are left to prune.
RecordMade(g, h, c, p, q) ==
  /\ c.do = "record" /\ q \in c.squads
  /\ \A i \in 1..Len(p) :
       \/ p[i].do = "delete" /\ p[i].table = "squadVersions"
       \/ p[i].do = "record" /\ p[i].squads \subseteq c.squads
  /\ Written(g, h, "squadVersions")
  /\ \A v \in DOMAIN h["squadVersions"] :
       \/ v \in DOMAIN g["squadVersions"] /\ h["squadVersions"][v] = g["squadVersions"][v]
       \/ v = <<q, Latest(g, q) + 1>> /\ h["squadVersions"][v] = Snapshot(g, q)

LEMMA RecordMadeAdvances ==
  ASSUME NEW g, NEW h, NEW cs, NEW ds, NEW p, NEW q,
         RecordMade(g, h, cs[1], p, q), Continued(cs, ds, p)
  PROVE  Advances(g, cs, h, ds, Len(p))
  BY RecordAdvances DEF RecordMade

\* The outcomes of the recording of a version.
LEMMA RecordCall ==
  ASSUME Good(db), NEW cs \in Seq(Change), cs # <<>>, cs[1].do = "record", NEW o \in RecordOne(cs[1]),
         cs[1].squads \subseteq DOMAIN db.squads
  PROVE  /\ Good(o.db) /\ o.rest \o Tail(cs) \in Seq(Change)
         /\ Continued(cs, o.rest \o Tail(cs), o.rest)
         /\ Advances(db, cs, o.db, o.rest \o Tail(cs), Len(o.rest))
<1> DEFINE c == cs[1]
           t == "squadVersions"
<1>1. PICK q \in c.squads :
        o = LET versions == Laid(Row(<<q, NextVersion(q)>>, Snapshot(db, q)), db.squadVersions)
            IN [db |-> [db EXCEPT !.squadVersions = versions],
                rest |-> Delete("squadVersions", Excess(versions, q)) \o Record(c.squads \ {q})]
  BY DEF RecordOne
<1> DEFINE key == <<q, Latest(db, q) + 1>>
           new == Laid(Row(key, Snapshot(db, q)), db[t])
           gone == Excess(new, q)
           others == c.squads \ {q}
           drop == Delete(t, gone)
           more == Record(others)
           cut == [do |-> "delete", table |-> t, keys |-> gone]
           go == [do |-> "record", squads |-> others]
<1>2. o.db = [db EXCEPT ![t] = new] /\ o.rest = drop \o more
  BY <1>1 DEF NextVersion
<1>3. c \in Change /\ q \in DOMAIN db.squads /\ c.squads \subseteq Squads
  BY ChangeKinds
<1>4. t \in Tables /\ IsGraph(db) /\ Typed(db)
  BY DEF Good, Tables
<1>5. IsTable(db[t], Schema[t])
  BY <1>4, SchemaTables DEF Typed
<1>6. Snapshot(db, q) \in Schema[t].rows /\ q \in Squads
  BY <1>3, <1>4, SnapshotTyped
<1>7. Latest(db, q) \in Nat
  BY <1>5, LatestIsNewest
<1>8. key \in Schema[t].keys
  <2>1. Schema[t].keys = Squads \X (Nat \ {0})
    BY DEF Schema
  <2> QED
    BY <1>6, <1>7, <2>1
<1>9. IsTable(new, Schema[t])
  BY <1>5, <1>6, <1>8, LaidIsTable
<1>10. gone \subseteq DOMAIN new
  BY DEF Excess
<1>11. gone \subseteq Keys
  BY <1>4, <1>9, <1>10 DEF IsTable, Keys
<1>12. DOMAIN new = DOMAIN db[t] \union {key}
  BY LaidDomain
<1>13. new[key] = Snapshot(db, q) /\ \A x \in DOMAIN db[t] : x # key => new[x] = db[t][x]
  BY LaidRow
<1>14. drop = IF gone = {} THEN <<>> ELSE <<cut>>
  BY DEF Delete
<1>15. more = IF others = {} THEN <<>> ELSE <<go>>
  BY DEF Record
<1>16. cut \in Change /\ cut.do = "delete" /\ cut.table = t
  BY <1>4, <1>11, OtherChanges
<1>17. go \in Change /\ go.do = "record" /\ go.squads = others /\ others \subseteq c.squads
  BY <1>3, OtherChanges
<1>18. c.do = "record" /\ q \in c.squads
  OBVIOUS
<1>19. others \subseteq c.squads
  OBVIOUS
<1> HIDE DEF key, new, gone, others, drop, more, cut, go, c, t
<1>20. Good(o.db)
  <2>1. o.db = [db EXCEPT ![t] = new]
    BY <1>2
  <2>2. IsGraph([db EXCEPT ![t] = new]) /\ Typed([db EXCEPT ![t] = new])
    BY <1>4, <1>9, TypedUpdate
  <2> QED
    BY <2>1, <2>2 DEF Good
<1>21. o.db[t] = new /\ Written(db, o.db, t)
  BY <1>2, <1>4, WrittenGraph
<1>22. drop \in Seq(Change) /\ (Len(drop) = 0 \/ (Len(drop) = 1 /\ drop[1] = cut))
  BY <1>14, <1>16, ShortLists
<1>23. more \in Seq(Change) /\ (Len(more) = 0 \/ (Len(more) = 1 /\ more[1] = go))
  BY <1>15, <1>17, ShortLists
<1>24. /\ o.rest \in Seq(Change)
       /\ \A i \in 1..Len(o.rest) : o.rest[i] = cut \/ o.rest[i] = go
  <2>1. /\ drop \o more \in Seq(Change)
        /\ \A i \in 1..Len(drop \o more) :
             (Len(drop) = 1 /\ (drop \o more)[i] = drop[1]) \/ (Len(more) = 1 /\ (drop \o more)[i] = more[1])
    BY <1>22, <1>23, PairLists
  <2> QED
    BY <1>2, <1>22, <1>23, <2>1
<1>25. o.rest \o Tail(cs) \in Seq(Change) /\ Continued(cs, o.rest \o Tail(cs), o.rest)
  BY <1>24, ContinuedList
<1>26. \A v \in DOMAIN o.db[t] :
         \/ v \in DOMAIN db[t] /\ o.db[t][v] = db[t][v]
         \/ v = key /\ o.db[t][v] = Snapshot(db, q)
  BY <1>12, <1>13, <1>21
<1>27. RecordMade(db, o.db, c, o.rest, q)
  BY <1>16, <1>17, <1>18, <1>21, <1>24, <1>26 DEF RecordMade, key, t
<1>28. ASSUME NEW ds, Continued(cs, ds, o.rest) PROVE Advances(db, cs, o.db, ds, Len(o.rest))
  BY <1>27, <1>28, RecordMadeAdvances DEF c
<1> QED
  BY <1>20, <1>25, <1>28

(***************************************************************************)
(* What the changes still to make will leave of the references.  Key k is  *)
(* in table t once the changes before number i are made: one of them puts  *)
(* it, or it is there and none takes it out.                               *)
(***************************************************************************)
Holds(g, cs, t, k, i) ==
  \/ \E j \in 1..(i - 1) : Puts(cs[j], t, k)
  \/ k \in DOMAIN g[t] /\ \A j \in 1..(i - 1) : ~Drops(cs[j], t, k)

\* Deletions: of a table that nothing was put into, of squads among the first.
Orderly(cs) ==
  \A i, j \in DOMAIN cs : j < i /\ cs[i].do = "delete" =>
    /\ cs[j].do = "put" => cs[j].table # cs[i].table
    /\ cs[i].table = "squads" => cs[j].do = "delete"

\* Every squad to record is there when its turn comes.
RecordsHeld(g, cs) ==
  \A i \in DOMAIN cs : cs[i].do = "record" => \A q \in cs[i].squads : Holds(g, cs, "squads", q, i)

\* A call was made.
Moved(g, cs, h, ds, m) ==
  Advances(g, cs, h, ds, m) /\ cs \in Seq(Change) /\ cs # <<>> /\ ds \in Seq(Change)

\* Whatever a call of the list does, the list advances.
LEMMA CallMoves ==
  ASSUME Good(db), NEW cs \in Seq(Change), cs # <<>>, RecordsHeld(db, cs), ~Blocked(cs[1]),
         NEW o \in Outcomes(cs[1])
  PROVE  Good(o.db) /\ \E m \in Nat : Moved(db, cs, o.db, o.rest \o Tail(cs), m)
<1>1. cs[1] \in Change /\ 1 \in DOMAIN cs
  OBVIOUS
<1>2. CASE cs[1].do = "put"
  <2>1. o \in PutOne(cs[1])
    BY <1>2 DEF Outcomes
  <2> QED
    BY <1>2, <2>1, PutCall DEF Moved, Advances, Shifted
<1>3. CASE cs[1].do = "delete"
  <2>1. o \in DeleteOne(cs[1])
    BY <1>3 DEF Outcomes
  <2> QED
    BY <1>3, <2>1, DeleteCall DEF Moved, Advances, Shifted
<1>4. CASE cs[1].do = "record"
  <2>1. o \in RecordOne(cs[1])
    BY <1>4 DEF Outcomes
  <2>2. \A q \in cs[1].squads : Holds(db, cs, "squads", q, 1)
    BY <1>1, <1>4 DEF RecordsHeld
  <2>3. cs[1].squads \subseteq DOMAIN db.squads
    BY <2>2 DEF Holds
  <2> QED
    BY <1>4, <2>1, <2>3, RecordCall DEF Moved, Advances, Shifted
<1>5. CASE cs[1].do = "throw"
  BY <1>5 DEF Blocked
<1> QED
  BY <1>1, <1>2, <1>3, <1>4, <1>5, ChangeKinds

\* What is left is a part of the first change or a later change, in order.
LEMMA Parts ==
  ASSUME NEW g, NEW h, NEW cs, NEW ds, NEW m, Moved(g, cs, h, ds, m)
  PROVE  /\ m \in Nat /\ 1 \in DOMAIN cs /\ cs[1] \in Change
         /\ \A i \in DOMAIN ds : \/ i \in 1..m /\ PartOf(ds[i], cs[1])
                                 \/ /\ i - m + 1 \in DOMAIN cs /\ i - m + 1 > 1 /\ i > m
                                    /\ ds[i] = cs[i - m + 1]
         /\ \A i \in 1..m : i \in DOMAIN ds
         /\ \A j \in DOMAIN cs : j > 1 => j + m - 1 \in DOMAIN ds /\ ds[j + m - 1] = cs[j]
         /\ Len(ds) = Len(cs) + m - 1 /\ Len(cs) \in Nat /\ DOMAIN cs = 1..Len(cs) /\ DOMAIN ds = 1..Len(ds)
<1>1. /\ Shifted(cs, ds, m) /\ cs \in Seq(Change) /\ cs # <<>> /\ ds \in Seq(Change)
      /\ \A i \in 1..m : PartOf(ds[i], cs[1])
  BY DEF Moved, Advances
<1>2. Len(cs) \in Nat \ {0} /\ DOMAIN cs = 1..Len(cs) /\ DOMAIN ds = 1..Len(ds) /\ cs[1] \in Change
  BY <1>1
<1>3. m \in Nat /\ Len(ds) = Len(cs) + m - 1
  BY <1>1 DEF Shifted
<1>4. ASSUME NEW i \in DOMAIN ds, i > m
      PROVE  i - m + 1 \in DOMAIN cs /\ i - m + 1 > 1 /\ ds[i] = cs[i - m + 1]
  <2>1. i \in (m + 1)..Len(ds)
    BY <1>2, <1>3, <1>4
  <2> QED
    BY <1>1, <1>2, <1>3, <2>1 DEF Shifted
<1>5. ASSUME NEW j \in DOMAIN cs, j > 1
      PROVE  j + m - 1 \in DOMAIN ds /\ ds[j + m - 1] = cs[j]
  <2>1. j \in 2..Len(cs)
    BY <1>2, <1>5
  <2> QED
    BY <1>1, <1>2, <1>3, <2>1 DEF Shifted
<1>6. \A i \in 1..m : i \in DOMAIN ds
  BY <1>2, <1>3
<1>7. \A i \in DOMAIN ds : i \in 1..m \/ i > m
  BY <1>2, <1>3
<1> QED
  BY <1>1, <1>2, <1>3, <1>4, <1>5, <1>6, <1>7

\* What the change that is under way does to a table other than the versions.
LEMMA FirstMoves ==
  ASSUME NEW g, NEW h, NEW cs, NEW ds, NEW m, Moved(g, cs, h, ds, m), NEW t \in Tables \ {"squadVersions"}
  PROVE  /\ \A k \in DOMAIN h[t] : \/ k \in DOMAIN g[t] /\ h[t][k] = g[t][k]
                                   \/ Puts(cs[1], t, k) /\ h[t][k] = cs[1].rows[k]
         /\ \A k \in DOMAIN g[t] : k \in DOMAIN h[t] \/ Drops(cs[1], t, k)
         /\ \A k : Puts(cs[1], t, k) => \/ \E i \in 1..m : Puts(ds[i], t, k)
                                        \/ k \in DOMAIN h[t] /\ h[t][k] = cs[1].rows[k]
  BY DEF Moved, Advances, RowsMove

\* A part of a change puts and drops no more than the change.
LEMMA PartPuts ==
  ASSUME NEW c, NEW d, PartOf(d, c), NEW t, NEW k, Puts(d, t, k)
  PROVE  Puts(c, t, k) /\ d.rows[k] = c.rows[k]
  BY DEF PartOf, Puts

LEMMA PartDrops ==
  ASSUME NEW c, NEW d, PartOf(d, c), NEW t, NEW k, Drops(d, t, k)
  PROVE  Drops(c, t, k) \/ (c.do = "record" /\ t = "squadVersions")
  BY DEF PartOf, Drops

\* A row that will be held before a later change still will be after a call.
LEMMA HoldsKept ==
  ASSUME NEW g, NEW h, NEW cs, NEW ds, NEW m, Moved(g, cs, h, ds, m), Orderly(cs),
         NEW t \in {"agents", "squads"}, NEW k, NEW i \in 2..(Len(cs) + 1), Holds(g, cs, t, k, i),
         NEW n, n = i + m - 1
  PROVE  Holds(h, ds, t, k, n)
<1>1. /\ m \in Nat /\ 1 \in DOMAIN cs /\ cs[1] \in Change
      /\ \A j \in DOMAIN ds : \/ j \in 1..m /\ PartOf(ds[j], cs[1])
                              \/ /\ j - m + 1 \in DOMAIN cs /\ j - m + 1 > 1 /\ j > m
                                 /\ ds[j] = cs[j - m + 1]
      /\ \A j \in 1..m : j \in DOMAIN ds
      /\ \A j \in DOMAIN cs : j > 1 => j + m - 1 \in DOMAIN ds /\ ds[j + m - 1] = cs[j]
      /\ Len(ds) = Len(cs) + m - 1 /\ Len(cs) \in Nat /\ DOMAIN cs = 1..Len(cs) /\ DOMAIN ds = 1..Len(ds)
  BY Parts
<1>2. t \in Tables \ {"squadVersions"} /\ t # "squadVersions"
  BY DEF Tables
<1>3. CASE \E j \in 1..(i - 1) : Puts(cs[j], t, k)
  <2>1. PICK j \in 1..(i - 1) : Puts(cs[j], t, k)
    BY <1>3
  <2>2. CASE j > 1
    <3>1. j + m - 1 \in 1..(n - 1) /\ ds[j + m - 1] = cs[j]
      BY <1>1, <2>2
    <3> QED
      BY <2>1, <3>1 DEF Holds
  <2>3. CASE j = 1 /\ \E x \in 1..m : Puts(ds[x], t, k)
    <3>1. PICK x \in 1..m : Puts(ds[x], t, k)
      BY <2>3
    <3>2. x \in 1..(n - 1)
      BY <1>1
    <3> QED
      BY <3>1, <3>2 DEF Holds
  <2>4. CASE j = 1 /\ k \in DOMAIN h[t]
    <3>1. ASSUME NEW x \in 1..(n - 1), Drops(ds[x], t, k) PROVE FALSE
      <4>1. x \in DOMAIN ds
        BY <1>1
      <4>2. CASE PartOf(ds[x], cs[1])
        <5>1. Drops(cs[1], t, k)
          BY <1>2, <3>1, <4>2, PartDrops
        <5> QED
          BY <2>1, <2>4, <5>1 DEF Drops, Puts
      <4>3. CASE x - m + 1 \in DOMAIN cs /\ x - m + 1 > 1 /\ ds[x] = cs[x - m + 1]
        <5> DEFINE y == x - m + 1
        <5>1. y \in DOMAIN cs /\ y > 1 /\ Drops(cs[y], t, k)
          BY <3>1, <4>3
        <5> HIDE DEF y
        <5>2. cs[1].table # cs[y].table
          BY <1>1, <2>1, <2>4, <5>1 DEF Orderly, Puts, Drops
        <5> QED
          BY <2>1, <2>4, <5>1, <5>2 DEF Puts, Drops
      <4> QED
        BY <1>1, <4>1, <4>2, <4>3
    <3> QED
      BY <2>4, <3>1 DEF Holds
  <2>5. 1 \in 1..m => TRUE
    OBVIOUS
  <2>6. j = 1 => (\E x \in 1..m : Puts(ds[x], t, k)) \/ k \in DOMAIN h[t]
    BY <1>2, <2>1, FirstMoves
  <2>7. j = 1 \/ j > 1
    OBVIOUS
  <2> QED
    BY <2>2, <2>3, <2>4, <2>6, <2>7
<1>4. CASE k \in DOMAIN g[t] /\ \A j \in 1..(i - 1) : ~Drops(cs[j], t, k)
  <2>1. ~Drops(cs[1], t, k)
    BY <1>4
  <2>2. k \in DOMAIN h[t]
    BY <1>2, <1>4, <2>1, FirstMoves
  <2>3. ASSUME NEW x \in 1..(n - 1), Drops(ds[x], t, k) PROVE FALSE
    <3>1. x \in DOMAIN ds
      BY <1>1
    <3>2. CASE PartOf(ds[x], cs[1])
      BY <1>2, <2>1, <2>3, <3>2, PartDrops
    <3>3. CASE x - m + 1 \in DOMAIN cs /\ x - m + 1 > 1 /\ ds[x] = cs[x - m + 1]
      <4>1. x - m + 1 \in 1..(i - 1)
        BY <1>1, <3>3
      <4> QED
        BY <1>4, <2>3, <3>3, <4>1
    <3> QED
      BY <1>1, <3>1, <3>2, <3>3
  <2> QED
    BY <2>2, <2>3 DEF Holds
<1> QED
  BY <1>3, <1>4 DEF Holds

\* What is there now is there for the rest of a put or a recording too.
LEMMA HeldInPart ==
  ASSUME NEW g, NEW h, NEW cs, NEW ds, NEW m, Moved(g, cs, h, ds, m),
         NEW t \in {"agents", "squads"}, NEW k \in DOMAIN g[t], cs[1].do \in {"put", "record"}, NEW i \in 1..m
  PROVE  Holds(h, ds, t, k, i)
<1>1. t \in Tables \ {"squadVersions"} /\ t # "squadVersions"
  BY DEF Tables
<1>2. ~Drops(cs[1], t, k)
  BY DEF Drops
<1>3. k \in DOMAIN h[t]
  BY <1>1, <1>2, FirstMoves
<1>4. ASSUME NEW j \in 1..(i - 1) PROVE ~Drops(ds[j], t, k)
  <2>1. m \in Nat
    BY Parts
  <2>2. j \in 1..m
    BY <2>1
  <2>3. PartOf(ds[j], cs[1])
    BY <2>2 DEF Moved, Advances
  <2> QED
    BY <1>1, <1>2, <2>3, PartDrops
<1> QED
  BY <1>3, <1>4 DEF Holds

\* The order of a list is kept.
LEMMA OrderlyKept ==
  ASSUME NEW g, NEW h, NEW cs, NEW ds, NEW m, Moved(g, cs, h, ds, m), Orderly(cs)
  PROVE  Orderly(ds)
<1>1. /\ m \in Nat /\ 1 \in DOMAIN cs /\ cs[1] \in Change
      /\ \A j \in DOMAIN ds : \/ j \in 1..m /\ PartOf(ds[j], cs[1])
                              \/ /\ j - m + 1 \in DOMAIN cs /\ j - m + 1 > 1 /\ j > m
                                 /\ ds[j] = cs[j - m + 1]
      /\ Len(cs) \in Nat /\ DOMAIN cs = 1..Len(cs) /\ DOMAIN ds = 1..Len(ds)
  BY Parts
<1> SUFFICES ASSUME NEW i \in DOMAIN ds, NEW j \in DOMAIN ds, j < i, ds[i].do = "delete"
             PROVE  /\ ds[j].do = "put" => ds[j].table # ds[i].table
                    /\ ds[i].table = "squads" => ds[j].do = "delete"
  BY DEF Orderly
<1>2. CASE PartOf(ds[i], cs[1])
  <2>1. j \in 1..m => PartOf(ds[j], cs[1])
    BY DEF Moved, Advances
  <2>2. CASE i \in 1..m
    <3>1. PartOf(ds[j], cs[1])
      BY <1>1, <2>1, <2>2
    <3> QED
      BY <1>2, <3>1 DEF PartOf
  <2>3. CASE i \notin 1..m
    <3>1. i - m + 1 \in DOMAIN cs /\ i - m + 1 > 1 /\ ds[i] = cs[i - m + 1]
      BY <1>1, <2>3
    <3>2. CASE PartOf(ds[j], cs[1])
      <4> DEFINE y == i - m + 1
      <4>1. y \in DOMAIN cs /\ y > 1 /\ ds[i] = cs[y]
        BY <3>1
      <4> HIDE DEF y
      <4>2. /\ cs[1].do = "put" => cs[1].table # cs[y].table
            /\ cs[y].table = "squads" => cs[1].do = "delete"
        BY <1>1, <4>1 DEF Orderly
      <4> QED
        BY <3>2, <4>1, <4>2 DEF PartOf
    <3>3. CASE ~PartOf(ds[j], cs[1])
      <4> DEFINE y == i - m + 1
                 x == j - m + 1
      <4>1. y \in DOMAIN cs /\ ds[i] = cs[y] /\ x \in DOMAIN cs /\ ds[j] = cs[x] /\ x < y
        BY <1>1, <3>1, <3>3
      <4> HIDE DEF y, x
      <4> QED
        BY <4>1 DEF Orderly
    <3> QED
      BY <3>2, <3>3
  <2> QED
    BY <2>2, <2>3
<1>3. CASE ~PartOf(ds[i], cs[1])
  <2>1. i - m + 1 \in DOMAIN cs /\ i - m + 1 > 1 /\ ds[i] = cs[i - m + 1]
    BY <1>1, <1>3
  <2> DEFINE y == i - m + 1
  <2>2. y \in DOMAIN cs /\ y > 1 /\ ds[i] = cs[y]
    BY <2>1
  <2>3. CASE PartOf(ds[j], cs[1])
    <3> HIDE DEF y
    <3>2. /\ cs[1].do = "put" => cs[1].table # cs[y].table
          /\ cs[y].table = "squads" => cs[1].do = "delete"
      BY <1>1, <2>2 DEF Orderly
    <3> QED
      BY <2>2, <2>3, <3>2 DEF PartOf
  <2>4. CASE ~PartOf(ds[j], cs[1])
    <3> DEFINE x == j - m + 1
    <3>1. x \in DOMAIN cs /\ ds[j] = cs[x] /\ x < y
      BY <1>1, <2>4
    <3> HIDE DEF y, x
    <3> QED
      BY <2>2, <3>1 DEF Orderly
  <2> QED
    BY <2>3, <2>4
<1> QED
  BY <1>2, <1>3

(***************************************************************************)
(* Change i of ds is what change j of cs has become.                       *)
(***************************************************************************)
Was(cs, ds, m, i, j) ==
  /\ i \in Nat /\ j \in Nat /\ m \in Nat
  /\ \/ i \in 1..m /\ j = 1 /\ PartOf(ds[i], cs[1])
     \/ j > 1 /\ i = j + m - 1 /\ ds[i] = cs[j]

\* Everything left was in the list before.
LEMMA EveryWas ==
  ASSUME NEW g, NEW h, NEW cs, NEW ds, NEW m, Moved(g, cs, h, ds, m), NEW i \in DOMAIN ds
  PROVE  \E j \in DOMAIN cs : Was(cs, ds, m, i, j)
<1>1. /\ m \in Nat /\ 1 \in DOMAIN cs
      /\ \A x \in DOMAIN ds : \/ x \in 1..m /\ PartOf(ds[x], cs[1])
                              \/ /\ x - m + 1 \in DOMAIN cs /\ x - m + 1 > 1 /\ x > m
                                 /\ ds[x] = cs[x - m + 1]
      /\ Len(cs) \in Nat /\ DOMAIN cs = 1..Len(cs) /\ DOMAIN ds = 1..Len(ds) /\ Len(ds) = Len(cs) + m - 1
  BY Parts
<1>2. CASE i \in 1..m /\ PartOf(ds[i], cs[1])
  <2>1. Was(cs, ds, m, i, 1)
    BY <1>1, <1>2 DEF Was
  <2> QED
    BY <1>1, <2>1
<1>3. CASE i - m + 1 \in DOMAIN cs /\ i - m + 1 > 1 /\ ds[i] = cs[i - m + 1]
  <2>1. PICK j \in DOMAIN cs : j = i - m + 1
    BY <1>3
  <2>2. i \in Nat /\ j \in Nat /\ i = j + m - 1 /\ j > 1
    BY <1>1, <1>3, <2>1
  <2>3. Was(cs, ds, m, i, j)
    BY <1>1, <1>3, <2>1, <2>2 DEF Was
  <2> QED
    BY <2>3
<1> QED
  BY <1>1, <1>2, <1>3

LEMMA WasPuts ==
  ASSUME NEW cs, NEW ds, NEW m, NEW i, NEW j, Was(cs, ds, m, i, j), NEW t, NEW k, Puts(ds[i], t, k)
  PROVE  Puts(cs[j], t, k) /\ ds[i].rows[k] = cs[j].rows[k]
  BY PartPuts DEF Was

LEMMA WasDrops ==
  ASSUME NEW cs, NEW ds, NEW m, NEW i, NEW j, Was(cs, ds, m, i, j), NEW t, NEW k, Drops(ds[i], t, k),
         t # "squadVersions"
  PROVE  Drops(cs[j], t, k)
  BY PartDrops DEF Was

LEMMA WasRecord ==
  ASSUME NEW cs, NEW ds, NEW m, NEW i, NEW j, Was(cs, ds, m, i, j), ds[i].do = "record"
  PROVE  cs[j].do = "record" /\ ds[i].squads \subseteq cs[j].squads
  BY DEF Was, PartOf

\* What was held before a change of the list is held before what is left of it.
LEMMA HeldBefore ==
  ASSUME NEW g, NEW h, NEW cs, NEW ds, NEW m, Moved(g, cs, h, ds, m), Orderly(cs),
         NEW i, NEW j \in DOMAIN cs, Was(cs, ds, m, i, j), ds[i].do \in {"put", "record"},
         NEW t \in {"agents", "squads"}, NEW k, Holds(g, cs, t, k, j)
  PROVE  Holds(h, ds, t, k, i)
<1>1. CASE j > 1
  <2>1. Len(cs) \in Nat /\ DOMAIN cs = 1..Len(cs) /\ m \in Nat
    BY Parts
  <2>2. j \in 2..(Len(cs) + 1) /\ i = j + m - 1
    BY <1>1, <2>1 DEF Was
  <2> QED
    BY <2>2, HoldsKept
<1>2. CASE i \in 1..m /\ j = 1 /\ PartOf(ds[i], cs[1])
  <2>1. k \in DOMAIN g[t]
    BY <1>2 DEF Holds
  <2>2. cs[1].do \in {"put", "record"}
    BY <1>2 DEF PartOf
  <2> QED
    BY <1>2, <2>1, <2>2, HeldInPart
<1> QED
  BY <1>1, <1>2 DEF Was

\* A row that an earlier change puts is put, or will be before it.
LEMMA PutBefore ==
  ASSUME NEW g, NEW h, NEW cs, NEW ds, NEW m, Moved(g, cs, h, ds, m),
         NEW i, NEW j \in DOMAIN cs, Was(cs, ds, m, i, j),
         NEW x \in 1..(j - 1), NEW t \in Tables \ {"squadVersions"}, NEW k, Puts(cs[x], t, k)
  PROVE  \/ \E y \in 1..(i - 1) : Puts(ds[y], t, k)
         \/ k \in DOMAIN h[t] /\ h[t][k] = cs[x].rows[k]
<1>1. /\ m \in Nat /\ DOMAIN cs = 1..Len(cs) /\ Len(cs) \in Nat
      /\ \A y \in DOMAIN cs : y > 1 => y + m - 1 \in DOMAIN ds /\ ds[y + m - 1] = cs[y]
  BY Parts
<1>2. j > 1 /\ i = j + m - 1 /\ x \in DOMAIN cs /\ i \in Nat
  BY <1>1 DEF Was
<1>3. CASE x > 1
  <2>1. x + m - 1 \in 1..(i - 1) /\ ds[x + m - 1] = cs[x]
    BY <1>1, <1>2, <1>3
  <2> QED
    BY <2>1
<1>4. CASE x = 1
  <2>1. \A y \in 1..m : y \in 1..(i - 1)
    BY <1>1, <1>2
  <2> QED
    BY <1>4, <2>1, FirstMoves
<1> QED
  BY <1>3, <1>4

\* A row that an earlier change drops is gone, or will be before it.
LEMMA DropBefore ==
  ASSUME NEW g, NEW h, NEW cs, NEW ds, NEW m, Moved(g, cs, h, ds, m),
         NEW i, NEW j \in DOMAIN cs, Was(cs, ds, m, i, j),
         NEW x \in 1..(j - 1), NEW t \in Tables, NEW k, Drops(cs[x], t, k)
  PROVE  (\E y \in 1..(i - 1) : Drops(ds[y], t, k)) \/ k \notin DOMAIN h[t]
<1>1. /\ m \in Nat /\ DOMAIN cs = 1..Len(cs) /\ Len(cs) \in Nat
      /\ \A y \in DOMAIN cs : y > 1 => y + m - 1 \in DOMAIN ds /\ ds[y + m - 1] = cs[y]
  BY Parts
<1>2. j > 1 /\ i = j + m - 1 /\ x \in DOMAIN cs /\ i \in Nat
  BY <1>1 DEF Was
<1>3. CASE x > 1
  <2>1. x + m - 1 \in 1..(i - 1) /\ ds[x + m - 1] = cs[x]
    BY <1>1, <1>2, <1>3
  <2> QED
    BY <2>1
<1>4. CASE x = 1
  <2>1. \A y \in 1..m : y \in 1..(i - 1)
    BY <1>1, <1>2
  <2>2. (\E y \in 1..m : Drops(ds[y], t, k)) \/ k \notin DOMAIN h[t]
    BY <1>4 DEF Moved, Advances, DropsMove
  <2> QED
    BY <2>1, <2>2
<1> QED
  BY <1>3, <1>4

\* What comes before a deletion came before it already.
LEMMA BeforeDeletion ==
  ASSUME NEW g, NEW h, NEW cs, NEW ds, NEW m, Moved(g, cs, h, ds, m),
         NEW i \in DOMAIN ds, NEW j \in DOMAIN cs, Was(cs, ds, m, i, j), cs[j].do = "delete",
         NEW y \in 1..(i - 1), ds[y].do = "put"
  PROVE  \E x \in 1..(j - 1) : x \in DOMAIN cs /\ Was(cs, ds, m, y, x)
<1>1. m \in Nat /\ DOMAIN cs = 1..Len(cs) /\ Len(cs) \in Nat /\ Len(ds) = Len(cs) + m - 1 /\ DOMAIN ds = 1..Len(ds)
  BY Parts
<1>2. y \in DOMAIN ds
  BY <1>1 DEF Was
<1>3. PICK x \in DOMAIN cs : Was(cs, ds, m, y, x)
  BY <1>2, EveryWas
<1>4. x < j
  <2>1. CASE j > 1 /\ x > 1
    BY <1>1, <1>3, <2>1 DEF Was
  <2>2. CASE j > 1 /\ x = 1
    BY <2>2
  <2>3. CASE j = 1 /\ x > 1
    BY <1>1, <1>3, <2>3 DEF Was
  <2>4. CASE j = 1 /\ x = 1
    BY <1>3, <2>4 DEF Was, PartOf
  <2> QED
    BY <1>1, <2>1, <2>2, <2>3, <2>4
<1> QED
  BY <1>1, <1>3, <1>4

(***************************************************************************)
(* What holds of the changes still to make, after one more storage call.   *)
(***************************************************************************)
SquadPutsValid(g, cs) ==
  \A i \in DOMAIN cs : \A s \in Squads : Puts(cs[i], "squads", s) =>
    /\ ValidSquad(cs[i].rows[s], cs[i].rows[s].members)
    /\ \A a \in cs[i].rows[s].members : Holds(g, cs, "agents", a, i)

\* Every pointer to put names a squad that will be there.
PointerPutsValid(g, cs) ==
  \A i \in DOMAIN cs : \A t \in Pointers : cs[i].do = "put" /\ cs[i].table = t =>
    \A x \in DOMAIN cs[i].rows :
      cs[i].rows[x] = NoSquad \/ Holds(g, cs, "squads", cs[i].rows[x], i)

\* An agent is dropped after the squads have let go of it.
AgentsUnused(g, cs) ==
  \A i \in DOMAIN cs : \A a \in Agents : Drops(cs[i], "agents", a) =>
    /\ \A s \in DOMAIN g.squads : a \in g.squads[s].members => \E j \in 1..(i - 1) : Puts(cs[j], "squads", s)
    /\ \A j \in 1..(i - 1), s \in Squads : Puts(cs[j], "squads", s) => a \notin cs[j].rows[s].members

\* A squad is dropped after everything that names it.
SquadsUnused(g, cs) ==
  \A i \in DOMAIN cs : \A s \in Squads : Drops(cs[i], "squads", s) =>
    /\ \A t \in Pointers : \A x \in DOMAIN g[t] :
         g[t][x] = s => \E j \in 1..(i - 1) : Drops(cs[j], t, x)
    /\ \A v \in DOMAIN g.squadVersions :
         v[1] = s => \E j \in 1..(i - 1) : Drops(cs[j], "squadVersions", v)

\* Each part of the condition on a list is kept by a call.
LEMMA RecordsHeldKept ==
  ASSUME NEW g, NEW h, NEW cs, NEW ds, NEW m, Moved(g, cs, h, ds, m), Orderly(cs), RecordsHeld(g, cs)
  PROVE  RecordsHeld(h, ds)
<1> SUFFICES ASSUME NEW i \in DOMAIN ds, ds[i].do = "record", NEW q \in ds[i].squads
             PROVE  Holds(h, ds, "squads", q, i)
  BY DEF RecordsHeld
<1>1. PICK j \in DOMAIN cs : Was(cs, ds, m, i, j)
  BY EveryWas
<1>2. cs[j].do = "record" /\ q \in cs[j].squads
  BY <1>1, WasRecord
<1>3. Holds(g, cs, "squads", q, j)
  BY <1>2 DEF RecordsHeld
<1> QED
  BY <1>1, <1>3, HeldBefore

LEMMA SquadPutsKept ==
  ASSUME NEW g, NEW h, NEW cs, NEW ds, NEW m, Moved(g, cs, h, ds, m), Orderly(cs), SquadPutsValid(g, cs)
  PROVE  SquadPutsValid(h, ds)
<1> SUFFICES ASSUME NEW i \in DOMAIN ds, NEW s \in Squads, Puts(ds[i], "squads", s)
             PROVE  /\ ValidSquad(ds[i].rows[s], ds[i].rows[s].members)
                    /\ \A a \in ds[i].rows[s].members : Holds(h, ds, "agents", a, i)
  BY DEF SquadPutsValid
<1>1. PICK j \in DOMAIN cs : Was(cs, ds, m, i, j)
  BY EveryWas
<1>2. Puts(cs[j], "squads", s) /\ ds[i].rows[s] = cs[j].rows[s]
  BY <1>1, WasPuts
<1>3. /\ ValidSquad(cs[j].rows[s], cs[j].rows[s].members)
      /\ \A a \in cs[j].rows[s].members : Holds(g, cs, "agents", a, j)
  BY <1>2 DEF SquadPutsValid
<1>4. ds[i].do = "put"
  BY DEF Puts
<1>5. ASSUME NEW a \in cs[j].rows[s].members PROVE Holds(h, ds, "agents", a, i)
  BY <1>1, <1>3, <1>4, HeldBefore
<1> QED
  BY <1>2, <1>3, <1>5

LEMMA PointerPutsKept ==
  ASSUME NEW g, NEW h, NEW cs, NEW ds, NEW m, Moved(g, cs, h, ds, m), Orderly(cs), PointerPutsValid(g, cs)
  PROVE  PointerPutsValid(h, ds)
<1> SUFFICES ASSUME NEW i \in DOMAIN ds, NEW t \in Pointers, ds[i].do = "put", ds[i].table = t,
                    NEW x \in DOMAIN ds[i].rows, ds[i].rows[x] # NoSquad
             PROVE  Holds(h, ds, "squads", ds[i].rows[x], i)
  BY DEF PointerPutsValid
<1>1. PICK j \in DOMAIN cs : Was(cs, ds, m, i, j)
  BY EveryWas
<1>2. Puts(ds[i], t, x)
  BY DEF Puts
<1>3. Puts(cs[j], t, x) /\ ds[i].rows[x] = cs[j].rows[x]
  BY <1>1, <1>2, WasPuts
<1>4. Holds(g, cs, "squads", cs[j].rows[x], j)
  BY <1>3 DEF PointerPutsValid, Puts
<1>5. Holds(h, ds, "squads", cs[j].rows[x], i)
  BY <1>1, <1>4, HeldBefore
<1> QED
  BY <1>3, <1>5

LEMMA AgentsUnusedKept ==
  ASSUME NEW g, NEW h, NEW cs, NEW ds, NEW m, Moved(g, cs, h, ds, m), Orderly(cs), AgentsUnused(g, cs),
         DOMAIN h.squads \subseteq Squads
  PROVE  AgentsUnused(h, ds)
<1> SUFFICES ASSUME NEW i \in DOMAIN ds, NEW a \in Agents, Drops(ds[i], "agents", a)
             PROVE  /\ \A s \in DOMAIN h.squads : a \in h.squads[s].members =>
                         \E y \in 1..(i - 1) : Puts(ds[y], "squads", s)
                    /\ \A y \in 1..(i - 1), s \in Squads :
                         Puts(ds[y], "squads", s) => a \notin ds[y].rows[s].members
  BY DEF AgentsUnused
<1>1. PICK j \in DOMAIN cs : Was(cs, ds, m, i, j)
  BY EveryWas
<1>2. Drops(cs[j], "agents", a)
  BY <1>1, WasDrops
<1>3. /\ \A s \in DOMAIN g.squads : a \in g.squads[s].members => \E x \in 1..(j - 1) : Puts(cs[x], "squads", s)
      /\ \A x \in 1..(j - 1), s \in Squads : Puts(cs[x], "squads", s) => a \notin cs[x].rows[s].members
  BY <1>2 DEF AgentsUnused
<1>4. "squads" \in Tables \ {"squadVersions"} /\ 1 \in DOMAIN cs
  BY Parts DEF Tables
<1>5. ASSUME NEW s \in DOMAIN h.squads, a \in h.squads[s].members
      PROVE  \E y \in 1..(i - 1) : Puts(ds[y], "squads", s)
  <2>1. CASE s \in DOMAIN g.squads /\ h.squads[s] = g.squads[s]
    <3>1. PICK x \in 1..(j - 1) : Puts(cs[x], "squads", s)
      BY <1>3, <1>5, <2>1
    <3>2. \/ \E y \in 1..(i - 1) : Puts(ds[y], "squads", s)
          \/ s \in DOMAIN h["squads"] /\ h["squads"][s] = cs[x].rows[s]
      BY <1>1, <1>4, <3>1, PutBefore
    <3>3. a \notin cs[x].rows[s].members
      BY <1>3, <3>1
    <3> QED
      BY <1>5, <3>2, <3>3
  <2>2. CASE Puts(cs[1], "squads", s) /\ h.squads[s] = cs[1].rows[s]
    <3>1. j # 1
      BY <1>2, <2>2 DEF Puts, Drops
    <3>2. 1 \in 1..(j - 1)
      BY <1>1, <3>1 DEF Was
    <3> QED
      BY <1>3, <1>5, <2>2, <3>2
  <2>3. \/ s \in DOMAIN g.squads /\ h.squads[s] = g.squads[s]
        \/ Puts(cs[1], "squads", s) /\ h.squads[s] = cs[1].rows[s]
    BY <1>4, FirstMoves
  <2> QED
    BY <2>1, <2>2, <2>3
<1>6. ASSUME NEW y \in 1..(i - 1), NEW s \in Squads, Puts(ds[y], "squads", s)
      PROVE  a \notin ds[y].rows[s].members
  <2>1. cs[j].do = "delete" /\ ds[y].do = "put"
    BY <1>2, <1>6 DEF Drops, Puts
  <2>2. PICK x \in 1..(j - 1) : x \in DOMAIN cs /\ Was(cs, ds, m, y, x)
    BY <1>1, <2>1, BeforeDeletion
  <2>3. Puts(cs[x], "squads", s) /\ ds[y].rows[s] = cs[x].rows[s]
    BY <1>6, <2>2, WasPuts
  <2> QED
    BY <1>3, <2>3
<1> QED
  BY <1>5, <1>6

LEMMA SquadsUnusedKept ==
  ASSUME NEW g, NEW h, NEW cs, NEW ds, NEW m, Moved(g, cs, h, ds, m), Orderly(cs), SquadsUnused(g, cs)
  PROVE  SquadsUnused(h, ds)
<1> SUFFICES ASSUME NEW i \in DOMAIN ds, NEW s \in Squads, Drops(ds[i], "squads", s)
             PROVE  /\ \A t \in Pointers : \A x \in DOMAIN h[t] :
                         h[t][x] = s => \E y \in 1..(i - 1) : Drops(ds[y], t, x)
                    /\ \A v \in DOMAIN h.squadVersions :
                         v[1] = s => \E y \in 1..(i - 1) : Drops(ds[y], "squadVersions", v)
  BY DEF SquadsUnused
<1>1. PICK j \in DOMAIN cs : Was(cs, ds, m, i, j)
  BY EveryWas
<1>2. Drops(cs[j], "squads", s)
  BY <1>1, WasDrops
<1>3. /\ \A t \in Pointers : \A x \in DOMAIN g[t] :
           g[t][x] = s => \E y \in 1..(j - 1) : Drops(cs[y], t, x)
      /\ \A v \in DOMAIN g.squadVersions :
           v[1] = s => \E y \in 1..(j - 1) : Drops(cs[y], "squadVersions", v)
  BY <1>2 DEF SquadsUnused
<1>4. Pointers \subseteq Tables \ {"squadVersions"} /\ "squadVersions" \in Tables /\ 1 \in DOMAIN cs
  BY Parts DEF Tables, Pointers
<1>5. cs[1].do = "delete"
  <2>1. CASE j = 1
    BY <1>2, <2>1 DEF Drops
  <2>2. CASE j # 1
    <3>1. 1 < j
      BY <1>1, <2>2 DEF Was
    <3> QED
      BY <1>2, <1>4, <3>1 DEF Orderly, Drops
  <2> QED
    BY <2>1, <2>2
<1>6. ASSUME NEW t \in Pointers, NEW x \in DOMAIN h[t], h[t][x] = s
      PROVE  \E y \in 1..(i - 1) : Drops(ds[y], t, x)
  <2>1. x \in DOMAIN g[t] /\ h[t][x] = g[t][x]
    BY <1>4, <1>5, FirstMoves DEF Puts
  <2>2. PICK z \in 1..(j - 1) : Drops(cs[z], t, x)
    BY <1>3, <1>6, <2>1
  <2> QED
    BY <1>1, <1>4, <2>2, DropBefore
<1>7. ASSUME NEW v \in DOMAIN h.squadVersions, v[1] = s
      PROVE  \E y \in 1..(i - 1) : Drops(ds[y], "squadVersions", v)
  <2>1. v \in DOMAIN g.squadVersions
    BY <1>5 DEF Moved, Advances, VersionsMove
  <2>2. PICK z \in 1..(j - 1) : Drops(cs[z], "squadVersions", v)
    BY <1>3, <1>7, <2>1
  <2> QED
    BY <1>1, <1>4, <2>2, DropBefore
<1> QED
  BY <1>6, <1>7

(***************************************************************************)
(* References after one more storage call.                                 *)
(***************************************************************************)
ReferencesKept(g, cs) ==
  /\ Closed(g)
  /\ SquadPutsValid(g, cs) /\ PointerPutsValid(g, cs)
  /\ AgentsUnused(g, cs) /\ SquadsUnused(g, cs)

\* A squad that is valid is valid among any agents that hold its members.
LEMMA ValidAmong ==
  ASSUME NEW r, NEW known, NEW others, ValidSquad(r, known), r.members \subseteq others
  PROVE  ValidSquad(r, others)
  BY DEF ValidSquad

\* The types of the tables, one by one.
LEMMA TypedTables ==
  ASSUME NEW g, Typed(g), NEW t \in Tables
  PROVE  IsTable(g[t], Schema[t])
  BY SchemaTables DEF Typed

LEMMA PointersTyped ==
  ASSUME NEW g, Typed(g)
  PROVE  /\ \A s \in DOMAIN g.squads : s \in Squads /\ g.squads[s] \in SquadRecordSet
         /\ \A a \in DOMAIN g.agents : a \in Agents
         /\ \A p \in DOMAIN g.projectDefaults : g.projectDefaults[p] \in Squads /\ g.projectDefaults[p] # NoSquad
  BY TypedTables, NamesAssumption DEF Tables, IsTable, Schema

\* A squad that is still there, or one that a recording is about, is not deleted.
LEMMA SquadsClosedKept ==
  ASSUME NEW g, NEW h, NEW cs, NEW ds, NEW m, Moved(g, cs, h, ds, m), Typed(g), Typed(h), ReferencesKept(g, cs)
  PROVE  SquadsClosed(h)
<1> SUFFICES ASSUME NEW s \in DOMAIN h.squads PROVE ValidSquad(h.squads[s], DOMAIN h.agents)
  BY DEF SquadsClosed
<1>1. 1 \in DOMAIN cs /\ {"squads", "agents"} \subseteq Tables \ {"squadVersions"}
  BY Parts DEF Tables
<1>2. s \in Squads
  BY PointersTyped
<1>3. CASE s \in DOMAIN g.squads /\ h.squads[s] = g.squads[s]
  <2>1. ValidSquad(g.squads[s], DOMAIN g.agents)
    BY <1>3 DEF ReferencesKept, Closed, SquadsClosed
  <2>2. ASSUME NEW a \in g.squads[s].members PROVE a \in DOMAIN h.agents
    <3>1. a \in DOMAIN g.agents /\ a \in Agents
      BY <2>1, PointersTyped DEF ValidSquad
    <3>2. ~Drops(cs[1], "agents", a)
      BY <1>1, <1>3, <3>1 DEF ReferencesKept, AgentsUnused
    <3> QED
      BY <1>1, <3>1, <3>2, FirstMoves
  <2> QED
    BY <1>3, <2>1, <2>2, ValidAmong
<1>4. CASE Puts(cs[1], "squads", s) /\ h.squads[s] = cs[1].rows[s]
  <2>1. /\ ValidSquad(cs[1].rows[s], cs[1].rows[s].members)
        /\ \A a \in cs[1].rows[s].members : Holds(g, cs, "agents", a, 1)
    BY <1>1, <1>2, <1>4 DEF ReferencesKept, SquadPutsValid
  <2>2. ASSUME NEW a \in cs[1].rows[s].members PROVE a \in DOMAIN h.agents
    <3>1. a \in DOMAIN g.agents
      BY <2>1 DEF Holds
    <3>2. ~Drops(cs[1], "agents", a)
      BY <1>4 DEF Puts, Drops
    <3> QED
      BY <1>1, <3>1, <3>2, FirstMoves
  <2> QED
    BY <1>4, <2>1, <2>2, ValidAmong
<1> QED
  BY <1>1, <1>3, <1>4, FirstMoves

\* A call leaves no dangling pointer.
LEMMA PointersClosedKept ==
  ASSUME NEW g, NEW h, NEW cs, NEW ds, NEW m, Moved(g, cs, h, ds, m), Typed(g), Typed(h), ReferencesKept(g, cs)
  PROVE  PointersClosed(h)
<1>1. 1 \in DOMAIN cs /\ "squads" \in Tables \ {"squadVersions"} /\ Pointers \subseteq Tables \ {"squadVersions"}
  BY Parts DEF Tables, Pointers
<1>2. ASSUME NEW t \in Pointers, NEW x \in DOMAIN h[t], h[t][x] # NoSquad PROVE h[t][x] \in DOMAIN h.squads
  <2>1. CASE x \in DOMAIN g[t] /\ h[t][x] = g[t][x]
    <3>1. g[t][x] \in DOMAIN g.squads
      BY <1>2, <2>1 DEF ReferencesKept, Closed, PointersClosed, Pointers
    <3>2. ~Drops(cs[1], "squads", g[t][x])
      BY <1>1, <2>1, <3>1, PointersTyped DEF ReferencesKept, SquadsUnused
    <3> QED
      BY <1>1, <2>1, <3>1, <3>2, FirstMoves
  <2>2. CASE Puts(cs[1], t, x) /\ h[t][x] = cs[1].rows[x]
    <3>1. Holds(g, cs, "squads", cs[1].rows[x], 1)
      BY <1>1, <1>2, <2>2 DEF ReferencesKept, PointerPutsValid, Puts
    <3>2. cs[1].rows[x] \in DOMAIN g.squads
      BY <3>1 DEF Holds
    <3>3. ~Drops(cs[1], "squads", cs[1].rows[x])
      BY <2>2 DEF Puts, Drops
    <3> QED
      BY <1>1, <2>2, <3>2, <3>3, FirstMoves
  <2> QED
    BY <1>1, <2>1, <2>2, FirstMoves
<1>3. {"sessionModes", "nextModes", "projectDefaults"} \subseteq Pointers
  BY DEF Pointers
<1> QED
  BY <1>2, <1>3, PointersTyped DEF PointersClosed

\* Recording touches no other table.
LEMMA RecordTouches ==
  ASSUME NEW g, NEW h, NEW cs, NEW ds, NEW m, Moved(g, cs, h, ds, m), cs[1].do = "record",
         NEW t \in Tables \ {"squadVersions"}
  PROVE  h[t] = g[t]
  BY DEF Moved, Advances, Touches

\* A call leaves no version of an unknown squad and none without its members.
LEMMA VersionsClosedKept ==
  ASSUME NEW g, NEW h, NEW cs, NEW ds, NEW m, Moved(g, cs, h, ds, m), Typed(g), Typed(h),
         ReferencesKept(g, cs), RecordsHeld(g, cs)
  PROVE  VersionsClosed(h)
<1>1. 1 \in DOMAIN cs /\ "squads" \in Tables \ {"squadVersions"}
  BY Parts DEF Tables
<1> SUFFICES ASSUME NEW v \in DOMAIN h.squadVersions
             PROVE  /\ v[1] \in DOMAIN h.squads
                    /\ ValidSquad(h.squadVersions[v].record, DOMAIN h.squadVersions[v].members)
  BY DEF VersionsClosed
<1>2. CASE v \in DOMAIN g.squadVersions /\ h.squadVersions[v] = g.squadVersions[v]
  <2>1. /\ v[1] \in DOMAIN g.squads
        /\ ValidSquad(g.squadVersions[v].record, DOMAIN g.squadVersions[v].members)
    BY <1>2 DEF ReferencesKept, Closed, VersionsClosed
  <2>2. ~Drops(cs[1], "squads", v[1])
    BY <1>1, <1>2, <2>1, PointersTyped DEF ReferencesKept, SquadsUnused
  <2> QED
    BY <1>1, <1>2, <2>1, <2>2, FirstMoves
<1>3. ASSUME cs[1].do = "record", NEW q \in cs[1].squads, v = <<q, Latest(g, q) + 1>>,
             h.squadVersions[v] = Snapshot(g, q)
      PROVE  /\ v[1] \in DOMAIN h.squads
             /\ ValidSquad(h.squadVersions[v].record, DOMAIN h.squadVersions[v].members)
  <2>1. Holds(g, cs, "squads", q, 1)
    BY <1>1, <1>3 DEF RecordsHeld
  <2>2. q \in DOMAIN g.squads /\ v[1] = q
    BY <1>3, <2>1 DEF Holds
  <2>3. q \in DOMAIN h.squads
    BY <1>1, <1>3, <2>2, RecordTouches
  <2>4. ValidSquad(g.squads[q], DOMAIN g.agents)
    BY <2>2 DEF ReferencesKept, Closed, SquadsClosed
  <2>5. Snapshot(g, q).record = g.squads[q] /\ DOMAIN Snapshot(g, q).members = g.squads[q].members \intersect DOMAIN g.agents
    BY DEF Snapshot
  <2>6. g.squads[q].members \subseteq DOMAIN Snapshot(g, q).members
    BY <2>4, <2>5 DEF ValidSquad
  <2>7. ValidSquad(Snapshot(g, q).record, DOMAIN Snapshot(g, q).members)
    BY <2>4, <2>5, <2>6, ValidAmong
  <2> QED
    BY <1>3, <2>2, <2>3, <2>7
<1> QED
  BY <1>2, <1>3 DEF Moved, Advances, VersionsMove

\* A call keeps the references, and the condition on the list.
LEMMA ReferencesAfter ==
  ASSUME NEW g, NEW h, NEW cs, NEW ds, NEW m, Moved(g, cs, h, ds, m), Typed(g), Typed(h), Orderly(cs),
         ReferencesKept(g, cs), RecordsHeld(g, cs)
  PROVE  ReferencesKept(h, ds)
<1>1. DOMAIN h.squads \subseteq Squads
  BY PointersTyped
<1>2. SquadPutsValid(g, cs) /\ PointerPutsValid(g, cs) /\ AgentsUnused(g, cs) /\ SquadsUnused(g, cs)
  BY DEF ReferencesKept
<1>3. Closed(h)
  BY SquadsClosedKept, PointersClosedKept, VersionsClosedKept DEF Closed
<1>4. SquadPutsValid(h, ds) /\ PointerPutsValid(h, ds)
  BY <1>2, SquadPutsKept, PointerPutsKept
<1>5. AgentsUnused(h, ds) /\ SquadsUnused(h, ds)
  BY <1>1, <1>2, AgentsUnusedKept, SquadsUnusedKept
<1> QED
  BY <1>3, <1>4, <1>5 DEF ReferencesKept

(***************************************************************************)
(* A replacing import leaves what its document says: the other squads, and *)
(* whatever names them, are to be deleted.                                 *)
(***************************************************************************)
Outgoing(cs, t, k) == \E i \in DOMAIN cs : Drops(cs[i], t, k)

\* What is left of a replacing import leads to the squads of the document,
SquadsReplaced(g, cs, d) ==
  /\ \A s \in DOMAIN g.squads :
       Outgoing(cs, "squads", s) \/ (s \in DOMAIN d.squads /\ g.squads[s] = d.squads[s])
  /\ \A s \in DOMAIN d.squads : Holds(g, cs, "squads", s, Len(cs) + 1)
  /\ \A i \in DOMAIN cs, s \in Squads :
       Puts(cs[i], "squads", s) => s \in DOMAIN d.squads /\ cs[i].rows[s] = d.squads[s]
  /\ \A a \in DOMAIN d.agents : Holds(g, cs, "agents", a, Len(cs) + 1)

\* to pointers into it,
PointersReplaced(g, cs, d) ==
  \A t \in Pointers :
    /\ \A i \in DOMAIN cs : cs[i].do = "put" => cs[i].table # t
    /\ \A x \in DOMAIN g[t] : Outgoing(cs, t, x) \/ g[t][x] \in DOMAIN d.squads \union {NoSquad}

\* to versions of its squads,
VersionsReplaced(g, cs, d) ==
  \A v \in DOMAIN g.squadVersions :
    \/ Outgoing(cs, "squadVersions", v)
    \/ /\ v[1] \in DOMAIN d.squads
       /\ ValidSquad(g.squadVersions[v].record, DOMAIN g.squadVersions[v].members)

\* and so to a closed graph.
Replacing(g, cs, d) ==
  ValidDocument(d, {}) /\ SquadsReplaced(g, cs, d) /\ PointersReplaced(g, cs, d) /\ VersionsReplaced(g, cs, d)

\* A row that is still to be deleted, one call later.
LEMMA OutgoingAfter ==
  ASSUME NEW g, NEW h, NEW cs, NEW ds, NEW m, Moved(g, cs, h, ds, m), NEW t \in Tables, NEW k, Outgoing(cs, t, k)
  PROVE  Outgoing(ds, t, k) \/ k \notin DOMAIN h[t]
<1>1. /\ \A i \in 1..m : i \in DOMAIN ds
      /\ \A j \in DOMAIN cs : j > 1 => j + m - 1 \in DOMAIN ds /\ ds[j + m - 1] = cs[j]
      /\ DOMAIN cs = 1..Len(cs) /\ Len(cs) \in Nat
  BY Parts
<1>2. PICK j \in DOMAIN cs : Drops(cs[j], t, k)
  BY DEF Outgoing
<1>3. CASE j > 1
  BY <1>1, <1>2, <1>3 DEF Outgoing
<1>4. CASE j = 1
  <2>1. (\E i \in 1..m : Drops(ds[i], t, k)) \/ k \notin DOMAIN h[t]
    BY <1>2, <1>4 DEF Moved, Advances, DropsMove
  <2> QED
    BY <1>1, <2>1 DEF Outgoing
<1> QED
  BY <1>1, <1>3, <1>4

\* Each part of that is kept by a call.
LEMMA SquadsReplacedAfter ==
  ASSUME NEW g, NEW h, NEW cs, NEW ds, NEW m, Moved(g, cs, h, ds, m), Typed(h), Orderly(cs),
         NEW d, SquadsReplaced(g, cs, d)
  PROVE  SquadsReplaced(h, ds, d)
<1>1. 1 \in DOMAIN cs /\ "squads" \in Tables \ {"squadVersions"}
  BY Parts DEF Tables
<1>2. Len(ds) = Len(cs) + m - 1 /\ Len(cs) \in Nat /\ m \in Nat /\ DOMAIN cs = 1..Len(cs)
  BY Parts
<1>3. Len(cs) + 1 \in 2..(Len(cs) + 1)
  BY <1>1, <1>2
<1>4. Len(ds) + 1 = (Len(cs) + 1) + m - 1
  BY <1>2
<1>5. ASSUME NEW t \in {"agents", "squads"}, NEW k, Holds(g, cs, t, k, Len(cs) + 1)
      PROVE  Holds(h, ds, t, k, Len(ds) + 1)
  BY <1>3, <1>4, <1>5, HoldsKept
<1>6. ASSUME NEW i \in DOMAIN ds, NEW s \in Squads, Puts(ds[i], "squads", s)
      PROVE  s \in DOMAIN d.squads /\ ds[i].rows[s] = d.squads[s]
  <2>1. PICK j \in DOMAIN cs : Was(cs, ds, m, i, j)
    BY EveryWas
  <2>2. Puts(cs[j], "squads", s) /\ ds[i].rows[s] = cs[j].rows[s]
    BY <1>6, <2>1, WasPuts
  <2> QED
    BY <2>2 DEF SquadsReplaced
<1>7. ASSUME NEW s \in DOMAIN h.squads
      PROVE  Outgoing(ds, "squads", s) \/ (s \in DOMAIN d.squads /\ h.squads[s] = d.squads[s])
  <2>1. CASE s \in DOMAIN g.squads /\ h.squads[s] = g.squads[s]
    <3>1. CASE Outgoing(cs, "squads", s)
      BY <1>1, <3>1, OutgoingAfter
    <3>2. CASE s \in DOMAIN d.squads /\ g.squads[s] = d.squads[s]
      BY <2>1, <3>2
    <3> QED
      BY <2>1, <3>1, <3>2 DEF SquadsReplaced
  <2>2. CASE Puts(cs[1], "squads", s) /\ h.squads[s] = cs[1].rows[s]
    <3>1. s \in Squads
      BY PointersTyped
    <3> QED
      BY <1>1, <2>2, <3>1 DEF SquadsReplaced
  <2> QED
    BY <1>1, <2>1, <2>2, FirstMoves
<1> QED
  BY <1>5, <1>6, <1>7 DEF SquadsReplaced

LEMMA PointersReplacedAfter ==
  ASSUME NEW g, NEW h, NEW cs, NEW ds, NEW m, Moved(g, cs, h, ds, m), NEW d, PointersReplaced(g, cs, d)
  PROVE  PointersReplaced(h, ds, d)
<1> SUFFICES ASSUME NEW t \in Pointers
             PROVE  /\ \A i \in DOMAIN ds : ds[i].do = "put" => ds[i].table # t
                    /\ \A x \in DOMAIN h[t] : Outgoing(ds, t, x) \/ h[t][x] \in DOMAIN d.squads \union {NoSquad}
  BY DEF PointersReplaced
<1>1. 1 \in DOMAIN cs /\ t \in Tables \ {"squadVersions"}
  BY Parts DEF Tables, Pointers
<1>2. ASSUME NEW i \in DOMAIN ds, ds[i].do = "put" PROVE ds[i].table # t
  <2>1. PICK j \in DOMAIN cs : Was(cs, ds, m, i, j)
    BY EveryWas
  <2>2. cs[j].do = "put" /\ ds[i].table = cs[j].table
    BY <1>2, <2>1 DEF Was, PartOf
  <2> QED
    BY <2>2 DEF PointersReplaced
<1>3. ASSUME NEW x \in DOMAIN h[t]
      PROVE  Outgoing(ds, t, x) \/ h[t][x] \in DOMAIN d.squads \union {NoSquad}
  <2>1. x \in DOMAIN g[t] /\ h[t][x] = g[t][x]
    BY <1>1, FirstMoves DEF PointersReplaced, Puts
  <2> QED
    BY <1>1, <2>1, OutgoingAfter DEF PointersReplaced
<1> QED
  BY <1>2, <1>3

LEMMA VersionsReplacedAfter ==
  ASSUME NEW g, NEW h, NEW cs, NEW ds, NEW m, Moved(g, cs, h, ds, m), Orderly(cs), RecordsHeld(g, cs),
         cs[1].do = "record" => \A q \in cs[1].squads : g.squads[q].members \subseteq DOMAIN g.agents,
         NEW d, ValidDocument(d, {}), SquadsReplaced(g, cs, d), VersionsReplaced(g, cs, d)
  PROVE  VersionsReplaced(h, ds, d)
<1>1. 1 \in DOMAIN cs /\ "squadVersions" \in Tables /\ DOMAIN cs = 1..Len(cs) /\ Len(cs) \in Nat
  BY Parts DEF Tables
<1> SUFFICES ASSUME NEW v \in DOMAIN h.squadVersions
             PROVE  \/ Outgoing(ds, "squadVersions", v)
                    \/ /\ v[1] \in DOMAIN d.squads
                       /\ ValidSquad(h.squadVersions[v].record, DOMAIN h.squadVersions[v].members)
  BY DEF VersionsReplaced
<1>2. CASE v \in DOMAIN g.squadVersions /\ h.squadVersions[v] = g.squadVersions[v]
  <2>1. CASE Outgoing(cs, "squadVersions", v)
    BY <1>1, <2>1, OutgoingAfter
  <2>2. CASE ~Outgoing(cs, "squadVersions", v)
    BY <1>2, <2>2 DEF VersionsReplaced
  <2> QED
    BY <2>1, <2>2
<1>3. ASSUME cs[1].do = "record", NEW q \in cs[1].squads, v = <<q, Latest(g, q) + 1>>,
             h.squadVersions[v] = Snapshot(g, q)
      PROVE  /\ v[1] \in DOMAIN d.squads
             /\ ValidSquad(h.squadVersions[v].record, DOMAIN h.squadVersions[v].members)
  <2>1. Holds(g, cs, "squads", q, 1)
    BY <1>1, <1>3 DEF RecordsHeld
  <2>2. q \in DOMAIN g.squads /\ v[1] = q
    BY <1>3, <2>1 DEF Holds
  <2>3. ~Outgoing(cs, "squads", q)
    <3>1. ASSUME NEW i \in DOMAIN cs, Drops(cs[i], "squads", q) PROVE FALSE
      <4>1. CASE i = 1
        BY <1>3, <3>1, <4>1 DEF Drops
      <4>2. CASE i # 1
        <5>1. 1 < i
          BY <1>1, <4>2
        <5> QED
          BY <1>1, <1>3, <3>1, <5>1 DEF Orderly, Drops
      <4> QED
        BY <4>1, <4>2
    <3> QED
      BY <3>1 DEF Outgoing
  <2>4. q \in DOMAIN d.squads /\ g.squads[q] = d.squads[q]
    BY <2>2, <2>3 DEF SquadsReplaced
  <2>5. ValidSquad(g.squads[q], {} \union DOMAIN d.agents)
    BY <2>4 DEF ValidDocument
  <2>6. Snapshot(g, q).record = g.squads[q] /\ DOMAIN Snapshot(g, q).members = g.squads[q].members \intersect DOMAIN g.agents
    BY DEF Snapshot
  <2>7. g.squads[q].members \subseteq DOMAIN Snapshot(g, q).members
    BY <1>3, <2>6
  <2>8. ValidSquad(Snapshot(g, q).record, DOMAIN Snapshot(g, q).members)
    BY <2>5, <2>6, <2>7, ValidAmong
  <2> QED
    BY <1>3, <2>2, <2>4, <2>8
<1> QED
  BY <1>2, <1>3 DEF Moved, Advances, VersionsMove

\* A call of a replacing import keeps the way to the document.
LEMMA ReplacingAfter ==
  ASSUME NEW g, NEW h, NEW cs, NEW ds, NEW m, Moved(g, cs, h, ds, m), Typed(h), Orderly(cs), RecordsHeld(g, cs),
         cs[1].do = "record" => \A q \in cs[1].squads : g.squads[q].members \subseteq DOMAIN g.agents,
         NEW d, Replacing(g, cs, d)
  PROVE  Replacing(h, ds, d)
<1>1. ValidDocument(d, {}) /\ SquadsReplaced(g, cs, d) /\ PointersReplaced(g, cs, d) /\ VersionsReplaced(g, cs, d)
  BY DEF Replacing
<1>2. SquadsReplaced(h, ds, d)
  BY <1>1, SquadsReplacedAfter
<1>3. PointersReplaced(h, ds, d)
  BY <1>1, PointersReplacedAfter
<1>4. VersionsReplaced(h, ds, d)
  BY <1>1, VersionsReplacedAfter
<1> QED
  BY <1>1, <1>2, <1>3, <1>4 DEF Replacing

\* Once every change is made, the tables are closed.
LEMMA ReplacedIsClosed ==
  ASSUME NEW g, Typed(g), NEW d, Replacing(g, <<>>, d)
  PROVE  Closed(g)
<1> DEFINE none == <<>>
<1>1. Len(none) = 0 /\ DOMAIN none = {}
  OBVIOUS
<1>2. ValidDocument(d, {}) /\ SquadsReplaced(g, none, d) /\ PointersReplaced(g, none, d) /\ VersionsReplaced(g, none, d)
  BY DEF Replacing
<1> HIDE DEF none
<1>3. \A t, k : ~Outgoing(none, t, k)
  BY <1>1 DEF Outgoing
<1>4. ASSUME NEW t, NEW k, Holds(g, none, t, k, Len(none) + 1) PROVE k \in DOMAIN g[t]
  BY <1>1, <1>4 DEF Holds
<1>5. \A s \in DOMAIN d.squads : s \in DOMAIN g.squads
  BY <1>2, <1>4 DEF SquadsReplaced
<1>6. \A a \in DOMAIN d.agents : a \in DOMAIN g.agents
  BY <1>2, <1>4 DEF SquadsReplaced
<1>7. SquadsClosed(g)
  <2> SUFFICES ASSUME NEW s \in DOMAIN g.squads PROVE ValidSquad(g.squads[s], DOMAIN g.agents)
    BY DEF SquadsClosed
  <2>1. s \in DOMAIN d.squads /\ g.squads[s] = d.squads[s]
    BY <1>2, <1>3 DEF SquadsReplaced
  <2>2. ValidSquad(g.squads[s], {} \union DOMAIN d.agents)
    BY <1>2, <2>1 DEF ValidDocument
  <2>3. g.squads[s].members \subseteq DOMAIN g.agents
    BY <1>6, <2>2 DEF ValidSquad
  <2> QED
    BY <2>2, <2>3, ValidAmong
<1>8. PointersClosed(g)
  <2>1. \A t \in Pointers : \A x \in DOMAIN g[t] : g[t][x] \in DOMAIN g.squads \union {NoSquad}
    BY <1>2, <1>3, <1>5 DEF PointersReplaced
  <2>2. {"sessionModes", "nextModes", "projectDefaults"} \subseteq Pointers
    BY DEF Pointers
  <2> QED
    BY <2>1, <2>2, PointersTyped DEF PointersClosed
<1>9. VersionsClosed(g)
  BY <1>2, <1>3, <1>5 DEF VersionsReplaced, VersionsClosed
<1> QED
  BY <1>7, <1>8, <1>9 DEF Closed

(***************************************************************************)
(* Sets and lists as lists of changes.                                     *)
(***************************************************************************)
LEMMA SetToSeqCovers ==
  ASSUME NEW S, IsFiniteSet(S)
  PROVE  /\ SetToSeq(S) \in [1..Cardinality(S) -> S] /\ Cardinality(S) \in Nat
         /\ \A x \in S : \E i \in 1..Cardinality(S) : SetToSeq(S)[i] = x
<1> DEFINE n == Cardinality(S)
           f == SetToSeq(S)
<1>1. n \in Nat /\ ExistsBijection(1..n, S)
  BY FS_CardinalityType
<1>2. PICK b : b \in Bijection(1..n, S)
  BY <1>1 DEF ExistsBijection
<1>3. b \in [1..n -> S] /\ IsInjective(b)
  BY <1>2 DEF Bijection, Injection, IsInjective
<1>4. f \in [1..n -> S] /\ IsInjective(f)
  BY <1>3 DEF SetToSeq
<1>5. f \in Injection(1..n, S)
  BY <1>4 DEF Injection, IsInjective
<1>6. Cardinality(1..n) = n
  BY <1>1, FS_Interval
<1> HIDE DEF f
<1>7. f \in Surjection(1..n, S)
  BY <1>5, <1>6, FS_Injection
<1> QED
  BY <1>1, <1>4, <1>7 DEF Surjection, f

\* The lists before number n of F one after the other, as FlattenSeq builds them.
Flat(F, n, f) == f = [i \in 1..n |-> IF i = 1 THEN F[i] ELSE f[i - 1] \o F[i]]

\* FlattenSeq is the last of the partial concatenations.
LEMMA FlatExists ==
  ASSUME NEW F, NEW n \in Nat
  PROVE  \E f : Flat(F, n, f)
<1> DEFINE missing == {x \in Nat : ~\E f : Flat(F, x, f)}
<1>1. SUFFICES ASSUME missing # {} PROVE FALSE
  OBVIOUS
<1>2. PICK x \in missing : \A y \in missing : x <= y
  <2>1. missing \in SUBSET Nat
    OBVIOUS
  <2> HIDE DEF missing
  <2> QED
    BY <1>1, <2>1, Least
<1>3. x # 0
  <2>1. Flat(F, 0, [i \in 1..0 |-> F[i]])
    BY DEF Flat
  <2> QED
    BY <2>1
<1>4. x - 1 \in Nat /\ x - 1 \notin missing
  BY <1>2, <1>3
<1>5. PICK f : Flat(F, x - 1, f)
  BY <1>4
<1> DEFINE g == [i \in 1..x |-> IF i = x THEN (IF x = 1 THEN F[x] ELSE f[x - 1] \o F[x]) ELSE f[i]]
<1>6. \A i \in 1..(x - 1) : f[i] = IF i = 1 THEN F[i] ELSE f[i - 1] \o F[i]
  BY <1>5 DEF Flat
<1>7. \A i \in 1..x : g[i] = IF i = 1 THEN F[i] ELSE g[i - 1] \o F[i]
  <2>1. CASE x = 1
    BY <2>1
  <2>2. CASE x # 1
    <3> SUFFICES ASSUME NEW i \in 1..x PROVE g[i] = IF i = 1 THEN F[i] ELSE g[i - 1] \o F[i]
      OBVIOUS
    <3>1. CASE i = x
      <4>1. x - 1 \in 1..x /\ x - 1 # x /\ g[x - 1] = f[x - 1]
        BY <1>3, <2>2
      <4> QED
        BY <2>2, <3>1, <4>1
    <3>2. CASE i # x /\ i # 1
      <4>1. i - 1 \in 1..x /\ i - 1 # x /\ g[i - 1] = f[i - 1]
        BY <3>2
      <4>2. i \in 1..(x - 1) /\ g[i] = f[i]
        BY <3>2
      <4> QED
        BY <1>6, <3>2, <4>1, <4>2
    <3>3. CASE i # x /\ i = 1
      <4>1. i \in 1..(x - 1) /\ g[i] = f[i]
        BY <3>3
      <4> QED
        BY <1>6, <3>3, <4>1
    <3> QED
      BY <3>1, <3>2, <3>3
  <2> QED
    BY <2>1, <2>2
<1>8. g = [i \in 1..x |-> g[i]]
  OBVIOUS
<1> HIDE DEF g
<1>9. g = [i \in 1..x |-> IF i = 1 THEN F[i] ELSE g[i - 1] \o F[i]]
  BY <1>7, <1>8
<1>10. Flat(F, x, g)
  BY <1>9 DEF Flat
<1> QED
  BY <1>2, <1>10

LEMMA FlattenSeqIs ==
  ASSUME NEW F, Len(F) \in Nat \ {0}
  PROVE  \E f : Flat(F, Len(F), f) /\ FlattenSeq(F) = f[Len(F)]
<1> DEFINE n == Len(F)
           flatten == CHOOSE f : f = [i \in 1..n |-> IF i = 1 THEN F[i] ELSE f[i - 1] \o F[i]]
<1>1. PICK f : f = [i \in 1..n |-> IF i = 1 THEN F[i] ELSE f[i - 1] \o F[i]]
  BY FlatExists DEF Flat
<1>2. flatten = [i \in 1..n |-> IF i = 1 THEN F[i] ELSE flatten[i - 1] \o F[i]]
  BY <1>1
<1>3. FlattenSeq(F) = flatten[n]
  BY DEF FlattenSeq
<1> QED
  BY <1>2, <1>3 DEF Flat

\* The concatenation of two lists.
LEMMA Appended ==
  ASSUME NEW S, NEW p \in Seq(S), NEW r \in Seq(S)
  PROVE  /\ p \o r \in Seq(S) /\ Len(p \o r) = Len(p) + Len(r) /\ Len(p) \in Nat /\ Len(r) \in Nat
         /\ DOMAIN (p \o r) = 1..(Len(p) + Len(r)) /\ DOMAIN p = 1..Len(p) /\ DOMAIN r = 1..Len(r)
         /\ \A i \in 1..Len(p) : (p \o r)[i] = p[i]
         /\ \A i \in 1..Len(r) : (p \o r)[Len(p) + i] = r[i]
<1>1. /\ p \o r \in Seq(S) /\ Len(p \o r) = Len(p) + Len(r) /\ Len(p) \in Nat /\ Len(r) \in Nat
      /\ DOMAIN (p \o r) = 1..(Len(p) + Len(r)) /\ DOMAIN p = 1..Len(p) /\ DOMAIN r = 1..Len(r)
  OBVIOUS
<1>2. \A i \in 1..Len(p) : (p \o r)[i] = p[i]
  OBVIOUS
<1>3. ASSUME NEW i \in 1..Len(r) PROVE (p \o r)[Len(p) + i] = r[i]
  BY <1>1
<1> QED
  BY <1>1, <1>2, <1>3

\* A list of lists, and every element of the one before or in another.
Lists(F, n, S) ==
  DOMAIN F = 1..n /\ Len(F) = n /\ (\A i \in 1..n : F[i] \in Seq(S)) /\ (n = 0 => F = <<>>)

\* The elements of a concatenation of lists are those of the lists.
LEMMA FlattenElements ==
  ASSUME NEW S, NEW F, NEW n \in Nat, Lists(F, n, S)
  PROVE  /\ FlattenSeq(F) \in Seq(S)
         /\ \A x \in DOMAIN FlattenSeq(F) : \E i \in 1..n : \E y \in DOMAIN F[i] : FlattenSeq(F)[x] = F[i][y]
         /\ \A i \in 1..n : \A y \in DOMAIN F[i] : \E x \in DOMAIN FlattenSeq(F) : FlattenSeq(F)[x] = F[i][y]
<1> USE DEF Lists
<1>1. CASE n = 0
  <2>1. FlattenSeq(F) = <<>>
    BY <1>1 DEF FlattenSeq
  <2>2. <<>> \in Seq(S) /\ DOMAIN <<>> = {}
    OBVIOUS
  <2> QED
    BY <1>1, <2>1, <2>2
<1>2. CASE n # 0
  <2>1. PICK f : Flat(F, n, f) /\ FlattenSeq(F) = f[n]
    BY <1>2, FlattenSeqIs
  <2> DEFINE Fine(x) ==
               /\ f[x] \in Seq(S)
               /\ \A z \in DOMAIN f[x] : \E i \in 1..x : \E y \in DOMAIN F[i] : f[x][z] = F[i][y]
               /\ \A i \in 1..x : \A y \in DOMAIN F[i] : \E z \in DOMAIN f[x] : f[x][z] = F[i][y]
             bad == {x \in 1..n : ~Fine(x)}
  <2>2. \A x \in 1..n : f[x] = IF x = 1 THEN F[x] ELSE f[x - 1] \o F[x]
    BY <2>1 DEF Flat
  <2>3. Fine(1)
    <3>1. f[1] = F[1]
      BY <1>2, <2>2
    <3> QED
      BY <1>2, <3>1
  <2>4. ASSUME NEW x \in 1..n, x # 1, Fine(x - 1) PROVE Fine(x)
    <3> DEFINE w == x - 1
               p == f[w]
               r == F[x]
    <3>a. x # 1
      BY <2>4
    <3>b. f[x] = f[x - 1] \o F[x]
      BY <2>2, <3>a
    <3>1. f[x] = p \o r /\ w \in 1..n /\ w \in Nat /\ x = w + 1
      BY <3>a, <3>b
    <3>2. p \in Seq(S) /\ r \in Seq(S)
      BY <2>4
    <3>3. /\ p \o r \in Seq(S) /\ Len(p \o r) = Len(p) + Len(r) /\ Len(p) \in Nat /\ Len(r) \in Nat
          /\ DOMAIN (p \o r) = 1..(Len(p) + Len(r)) /\ DOMAIN p = 1..Len(p) /\ DOMAIN r = 1..Len(r)
          /\ \A i \in 1..Len(p) : (p \o r)[i] = p[i]
          /\ \A i \in 1..Len(r) : (p \o r)[Len(p) + i] = r[i]
      BY <3>2, Appended
    <3>4. /\ \A z \in DOMAIN p : \E i \in 1..w : \E y \in DOMAIN F[i] : p[z] = F[i][y]
          /\ \A i \in 1..w : \A y \in DOMAIN F[i] : \E z \in DOMAIN p : p[z] = F[i][y]
      BY <2>4
    <3> HIDE DEF w, p
    <3>5. ASSUME NEW z \in DOMAIN f[x] PROVE \E i \in 1..x : \E y \in DOMAIN F[i] : f[x][z] = F[i][y]
      <4>1. CASE z \in 1..Len(p)
        <5>1. PICK i \in 1..w : \E y \in DOMAIN F[i] : p[z] = F[i][y]
          BY <3>3, <3>4, <4>1
        <5>2. i \in 1..x /\ f[x][z] = p[z]
          BY <3>1, <3>3, <4>1
        <5> QED
          BY <5>1, <5>2
      <4>2. CASE z \notin 1..Len(p)
        <5>1. z - Len(p) \in 1..Len(r) /\ Len(p) + (z - Len(p)) = z
          BY <3>1, <3>3, <4>2
        <5>2. f[x][z] = r[z - Len(p)] /\ z - Len(p) \in DOMAIN r
          BY <3>1, <3>3, <5>1
        <5>3. x \in 1..x
          OBVIOUS
        <5> QED
          BY <5>2, <5>3
      <4> QED
        BY <4>1, <4>2
    <3>6. ASSUME NEW i \in 1..x, NEW y \in DOMAIN F[i] PROVE \E z \in DOMAIN f[x] : f[x][z] = F[i][y]
      <4>1. CASE i \in 1..w
        <5>1. PICK z \in DOMAIN p : p[z] = F[i][y]
          BY <3>4, <4>1
        <5>2. z \in DOMAIN f[x] /\ f[x][z] = p[z]
          BY <3>1, <3>3
        <5> QED
          BY <5>1, <5>2
      <4>2. CASE i \notin 1..w
        <5>1. i = x
          BY <3>1, <4>2
        <5>2. y \in 1..Len(r)
          BY <3>3, <5>1
        <5>3. Len(p) + y \in DOMAIN f[x] /\ f[x][Len(p) + y] = r[y]
          BY <3>1, <3>3, <5>2
        <5> QED
          BY <5>1, <5>3
      <4> QED
        BY <4>1, <4>2
    <3>7. f[x] \in Seq(S)
      BY <3>1, <3>3
    <3> QED
      BY <3>5, <3>6, <3>7
  <2> HIDE DEF Fine
  <2>5. bad = {}
    <3>1. SUFFICES ASSUME bad # {} PROVE FALSE
      OBVIOUS
    <3>2. bad \in SUBSET Nat
      OBVIOUS
    <3>3. PICK x \in bad : \A y \in bad : x <= y
      BY <3>1, <3>2, Least
    <3>4. x \in 1..n /\ ~Fine(x)
      OBVIOUS
    <3>5. x # 1
      BY <2>3, <3>4
    <3>6. x - 1 \in 1..n /\ x - 1 \notin bad
      BY <3>3, <3>4, <3>5
    <3> QED
      BY <2>4, <3>4, <3>5, <3>6
  <2>6. Fine(n)
    BY <1>2, <2>5
  <2> QED
    BY <2>1, <2>6 DEF Fine
<1> QED
  BY <1>1, <1>2

\* A set of lists that is closed under concatenation holds that of any of its lists.
LEMMA FlattenClosed ==
  ASSUME NEW L, \A p, r \in L : p \o r \in L,
         NEW F, NEW n \in Nat \ {0}, DOMAIN F = 1..n, Len(F) = n, \A i \in 1..n : F[i] \in L
  PROVE  FlattenSeq(F) \in L
<1>1. PICK f : Flat(F, n, f) /\ FlattenSeq(F) = f[n]
  BY FlattenSeqIs
<1>2. \A x \in 1..n : f[x] = IF x = 1 THEN F[x] ELSE f[x - 1] \o F[x]
  BY <1>1 DEF Flat
<1> DEFINE bad == {x \in 1..n : f[x] \notin L}
<1>3. bad = {}
  <2>1. SUFFICES ASSUME bad # {} PROVE FALSE
    OBVIOUS
  <2>2. bad \in SUBSET Nat
    OBVIOUS
  <2>3. PICK x \in bad : \A y \in bad : x <= y
    BY <2>1, <2>2, Least
  <2>4. x \in 1..n /\ f[x] \notin L
    OBVIOUS
  <2>5. x # 1
    BY <1>2, <2>4
  <2>6. x - 1 \in 1..n /\ x - 1 \notin bad
    BY <2>3, <2>4, <2>5
  <2>7. f[x] = f[x - 1] \o F[x] /\ f[x - 1] \in L /\ F[x] \in L
    BY <1>2, <2>4, <2>5, <2>6
  <2> QED
    BY <2>4, <2>7
<1> QED
  BY <1>1, <1>3

(***************************************************************************)
(* Lists of changes that put and record, with what is known before them:   *)
(* the agents A and the squads S.                                          *)
(***************************************************************************)
Held(cs, K, t, k, i) == k \in K \/ \E j \in 1..(i - 1) : Puts(cs[j], t, k)

\* A list without deletions into the tables T that records known squads (S, or put before).
Listed(cs, T, S) ==
  /\ cs \in Seq(Change)
  /\ \A i \in DOMAIN cs :
       /\ cs[i].do # "delete"
       /\ \A t \in Tables : Touches(cs[i], t) => t \in T
       /\ cs[i].do = "record" => \A q \in cs[i].squads : Held(cs, S, "squads", q, i)

\* A list whose squads have known members (A, or put before) and whose pointers name known squads.
Valid(cs, A, S) ==
  \A i \in DOMAIN cs :
    /\ \A s \in Squads : Puts(cs[i], "squads", s) =>
         /\ ValidSquad(cs[i].rows[s], cs[i].rows[s].members)
         /\ \A a \in cs[i].rows[s].members : Held(cs, A, "agents", a, i)
    /\ \A t \in Pointers : cs[i].do = "put" /\ cs[i].table = t =>
         \A x \in DOMAIN cs[i].rows : cs[i].rows[x] = NoSquad \/ Held(cs, S, "squads", cs[i].rows[x], i)

\* What is in K2 was in K, or is put by one of the changes.
After(p, K, t, K2) == \A k \in K2 : k \in K \/ \E j \in DOMAIN p : Puts(p[j], t, k)

\* An element of a concatenation is one of the first or one of the second list.
LEMMA AppendCases ==
  ASSUME NEW p \in Seq(Change), NEW r \in Seq(Change), NEW i \in DOMAIN (p \o r)
  PROVE  \/ i \in DOMAIN p /\ (p \o r)[i] = p[i]
         \/ \E j \in DOMAIN r : i = Len(p) + j /\ (p \o r)[i] = r[j]
<1>1. /\ Len(p) \in Nat /\ Len(r) \in Nat
      /\ DOMAIN (p \o r) = 1..(Len(p) + Len(r)) /\ DOMAIN p = 1..Len(p) /\ DOMAIN r = 1..Len(r)
      /\ \A x \in 1..Len(p) : (p \o r)[x] = p[x]
      /\ \A x \in 1..Len(r) : (p \o r)[Len(p) + x] = r[x]
  BY Appended
<1>2. CASE i \in 1..Len(p)
  BY <1>1, <1>2
<1>3. CASE i \notin 1..Len(p)
  <2>1. i - Len(p) \in 1..Len(r) /\ i = Len(p) + (i - Len(p))
    BY <1>1, <1>3
  <2> QED
    BY <1>1, <2>1
<1> QED
  BY <1>2, <1>3

\* Being held in a list of two parts.
LEMMA HeldInFirst ==
  ASSUME NEW p \in Seq(Change), NEW r \in Seq(Change), NEW i \in DOMAIN p,
         NEW K, NEW t, NEW k, Held(p, K, t, k, i)
  PROVE  Held(p \o r, K, t, k, i)
<1>1. /\ Len(p) \in Nat /\ DOMAIN p = 1..Len(p)
      /\ \A x \in 1..Len(p) : (p \o r)[x] = p[x]
  BY Appended
<1>2. \A j \in 1..(i - 1) : (p \o r)[j] = p[j]
  BY <1>1
<1> QED
  BY <1>2 DEF Held

LEMMA HeldInSecond ==
  ASSUME NEW p \in Seq(Change), NEW r \in Seq(Change), NEW j \in DOMAIN r,
         NEW K, NEW t, NEW k, NEW K2, After(p, K, t, K2), Held(r, K2, t, k, j),
         NEW i, i = Len(p) + j
  PROVE  Held(p \o r, K, t, k, i)
<1>1. /\ Len(p) \in Nat /\ DOMAIN p = 1..Len(p) /\ DOMAIN r = 1..Len(r) /\ Len(r) \in Nat
      /\ \A x \in 1..Len(p) : (p \o r)[x] = p[x]
      /\ \A x \in 1..Len(r) : (p \o r)[Len(p) + x] = r[x]
  BY Appended
<1>2. CASE k \in K
  BY <1>2 DEF Held
<1>3. ASSUME NEW x \in DOMAIN p, Puts(p[x], t, k) PROVE Held(p \o r, K, t, k, i)
  <2>1. x \in 1..(i - 1) /\ (p \o r)[x] = p[x]
    BY <1>1
  <2> QED
    BY <1>3, <2>1 DEF Held
<1>4. ASSUME NEW x \in 1..(j - 1), Puts(r[x], t, k) PROVE Held(p \o r, K, t, k, i)
  <2>1. Len(p) + x \in 1..(i - 1) /\ (p \o r)[Len(p) + x] = r[x]
    BY <1>1
  <2> QED
    BY <1>4, <2>1 DEF Held
<1> QED
  BY <1>2, <1>3, <1>4 DEF Held, After

\* Two such lists in a row are one.
LEMMA ListedTwice ==
  ASSUME NEW p, NEW r, NEW T, NEW S, NEW S2, Listed(p, T, S), Listed(r, T, S2), After(p, S, "squads", S2)
  PROVE  Listed(p \o r, T, S)
<1>1. p \in Seq(Change) /\ r \in Seq(Change) /\ p \o r \in Seq(Change)
  BY Appended DEF Listed
<1> SUFFICES ASSUME NEW i \in DOMAIN (p \o r), NEW c, c = (p \o r)[i]
             PROVE  /\ c.do # "delete"
                    /\ \A t \in Tables : Touches(c, t) => t \in T
                    /\ c.do = "record" => \A q \in c.squads : Held(p \o r, S, "squads", q, i)
  BY <1>1 DEF Listed
<1>2. CASE i \in DOMAIN p /\ c = p[i]
  BY <1>1, <1>2, HeldInFirst DEF Listed
<1>3. ASSUME NEW j \in DOMAIN r, i = Len(p) + j, c = r[j]
      PROVE  /\ c.do # "delete"
             /\ \A t \in Tables : Touches(c, t) => t \in T
             /\ c.do = "record" => \A q \in c.squads : Held(p \o r, S, "squads", q, i)
  BY <1>1, <1>3, HeldInSecond DEF Listed
<1> QED
  BY <1>1, <1>2, <1>3, AppendCases

LEMMA ValidTwice ==
  ASSUME NEW p \in Seq(Change), NEW r \in Seq(Change), NEW A, NEW S, NEW A2, NEW S2,
         Valid(p, A, S), Valid(r, A2, S2), After(p, A, "agents", A2), After(p, S, "squads", S2)
  PROVE  Valid(p \o r, A, S)
<1> DEFINE Sound(c, i) ==
      /\ \A s \in Squads : Puts(c, "squads", s) =>
           /\ ValidSquad(c.rows[s], c.rows[s].members)
           /\ \A a \in c.rows[s].members : Held(p \o r, A, "agents", a, i)
      /\ \A t \in Pointers : c.do = "put" /\ c.table = t =>
           \A x \in DOMAIN c.rows : c.rows[x] = NoSquad \/ Held(p \o r, S, "squads", c.rows[x], i)
<1> SUFFICES ASSUME NEW i \in DOMAIN (p \o r), NEW c, c = (p \o r)[i]
             PROVE  Sound(c, i)
  BY DEF Valid
<1>2. CASE i \in DOMAIN p /\ c = p[i]
  BY <1>2, HeldInFirst DEF Valid
<1>3. ASSUME NEW j \in DOMAIN r, i = Len(p) + j, c = r[j]
      PROVE  Sound(c, i)
  <2>1. ASSUME NEW s \in Squads, Puts(c, "squads", s)
        PROVE  /\ ValidSquad(c.rows[s], c.rows[s].members)
               /\ \A a \in c.rows[s].members : Held(p \o r, A, "agents", a, i)
    BY <1>3, <2>1, HeldInSecond DEF Valid
  <2>2. ASSUME NEW t \in Pointers, c.do = "put", c.table = t, NEW x \in DOMAIN c.rows
        PROVE  c.rows[x] = NoSquad \/ Held(p \o r, S, "squads", c.rows[x], i)
    BY <1>3, <2>2, HeldInSecond DEF Valid
  <2> QED
    BY <2>1, <2>2
<1> HIDE DEF Sound
<1> QED
  BY <1>2, <1>3, AppendCases

\* The shortest lists.
LEMMA EmptyList ==
  ASSUME NEW T, NEW A, NEW S
  PROVE  Listed(<<>>, T, S) /\ Valid(<<>>, A, S)
<1>1. <<>> \in Seq(Change) /\ DOMAIN <<>> = {}
  OBVIOUS
<1> DEFINE none == <<>>
<1> HIDE DEF none
<1>2. none \in Seq(Change) /\ DOMAIN none = {}
  BY <1>1 DEF none
<1>3. Listed(none, T, S) /\ Valid(none, A, S)
  BY <1>2 DEF Listed, Valid
<1> QED
  BY <1>3 DEF none

LEMMA OneList ==
  ASSUME NEW c \in Change, NEW cs, cs = <<c>>
  PROVE  cs \in Seq(Change) /\ DOMAIN cs = {1} /\ cs[1] = c /\ Len(cs) = 1
  OBVIOUS

LEMMA OneListed ==
  ASSUME NEW c \in Change, NEW T, NEW S, c.do # "delete", \A t \in Tables : Touches(c, t) => t \in T,
         c.do = "record" => c.squads \subseteq S
  PROVE  Listed(<<c>>, T, S)
<1> DEFINE cs == <<c>>
<1>1. cs \in Seq(Change) /\ DOMAIN cs = {1} /\ cs[1] = c
  BY OneList
<1> HIDE DEF cs
<1>2. Listed(cs, T, S)
  BY <1>1 DEF Listed, Held
<1> QED
  BY <1>2 DEF cs

LEMMA OneValid ==
  ASSUME NEW c \in Change, NEW A, NEW S,
         \A s \in Squads : Puts(c, "squads", s) => ValidSquad(c.rows[s], A),
         \A t \in Pointers : c.do = "put" /\ c.table = t =>
           \A x \in DOMAIN c.rows : c.rows[x] \in S \union {NoSquad}
  PROVE  Valid(<<c>>, A, S)
<1> DEFINE cs == <<c>>
<1>1. cs \in Seq(Change) /\ DOMAIN cs = {1} /\ cs[1] = c
  BY OneList
<1> HIDE DEF cs
<1>2. ASSUME NEW s \in Squads, Puts(c, "squads", s)
      PROVE  /\ ValidSquad(c.rows[s], c.rows[s].members)
             /\ \A a \in c.rows[s].members : Held(cs, A, "agents", a, 1)
  <2>1. ValidSquad(c.rows[s], A)
    BY <1>2
  <2>2. c.rows[s].members \subseteq A
    BY <2>1 DEF ValidSquad
  <2> QED
    BY <2>1, <2>2, ValidAmong DEF Held
<1>3. Valid(cs, A, S)
  BY <1>1, <1>2 DEF Valid, Held
<1> QED
  BY <1>3 DEF cs

\* The lists that the operations are made of.
LEMMA PutListed ==
  ASSUME NEW t \in Tables \ {"squadVersions"}, NEW rows, IsTable(rows, Schema[t]), NEW T, t \in T, NEW S
  PROVE  /\ Put(t, rows) \in Seq(Change) /\ Listed(Put(t, rows), T, S)
         /\ \A k \in DOMAIN rows : \E i \in DOMAIN Put(t, rows) : Puts(Put(t, rows)[i], t, k)
<1> DEFINE c == [do |-> "put", table |-> t, rows |-> rows]
<1>1. c \in Change /\ c.do = "put" /\ c.table = t /\ c.rows = rows
  BY PutIsChange
<1> HIDE DEF c
<1>2. CASE Put(t, rows) = <<c>>
  <2>1. Listed(<<c>>, T, S)
    BY <1>1, OneListed DEF Touches
  <2>2. <<c>> \in Seq(Change) /\ DOMAIN <<c>> = {1} /\ <<c>>[1] = c
    BY <1>1, OneList
  <2> QED
    BY <1>1, <1>2, <2>1, <2>2 DEF Puts
<1>3. CASE Put(t, rows) = <<>> /\ rows = <<>>
  <2>1. DOMAIN <<>> = {} /\ <<>> \in Seq(Change)
    OBVIOUS
  <2>2. DOMAIN rows = {}
    BY <1>3, <2>1
  <2> QED
    BY <1>3, <2>1, <2>2, EmptyList
<1>4. Put(t, rows) = IF rows = <<>> THEN <<>> ELSE <<c>>
  BY DEF Put, c
<1> QED
  BY <1>2, <1>3, <1>4

LEMMA PutValid ==
  ASSUME NEW t \in Tables \ {"squadVersions"}, NEW rows, IsTable(rows, Schema[t]), NEW A, NEW S,
         t = "squads" => \A s \in DOMAIN rows : ValidSquad(rows[s], A),
         t \in Pointers => \A x \in DOMAIN rows : rows[x] \in S \union {NoSquad}
  PROVE  Valid(Put(t, rows), A, S)
<1> DEFINE c == [do |-> "put", table |-> t, rows |-> rows]
<1>1. c \in Change /\ c.do = "put" /\ c.table = t /\ c.rows = rows
  BY PutIsChange
<1> HIDE DEF c
<1>2. Valid(<<c>>, A, S)
  BY <1>1, OneValid DEF Puts
<1>3. Put(t, rows) = IF rows = <<>> THEN <<>> ELSE <<c>>
  BY DEF Put, c
<1> QED
  BY <1>2, <1>3, EmptyList

LEMMA RecordListed ==
  ASSUME NEW squads, squads \subseteq Squads, NEW T, "squadVersions" \in T, NEW S, squads \subseteq S, NEW A
  PROVE  Record(squads) \in Seq(Change) /\ Listed(Record(squads), T, S) /\ Valid(Record(squads), A, S)
<1> DEFINE c == [do |-> "record", squads |-> squads]
<1>1. c \in Change /\ c.do = "record" /\ c.squads = squads
  BY OtherChanges
<1> HIDE DEF c
<1>2. Listed(<<c>>, T, S)
  BY <1>1, OneListed DEF Touches
<1>3. Valid(<<c>>, A, S)
  BY <1>1, OneValid DEF Puts
<1>4. Record(squads) = IF squads = {} THEN <<>> ELSE <<c>>
  BY DEF Record, c
<1> QED
  BY <1>2, <1>3, <1>4, EmptyList DEF Listed

LEMMA ThrowListed ==
  ASSUME NEW T, NEW S, NEW A
  PROVE  Listed(Throw, T, S) /\ Valid(Throw, A, S)
<1> DEFINE c == [do |-> "throw"]
<1>1. c \in Change /\ c.do = "throw"
  BY OtherChanges
<1> HIDE DEF c
<1>2. Listed(<<c>>, T, S)
  BY <1>1, OneListed DEF Touches
<1>3. Valid(<<c>>, A, S)
  BY <1>1, OneValid DEF Puts
<1> QED
  BY <1>2, <1>3 DEF Throw, c

\* One row is a table.
LEMMA RowIsTable ==
  ASSUME NEW type, NEW k \in type.keys, NEW v \in type.rows
  PROVE  IsTable(Row(k, v), type)
<1>1. DOMAIN Row(k, v) = {k} /\ Row(k, v)[k] = v
  BY RowOf
<1>2. IsFiniteSet({k})
  BY FS_Singleton
<1>3. Row(k, v) \in [{k} -> type.rows]
  BY DEF Row
<1> QED
  BY <1>1, <1>2, <1>3 DEF IsTable

\* One squad put into its table and recorded.
PutAndRecord(s, r) == Put("squads", Row(s, r)) \o Record({s})

\* A squad is put and recorded.
LEMMA PutSquadListed ==
  ASSUME NEW s \in Squads, NEW r \in SquadRecordSet, NEW T, {"squads", "squadVersions"} \subseteq T, NEW A, NEW S,
         NEW cs, cs = PutAndRecord(s, r)
  PROVE  /\ Listed(cs, T, S)
         /\ ValidSquad(r, A) => Valid(cs, A, S)
         /\ \E i \in DOMAIN cs : Puts(cs[i], "squads", s)
         /\ \A i \in DOMAIN cs : \A x : Puts(cs[i], "squads", x) => x = s /\ cs[i].rows[x] = r
<1> DEFINE rows == Row(s, r)
           p == Put("squads", rows)
           q == Record({s})
           c == [do |-> "put", table |-> "squads", rows |-> rows]
           e == [do |-> "record", squads |-> {s}]
<1>1. IsTable(rows, Schema["squads"]) /\ "squads" \in Tables \ {"squadVersions"}
  <2>1. s \in Schema["squads"].keys /\ r \in Schema["squads"].rows
    BY DEF Schema
  <2> QED
    BY <2>1, RowIsTable DEF Tables
<1>2. DOMAIN rows = {s} /\ rows[s] = r /\ rows # <<>>
  BY RowOf
<1>3. p = <<c>> /\ c.do = "put" /\ c.table = "squads" /\ c.rows = rows
  BY <1>2 DEF Put
<1>4. q = <<e>> /\ e.do = "record"
  BY DEF Record
<1>5. /\ p \in Seq(Change) /\ Listed(p, T, S)
      /\ \A k \in DOMAIN rows : \E i \in DOMAIN p : Puts(p[i], "squads", k)
  BY <1>1, PutListed
<1>6. q \in Seq(Change) /\ Listed(q, T, S \union {s}) /\ Valid(q, A, S \union {s})
  BY RecordListed
<1>7. ValidSquad(r, A) => Valid(p, A, S)
  BY <1>1, <1>2, PutValid DEF Pointers
<1>a. cs = p \o q
  BY DEF PutAndRecord
<1> HIDE DEF rows, p, q, c, e
<1>8. DOMAIN p = {1} /\ p[1] = c /\ DOMAIN q = {1} /\ q[1] = e
  BY <1>3, <1>4
<1>9. After(p, S, "squads", S \union {s}) /\ After(p, A, "agents", A)
  BY <1>2, <1>5 DEF After
<1>10. Listed(p \o q, T, S)
  BY <1>5, <1>6, <1>9, ListedTwice
<1>11. ValidSquad(r, A) => Valid(p \o q, A, S)
  BY <1>5, <1>6, <1>7, <1>9, ValidTwice
<1>12. \A i \in DOMAIN (p \o q) : (p \o q)[i] = c \/ (p \o q)[i] = e
  BY <1>5, <1>6, <1>8, AppendCases
<1>13. \A i \in DOMAIN (p \o q) : \A x : Puts((p \o q)[i], "squads", x) => x = s /\ (p \o q)[i].rows[x] = r
  BY <1>2, <1>3, <1>4, <1>12 DEF Puts
<1>14. \E i \in DOMAIN (p \o q) : Puts((p \o q)[i], "squads", s)
  <2>1. /\ DOMAIN p = 1..Len(p) /\ DOMAIN (p \o q) = 1..(Len(p) + Len(q)) /\ Len(p) \in Nat /\ Len(q) \in Nat
        /\ \A i \in 1..Len(p) : (p \o q)[i] = p[i]
    BY <1>5, <1>6, Appended
  <2>2. PICK i \in DOMAIN p : Puts(p[i], "squads", s)
    BY <1>2, <1>5
  <2>3. i \in DOMAIN (p \o q) /\ (p \o q)[i] = p[i]
    BY <2>1
  <2> QED
    BY <2>2, <2>3
<1> QED
  BY <1>a, <1>10, <1>11, <1>13, <1>14

(***************************************************************************)
(* The list of an operation, from the tables g it finds.  First what it    *)
(* puts and records, then the agents it deletes, if any.                   *)
(***************************************************************************)
AgentDrops(g, p, r) ==
  /\ \A i \in DOMAIN r : r[i].do = "delete" /\ r[i].table = "agents"
  /\ r # <<>> => \A i \in DOMAIN p : p[i].do = "put" => p[i].table # "agents"

\* The agents that r drops have been let go of by p.
Leaving(g, p, r) ==
  \A i \in DOMAIN r : \A a \in r[i].keys :
    /\ \A s \in DOMAIN g.squads : a \in g.squads[s].members => \E j \in DOMAIN p : Puts(p[j], "squads", s)
    /\ \A j \in DOMAIN p, s \in Squads : Puts(p[j], "squads", s) => a \notin p[j].rows[s].members

\* What is held in a part without deletions is held in the list.
LEMMA HoldsInFirst ==
  ASSUME NEW p \in Seq(Change), NEW r \in Seq(Change), \A x \in DOMAIN p : p[x].do # "delete",
         NEW i \in DOMAIN p, NEW g, NEW t, NEW k, Held(p, DOMAIN g[t], t, k, i)
  PROVE  Holds(g, p \o r, t, k, i)
<1>1. /\ Len(p) \in Nat /\ DOMAIN p = 1..Len(p)
      /\ \A x \in 1..Len(p) : (p \o r)[x] = p[x]
  BY Appended
<1>2. \A j \in 1..(i - 1) : j \in DOMAIN p /\ (p \o r)[j] = p[j]
  BY <1>1
<1> QED
  BY <1>2 DEF Held, Holds, Drops

\* Such a list, then deletions of agents, is in order and records what is there.
LEMMA ListedOrder ==
  ASSUME NEW g, NEW p, NEW r \in Seq(Change), NEW T, Listed(p, T, DOMAIN g.squads), AgentDrops(g, p, r)
  PROVE  /\ p \o r \in Seq(Change) /\ Orderly(p \o r) /\ RecordsHeld(g, p \o r)
         /\ \A i \in DOMAIN (p \o r) : \A t \in Tables :
              Touches((p \o r)[i], t) => t \in T \/ (t = "agents" /\ r # <<>>)
<1>1. p \in Seq(Change) /\ \A x \in DOMAIN p : p[x].do # "delete"
  BY DEF Listed
<1>2. p \o r \in Seq(Change)
  BY <1>1, Appended
<1>3. /\ \A i \in DOMAIN r : r[i].do = "delete" /\ r[i].table = "agents"
      /\ r # <<>> => \A i \in DOMAIN p : p[i].do = "put" => p[i].table # "agents"
  BY DEF AgentDrops
<1>4. \A i \in DOMAIN r : r # <<>>
  OBVIOUS
<1>5. Orderly(p \o r)
  <2> SUFFICES ASSUME NEW i \in DOMAIN (p \o r), NEW j \in DOMAIN (p \o r), j < i, NEW c, c = (p \o r)[i],
                      NEW d, d = (p \o r)[j], c.do = "delete"
               PROVE  /\ d.do = "put" => d.table # c.table
                      /\ c.table = "squads" => d.do = "delete"
    BY DEF Orderly
  <2>1. PICK x \in DOMAIN r : c = r[x]
    BY <1>1, AppendCases
  <2>2. c.table = "agents" /\ r # <<>>
    BY <1>3, <1>4, <2>1
  <2>3. d.do = "put" => d.table # "agents"
    <3>1. CASE j \in DOMAIN p /\ d = p[j]
      BY <1>3, <2>2, <3>1
    <3>2. ASSUME NEW y \in DOMAIN r, d = r[y] PROVE d.do # "put"
      BY <1>3, <3>2
    <3> QED
      BY <1>1, <3>1, <3>2, AppendCases
  <2> QED
    BY <2>2, <2>3
<1>6. RecordsHeld(g, p \o r)
  <2> SUFFICES ASSUME NEW i \in DOMAIN (p \o r), NEW c, c = (p \o r)[i], c.do = "record", NEW q \in c.squads
               PROVE  Holds(g, p \o r, "squads", q, i)
    BY DEF RecordsHeld
  <2>1. i \in DOMAIN p /\ c = p[i]
    BY <1>1, <1>3, AppendCases
  <2>2. Held(p, DOMAIN g["squads"], "squads", q, i)
    BY <2>1 DEF Listed
  <2> QED
    BY <1>1, <2>1, <2>2, HoldsInFirst
<1>7. ASSUME NEW i \in DOMAIN (p \o r), NEW t \in Tables, NEW c, c = (p \o r)[i], Touches(c, t)
      PROVE  t \in T \/ (t = "agents" /\ r # <<>>)
  <2>1. CASE i \in DOMAIN p /\ c = p[i]
    BY <1>7, <2>1 DEF Listed
  <2>2. ASSUME NEW x \in DOMAIN r, c = r[x] PROVE t = "agents" /\ r # <<>>
    BY <1>3, <1>4, <1>7, <2>2 DEF Touches
  <2> QED
    BY <1>1, <1>7, <2>1, <2>2, AppendCases
<1> QED
  BY <1>2, <1>5, <1>6, <1>7

\* It keeps the references.
LEMMA ListedReferences ==
  ASSUME NEW g, NEW p, NEW r \in Seq(Change), NEW T, Listed(p, T, DOMAIN g.squads), AgentDrops(g, p, r),
         Valid(p, DOMAIN g.agents, DOMAIN g.squads), Leaving(g, p, r), Closed(g), Typed(g)
  PROVE  ReferencesKept(g, p \o r)
<1>1. p \in Seq(Change) /\ \A x \in DOMAIN p : p[x].do # "delete"
  BY DEF Listed
<1>2. \A i \in DOMAIN r : r[i].do = "delete" /\ r[i].table = "agents"
  BY DEF AgentDrops
<1>3. SquadPutsValid(g, p \o r)
  <2> SUFFICES ASSUME NEW i \in DOMAIN (p \o r), NEW c, c = (p \o r)[i], NEW s \in Squads, Puts(c, "squads", s)
               PROVE  /\ ValidSquad(c.rows[s], c.rows[s].members)
                      /\ \A a \in c.rows[s].members : Holds(g, p \o r, "agents", a, i)
    BY DEF SquadPutsValid
  <2>1. i \in DOMAIN p /\ c = p[i]
    BY <1>1, <1>2, AppendCases DEF Puts
  <2>2. /\ ValidSquad(c.rows[s], c.rows[s].members)
        /\ \A a \in c.rows[s].members : Held(p, DOMAIN g["agents"], "agents", a, i)
    BY <2>1 DEF Valid
  <2> QED
    BY <1>1, <2>1, <2>2, HoldsInFirst
<1>4. PointerPutsValid(g, p \o r)
  <2> SUFFICES ASSUME NEW i \in DOMAIN (p \o r), NEW c, c = (p \o r)[i], NEW t \in Pointers, c.do = "put",
                      c.table = t, NEW x \in DOMAIN c.rows, c.rows[x] # NoSquad
               PROVE  Holds(g, p \o r, "squads", c.rows[x], i)
    BY DEF PointerPutsValid
  <2>1. i \in DOMAIN p /\ c = p[i]
    BY <1>1, <1>2, AppendCases
  <2>2. Held(p, DOMAIN g["squads"], "squads", c.rows[x], i)
    BY <2>1 DEF Valid
  <2> QED
    BY <1>1, <2>1, <2>2, HoldsInFirst
<1>5. AgentsUnused(g, p \o r)
  <2> SUFFICES ASSUME NEW i \in DOMAIN (p \o r), NEW c, c = (p \o r)[i], NEW a \in Agents, Drops(c, "agents", a)
               PROVE  /\ \A s \in DOMAIN g.squads : a \in g.squads[s].members =>
                           \E j \in 1..(i - 1) : Puts((p \o r)[j], "squads", s)
                      /\ \A j \in 1..(i - 1), s \in Squads :
                           Puts((p \o r)[j], "squads", s) => a \notin (p \o r)[j].rows[s].members
    BY DEF AgentsUnused
  <2>1. PICK x \in DOMAIN r : i = Len(p) + x /\ c = r[x]
    BY <1>1, AppendCases DEF Drops
  <2>2. /\ \A s \in DOMAIN g.squads : a \in g.squads[s].members => \E j \in DOMAIN p : Puts(p[j], "squads", s)
        /\ \A j \in DOMAIN p, s \in Squads : Puts(p[j], "squads", s) => a \notin p[j].rows[s].members
    BY <2>1 DEF Leaving, Drops
  <2>3. /\ Len(p) \in Nat /\ DOMAIN p = 1..Len(p) /\ DOMAIN r = 1..Len(r) /\ Len(r) \in Nat
        /\ DOMAIN (p \o r) = 1..(Len(p) + Len(r))
        /\ \A y \in 1..Len(p) : (p \o r)[y] = p[y]
    BY <1>1, Appended
  <2>4. \A y \in DOMAIN p : y \in 1..(i - 1) /\ (p \o r)[y] = p[y]
    BY <2>1, <2>3
  <2>5. ASSUME NEW j \in 1..(i - 1), NEW s \in Squads, NEW d, d = (p \o r)[j], Puts(d, "squads", s)
        PROVE  a \notin d.rows[s].members
    <3>1. j \in DOMAIN (p \o r)
      BY <2>1, <2>3
    <3>2. j \in DOMAIN p /\ d = p[j]
      BY <1>1, <1>2, <2>5, <3>1, AppendCases DEF Puts
    <3> QED
      BY <2>2, <2>5, <3>2
  <2>6. ASSUME NEW s \in DOMAIN g.squads, a \in g.squads[s].members
        PROVE  \E j \in 1..(i - 1) : Puts((p \o r)[j], "squads", s)
    BY <2>2, <2>4, <2>6
  <2> QED
    BY <2>5, <2>6
<1>6. SquadsUnused(g, p \o r)
  <2>1. ASSUME NEW i \in DOMAIN (p \o r), NEW c, c = (p \o r)[i], NEW s, Drops(c, "squads", s) PROVE FALSE
    BY <1>1, <1>2, <2>1, AppendCases DEF Drops
  <2> QED
    BY <2>1 DEF SquadsUnused
<1> QED
  BY <1>3, <1>4, <1>5, <1>6 DEF ReferencesKept

\* Nothing appended.
LEMMA AppendNone == \A p \in Seq(Change) : p \o <<>> = p /\ <<>> \in Seq(Change) /\ DOMAIN <<>> = {}
  OBVIOUS

\* Squads put and recorded one after the other.
SquadList(names, records, n) ==
  [i \in 1..n |-> PutAndRecord(names[i], records[i])]

\* What such a list puts.
SquadsListed(cs, names, records, n, T, A, S) ==
  /\ Listed(cs, T, S)
  /\ (\A i \in 1..n : ValidSquad(records[i], A)) => Valid(cs, A, S)
  /\ \A i \in 1..n : \E x \in DOMAIN cs : Puts(cs[x], "squads", names[i])
  /\ \A x \in DOMAIN cs : \A s : Puts(cs[x], "squads", s) =>
       \E i \in 1..n : s = names[i] /\ cs[x].rows[s] = records[i]

\* Each squad put and recorded in turn.
LEMMA FlatSquads ==
  ASSUME NEW n \in Nat, NEW names \in [1..n -> Squads], NEW records \in [1..n -> SquadRecordSet],
         NEW T, {"squads", "squadVersions"} \subseteq T, NEW A, NEW S,
         NEW cs, cs = FlattenSeq(SquadList(names, records, n))
  PROVE  SquadsListed(cs, names, records, n, T, A, S)
<1> DEFINE F == SquadList(names, records, n)
<1>1. DOMAIN F = 1..n /\ \A i \in 1..n : F[i] = PutAndRecord(names[i], records[i])
  BY DEF SquadList
<1>2. F \in Seq({F[i] : i \in 1..n}) /\ Len(F) = n
  <2>1. F = [i \in 1..n |-> F[i]]
    BY DEF SquadList
  <2> HIDE DEF F
  <2>2. F \in [1..n -> {F[i] : i \in 1..n}]
    BY <2>1
  <2> QED
    BY <2>2
<1>3. n = 0 => F = <<>>
  <2>1. Len(F) = 0 => F = <<>>
    BY <1>2
  <2> QED
    BY <1>2, <2>1
<1>a. Len(F) = n
  BY <1>2
<1>b. DOMAIN F = 1..n
  BY <1>1
<1> HIDE DEF F
<1>4. ASSUME NEW i \in 1..n
      PROVE  /\ Listed(F[i], T, S)
             /\ ValidSquad(records[i], A) => Valid(F[i], A, S)
             /\ \E x \in DOMAIN F[i] : Puts(F[i][x], "squads", names[i])
             /\ \A x \in DOMAIN F[i] : \A s : Puts(F[i][x], "squads", s) => s = names[i] /\ F[i][x].rows[s] = records[i]
  <2>1. names[i] \in Squads /\ records[i] \in SquadRecordSet
    OBVIOUS
  <2>2. F[i] = PutAndRecord(names[i], records[i])
    BY <1>1
  <2> QED
    BY <2>1, <2>2, PutSquadListed
<1>5. \A i \in 1..n : F[i] \in Seq(Change)
  BY <1>4 DEF Listed
<1>6. /\ FlattenSeq(F) \in Seq(Change)
      /\ \A x \in DOMAIN FlattenSeq(F) : \E i \in 1..n : \E y \in DOMAIN F[i] : FlattenSeq(F)[x] = F[i][y]
      /\ \A i \in 1..n : \A y \in DOMAIN F[i] : \E x \in DOMAIN FlattenSeq(F) : FlattenSeq(F)[x] = F[i][y]
  <2>1. Lists(F, n, Change)
    BY <1>a, <1>b, <1>3, <1>5 DEF Lists
  <2> QED
    BY <2>1, FlattenElements
<1>7. cs = FlattenSeq(F)
  BY DEF F
<1>8. \A K, t : \A p : After(p, K, t, K)
  BY DEF After
<1>9. Listed(cs, T, S)
  <2>1. CASE n = 0
    <3>1. cs = <<>>
      BY <1>3, <1>7, <2>1 DEF FlattenSeq
    <3> QED
      BY <3>1, EmptyList
  <2>2. CASE n # 0
    <3> DEFINE L == {p \in Seq(Change) : Listed(p, T, S)}
    <3>1. ASSUME NEW p \in L, NEW r \in L PROVE p \o r \in L
      <4>1. p \in Seq(Change) /\ r \in Seq(Change) /\ Listed(p, T, S) /\ Listed(r, T, S)
        OBVIOUS
      <4>2. Listed(p \o r, T, S)
        BY <1>8, <4>1, ListedTwice
      <4> QED
        BY <4>2 DEF Listed
    <3>2. \A i \in 1..n : F[i] \in L
      BY <1>4, <1>5
    <3> HIDE DEF L
    <3>3. FlattenSeq(F) \in L
      BY <1>1, <1>2, <2>2, <3>1, <3>2, FlattenClosed
    <3> QED
      BY <1>7, <3>3 DEF L
  <2> QED
    BY <2>1, <2>2
<1>10. ASSUME \A i \in 1..n : ValidSquad(records[i], A) PROVE Valid(cs, A, S)
  <2>1. CASE n = 0
    <3>1. cs = <<>>
      BY <1>3, <1>7, <2>1 DEF FlattenSeq
    <3> QED
      BY <3>1, EmptyList
  <2>2. CASE n # 0
    <3> DEFINE L == {p \in Seq(Change) : Valid(p, A, S)}
    <3>1. ASSUME NEW p \in L, NEW r \in L PROVE p \o r \in L
      <4>1. p \in Seq(Change) /\ r \in Seq(Change) /\ Valid(p, A, S) /\ Valid(r, A, S)
        OBVIOUS
      <4>2. Valid(p \o r, A, S)
        BY <1>8, <4>1, ValidTwice
      <4>3. p \o r \in Seq(Change)
        BY <4>1, Appended
      <4> QED
        BY <4>2, <4>3
    <3>2. \A i \in 1..n : F[i] \in L
      BY <1>4, <1>5, <1>10
    <3> HIDE DEF L
    <3>3. FlattenSeq(F) \in L
      BY <1>1, <1>2, <2>2, <3>1, <3>2, FlattenClosed
    <3> QED
      BY <1>7, <3>3 DEF L
  <2> QED
    BY <2>1, <2>2
<1>11. ASSUME NEW i \in 1..n PROVE \E x \in DOMAIN cs : Puts(cs[x], "squads", names[i])
  <2>1. PICK y \in DOMAIN F[i] : Puts(F[i][y], "squads", names[i])
    BY <1>4
  <2>2. PICK x \in DOMAIN cs : cs[x] = F[i][y]
    BY <1>6, <1>7
  <2> QED
    BY <2>1, <2>2
<1>12. ASSUME NEW x \in DOMAIN cs, NEW s, Puts(cs[x], "squads", s)
       PROVE  \E i \in 1..n : s = names[i] /\ cs[x].rows[s] = records[i]
  <2>1. PICK i \in 1..n : \E y \in DOMAIN F[i] : cs[x] = F[i][y]
    BY <1>6, <1>7
  <2>2. PICK y \in DOMAIN F[i] : cs[x] = F[i][y]
    BY <2>1
  <2>3. s = names[i] /\ cs[x].rows[s] = records[i]
    BY <1>4, <1>12, <2>2
  <2> QED
    BY <2>3
<1> QED
  BY <1>9, <1>10, <1>11, <1>12 DEF SquadsListed

\* Lists that agree are the same.
LEMMA SameLists ==
  ASSUME NEW n, NEW f, NEW g, DOMAIN f = 1..n, DOMAIN g = 1..n, IsMap(f), IsMap(g), \A i \in 1..n : f[i] = g[i]
  PROVE  f = g
  BY DEF IsMap

\* The squads of a document, put and recorded.
SquadsImported(cs, d, T, A, S) ==
  /\ Listed(cs, T, S)
  /\ (\A s \in DOMAIN d.squads : ValidSquad(d.squads[s], A)) => Valid(cs, A, S)
  /\ \A s \in DOMAIN d.squads : \E x \in DOMAIN cs : Puts(cs[x], "squads", s)
  /\ \A x \in DOMAIN cs : \A s : Puts(cs[x], "squads", s) => s \in DOMAIN d.squads /\ cs[x].rows[s] = d.squads[s]

\* ImportSquads puts and records exactly the squads of the document.
LEMMA ImportList ==
  ASSUME NEW d, IsTable(d.squads, Schema["squads"]),
         NEW T, {"squads", "squadVersions"} \subseteq T, NEW A, NEW S,
         NEW cs, cs = ImportSquads(d)
  PROVE  SquadsImported(cs, d, T, A, S)
<1> DEFINE K == DOMAIN d.squads
           n == Cardinality(K)
           names == SetToSeq(K)
           records == [i \in 1..n |-> d.squads[names[i]]]
           F == [i \in 1..Len(names) |-> Put("squads", Row(names[i], d.squads[names[i]])) \o Record({names[i]})]
<1>1. IsFiniteSet(K) /\ K \subseteq Squads /\ \A s \in K : d.squads[s] \in SquadRecordSet
  BY DEF IsTable, Schema
<1>2. n \in Nat /\ names \in [1..n -> K] /\ \A s \in K : \E i \in 1..n : names[i] = s
  BY <1>1, SetToSeqCovers
<1>3. cs = FlattenSeq(F)
  BY DEF ImportSquads
<1> HIDE DEF K, n, names
<1>4. names \in [1..n -> Squads] /\ records \in [1..n -> SquadRecordSet]
  BY <1>1, <1>2
<1>5. Len(names) = n
  BY <1>2
<1>6. F = SquadList(names, records, n)
  <2>1. DOMAIN F = 1..n /\ IsMap(F)
    BY <1>5 DEF IsMap
  <2>2. DOMAIN SquadList(names, records, n) = 1..n /\ IsMap(SquadList(names, records, n))
    BY DEF SquadList, IsMap
  <2>3. ASSUME NEW i \in 1..n PROVE F[i] = SquadList(names, records, n)[i]
    BY <1>5 DEF SquadList, PutAndRecord
  <2> HIDE DEF F, records
  <2> QED
    BY <2>1, <2>2, <2>3, SameLists
<1>7. \A i \in 1..n : records[i] = d.squads[names[i]] /\ names[i] \in K
  BY <1>2
<1> HIDE DEF F, records
<1>8. cs = FlattenSeq(SquadList(names, records, n))
  BY <1>3, <1>6
<1>9. /\ Listed(cs, T, S)
      /\ (\A i \in 1..n : ValidSquad(records[i], A)) => Valid(cs, A, S)
      /\ \A i \in 1..n : \E x \in DOMAIN cs : Puts(cs[x], "squads", names[i])
      /\ \A x \in DOMAIN cs : \A s : Puts(cs[x], "squads", s) =>
           \E i \in 1..n : s = names[i] /\ cs[x].rows[s] = records[i]
  <2>1. SquadsListed(cs, names, records, n, T, A, S)
    BY <1>2, <1>4, <1>8, FlatSquads
  <2> QED
    BY <2>1 DEF SquadsListed
<1>10. (\A s \in K : ValidSquad(d.squads[s], A)) => \A i \in 1..n : ValidSquad(records[i], A)
  BY <1>7
<1>11. \A s \in K : \E x \in DOMAIN cs : Puts(cs[x], "squads", s)
  BY <1>2, <1>9
<1>12. \A x \in DOMAIN cs : \A s : Puts(cs[x], "squads", s) => s \in K /\ cs[x].rows[s] = d.squads[s]
  BY <1>7, <1>9
<1> QED
  BY <1>9, <1>10, <1>11, <1>12 DEF K, SquadsImported

\* The squads of a deleted agent, one after the other.
DropList(g, a) ==
  FlattenSeq([i \in 1..Cardinality(MembersOf(g, a)) |->
                LET s == SetToSeq(MembersOf(g, a))[i]
                IN Put("squads", Row(s, DropMember(g.squads[s], a))) \o Record({s})])

\* A squad without one of its members.
LEMMA DropMemberTyped ==
  ASSUME NEW r \in SquadRecordSet, NEW a
  PROVE  DropMember(r, a) \in SquadRecordSet /\ a \notin DropMember(r, a).members
  BY DEF DropMember, SquadRecordSet

\* The squads of a deleted agent are put without it and recorded.
LEMMA DropListed ==
  ASSUME NEW g, Typed(g), NEW a, NEW T, {"squads", "squadVersions"} \subseteq T, NEW A, NEW S,
         NEW cs, cs = DropList(g, a)
  PROVE  /\ Listed(cs, T, S)
         /\ (\A s \in MembersOf(g, a) : ValidSquad(DropMember(g.squads[s], a), A)) => Valid(cs, A, S)
         /\ \A s \in MembersOf(g, a) : \E x \in DOMAIN cs : Puts(cs[x], "squads", s)
         /\ \A x \in DOMAIN cs : \A s : Puts(cs[x], "squads", s) => a \notin cs[x].rows[s].members
<1> DEFINE K == MembersOf(g, a)
           n == Cardinality(K)
           names == SetToSeq(K)
           records == [i \in 1..n |-> DropMember(g.squads[names[i]], a)]
           F == [i \in 1..n |-> LET s == names[i]
                                IN Put("squads", Row(s, DropMember(g.squads[s], a))) \o Record({s})]
<1>1. IsFiniteSet(K) /\ K \subseteq Squads /\ \A s \in K : g.squads[s] \in SquadRecordSet
  <2>1. IsTable(g["squads"], Schema["squads"])
    BY TypedTables DEF Tables
  <2>2. K \subseteq DOMAIN g.squads
    BY DEF MembersOf
  <2> QED
    BY <2>1, <2>2, FS_Subset DEF IsTable, Schema
<1>2. n \in Nat /\ names \in [1..n -> K] /\ \A s \in K : \E i \in 1..n : names[i] = s
  BY <1>1, SetToSeqCovers
<1>3. cs = FlattenSeq(F)
  BY DEF DropList
<1> HIDE DEF K, n, names
<1>4. names \in [1..n -> Squads] /\ records \in [1..n -> SquadRecordSet]
  BY <1>1, <1>2, DropMemberTyped
<1>6. F = SquadList(names, records, n)
  <2>1. DOMAIN F = 1..n /\ IsMap(F)
    BY DEF IsMap
  <2>2. DOMAIN SquadList(names, records, n) = 1..n /\ IsMap(SquadList(names, records, n))
    BY DEF SquadList, IsMap
  <2>3. ASSUME NEW i \in 1..n PROVE F[i] = SquadList(names, records, n)[i]
    BY DEF SquadList, PutAndRecord
  <2> HIDE DEF F, records
  <2> QED
    BY <2>1, <2>2, <2>3, SameLists
<1>7. \A i \in 1..n : records[i] = DropMember(g.squads[names[i]], a) /\ names[i] \in K
  BY <1>2
<1>8. \A i \in 1..n : a \notin records[i].members
  BY <1>1, <1>7, DropMemberTyped
<1> HIDE DEF F, records
<1>a. cs = FlattenSeq(SquadList(names, records, n))
  BY <1>3, <1>6
<1>9. /\ Listed(cs, T, S)
      /\ (\A i \in 1..n : ValidSquad(records[i], A)) => Valid(cs, A, S)
      /\ \A i \in 1..n : \E x \in DOMAIN cs : Puts(cs[x], "squads", names[i])
      /\ \A x \in DOMAIN cs : \A s : Puts(cs[x], "squads", s) =>
           \E i \in 1..n : s = names[i] /\ cs[x].rows[s] = records[i]
  <2>1. SquadsListed(cs, names, records, n, T, A, S)
    BY <1>2, <1>4, <1>a, FlatSquads
  <2> QED
    BY <2>1 DEF SquadsListed
<1>10. (\A s \in K : ValidSquad(DropMember(g.squads[s], a), A)) => \A i \in 1..n : ValidSquad(records[i], A)
  BY <1>7
<1>11. \A s \in K : \E x \in DOMAIN cs : Puts(cs[x], "squads", s)
  BY <1>2, <1>9
<1>12. \A x \in DOMAIN cs : \A s : Puts(cs[x], "squads", s) => a \notin cs[x].rows[s].members
  BY <1>8, <1>9
<1> QED
  BY <1>9, <1>10, <1>11, <1>12 DEF K

(***************************************************************************)
(* The operations that may be asked for.                                   *)
(***************************************************************************)
DocumentSet == [agents : FiniteTables(Agents, Contents), squads : FiniteTables(Squads, SquadRecordSet)]

\* What an operation carries, kind by kind.
LEMMA OperationCases ==
  ASSUME NEW op \in Operation
  PROVE  \/ op.kind \in {"createAgent", "updateAgent"} /\ op.agent \in Agents /\ op.content \in Contents
         \/ op.kind = "deleteAgent" /\ op.agent \in Agents
         \/ op.kind \in {"createSquad", "updateSquad"} /\ op.squad \in Squads /\ op.record \in SquadRecordSet
         \/ op.kind \in {"addMember", "removeMember"} /\ op.squad \in Squads /\ op.agent \in Agents
         \/ op.kind = "deleteSquad" /\ op.squad \in Squads
         \/ /\ op.kind = "point" /\ op.table \in {"sessionModes", "nextModes"} /\ op.key \in Sessions
            /\ op.squad \in Squads \union {NoSquad, Nothing}
         \/ /\ op.kind = "point" /\ op.table = "projectDefaults" /\ op.key \in Projects
            /\ op.squad \in Squads \union {Nothing}
         \/ op.kind \in {"merge", "recipe", "replace"} /\ op.document \in DocumentSet
         \/ op.kind = "restore" /\ op.version \in Squads \X (Nat \ {0})
<1>1. CASE op \in [kind : {"createAgent", "updateAgent"}, agent : Agents, content : Contents]
  BY <1>1
<1>2. CASE op \in [kind : {"deleteAgent"}, agent : Agents]
  BY <1>2
<1>3. CASE op \in [kind : {"createSquad", "updateSquad"}, squad : Squads, record : SquadRecordSet]
  BY <1>3
<1>4. CASE op \in [kind : {"addMember", "removeMember"}, squad : Squads, agent : Agents]
  BY <1>4
<1>5. CASE op \in [kind : {"deleteSquad"}, squad : Squads]
  BY <1>5
<1>6. CASE op \in [kind : {"point"}, table : {"sessionModes", "nextModes"}, key : Sessions,
                   squad : Squads \union {NoSquad, Nothing}]
  BY <1>6
<1>7. CASE op \in [kind : {"point"}, table : {"projectDefaults"}, key : Projects, squad : Squads \union {Nothing}]
  BY <1>7
<1>8. CASE op \in [kind : {"merge", "recipe", "replace"}, document : DocumentSet]
  BY <1>8
<1>9. CASE op \in [kind : {"restore"}, version : Squads \X (Nat \ {0})]
  BY <1>9
<1> QED
  BY <1>1, <1>2, <1>3, <1>4, <1>5, <1>6, <1>7, <1>8, <1>9 DEF Operation, DocumentSet

\* The tables of a document.
LEMMA DocumentTyped ==
  ASSUME NEW d \in DocumentSet
  PROVE  IsTable(d.agents, Schema["agents"]) /\ IsTable(d.squads, Schema["squads"])
<1>1. d.agents \in FiniteTables(Schema["agents"].keys, Schema["agents"].rows)
  BY DEF DocumentSet, Schema
<1>2. d.squads \in FiniteTables(Schema["squads"].keys, Schema["squads"].rows)
  BY DEF DocumentSet, Schema
<1> QED
  BY <1>1, <1>2, FiniteTable

(***************************************************************************)
(* An operation that may run: its storage calls are made from captured     *)
(* tables, in order, and what they leave is right if what they find is.    *)
(***************************************************************************)
Covers(captured, T) ==
  captured \in Seq(Tables) /\ captured # <<>> /\ \A t \in T : \E i \in DOMAIN captured : captured[i] = t

\* Every table that a list touches has been captured.
Captured(captured, cs) ==
  /\ captured \in Seq(Tables) /\ captured # <<>>
  /\ \A t \in Tables : \/ \E i \in DOMAIN captured : captured[i] = t
                       \/ \A i \in DOMAIN cs : ~Touches(cs[i], t)

\* The list keeps the references, or replaces everything by the document.
Sound(g, cs, op) == IF op.kind = "replace" THEN Replacing(g, cs, op.document) ELSE ReferencesKept(g, cs)

\* What holds of a list of storage calls when its operation begins.
Ready(g, op, captured, cs) ==
  /\ cs \in Seq(Change) /\ Orderly(cs) /\ RecordsHeld(g, cs) /\ Captured(captured, cs)
  /\ Closed(g) => Sound(g, cs, op)

\* A list without deletions is ready.
LEMMA ListedReady ==
  ASSUME NEW g, Typed(g), NEW op, op.kind # "replace", NEW captured, NEW p, NEW T,
         Covers(captured, T), Listed(p, T, DOMAIN g.squads),
         Closed(g) => Valid(p, DOMAIN g.agents, DOMAIN g.squads)
  PROVE  Ready(g, op, captured, p)
<1> DEFINE r == <<>>
<1>1. p \in Seq(Change)
  BY DEF Listed
<1>2. p \o r = p /\ r \in Seq(Change) /\ DOMAIN r = {} /\ r = <<>>
  BY <1>1, AppendNone
<1> HIDE DEF r
<1>3. AgentDrops(g, p, r) /\ Leaving(g, p, r)
  BY <1>2 DEF AgentDrops, Leaving
<1>4. /\ p \o r \in Seq(Change) /\ Orderly(p \o r) /\ RecordsHeld(g, p \o r)
      /\ \A i \in DOMAIN (p \o r) : \A t \in Tables :
           Touches((p \o r)[i], t) => t \in T \/ (t = "agents" /\ r # <<>>)
  BY <1>2, <1>3, ListedOrder
<1>5. Closed(g) => ReferencesKept(g, p \o r)
  BY <1>2, <1>3, ListedReferences
<1>6. Captured(captured, p)
  BY <1>2, <1>4 DEF Captured, Covers
<1> QED
  BY <1>2, <1>4, <1>5, <1>6 DEF Ready, Sound

\* What the operations capture.
LEMMA CapturedLists ==
  /\ Covers(<<"agents">>, {"agents"})
  /\ Covers(<<"agents", "squadVersions">>, {"agents", "squadVersions"})
  /\ Covers(<<"squads", "squadVersions">>, {"squads", "squadVersions"})
  /\ Covers(<<"agents", "squads", "squadVersions">>, {"agents", "squads", "squadVersions"})
  /\ Covers(AllTables, Tables)
  /\ Covers(<<"squads", "sessionModes", "nextModes", "projectDefaults", "squadVersions">>, Tables \ {"agents"})
  /\ \A t \in Tables : Covers(<<t>>, {t})
<1>1. Covers(<<"agents">>, {"agents"})
  BY DEF Covers, Tables
<1>2. Covers(<<"agents", "squadVersions">>, {"agents", "squadVersions"})
  BY DEF Covers, Tables
<1>3. Covers(<<"squads", "squadVersions">>, {"squads", "squadVersions"})
  BY DEF Covers, Tables
<1>4. Covers(<<"agents", "squads", "squadVersions">>, {"agents", "squads", "squadVersions"})
  BY DEF Covers, Tables
<1>5. Covers(AllTables, Tables)
  BY DEF Covers, Tables, AllTables
<1>6. Covers(<<"squads", "sessionModes", "nextModes", "projectDefaults", "squadVersions">>, Tables \ {"agents"})
  BY DEF Covers, Tables
<1>7. \A t \in Tables : Covers(<<t>>, {t})
  BY DEF Covers
<1> QED
  BY <1>1, <1>2, <1>3, <1>4, <1>5, <1>6, <1>7

\* The names of the tables.
LEMMA TableNames ==
  /\ {"agents", "squads", "sessionModes", "nextModes", "projectDefaults"} \subseteq Tables \ {"squadVersions"}
  /\ "squadVersions" \in Tables /\ Pointers \subseteq Tables \ {"squadVersions"}
  /\ "agents" \notin Pointers /\ "squads" \notin Pointers
  BY DEF Tables, Pointers

\* Agents put.
LEMMA AgentRow ==
  ASSUME NEW a \in Agents, NEW v \in Contents
  PROVE  IsTable(Row(a, v), Schema["agents"])
<1>1. a \in Schema["agents"].keys /\ v \in Schema["agents"].rows
  BY DEF Schema
<1> QED
  BY <1>1, RowIsTable

LEMMA AgentsPut ==
  ASSUME NEW rows, IsTable(rows, Schema["agents"]), NEW T, "agents" \in T, NEW A, NEW S
  PROVE  Listed(Put("agents", rows), T, S) /\ Valid(Put("agents", rows), A, S)
<1>1. "agents" \in Tables \ {"squadVersions"}
  BY TableNames
<1>2. Listed(Put("agents", rows), T, S)
  BY <1>1, PutListed
<1>3. Valid(Put("agents", rows), A, S)
  BY <1>1, TableNames, PutValid
<1> QED
  BY <1>2, <1>3

\* Nothing is known for certain after a list but what was before.
LEMMA AfterSame == \A p, K, t : After(p, K, t, K)
  BY DEF After

\* A list, and then recordings of squads that are there.
LEMMA ThenRecord ==
  ASSUME NEW p, NEW T, NEW A, NEW S, Listed(p, T, S), "squadVersions" \in T,
         NEW squads, squads \subseteq Squads, squads \subseteq S
  PROVE  Listed(p \o Record(squads), T, S) /\ (Valid(p, A, S) => Valid(p \o Record(squads), A, S))
<1> DEFINE r == Record(squads)
<1>1. r \in Seq(Change) /\ Listed(r, T, S) /\ Valid(r, A, S)
  BY RecordListed
<1> HIDE DEF r
<1>2. p \in Seq(Change) /\ After(p, S, "squads", S) /\ After(p, A, "agents", A)
  BY AfterSame DEF Listed
<1>3. Listed(p \o r, T, S)
  BY <1>1, <1>2, ListedTwice
<1>4. Valid(p, A, S) => Valid(p \o r, A, S)
  BY <1>1, <1>2, ValidTwice
<1> QED
  BY <1>3, <1>4 DEF r

\* The plan of each operation is ready when the operation is admitted.
LEMMA CreateAgentReady ==
  ASSUME Typed(db), NEW op, op.kind # "replace", op.agent \in Agents, op.content \in Contents
  PROVE  Ready(db, op, CreateAgentPlan(op).captured, CreateAgentPlan(op).changes)
<1> DEFINE p == Put("agents", Row(op.agent, op.content))
<1>1. CreateAgentPlan(op).captured = <<"agents">> /\ CreateAgentPlan(op).changes = p
  BY DEF CreateAgentPlan, Plan
<1>2. Listed(p, {"agents"}, DOMAIN db.squads) /\ Valid(p, DOMAIN db.agents, DOMAIN db.squads)
  BY AgentRow, AgentsPut
<1> HIDE DEF p
<1>3. Ready(db, op, <<"agents">>, p)
  BY <1>2, CapturedLists, ListedReady
<1> QED
  BY <1>1, <1>3

LEMMA UpdateAgentReady ==
  ASSUME Typed(db), NEW op, op.kind # "replace", op.agent \in Agents, op.content \in Contents
  PROVE  Ready(db, op, UpdateAgentPlan(op).captured, UpdateAgentPlan(op).changes)
<1> DEFINE p == Put("agents", Row(op.agent, op.content))
           users == MembersOf(db, op.agent)
           T == {"agents", "squadVersions"}
<1>1. /\ UpdateAgentPlan(op).captured = <<"agents", "squadVersions">>
      /\ UpdateAgentPlan(op).changes = p \o Record(users)
  BY DEF UpdateAgentPlan, Plan
<1>2. Listed(p, T, DOMAIN db.squads) /\ Valid(p, DOMAIN db.agents, DOMAIN db.squads)
  BY AgentRow, AgentsPut
<1>3. users \subseteq DOMAIN db.squads /\ users \subseteq Squads
  BY PointersTyped DEF MembersOf
<1> HIDE DEF p, users
<1>4. Listed(p \o Record(users), T, DOMAIN db.squads) /\ Valid(p \o Record(users), DOMAIN db.agents, DOMAIN db.squads)
  BY <1>2, <1>3, ThenRecord
<1>5. Ready(db, op, <<"agents", "squadVersions">>, p \o Record(users))
  BY <1>4, CapturedLists, ListedReady
<1> QED
  BY <1>1, <1>5

LEMMA PutSquadReady ==
  ASSUME Typed(db), NEW op, op.kind # "replace", NEW s \in Squads, NEW r \in SquadRecordSet,
         ValidSquad(r, DOMAIN db.agents)
  PROVE  Ready(db, op, PutSquadPlan(s, r).captured, PutSquadPlan(s, r).changes)
<1> DEFINE p == PutAndRecord(s, r)
           T == {"squads", "squadVersions"}
<1>1. PutSquadPlan(s, r).captured = <<"squads", "squadVersions">> /\ PutSquadPlan(s, r).changes = p
  BY DEF PutSquadPlan, Plan, PutAndRecord
<1> HIDE DEF p
<1>2. Listed(p, T, DOMAIN db.squads) /\ Valid(p, DOMAIN db.agents, DOMAIN db.squads)
  BY PutSquadListed DEF p
<1>3. Ready(db, op, <<"squads", "squadVersions">>, p)
  BY <1>2, CapturedLists, ListedReady
<1> QED
  BY <1>1, <1>3

LEMMA ThrowReady ==
  ASSUME Typed(db), NEW op, op.kind # "replace"
  PROVE  Ready(db, op, <<"squads", "squadVersions">>, Throw)
<1>1. Listed(Throw, {"squads", "squadVersions"}, DOMAIN db.squads) /\ Valid(Throw, DOMAIN db.agents, DOMAIN db.squads)
  BY ThrowListed
<1> QED
  BY <1>1, CapturedLists, ListedReady

LEMMA MemberReady ==
  ASSUME Typed(db), NEW op, op.kind \in {"addMember", "removeMember"}, op.squad \in DOMAIN db.squads, op.agent \in Agents
  PROVE  /\ Ready(db, op, AddMemberPlan(op).captured, AddMemberPlan(op).changes)
         /\ Ready(db, op, RemoveMemberPlan(op).captured, RemoveMemberPlan(op).changes)
<1> DEFINE s == op.squad
           more == AddTo(db.squads[s], op.agent)
           less == DropMember(db.squads[s], op.agent)
           refused == Plan(<<"squads", "squadVersions">>, Throw)
<1>1. s \in Squads /\ db.squads[s] \in SquadRecordSet
  BY PointersTyped
<1>2. more \in SquadRecordSet /\ less \in SquadRecordSet
  BY <1>1, DropMemberTyped DEF AddTo, SquadRecordSet
<1>3. op.kind # "replace"
  OBVIOUS
<1> HIDE DEF more, less
<1>4. Ready(db, op, refused.captured, refused.changes)
  BY <1>3, ThrowReady DEF Plan
<1>5. ASSUME NEW r \in SquadRecordSet, ValidSquad(r, DOMAIN db.agents)
      PROVE  Ready(db, op, PutSquadPlan(s, r).captured, PutSquadPlan(s, r).changes)
  BY <1>1, <1>3, <1>5, PutSquadReady
<1>6. AddMemberPlan(op) = refused \/ (ValidSquad(more, DOMAIN db.agents) /\ AddMemberPlan(op) = PutSquadPlan(s, more))
  BY DEF AddMemberPlan, more
<1>7. RemoveMemberPlan(op) = refused \/ (ValidSquad(less, DOMAIN db.agents) /\ RemoveMemberPlan(op) = PutSquadPlan(s, less))
  BY DEF RemoveMemberPlan, less
<1> HIDE DEF refused, s
<1>8. Ready(db, op, AddMemberPlan(op).captured, AddMemberPlan(op).changes)
  BY <1>2, <1>4, <1>5, <1>6
<1>9. Ready(db, op, RemoveMemberPlan(op).captured, RemoveMemberPlan(op).changes)
  BY <1>2, <1>4, <1>5, <1>7
<1> QED
  BY <1>8, <1>9

\* A squad may lose a member that is not its last one and not in its gate.
LEMMA DroppedValid ==
  ASSUME NEW r, NEW a, NEW known, ValidSquad(r, known), r.members # {a}, a \notin r.gate
  PROVE  ValidSquad(DropMember(r, a), known)
<1> DEFINE d == DropMember(r, a)
<1>1. d.members = r.members \ {a} /\ d.leader = (IF r.leader = a THEN NoAgent ELSE r.leader) /\ d.gate = r.gate
  BY DEF DropMember
<1> HIDE DEF d
<1>2. d.members # {} /\ d.members \subseteq known
  BY <1>1 DEF ValidSquad
<1>3. d.leader \in d.members \union {NoAgent}
  BY <1>1 DEF ValidSquad
<1>4. d.gate \subseteq d.members /\ (d.gate = {} \/ \E p, q \in d.gate : p # q)
  BY <1>1 DEF ValidSquad
<1>5. ValidSquad(d, known)
  BY <1>2, <1>3, <1>4 DEF ValidSquad
<1> QED
  BY <1>5 DEF d

\* A list that deletes these keys of one table.
Clears(r, t, keys) ==
  /\ r \in Seq(Change) /\ \A i \in DOMAIN r : r[i].do = "delete" /\ r[i].table = t /\ r[i].keys = keys
  /\ \A k \in keys : \E i \in DOMAIN r : Drops(r[i], t, k)

LEMMA DeleteIsList ==
  ASSUME NEW t \in Tables, NEW keys \in SUBSET Keys
  PROVE  Clears(Delete(t, keys), t, keys)
<1> DEFINE r == Delete(t, keys)
<1>a. r = Delete(t, keys)
  OBVIOUS
<1> HIDE DEF r
<1> DEFINE c == [do |-> "delete", table |-> t, keys |-> keys]
<1>1. c \in Change /\ c.do = "delete" /\ c.table = t /\ c.keys = keys
  BY OtherChanges
<1>2. r = IF keys = {} THEN <<>> ELSE <<c>>
  BY <1>a DEF Delete
<1> HIDE DEF c
<1>3. ASSUME keys = {} PROVE Clears(r, t, keys)
  <2>1. r = <<>>
    BY <1>2, <1>3
  <2>2. <<>> \in Seq(Change) /\ DOMAIN <<>> = {}
    OBVIOUS
  <2> QED
    BY <1>3, <2>1, <2>2 DEF Clears
<1>4. ASSUME keys # {} PROVE Clears(r, t, keys)
  <2>1. r = <<c>>
    BY <1>2, <1>4
  <2>2. r \in Seq(Change) /\ DOMAIN r = {1} /\ r[1] = c
    BY <1>1, <2>1, OneList
  <2> QED
    BY <1>1, <2>2 DEF Drops, Clears
<1>5. Clears(r, t, keys)
  BY <1>3, <1>4
<1> QED
  BY <1>5 DEF r

\* A deleted agent goes after the squads have let go of it.
LEMMA DeleteAgentReady ==
  ASSUME Typed(db), NEW op, op.kind = "deleteAgent", op.agent \in Agents, Admitted(op)
  PROVE  Ready(db, op, DeleteAgentPlan(op).captured, DeleteAgentPlan(op).changes)
<1> DEFINE a == op.agent
           p == DropList(db, a)
           r == Delete("agents", {a})
           T == {"squads", "squadVersions"}
           captured == <<"agents", "squads", "squadVersions">>
<1>1. DeleteAgentPlan(op).captured = captured /\ DeleteAgentPlan(op).changes = p \o r
  BY DEF DeleteAgentPlan, Plan, DropList
<1>2. "agents" \in Tables /\ {a} \in SUBSET Keys /\ "agents" \notin T
  <2>1. Schema["agents"].keys = Agents
    BY DEF Schema
  <2> QED
    BY <2>1, TableNames DEF Keys
<1>b. r = Delete("agents", {a})
  OBVIOUS
<1> HIDE DEF r
<1>3. r \in Seq(Change) /\ \A i \in DOMAIN r : r[i].do = "delete" /\ r[i].table = "agents" /\ r[i].keys = {a}
  <2>1. Clears(Delete("agents", {a}), "agents", {a})
    BY <1>2, DeleteIsList
  <2> QED
    BY <1>b, <2>1 DEF Clears
<1>4. \A s \in MembersOf(db, a) : db.squads[s].members # {a} /\ a \notin db.squads[s].gate
  BY DEF Admitted
<1> HIDE DEF p, a, T
<1>5. /\ Listed(p, T, DOMAIN db.squads)
      /\ (\A s \in MembersOf(db, a) : ValidSquad(DropMember(db.squads[s], a), DOMAIN db.agents))
           => Valid(p, DOMAIN db.agents, DOMAIN db.squads)
      /\ \A s \in MembersOf(db, a) : \E x \in DOMAIN p : Puts(p[x], "squads", s)
      /\ \A x \in DOMAIN p : \A s : Puts(p[x], "squads", s) => a \notin p[x].rows[s].members
  BY DropListed DEF p, T
<1>6. AgentDrops(db, p, r)
  <2>1. ASSUME NEW i \in DOMAIN p, p[i].do = "put", p[i].table = "agents" PROVE FALSE
    <3>1. Touches(p[i], "agents")
      BY <2>1 DEF Touches
    <3> QED
      BY <1>2, <1>5, <3>1 DEF Listed
  <2> QED
    BY <1>3, <2>1 DEF AgentDrops
<1>7. Leaving(db, p, r)
  <2>1. \A s \in DOMAIN db.squads : a \in db.squads[s].members => s \in MembersOf(db, a)
    BY DEF MembersOf
  <2> QED
    BY <1>3, <1>5, <2>1 DEF Leaving
<1>8. /\ p \o r \in Seq(Change) /\ Orderly(p \o r) /\ RecordsHeld(db, p \o r)
      /\ \A i \in DOMAIN (p \o r) : \A t \in Tables :
           Touches((p \o r)[i], t) => t \in T \/ (t = "agents" /\ r # <<>>)
  BY <1>3, <1>5, <1>6, ListedOrder
<1>9. ASSUME Closed(db) PROVE ReferencesKept(db, p \o r)
  <2>1. ASSUME NEW s \in MembersOf(db, a) PROVE ValidSquad(DropMember(db.squads[s], a), DOMAIN db.agents)
    <3>1. ValidSquad(db.squads[s], DOMAIN db.agents)
      BY <1>9 DEF Closed, SquadsClosed, MembersOf
    <3> QED
      BY <1>4, <3>1, DroppedValid
  <2>2. Valid(p, DOMAIN db.agents, DOMAIN db.squads)
    BY <1>5, <2>1
  <2> QED
    BY <1>3, <1>5, <1>6, <1>7, <1>9, <2>2, ListedReferences
<1>10. Captured(captured, p \o r)
  <2>1. Covers(captured, {"agents", "squads", "squadVersions"})
    BY CapturedLists
  <2> HIDE DEF captured
  <2>2. \A i \in DOMAIN (p \o r) : \A t \in Tables :
          Touches((p \o r)[i], t) => t \in {"agents", "squads", "squadVersions"}
    BY <1>8 DEF T
  <2> QED
    BY <2>1, <2>2 DEF Captured, Covers
<1>11. Ready(db, op, captured, p \o r)
  BY <1>8, <1>9, <1>10 DEF Ready, Sound
<1> QED
  BY <1>1, <1>11

(***************************************************************************)
(* Lists of deletions.                                                     *)
(***************************************************************************)
Clearing(cs, T) ==
  cs \in Seq(Change) /\ \A i \in DOMAIN cs : cs[i].do = "delete" /\ cs[i].table \in T

\* Such lists, one after the other.
LEMMA ClearsClearing ==
  ASSUME NEW r, NEW t, NEW keys, Clears(r, t, keys), NEW T, t \in T
  PROVE  Clearing(r, T) /\ \A k \in keys : Outgoing(r, t, k)
  BY DEF Clears, Clearing, Outgoing

LEMMA ClearingTwice ==
  ASSUME NEW p, NEW r, NEW T, Clearing(p, T), Clearing(r, T)
  PROVE  Clearing(p \o r, T)
<1>1. p \in Seq(Change) /\ r \in Seq(Change) /\ p \o r \in Seq(Change)
  BY Appended DEF Clearing
<1>2. ASSUME NEW i \in DOMAIN (p \o r), NEW c, c = (p \o r)[i] PROVE c.do = "delete" /\ c.table \in T
  BY <1>1, <1>2, AppendCases DEF Clearing
<1> QED
  BY <1>1, <1>2 DEF Clearing

LEMMA OutgoingInEither ==
  ASSUME NEW p \in Seq(Change), NEW r \in Seq(Change), NEW t, NEW k, Outgoing(p, t, k) \/ Outgoing(r, t, k)
  PROVE  Outgoing(p \o r, t, k)
<1>1. /\ Len(p) \in Nat /\ DOMAIN p = 1..Len(p) /\ DOMAIN r = 1..Len(r) /\ Len(r) \in Nat
      /\ DOMAIN (p \o r) = 1..(Len(p) + Len(r))
      /\ \A x \in 1..Len(p) : (p \o r)[x] = p[x]
      /\ \A x \in 1..Len(r) : (p \o r)[Len(p) + x] = r[x]
  BY Appended
<1>2. \A i \in DOMAIN p : i \in DOMAIN (p \o r) /\ (p \o r)[i] = p[i]
  BY <1>1
<1>3. \A i \in DOMAIN r : Len(p) + i \in DOMAIN (p \o r) /\ (p \o r)[Len(p) + i] = r[i]
  BY <1>1
<1> QED
  BY <1>2, <1>3 DEF Outgoing

\* A list of deletions is ready if nothing uses what it drops.
LEMMA ClearingReady ==
  ASSUME NEW g, NEW op, op.kind # "replace", NEW captured, NEW T, Covers(captured, T),
         NEW cs, Clearing(cs, T), Closed(g) => AgentsUnused(g, cs) /\ SquadsUnused(g, cs)
  PROVE  Ready(g, op, captured, cs)
<1>1. cs \in Seq(Change) /\ \A i \in DOMAIN cs : cs[i].do = "delete" /\ cs[i].table \in T
  BY DEF Clearing
<1>2. Orderly(cs) /\ RecordsHeld(g, cs)
  BY <1>1 DEF Orderly, RecordsHeld
<1>3. SquadPutsValid(g, cs) /\ PointerPutsValid(g, cs)
  BY <1>1 DEF SquadPutsValid, PointerPutsValid, Puts
<1>4. Captured(captured, cs)
  BY <1>1 DEF Captured, Covers, Touches
<1> QED
  BY <1>1, <1>2, <1>3, <1>4 DEF Ready, Sound, ReferencesKept

\* Keys of a table are keys.
LEMMA ManyKeys ==
  ASSUME NEW g, Typed(g), NEW t \in Tables, NEW keys, keys \subseteq DOMAIN g[t]
  PROVE  keys \in SUBSET Keys
  BY TypedTables DEF IsTable, Keys

\* A deleted squad goes after everything that names it.
LEMMA DeleteSquadReady ==
  ASSUME Typed(db), NEW op, op.kind = "deleteSquad", op.squad \in Squads, op.squad \in DOMAIN db.squads
  PROVE  Ready(db, op, DeleteSquadPlan(op).captured, DeleteSquadPlan(op).changes)
<1> DEFINE s == op.squad
           k1 == PointingInto(db.sessionModes, {s})
           k2 == PointingInto(db.nextModes, {s})
           k3 == PointingInto(db.projectDefaults, {s})
           k4 == {k \in DOMAIN db.squadVersions : k[1] = s}
           d1 == Delete("sessionModes", k1)
           d2 == Delete("nextModes", k2)
           d3 == Delete("projectDefaults", k3)
           d4 == Delete("squadVersions", k4)
           p == d1 \o d2 \o d3 \o d4
           r == Delete("squads", {s})
           T == Tables \ {"agents"}
           U == T \ {"squads"}
           captured == <<"squads", "sessionModes", "nextModes", "projectDefaults", "squadVersions">>
<1>1. DeleteSquadPlan(op).captured = captured /\ DeleteSquadPlan(op).changes = p \o r
  BY DEF DeleteSquadPlan, Plan
<1>2. {"sessionModes", "nextModes", "projectDefaults", "squadVersions"} \subseteq U /\ "squads" \in T /\ U \subseteq T
      /\ T \subseteq Tables
  BY DEF Tables
<1>3. k1 \in SUBSET Keys /\ k2 \in SUBSET Keys /\ k3 \in SUBSET Keys /\ k4 \in SUBSET Keys /\ {s} \in SUBSET Keys
  <2>1. k1 \subseteq DOMAIN db["sessionModes"] /\ k2 \subseteq DOMAIN db["nextModes"]
        /\ k3 \subseteq DOMAIN db["projectDefaults"] /\ k4 \subseteq DOMAIN db["squadVersions"]
        /\ {s} \subseteq DOMAIN db["squads"]
    BY DEF PointingInto
  <2> HIDE DEF k1, k2, k3, k4, s
  <2>2. \A t \in Tables : \A keys : keys \subseteq DOMAIN db[t] => keys \in SUBSET Keys
    BY ManyKeys
  <2>3. {"sessionModes", "nextModes", "projectDefaults", "squadVersions", "squads"} \subseteq Tables
    BY DEF Tables
  <2>4. k1 \in SUBSET Keys /\ k2 \in SUBSET Keys
    BY <2>1, <2>2, <2>3
  <2>5. k3 \in SUBSET Keys /\ k4 \in SUBSET Keys
    BY <2>1, <2>2, <2>3
  <2>6. {s} \in SUBSET Keys
    BY <2>1, <2>2, <2>3
  <2> QED
    BY <2>4, <2>5, <2>6
<1> HIDE DEF k1, k2, k3, k4
<1>4. Clears(d1, "sessionModes", k1) /\ Clears(d2, "nextModes", k2) /\ Clears(d3, "projectDefaults", k3)
      /\ Clears(d4, "squadVersions", k4) /\ Clears(r, "squads", {s})
  BY <1>2, <1>3, DeleteIsList
<1> HIDE DEF d1, d2, d3, d4, r, U, T
<1>5. Clearing(d1, U) /\ Clearing(d2, U) /\ Clearing(d3, U) /\ Clearing(d4, U) /\ Clearing(r, T)
  BY <1>2, <1>4, ClearsClearing
<1> DEFINE d12 == d1 \o d2
           d123 == d12 \o d3
<1>6. p = d123 \o d4
  OBVIOUS
<1> HIDE DEF p
<1>7. Clearing(d12, U) /\ Clearing(d123, U)
  <2>1. Clearing(d12, U)
    BY <1>5, ClearingTwice
  <2> HIDE DEF d12
  <2> QED
    BY <1>5, <2>1, ClearingTwice
<1>8. Clearing(p, U)
  <2> HIDE DEF d123
  <2> QED
    BY <1>5, <1>6, <1>7, ClearingTwice
<1>9. d1 \in Seq(Change) /\ d2 \in Seq(Change) /\ d3 \in Seq(Change) /\ d4 \in Seq(Change)
      /\ d12 \in Seq(Change) /\ d123 \in Seq(Change)
  BY <1>5, <1>7 DEF Clearing
<1>10. ASSUME NEW t, NEW k,
              Outgoing(d1, t, k) \/ Outgoing(d2, t, k) \/ Outgoing(d3, t, k) \/ Outgoing(d4, t, k)
       PROVE  Outgoing(p, t, k)
  <2>1. Outgoing(d1, t, k) \/ Outgoing(d2, t, k) => Outgoing(d12, t, k)
    BY <1>9, OutgoingInEither
  <2> HIDE DEF d12
  <2>2. Outgoing(d12, t, k) \/ Outgoing(d3, t, k) => Outgoing(d123, t, k)
    BY <1>9, OutgoingInEither
  <2> HIDE DEF d123
  <2>3. Outgoing(d123, t, k) \/ Outgoing(d4, t, k) => Outgoing(p, t, k)
    BY <1>6, <1>9, OutgoingInEither
  <2> QED
    BY <1>10, <2>1, <2>2, <2>3
<1> HIDE DEF d12, d123
<1>11. /\ \A k \in k1 : Outgoing(d1, "sessionModes", k)
       /\ \A k \in k2 : Outgoing(d2, "nextModes", k)
       /\ \A k \in k3 : Outgoing(d3, "projectDefaults", k)
       /\ \A k \in k4 : Outgoing(d4, "squadVersions", k)
  BY <1>2, <1>4, ClearsClearing
<1>12. \A t \in Pointers : \A x \in DOMAIN db[t] : db[t][x] = s => Outgoing(p, t, x)
  <2>1. /\ \A x \in DOMAIN db.sessionModes : db.sessionModes[x] = s => x \in k1
        /\ \A x \in DOMAIN db.nextModes : db.nextModes[x] = s => x \in k2
        /\ \A x \in DOMAIN db.projectDefaults : db.projectDefaults[x] = s => x \in k3
    BY DEF k1, k2, k3, PointingInto
  <2> QED
    BY <1>10, <1>11, <2>1 DEF Pointers
<1>13. \A v \in DOMAIN db.squadVersions : v[1] = s => Outgoing(p, "squadVersions", v)
  <2>1. \A v \in DOMAIN db.squadVersions : v[1] = s => v \in k4
    BY DEF k4
  <2> QED
    BY <1>10, <1>11, <2>1
<1>14. p \in Seq(Change) /\ r \in Seq(Change) /\ Clearing(p, T)
  BY <1>2, <1>5, <1>8 DEF Clearing
<1>15. Clearing(p \o r, T)
  BY <1>5, <1>14, ClearingTwice
<1>16. AgentsUnused(db, p \o r)
  <2>1. "agents" \notin T
    BY DEF T
  <2> QED
    BY <1>15, <2>1 DEF Clearing, AgentsUnused, Drops
<1>17. SquadsUnused(db, p \o r)
  <2> SUFFICES ASSUME NEW i \in DOMAIN (p \o r), NEW c, c = (p \o r)[i], NEW q \in Squads, Drops(c, "squads", q)
               PROVE  /\ \A t \in Pointers : \A x \in DOMAIN db[t] :
                           db[t][x] = q => \E j \in 1..(i - 1) : Drops((p \o r)[j], t, x)
                      /\ \A v \in DOMAIN db.squadVersions :
                           v[1] = q => \E j \in 1..(i - 1) : Drops((p \o r)[j], "squadVersions", v)
    BY DEF SquadsUnused
  <2>1. "squads" \notin U
    BY DEF U
  <2>2. PICK x \in DOMAIN r : i = Len(p) + x /\ c = r[x]
    BY <1>8, <1>14, <2>1, AppendCases DEF Clearing, Drops
  <2>3. q = s
    BY <1>4, <2>2 DEF Clears, Drops
  <2>4. /\ Len(p) \in Nat /\ DOMAIN p = 1..Len(p) /\ DOMAIN r = 1..Len(r) /\ Len(r) \in Nat
        /\ \A y \in 1..Len(p) : (p \o r)[y] = p[y]
    BY <1>14, Appended
  <2>5. \A y \in DOMAIN p : y \in 1..(i - 1) /\ (p \o r)[y] = p[y]
    BY <2>2, <2>4
  <2>6. ASSUME NEW t, NEW k, Outgoing(p, t, k) PROVE \E j \in 1..(i - 1) : Drops((p \o r)[j], t, k)
    BY <2>5, <2>6 DEF Outgoing
  <2> QED
    BY <1>12, <1>13, <2>3, <2>6
<1>18. Covers(captured, T)
  BY CapturedLists DEF T
<1> HIDE DEF captured, s
<1>19. Ready(db, op, captured, p \o r)
  BY <1>15, <1>16, <1>17, <1>18, ClearingReady
<1> QED
  BY <1>1, <1>19

\* Concatenation is associative.
LEMMA AppendAssociates ==
  ASSUME NEW S, NEW p \in Seq(S), NEW q \in Seq(S), NEW r \in Seq(S)
  PROVE  (p \o q) \o r = p \o (q \o r)
  OBVIOUS

\* A mode, a one-shot or a default is put or dropped.
LEMMA PointReady ==
  ASSUME Typed(db), NEW op \in Operation, op.kind = "point", Admitted(op)
  PROVE  Ready(db, op, PointPlan(op).captured, PointPlan(op).changes)
<1> DEFINE t == op.table
           del == Delete(t, {op.key})
           put == Put(t, Row(op.key, op.squad))
<1>1. t \in Pointers /\ op.key \in Schema[t].keys /\ (op.squad # Nothing => op.squad \in Schema[t].rows)
  <2>1. CASE t \in {"sessionModes", "nextModes"} /\ op.key \in Sessions /\ op.squad \in Squads \union {NoSquad, Nothing}
    <3>1. Schema[t].keys = Sessions /\ Schema[t].rows = Squads \union {NoSquad}
      BY <2>1 DEF Schema
    <3> QED
      BY <2>1, <3>1 DEF Pointers
  <2>2. CASE t = "projectDefaults" /\ op.key \in Projects /\ op.squad \in Squads \union {Nothing}
    <3>1. Schema[t].keys = Projects /\ Schema[t].rows = Squads
      BY <2>2 DEF Schema
    <3> QED
      BY <2>2, <3>1 DEF Pointers
  <2> QED
    BY <2>1, <2>2, OperationCases
<1>2. t \in Tables \ {"squadVersions"} /\ t \in Tables
  BY <1>1, TableNames
<1>3. op.squad \in DOMAIN db.squads \union {Nothing, NoSquad}
  BY DEF Admitted
<1>4. op.kind # "replace" /\ Covers(<<t>>, {t})
  BY <1>2, CapturedLists
<1>5. PointPlan(op).captured = <<t>> /\ PointPlan(op).changes = IF op.squad = Nothing THEN del ELSE put
  BY DEF PointPlan, Plan
<1> HIDE DEF t, del, put
<1>6. Ready(db, op, <<t>>, del)
  <2>1. {op.key} \in SUBSET Keys
    BY <1>1, <1>2 DEF Keys
  <2>2. Clears(del, t, {op.key})
    BY <1>2, <2>1, DeleteIsList DEF del
  <2>3. Clearing(del, {t})
    BY <2>2, ClearsClearing
  <2>4. t # "agents" /\ t # "squads"
    BY <1>1, TableNames
  <2>5. AgentsUnused(db, del) /\ SquadsUnused(db, del)
    BY <2>3, <2>4 DEF Clearing, AgentsUnused, SquadsUnused, Drops
  <2> QED
    BY <1>4, <2>3, <2>5, ClearingReady
<1>7. ASSUME op.squad # Nothing PROVE Ready(db, op, <<t>>, put)
  <2> DEFINE rows == Row(op.key, op.squad)
  <2>1. IsTable(rows, Schema[t])
    BY <1>1, <1>7, RowIsTable
  <2>2. DOMAIN rows = {op.key} /\ rows[op.key] = op.squad
    BY RowOf
  <2> HIDE DEF rows
  <2>3. put = Put(t, rows)
    BY DEF put, rows
  <2>4. Listed(put, {t}, DOMAIN db.squads)
    BY <1>2, <2>1, <2>3, PutListed
  <2>5. t # "squads"
    BY <1>1, TableNames
  <2>6. \A x \in DOMAIN rows : rows[x] \in DOMAIN db.squads \union {NoSquad}
    BY <1>3, <1>7, <2>2
  <2>7. Valid(put, DOMAIN db.agents, DOMAIN db.squads)
    BY <1>2, <2>1, <2>3, <2>5, <2>6, PutValid
  <2> QED
    BY <1>4, <2>4, <2>7, ListedReady
<1> QED
  BY <1>5, <1>6, <1>7

\* Agents put, then what they are needed for.
WithAgents(cs, q, rows, T, A, S) ==
  /\ Listed(cs, T, S)
  /\ Valid(q, A \union DOMAIN rows, S) => Valid(cs, A, S)

LEMMA AgentsThen ==
  ASSUME NEW rows, IsTable(rows, Schema["agents"]), NEW T, "agents" \in T, NEW A, NEW S,
         NEW q, Listed(q, T, S), NEW cs, cs = Put("agents", rows) \o q
  PROVE  WithAgents(cs, q, rows, T, A, S)
<1> DEFINE p == Put("agents", rows)
<1>1. /\ p \in Seq(Change) /\ Listed(p, T, S) /\ Valid(p, A, S)
      /\ \A a \in DOMAIN rows : \E i \in DOMAIN p : Puts(p[i], "agents", a)
  BY TableNames, PutListed, AgentsPut
<1>2. cs = p \o q
  OBVIOUS
<1> HIDE DEF p
<1>3. After(p, S, "squads", S) /\ After(p, A, "agents", A \union DOMAIN rows)
  BY <1>1, AfterSame DEF After
<1>4. q \in Seq(Change)
  BY DEF Listed
<1>5. Listed(cs, T, S)
  BY <1>1, <1>2, <1>3, ListedTwice
<1>6. Valid(q, A \union DOMAIN rows, S) => Valid(cs, A, S)
  BY <1>1, <1>2, <1>3, <1>4, ValidTwice
<1> QED
  BY <1>5, <1>6 DEF WithAgents

\* The tables that an import or a restore writes.
ThreeTables == {"agents", "squads", "squadVersions"}

\* A merging import: agents, squads, then the other squads of changed agents.
LEMMA MergeReady ==
  ASSUME Good(db), NEW op, op.kind \in {"merge", "recipe"}, op.document \in DocumentSet, Admitted(op)
  PROVE  Ready(db, op, MergePlan(op).captured, MergePlan(op).changes)
<1> DEFINE d == op.document
           others == Affected([db EXCEPT !.squads = Laid(d.squads, @)], Changed(db, d.agents), DOMAIN d.squads)
           p == Put("agents", d.agents)
           q == ImportSquads(d)
           r == Record(others)
           A == DOMAIN db.agents
           S == DOMAIN db.squads
           captured == IF op.kind = "recipe" THEN <<"agents", "squads", "squadVersions">> ELSE AllTables
<1>1. MergePlan(op).captured = captured /\ MergePlan(op).changes = (p \o q) \o r
  BY DEF MergePlan, Plan
<1>2. IsTable(d.agents, Schema["agents"]) /\ IsTable(d.squads, Schema["squads"])
  BY DocumentTyped
<1>3. \A s \in DOMAIN d.squads : ValidSquad(d.squads[s], A \union DOMAIN d.agents)
  <2>1. ValidDocument(d, A) \/ ValidDocument(d, {})
    BY DEF Admitted
  <2>2. ASSUME NEW s \in DOMAIN d.squads PROVE ValidSquad(d.squads[s], A \union DOMAIN d.agents)
    <3>1. ValidSquad(d.squads[s], A \union DOMAIN d.agents) \/ ValidSquad(d.squads[s], {} \union DOMAIN d.agents)
      BY <2>1 DEF ValidDocument
    <3>2. d.squads[s].members \subseteq A \union DOMAIN d.agents
      BY <3>1 DEF ValidSquad
    <3> QED
      BY <3>1, <3>2, ValidAmong
  <2> QED
    BY <2>2
<1>4. others \subseteq S /\ others \subseteq Squads
  <2>1. DOMAIN Laid(d.squads, db.squads) \ DOMAIN d.squads \subseteq S
    BY DEF Laid
  <2>2. others \subseteq DOMAIN [db EXCEPT !.squads = Laid(d.squads, @)].squads \ DOMAIN d.squads
    BY DEF Affected
  <2>3. "squads" \in DOMAIN db
    BY GraphFun DEF Good, Tables
  <2>4. DOMAIN [db EXCEPT !.squads = Laid(d.squads, @)].squads = DOMAIN Laid(d.squads, db.squads)
    BY <2>3
  <2>5. others \subseteq S
    BY <2>1, <2>2, <2>4
  <2> QED
    BY <2>5, PointersTyped DEF Good
<1>a. q = ImportSquads(d)
  OBVIOUS
<1> HIDE DEF others, q, A, S, d
<1>5. /\ Listed(q, ThreeTables, S)
      /\ (\A s \in DOMAIN d.squads : ValidSquad(d.squads[s], A \union DOMAIN d.agents))
           => Valid(q, A \union DOMAIN d.agents, S)
  <2>1. {"squads", "squadVersions"} \subseteq ThreeTables
    BY DEF ThreeTables
  <2>2. SquadsImported(q, d, ThreeTables, A \union DOMAIN d.agents, S)
    BY <1>2, <1>a, <2>1, ImportList
  <2> QED
    BY <2>2 DEF SquadsImported
<1> USE DEF A, S, d
<1> DEFINE pq == p \o q
<1>6. pq = Put("agents", d.agents) \o q
  OBVIOUS
<1>7. MergePlan(op).changes = pq \o r
  BY <1>1
<1> HIDE DEF pq, p
<1>8. Listed(pq, ThreeTables, S) /\ Valid(pq, A, S)
  <2>1. "agents" \in ThreeTables
    BY DEF ThreeTables
  <2>2. WithAgents(pq, q, d.agents, ThreeTables, A, S)
    BY <1>2, <1>5, <1>6, <2>1, AgentsThen
  <2> QED
    BY <1>3, <1>5, <2>2 DEF WithAgents
<1>9. Listed(pq \o r, ThreeTables, S) /\ Valid(pq \o r, A, S)
  BY <1>4, <1>8, ThenRecord DEF ThreeTables
<1>10. Covers(captured, ThreeTables)
  <2>1. Covers(AllTables, ThreeTables)
    BY CapturedLists DEF Covers, ThreeTables, Tables
  <2> QED
    BY <2>1, CapturedLists DEF ThreeTables
<1> HIDE DEF captured, r
<1>11. op.kind # "replace"
  OBVIOUS
<1>12. Ready(db, op, captured, pq \o r)
  BY <1>9, <1>10, <1>11, ListedReady DEF Good
<1> QED
  BY <1>1, <1>7, <1>12

\* A restore: the members, the squad, then the other squads of changed members.
LEMMA RestoreReady ==
  ASSUME Typed(db), NEW op, op.kind = "restore", op.version \in DOMAIN db.squadVersions
  PROVE  Ready(db, op, RestorePlan(op).captured, RestorePlan(op).changes)
<1> DEFINE found == db.squadVersions[op.version]
           s == op.version[1]
           changed == {a \in DOMAIN found.members : a \notin DOMAIN db.agents \/ db.agents[a] # found.members[a]}
           others == Affected(db, changed, {s})
           A == DOMAIN db.agents
           S == DOMAIN db.squads
           put == PutAndRecord(s, found.record)
           q == IF ValidSquad(found.record, A \union DOMAIN found.members)
                  THEN put \o Record(others) ELSE Throw
           cs == Put("agents", found.members) \o q
           captured == <<"agents", "squads", "squadVersions">>
<1>1. RestorePlan(op).captured = captured /\ RestorePlan(op).changes = cs
  BY DEF RestorePlan, Plan, PutAndRecord
<1>2. IsTable(found.members, Schema["agents"]) /\ found.record \in SquadRecordSet /\ s \in Squads
  <2>1. IsTable(db["squadVersions"], Schema["squadVersions"])
    BY TypedTables DEF Tables
  <2>2. /\ Schema["squadVersions"].keys = Squads \X (Nat \ {0})
        /\ Schema["squadVersions"].rows = [record : SquadRecordSet, members : FiniteTables(Agents, Contents)]
        /\ Schema["agents"].keys = Agents /\ Schema["agents"].rows = Contents
    BY DEF Schema
  <2>3. found \in [record : SquadRecordSet, members : FiniteTables(Agents, Contents)] /\ s \in Squads
    BY <2>1, <2>2 DEF IsTable
  <2>4. found.members \in FiniteTables(Schema["agents"].keys, Schema["agents"].rows)
    BY <2>2, <2>3
  <2> QED
    BY <2>3, <2>4, FiniteTable
<1>3. others \subseteq S /\ others \subseteq Squads
  <2>1. others \subseteq S
    BY DEF Affected
  <2> QED
    BY <2>1, PointersTyped
<1> HIDE DEF others, found, s, put
<1>4. /\ Listed(put, ThreeTables, S)
      /\ ValidSquad(found.record, A \union DOMAIN found.members) => Valid(put, A \union DOMAIN found.members, S)
  BY <1>2, PutSquadListed DEF put, ThreeTables
<1>5. Listed(q, ThreeTables, S) /\ Valid(q, A \union DOMAIN found.members, S)
  <2>1. Listed(put \o Record(others), ThreeTables, S)
    BY <1>3, <1>4, ThenRecord DEF ThreeTables
  <2>2. Valid(put, A \union DOMAIN found.members, S) => Valid(put \o Record(others), A \union DOMAIN found.members, S)
    BY <1>3, <1>4, ThenRecord DEF ThreeTables
  <2> QED
    BY <1>4, <2>1, <2>2, ThrowListed
<1> HIDE DEF q
<1>6. Listed(cs, ThreeTables, S) /\ Valid(cs, A, S)
  <2>1. "agents" \in ThreeTables
    BY DEF ThreeTables
  <2>2. WithAgents(cs, q, found.members, ThreeTables, A, S)
    BY <1>2, <1>5, <2>1, AgentsThen
  <2> QED
    BY <1>5, <2>2 DEF WithAgents
<1>7. Covers(captured, ThreeTables)
  BY CapturedLists DEF ThreeTables
<1> HIDE DEF captured, cs
<1>8. op.kind # "replace"
  OBVIOUS
<1>9. Ready(db, op, captured, cs)
  BY <1>6, <1>7, <1>8, ListedReady
<1> QED
  BY <1>1, <1>9

(***************************************************************************)
(* A replacing import clears every table, then lists what the document     *)
(* holds.                                                                  *)
(***************************************************************************)
LEMMA ReplacingOrder ==
  ASSUME NEW g, NEW p, Clearing(p, Tables), NEW r, NEW T, Listed(r, T, {}), NEW cs, cs = p \o r
  PROVE  cs \in Seq(Change) /\ Orderly(cs) /\ RecordsHeld(g, cs)
<1>1. p \in Seq(Change) /\ r \in Seq(Change) /\ \A i \in DOMAIN p : p[i].do = "delete"
  BY DEF Clearing, Listed
<1>2. /\ Len(p) \in Nat /\ DOMAIN p = 1..Len(p) /\ DOMAIN r = 1..Len(r) /\ Len(r) \in Nat /\ cs \in Seq(Change)
      /\ DOMAIN cs = 1..(Len(p) + Len(r))
      /\ \A x \in 1..Len(p) : cs[x] = p[x]
      /\ \A x \in 1..Len(r) : cs[Len(p) + x] = r[x]
  BY <1>1, Appended
<1>3. ASSUME NEW i \in DOMAIN cs, i \notin DOMAIN p PROVE i - Len(p) \in DOMAIN r /\ cs[i] = r[i - Len(p)]
  BY <1>2, <1>3
<1>4. Orderly(cs)
  <2>1. ASSUME NEW i \in DOMAIN cs, NEW j \in DOMAIN cs, j < i, cs[i].do = "delete" PROVE cs[j].do = "delete"
    <3>1. i \in DOMAIN p
      BY <1>3, <2>1 DEF Listed
    <3>2. j \in DOMAIN p
      BY <1>2, <2>1, <3>1
    <3> QED
      BY <1>1, <1>2, <3>2
  <2> QED
    BY <2>1 DEF Orderly
<1>5. RecordsHeld(g, cs)
  <2>1. ASSUME NEW i \in DOMAIN cs, cs[i].do = "record", NEW k \in cs[i].squads PROVE Holds(g, cs, "squads", k, i)
    <3>1. i \notin DOMAIN p
      BY <1>1, <1>2, <2>1
    <3> DEFINE j == i - Len(p)
    <3>2. j \in DOMAIN r /\ cs[i] = r[j]
      BY <1>3, <3>1
    <3>3. Held(r, {}, "squads", k, j)
      BY <2>1, <3>2 DEF Listed
    <3>4. PICK y \in 1..(j - 1) : Puts(r[y], "squads", k)
      BY <3>3 DEF Held
    <3>5. y \in 1..Len(r) /\ Len(p) + y \in 1..(i - 1)
      BY <1>2, <3>2, <3>4
    <3>6. Puts(cs[Len(p) + y], "squads", k)
      BY <1>2, <3>4, <3>5
    <3> QED
      BY <3>5, <3>6 DEF Holds
  <2> QED
    BY <2>1 DEF RecordsHeld
<1> QED
  BY <1>2, <1>4, <1>5

\* What is put after the deletions is held in the end.
LEMMA HeldInTheEnd ==
  ASSUME NEW p \in Seq(Change), NEW r \in Seq(Change), NEW cs, cs = p \o r, NEW t, NEW k,
         \E x \in DOMAIN r : Puts(r[x], t, k), NEW g
  PROVE  Holds(g, cs, t, k, Len(cs) + 1)
<1>1. /\ Len(p) \in Nat /\ DOMAIN r = 1..Len(r) /\ Len(r) \in Nat /\ Len(cs) = Len(p) + Len(r)
      /\ \A x \in 1..Len(r) : cs[Len(p) + x] = r[x]
  BY Appended
<1>2. PICK x \in DOMAIN r : Puts(r[x], t, k)
  OBVIOUS
<1>3. Len(p) + x \in 1..(Len(cs) + 1 - 1) /\ Puts(cs[Len(p) + x], t, k)
  BY <1>1, <1>2
<1> QED
  BY <1>3 DEF Holds

\* The document that a list of puts and recordings brings in.
BringsIn(r, d) ==
  /\ Listed(r, ThreeTables, {})
  /\ \A s \in DOMAIN d.squads : \E x \in DOMAIN r : Puts(r[x], "squads", s)
  /\ \A a \in DOMAIN d.agents : \E x \in DOMAIN r : Puts(r[x], "agents", a)
  /\ \A x \in DOMAIN r : \A s : Puts(r[x], "squads", s) => s \in DOMAIN d.squads /\ r[x].rows[s] = d.squads[s]

\* The puts of a replacing import bring the document in.
LEMMA DocumentBroughtIn ==
  ASSUME NEW d \in DocumentSet, NEW p, p = Put("agents", d.agents), NEW q, q = ImportSquads(d), NEW r, r = p \o q
  PROVE  BringsIn(r, d)
<1>1. IsTable(d.agents, Schema["agents"]) /\ IsTable(d.squads, Schema["squads"])
  BY DocumentTyped
<1>2. {"squads", "squadVersions"} \subseteq ThreeTables /\ "agents" \in ThreeTables
  BY DEF ThreeTables
<1>3. /\ Listed(q, ThreeTables, {})
      /\ (\A s \in DOMAIN d.squads : ValidSquad(d.squads[s], {})) => Valid(q, {}, {})
      /\ \A s \in DOMAIN d.squads : \E x \in DOMAIN q : Puts(q[x], "squads", s)
      /\ \A x \in DOMAIN q : \A s : Puts(q[x], "squads", s) => s \in DOMAIN d.squads /\ q[x].rows[s] = d.squads[s]
  <2>1. SquadsImported(q, d, ThreeTables, {}, {})
    BY <1>1, <1>2, ImportList
  <2> QED
    BY <2>1 DEF SquadsImported
<1>4. /\ p \in Seq(Change) /\ Listed(p, {"agents"}, {}) /\ Listed(p, ThreeTables, {})
      /\ \A a \in DOMAIN d.agents : \E i \in DOMAIN p : Puts(p[i], "agents", a)
  <2>1. "agents" \in Tables \ {"squadVersions"} /\ "agents" \in {"agents"}
    BY TableNames
  <2>2. Listed(p, {"agents"}, {})
    BY <1>1, <2>1, PutListed
  <2> QED
    BY <1>1, <1>2, <2>1, <2>2, PutListed
<1>5. q \in Seq(Change)
  BY <1>3 DEF Listed
<1>6. After(p, {}, "squads", {})
  BY DEF After
<1>7. Listed(r, ThreeTables, {})
  BY <1>3, <1>4, <1>6, ListedTwice
<1>8. /\ \A i \in DOMAIN p : i \in DOMAIN r /\ r[i] = p[i]
      /\ \A j \in DOMAIN q : Len(p) + j \in DOMAIN r /\ r[Len(p) + j] = q[j]
  <2>1. /\ Len(p) \in Nat /\ Len(q) \in Nat /\ DOMAIN p = 1..Len(p) /\ DOMAIN q = 1..Len(q)
        /\ DOMAIN r = 1..(Len(p) + Len(q))
        /\ \A x \in 1..Len(p) : r[x] = p[x]
        /\ \A x \in 1..Len(q) : r[Len(p) + x] = q[x]
    BY <1>4, <1>5, Appended
  <2>2. \A i \in DOMAIN p : i \in DOMAIN r /\ r[i] = p[i]
    BY <2>1
  <2>3. \A j \in DOMAIN q : Len(p) + j \in DOMAIN r /\ r[Len(p) + j] = q[j]
    BY <2>1
  <2> QED
    BY <2>2, <2>3
<1>9. ASSUME NEW x \in DOMAIN r, NEW s, Puts(r[x], "squads", s)
      PROVE  s \in DOMAIN d.squads /\ r[x].rows[s] = d.squads[s]
  <2>1. \/ x \in DOMAIN p /\ r[x] = p[x]
        \/ \E j \in DOMAIN q : x = Len(p) + j /\ r[x] = q[j]
    BY <1>4, <1>5, AppendCases
  <2>2. CASE x \in DOMAIN p /\ r[x] = p[x]
    <3>1. Touches(p[x], "squads") /\ "squads" \in Tables
      BY <1>9, <2>2 DEF Touches, Puts, Tables
    <3>2. "squads" \in {"agents"}
      BY <1>4, <2>2, <3>1 DEF Listed
    <3> QED
      BY <3>2
  <2>3. CASE \E j \in DOMAIN q : x = Len(p) + j /\ r[x] = q[j]
    BY <1>3, <1>9, <2>3
  <2> QED
    BY <2>1, <2>2, <2>3
<1>10. ASSUME NEW s \in DOMAIN d.squads PROVE \E x \in DOMAIN r : Puts(r[x], "squads", s)
  <2>1. PICK j \in DOMAIN q : Puts(q[j], "squads", s)
    BY <1>3
  <2> QED
    BY <1>8, <2>1
<1>11. ASSUME NEW a \in DOMAIN d.agents PROVE \E x \in DOMAIN r : Puts(r[x], "agents", a)
  <2>1. PICK j \in DOMAIN p : Puts(p[j], "agents", a)
    BY <1>4
  <2> QED
    BY <1>8, <2>1
<1> QED
  BY <1>7, <1>9, <1>10, <1>11 DEF BringsIn

\* What a list of deletions clears away before a document is brought in.
ClearsFor(g, p, d) ==
  /\ Clearing(p, Tables)
  /\ \A s \in DOMAIN g.squads : Outgoing(p, "squads", s)
  /\ \A t \in Pointers : \A x \in DOMAIN g[t] : g[t][x] \in DOMAIN d.squads \union {NoSquad} \/ Outgoing(p, t, x)
  /\ \A v \in DOMAIN g.squadVersions : v[1] \in DOMAIN d.squads \/ Outgoing(p, "squadVersions", v)

\* Deletions, then a document: the document replaces everything.
LEMMA DocumentReplaces ==
  ASSUME NEW g, NEW d, NEW p, ClearsFor(g, p, d), NEW r, BringsIn(r, d), NEW cs, cs = p \o r,
         ValidDocument(d, {}), VersionsClosed(g)
  PROVE  Replacing(g, cs, d)
<1>1. p \in Seq(Change) /\ r \in Seq(Change) /\ \A i \in DOMAIN p : p[i].do = "delete"
  BY DEF ClearsFor, Clearing, BringsIn, Listed
<1>2. ASSUME NEW i \in DOMAIN cs, cs[i].do = "put" PROVE \E j \in DOMAIN r : cs[i] = r[j]
  BY <1>1, <1>2, AppendCases
<1>3. SquadsReplaced(g, cs, d)
  <2>1. ASSUME NEW s \in DOMAIN g.squads PROVE Outgoing(cs, "squads", s)
    BY <1>1, OutgoingInEither DEF ClearsFor
  <2>2. ASSUME NEW s \in DOMAIN d.squads PROVE Holds(g, cs, "squads", s, Len(cs) + 1)
    BY <1>1, HeldInTheEnd DEF BringsIn
  <2>3. ASSUME NEW a \in DOMAIN d.agents PROVE Holds(g, cs, "agents", a, Len(cs) + 1)
    BY <1>1, HeldInTheEnd DEF BringsIn
  <2>4. ASSUME NEW i \in DOMAIN cs, NEW s \in Squads, Puts(cs[i], "squads", s)
        PROVE  s \in DOMAIN d.squads /\ cs[i].rows[s] = d.squads[s]
    <3>1. PICK j \in DOMAIN r : cs[i] = r[j]
      BY <1>2, <2>4 DEF Puts
    <3> QED
      BY <2>4, <3>1 DEF BringsIn
  <2> QED
    BY <2>1, <2>2, <2>3, <2>4 DEF SquadsReplaced
<1>4. PointersReplaced(g, cs, d)
  <2>1. ASSUME NEW t \in Pointers, NEW i \in DOMAIN cs, cs[i].do = "put", cs[i].table = t PROVE FALSE
    <3>1. PICK j \in DOMAIN r : cs[i] = r[j]
      BY <1>2, <2>1
    <3>2. Touches(r[j], t) /\ t \in Tables
      BY <2>1, <3>1 DEF Touches, Pointers, Tables
    <3>3. t \in ThreeTables
      BY <3>2 DEF BringsIn, Listed
    <3> QED
      BY <3>3 DEF ThreeTables, Pointers
  <2>2. ASSUME NEW t \in Pointers, NEW x \in DOMAIN g[t]
        PROVE  Outgoing(cs, t, x) \/ g[t][x] \in DOMAIN d.squads \union {NoSquad}
    BY <1>1, OutgoingInEither DEF ClearsFor
  <2> QED
    BY <2>1, <2>2 DEF PointersReplaced
<1>5. VersionsReplaced(g, cs, d)
  <2>1. ASSUME NEW v \in DOMAIN g.squadVersions PROVE v[1] \in DOMAIN d.squads \/ Outgoing(cs, "squadVersions", v)
    BY <1>1, OutgoingInEither DEF ClearsFor
  <2> QED
    BY <2>1 DEF VersionsReplaced, VersionsClosed
<1> QED
  BY <1>3, <1>4, <1>5 DEF Replacing

\* The versions of the squads of a document are not deleted for it.
VersionsSpared(p, d) == \A i \in DOMAIN p : \A v : Drops(p[i], "squadVersions", v) => v[1] \notin DOMAIN d.squads

\* What a replacing import deletes first.
LEMMA ReplaceClears ==
  ASSUME Good(db), NEW op
  PROVE  \E p : /\ ReplacePlan(op).changes = (p \o Put("agents", op.document.agents)) \o ImportSquads(op.document)
                /\ ClearsFor(db, p, op.document) /\ VersionsSpared(p, op.document)
<1> DEFINE d == op.document
           S == DOMAIN d.squads
           Dangling(table) == {k \in DOMAIN table : table[k] \notin S \union {NoSquad}}
           k1 == DOMAIN db.agents
           k2 == DOMAIN db.squads
           k3 == Dangling(db.sessionModes)
           k4 == Dangling(db.nextModes)
           k5 == Dangling(db.projectDefaults)
           k6 == {k \in DOMAIN db.squadVersions : k[1] \notin S}
           d1 == Delete("agents", k1)
           d2 == Delete("squads", k2)
           d3 == Delete("sessionModes", k3)
           d4 == Delete("nextModes", k4)
           d5 == Delete("projectDefaults", k5)
           d6 == Delete("squadVersions", k6)
           p == d1 \o d2 \o d3 \o d4 \o d5 \o d6
           a == Put("agents", d.agents)
           q == ImportSquads(d)
<1>1. ReplacePlan(op).changes = (p \o a) \o q
  <2>1. ReplacePlan(op) = Plan(AllTables, (p \o a) \o q)
    BY Zenon DEF ReplacePlan
  <2> HIDE DEF p, a, q
  <2> QED
    BY <2>1 DEF Plan
<1>2. {"agents", "squads", "sessionModes", "nextModes", "projectDefaults", "squadVersions"} \subseteq Tables
  BY DEF Tables
<1>3. /\ k1 \in SUBSET Keys /\ k2 \in SUBSET Keys /\ k3 \in SUBSET Keys
      /\ k4 \in SUBSET Keys /\ k5 \in SUBSET Keys /\ k6 \in SUBSET Keys
  <2>1. /\ k1 \subseteq DOMAIN db["agents"] /\ k2 \subseteq DOMAIN db["squads"]
        /\ k3 \subseteq DOMAIN db["sessionModes"] /\ k4 \subseteq DOMAIN db["nextModes"]
        /\ k5 \subseteq DOMAIN db["projectDefaults"] /\ k6 \subseteq DOMAIN db["squadVersions"]
    OBVIOUS
  <2> HIDE DEF k1, k2, k3, k4, k5, k6
  <2>2. \A t \in Tables : \A keys : keys \subseteq DOMAIN db[t] => keys \in SUBSET Keys
    BY ManyKeys DEF Good
  <2>3. k1 \in SUBSET Keys /\ k2 \in SUBSET Keys
    BY <1>2, <2>1, <2>2
  <2>4. k3 \in SUBSET Keys /\ k4 \in SUBSET Keys
    BY <1>2, <2>1, <2>2
  <2>5. k5 \in SUBSET Keys /\ k6 \in SUBSET Keys
    BY <1>2, <2>1, <2>2
  <2> QED
    BY <2>3, <2>4, <2>5
<1>a. /\ k2 = DOMAIN db.squads
      /\ \A x \in DOMAIN db["sessionModes"] : db["sessionModes"][x] \in S \union {NoSquad} \/ x \in k3
      /\ \A x \in DOMAIN db["nextModes"] : db["nextModes"][x] \in S \union {NoSquad} \/ x \in k4
      /\ \A x \in DOMAIN db["projectDefaults"] : db["projectDefaults"][x] \in S \union {NoSquad} \/ x \in k5
      /\ \A v \in DOMAIN db.squadVersions : v[1] \in S \/ v \in k6
  OBVIOUS
<1> HIDE DEF k1, k2, k3, k4, k5, k6
<1>4. /\ Clears(d1, "agents", k1) /\ Clears(d2, "squads", k2) /\ Clears(d3, "sessionModes", k3)
      /\ Clears(d4, "nextModes", k4) /\ Clears(d5, "projectDefaults", k5) /\ Clears(d6, "squadVersions", k6)
  BY <1>2, <1>3, DeleteIsList
<1>b. p = ((((d1 \o d2) \o d3) \o d4) \o d5) \o d6
  OBVIOUS
<1> HIDE DEF d1, d2, d3, d4, d5, d6, p
<1> DEFINE p2 == d1 \o d2
           p3 == p2 \o d3
           p4 == p3 \o d4
           p5 == p4 \o d5
<1>5. /\ Clearing(d1, Tables) /\ Clearing(d2, Tables) /\ Clearing(d3, Tables)
      /\ Clearing(d4, Tables) /\ Clearing(d5, Tables) /\ Clearing(d6, Tables)
  BY <1>2, <1>4, ClearsClearing
<1>6. Clearing(p2, Tables)
  BY <1>5, ClearingTwice
<1>7. Clearing(p3, Tables)
  <2> HIDE DEF p2
  <2> QED
    BY <1>5, <1>6, ClearingTwice
<1>8. Clearing(p4, Tables)
  <2> HIDE DEF p3
  <2> QED
    BY <1>5, <1>7, ClearingTwice
<1>9. Clearing(p5, Tables)
  <2> HIDE DEF p4
  <2> QED
    BY <1>5, <1>8, ClearingTwice
<1>10. p = p5 \o d6
  BY <1>b
<1>11. \A t, k : (Outgoing(d1, t, k) \/ Outgoing(d2, t, k) \/ Outgoing(d3, t, k)
                  \/ Outgoing(d4, t, k) \/ Outgoing(d5, t, k) \/ Outgoing(d6, t, k)) => Outgoing(p, t, k)
  <2>1. /\ d1 \in Seq(Change) /\ d2 \in Seq(Change) /\ d3 \in Seq(Change) /\ d4 \in Seq(Change)
        /\ d5 \in Seq(Change) /\ d6 \in Seq(Change)
    BY <1>5 DEF Clearing
  <2>2. p2 \in Seq(Change) /\ p3 \in Seq(Change) /\ p4 \in Seq(Change) /\ p5 \in Seq(Change)
    BY <1>6, <1>7, <1>8, <1>9 DEF Clearing
  <2> TAKE t, k
  <2>3. Outgoing(d1, t, k) \/ Outgoing(d2, t, k) => Outgoing(p2, t, k)
    BY <2>1, OutgoingInEither
  <2> HIDE DEF p2
  <2>4. Outgoing(p2, t, k) \/ Outgoing(d3, t, k) => Outgoing(p3, t, k)
    BY <2>1, <2>2, OutgoingInEither
  <2> HIDE DEF p3
  <2>5. Outgoing(p3, t, k) \/ Outgoing(d4, t, k) => Outgoing(p4, t, k)
    BY <2>1, <2>2, OutgoingInEither
  <2> HIDE DEF p4
  <2>6. Outgoing(p4, t, k) \/ Outgoing(d5, t, k) => Outgoing(p5, t, k)
    BY <2>1, <2>2, OutgoingInEither
  <2> HIDE DEF p5
  <2>7. Outgoing(p5, t, k) \/ Outgoing(d6, t, k) => Outgoing(p, t, k)
    BY <1>10, <2>1, <2>2, OutgoingInEither
  <2> QED
    BY <2>3, <2>4, <2>5, <2>6, <2>7
<1>12. Clearing(p, Tables)
  <2> HIDE DEF p5
  <2> QED
    BY <1>5, <1>9, <1>10, ClearingTwice
<1> HIDE DEF p2, p3, p4, p5
<1>13. /\ \A k \in k2 : Outgoing(p, "squads", k)
       /\ \A k \in k3 : Outgoing(p, "sessionModes", k)
       /\ \A k \in k4 : Outgoing(p, "nextModes", k)
       /\ \A k \in k5 : Outgoing(p, "projectDefaults", k)
       /\ \A k \in k6 : Outgoing(p, "squadVersions", k)
  <2>1. /\ \A k \in k2 : Outgoing(d2, "squads", k)
        /\ \A k \in k3 : Outgoing(d3, "sessionModes", k)
        /\ \A k \in k4 : Outgoing(d4, "nextModes", k)
    BY <1>2, <1>4, ClearsClearing
  <2>2. /\ \A k \in k5 : Outgoing(d5, "projectDefaults", k)
        /\ \A k \in k6 : Outgoing(d6, "squadVersions", k)
    BY <1>2, <1>4, ClearsClearing
  <2>3. (\A k \in k2 : Outgoing(p, "squads", k)) /\ (\A k \in k3 : Outgoing(p, "sessionModes", k))
    BY <1>11, <2>1
  <2>4. \A k \in k4 : Outgoing(p, "nextModes", k)
    BY <1>11, <2>1
  <2>5. (\A k \in k5 : Outgoing(p, "projectDefaults", k)) /\ (\A k \in k6 : Outgoing(p, "squadVersions", k))
    BY <1>11, <2>2
  <2> QED
    BY <2>3, <2>4, <2>5
<1>14. ClearsFor(db, p, d)
  <2>1. ASSUME NEW t \in Pointers, NEW x \in DOMAIN db[t] PROVE db[t][x] \in S \union {NoSquad} \/ Outgoing(p, t, x)
    BY <1>a, <1>13 DEF Pointers
  <2> QED
    BY <1>a, <1>12, <1>13, <2>1 DEF ClearsFor
<1> DEFINE C == {c \in Change : \A v : Drops(c, "squadVersions", v) => v[1] \notin S}
<1>15. \A v \in k6 : v[1] \notin S
  BY DEF k6
<1>16. /\ d1 \in Seq(C) /\ d2 \in Seq(C) /\ d3 \in Seq(C) /\ d4 \in Seq(C) /\ d5 \in Seq(C) /\ d6 \in Seq(C)
  <2>1. ASSUME NEW e, NEW t, NEW keys, Clears(e, t, keys), t = "squadVersions" => keys = k6
        PROVE  e \in Seq(C)
    <3>1. e \in Seq(Change) /\ \A i \in DOMAIN e : e[i].do = "delete" /\ e[i].table = t /\ e[i].keys = keys
      BY <2>1 DEF Clears
    <3>2. \A i \in 1..Len(e) : e[i] \in C
      BY <1>15, <2>1, <3>1 DEF Drops
    <3> HIDE DEF C
    <3> QED
      BY <3>1, <3>2
  <2> HIDE DEF C
  <2>2. d1 \in Seq(C) /\ d2 \in Seq(C) /\ d3 \in Seq(C)
    BY <1>4, <2>1
  <2>3. d4 \in Seq(C) /\ d5 \in Seq(C) /\ d6 \in Seq(C)
    BY <1>4, <2>1
  <2> QED
    BY <2>2, <2>3
<1>17. p \in Seq(C)
  <2> HIDE DEF C
  <2>1. p2 \in Seq(C)
    BY <1>16, Appended DEF p2
  <2>2. p3 \in Seq(C)
    BY <1>16, <2>1, Appended DEF p3
  <2>3. p4 \in Seq(C)
    BY <1>16, <2>2, Appended DEF p4
  <2>4. p5 \in Seq(C)
    BY <1>16, <2>3, Appended DEF p5
  <2> QED
    BY <1>10, <1>16, <2>4, Appended
<1>18. VersionsSpared(p, d)
  <2>1. \A i \in DOMAIN p : p[i] \in C
    <3> HIDE DEF C
    <3> QED
      BY <1>17
  <2> QED
    BY <2>1 DEF VersionsSpared
<1> QED
  BY <1>1, <1>14, <1>18

\* A replacing import.
LEMMA ReplaceReady ==
  ASSUME Good(db), NEW op, op.kind = "replace", op.document \in DocumentSet, Admitted(op)
  PROVE  Ready(db, op, ReplacePlan(op).captured, ReplacePlan(op).changes)
<1> DEFINE d == op.document
           a == Put("agents", d.agents)
           q == ImportSquads(d)
           r == a \o q
<1>1. PICK p : ReplacePlan(op).changes = (p \o a) \o q /\ ClearsFor(db, p, d)
  BY ReplaceClears
<1>2. ReplacePlan(op).captured = AllTables
  BY DEF ReplacePlan, Plan
<1>3. {"agents", "squads", "squadVersions"} \subseteq Tables
  BY DEF Tables
<1>c. r = a \o q /\ a = Put("agents", d.agents) /\ q = ImportSquads(d)
  OBVIOUS
<1> HIDE DEF a, q, r
<1> HIDE DEF d
<1>d. d \in DocumentSet /\ ValidDocument(d, {})
  BY DEF Admitted, d
<1>15. BringsIn(r, d)
  BY <1>c, <1>d, DocumentBroughtIn
<1>16. (p \o a) \o q = p \o r
  <2>1. /\ p \in Seq(Change) /\ a \in Seq(Change) /\ q \in Seq(Change)
    <3>1. IsTable(d.agents, Schema["agents"]) /\ IsTable(d.squads, Schema["squads"])
      BY <1>d, DocumentTyped
    <3>2. Listed(a, Tables, {}) /\ Listed(q, Tables, {})
      <4>1. "agents" \in Tables /\ {"squads", "squadVersions"} \subseteq Tables
        BY <1>3
      <4>2. Listed(a, Tables, {}) /\ Valid(a, {}, {})
        BY <1>c, <3>1, <4>1, AgentsPut
      <4>3. SquadsImported(q, d, Tables, {}, {})
        BY <1>c, <3>1, <4>1, ImportList
      <4> QED
        BY <4>2, <4>3 DEF SquadsImported
    <3> QED
      BY <1>1, <3>2 DEF Listed, Clearing, ClearsFor
  <2> QED
    BY <1>c, <2>1, AppendAssociates
<1>17. Closed(db) => Replacing(db, p \o r, d)
  BY <1>d, <1>1, <1>15, DocumentReplaces DEF Closed
<1>18. p \o r \in Seq(Change) /\ Orderly(p \o r) /\ RecordsHeld(db, p \o r)
  BY <1>1, <1>15, ReplacingOrder DEF BringsIn, ClearsFor
<1>19. Captured(AllTables, p \o r)
  <2>1. Covers(AllTables, Tables)
    BY CapturedLists
  <2> QED
    BY <2>1 DEF Captured, Covers
<1>20. Ready(db, op, AllTables, p \o r)
  BY <1>17, <1>18, <1>19 DEF Ready, Sound, d
<1> QED
  BY <1>1, <1>2, <1>16, <1>20

\* The plan of an admitted operation is ready.
LEMMA RunReady ==
  ASSUME Good(db), NEW op \in Operation, Admitted(op), ~Vacuous(op)
  PROVE  Ready(db, op, PlanOf(op).captured, PlanOf(op).changes)
<1>1. Typed(db)
  BY DEF Good
<1>2. CASE op.kind = "createAgent"
  <2>1. op.agent \in Agents /\ op.content \in Contents
    BY <1>2, OperationCases
  <2>2. PlanOf(op) = CreateAgentPlan(op)
    BY <1>2 DEF PlanOf
  <2> QED
    BY <1>1, <1>2, <2>1, <2>2, CreateAgentReady
<1>3. CASE op.kind = "updateAgent"
  <2>1. op.agent \in Agents /\ op.content \in Contents
    BY <1>3, OperationCases
  <2>2. PlanOf(op) = UpdateAgentPlan(op)
    BY <1>3 DEF PlanOf
  <2> QED
    BY <1>1, <1>3, <2>1, <2>2, UpdateAgentReady
<1>4. CASE op.kind = "deleteAgent"
  <2>1. op.agent \in Agents
    BY <1>4, OperationCases
  <2>2. PlanOf(op) = DeleteAgentPlan(op)
    BY <1>4 DEF PlanOf
  <2> QED
    BY <1>1, <1>4, <2>1, <2>2, DeleteAgentReady
<1>5. CASE op.kind \in {"createSquad", "updateSquad"}
  <2>1. op.squad \in Squads /\ op.record \in SquadRecordSet
    BY <1>5, OperationCases
  <2>2. PlanOf(op) = PutSquadPlan(op.squad, op.record)
    BY <1>5 DEF PlanOf
  <2>3. ValidSquad(op.record, DOMAIN db.agents) /\ op.kind # "replace"
    BY <1>5 DEF Admitted
  <2> QED
    BY <1>1, <2>1, <2>2, <2>3, PutSquadReady
<1>6. CASE op.kind \in {"addMember", "removeMember"}
  <2>1. op.agent \in Agents
    BY <1>6, OperationCases
  <2>2. PlanOf(op) = AddMemberPlan(op) \/ PlanOf(op) = RemoveMemberPlan(op)
    BY <1>6 DEF PlanOf
  <2>3. op.squad \in DOMAIN db.squads
    BY <1>6 DEF Admitted
  <2> QED
    BY <1>1, <1>6, <2>1, <2>2, <2>3, MemberReady
<1>7. CASE op.kind = "deleteSquad"
  <2>1. op.squad \in Squads
    BY <1>7, OperationCases
  <2>2. PlanOf(op) = DeleteSquadPlan(op)
    BY <1>7 DEF PlanOf
  <2>3. op.squad \in DOMAIN db.squads
    BY <1>7 DEF Vacuous
  <2> QED
    BY <1>1, <1>7, <2>1, <2>2, <2>3, DeleteSquadReady
<1>8. CASE op.kind = "point"
  <2>1. PlanOf(op) = PointPlan(op)
    BY <1>8 DEF PlanOf
  <2> QED
    BY <1>1, <1>8, <2>1, PointReady
<1>9. CASE op.kind \in {"merge", "recipe"}
  <2>1. op.document \in DocumentSet
    BY <1>9, OperationCases
  <2>2. PlanOf(op) = MergePlan(op)
    BY <1>9 DEF PlanOf
  <2> QED
    BY <1>9, <2>1, <2>2, MergeReady
<1>10. CASE op.kind = "replace"
  <2>1. op.document \in DocumentSet
    BY <1>10, OperationCases
  <2>2. PlanOf(op) = ReplacePlan(op)
    BY <1>10 DEF PlanOf
  <2> QED
    BY <1>10, <2>1, <2>2, ReplaceReady
<1>11. CASE op.kind = "restore"
  <2>1. op.version \in DOMAIN db.squadVersions
    BY <1>11 DEF Admitted
  <2>2. PlanOf(op) = RestorePlan(op)
    BY <1>11 DEF PlanOf
  <2> QED
    BY <1>1, <1>11, <2>1, <2>2, RestoreReady
<1> QED
  BY <1>2, <1>3, <1>4, <1>5, <1>6, <1>7, <1>8, <1>9, <1>10, <1>11, OperationCases

(***************************************************************************)
(* The invariant.  A transaction carries the tables it started from; each  *)
(* table that it has not captured, or has restored, is as it was then.     *)
(***************************************************************************)
IsTx(t) ==
  t = [op |-> t.op, before |-> t.before, phase |-> t.phase, aborted |-> t.aborted, clearing |-> t.clearing,
       captured |-> t.captured, changes |-> t.changes]

\* The parts of the invariant: the transaction is one,
TxTyped(t) ==
  t = Free \/ /\ IsTx(t) /\ t.op \in Operation /\ Good(t.before) /\ t.phase \in {"forward", "rollback"}
              /\ t.captured \in Seq(Tables) /\ t.captured # <<>>

\* the calls left are in order,
CallsLeft(g, t) ==
  t.phase = "forward" =>
    /\ t.clearing /\ t.changes \in Seq(Change) /\ t.changes # <<>>
    /\ Orderly(t.changes) /\ RecordsHeld(g, t.changes) /\ Captured(t.captured, t.changes)

\* what is not captured is as it was,
InList(s, table) == \E i \in DOMAIN s : s[i] = table
OutsideKept(g, t, dm) ==
  t # Free /\ dm # "graph" => \A table \in Tables : InList(t.captured, table) \/ g[table] = t.before[table]

\* the table being restored holds rows of the snapshot only,
SomeRows(under, over) == \A k \in DOMAIN under : k \in DOMAIN over /\ under[k] = over[k]
RowsRestored(g, t) ==
  t.phase = "rollback" /\ ~t.clearing => SomeRows(g[Last(t.captured)], t.before[Last(t.captured)])

\* and the references hold, or will.
References(g, t, dm) ==
  dm # "graph" =>
    /\ t = Free => Closed(g)
    /\ t # Free => Closed(t.before)
    /\ t.phase = "forward" => Sound(g, t.changes, t.op)

\* The invariant of the tables g under the transaction t and the damage dm.
DataInv(g, t, dm) ==
  /\ Good(g) /\ TxTyped(t) /\ CallsLeft(g, t) /\ dm \in {"none", "history", "graph"}
  /\ OutsideKept(g, t, dm) /\ RowsRestored(g, t) /\ References(g, t, dm)

\* The phases of a transaction exclude each other.
LEMMA Phases ==
  ASSUME NEW t, TxTyped(t)
  PROVE  /\ t = Free => t.phase = "free"
         /\ t.phase = "forward" \/ t.phase = "rollback" => t # Free
         /\ t # Free => IsTx(t) /\ t.op \in Operation /\ Good(t.before) /\ t.captured \in Seq(Tables) /\ t.captured # <<>>
                        /\ t.phase \in {"forward", "rollback"}
  BY DEF TxTyped, Free

\* The tables that the plugin starts with.
LEMMA DataStart ==
  ASSUME NEW g \in StartGraphs
  PROVE  DataInv(g, Free, "none")
<1>1. IsGraph(g) /\ Typed(g) /\ Closed(g)
  BY StartAssumption
<1>2. TxTyped(Free) /\ Free.phase = "free"
  BY DEF TxTyped, Free
<1> QED
  BY <1>1, <1>2 DEF DataInv, Good, CallsLeft, OutsideKept, RowsRestored, References

\* An operation begins.
LEMMA DataRun ==
  ASSUME DataInv(db, tx, damage), tx = Free, NEW op \in Operation, Admitted(op) \/ Vacuous(op), Run(op)
  PROVE  DataInv(db, tx', damage)
<1>1. CASE Vacuous(op) \/ PlanOf(op).changes = <<>>
  BY <1>1 DEF Run
<1>2. CASE ~(Vacuous(op) \/ PlanOf(op).changes = <<>>)
  <2> DEFINE captured == PlanOf(op).captured
             changes == PlanOf(op).changes
             t == [op |-> op, before |-> db, phase |-> "forward", aborted |-> FALSE, clearing |-> TRUE,
                   captured |-> captured, changes |-> changes]
  <2>1. tx' = t
    BY <1>2 DEF Run
  <2>2. Good(db) /\ damage \in {"none", "history", "graph"} /\ (damage # "graph" => Closed(db))
    BY DEF DataInv, References
  <2>3. Ready(db, op, captured, changes) /\ changes # <<>>
    BY <1>2, <2>2, RunReady
  <2> HIDE DEF captured, changes
  <2>4. /\ changes \in Seq(Change) /\ Orderly(changes) /\ RecordsHeld(db, changes) /\ Captured(captured, changes)
        /\ Closed(db) => Sound(db, changes, op)
    BY <2>3 DEF Ready
  <2>5. captured \in Seq(Tables) /\ captured # <<>>
    BY <2>4 DEF Captured
  <2>6. t # Free
    BY DEF Free
  <2>7. TxTyped(t)
    BY <2>2, <2>5 DEF TxTyped, IsTx
  <2>8. CallsLeft(db, t) /\ OutsideKept(db, t, damage) /\ RowsRestored(db, t)
    BY <2>3, <2>4 DEF CallsLeft, OutsideKept, RowsRestored
  <2>9. References(db, t, damage)
    BY <2>2, <2>4, <2>6 DEF References
  <2>10. DataInv(db, t, damage)
    BY <2>2, <2>7, <2>8, <2>9 DEF DataInv
  <2> QED
    BY <2>1, <2>10
<1> QED
  BY <1>1, <1>2

\* What is left of a list touches no further table.
LEMMA TouchesKept ==
  ASSUME NEW g, NEW h, NEW cs, NEW ds, NEW m, Moved(g, cs, h, ds, m), NEW captured, Captured(captured, cs)
  PROVE  /\ Captured(captured, ds)
         /\ \A t \in Tables : InList(captured, t) \/ h[t] = g[t]
<1>1. 1 \in DOMAIN cs /\ \A t \in Tables : Touches(cs[1], t) \/ h[t] = g[t]
  BY Parts DEF Moved, Advances
<1>2. ASSUME NEW i \in DOMAIN ds, NEW t, Touches(ds[i], t) PROVE \E j \in DOMAIN cs : Touches(cs[j], t)
  <2>1. \/ PartOf(ds[i], cs[1])
        \/ i - m + 1 \in DOMAIN cs /\ ds[i] = cs[i - m + 1]
    BY Parts
  <2>2. CASE PartOf(ds[i], cs[1])
    <3>1. Touches(cs[1], t)
      BY <1>2, <2>2 DEF PartOf, Touches
    <3> QED
      BY <1>1, <3>1
  <2> QED
    BY <1>2, <2>1, <2>2
<1> QED
  BY <1>1, <1>2 DEF Captured, InList

\* The members of the squads that a call records are known.
LEMMA RecordsKnown ==
  ASSUME NEW c, ~Blocked(c), c.do = "record"
  PROVE  \A q \in c.squads : db.squads[q].members \subseteq DOMAIN db.agents
  BY DEF Blocked

\* A call of the list in progress, made or lost.
LEMMA DataCall ==
  ASSUME DataInv(db, tx, damage), Forward, ~Blocked(Head(tx.changes)), NEW o \in Outcomes(Head(tx.changes)),
         NEW left, left = o.rest \o Tail(tx.changes)
  PROVE  /\ Good(o.db) /\ left \in Seq(Change) /\ Orderly(left) /\ RecordsHeld(o.db, left)
         /\ Captured(tx.captured, left)
         /\ OutsideKept(o.db, tx, damage)
         /\ damage # "graph" => Sound(o.db, left, tx.op)
<1> DEFINE cs == tx.changes
<1>1. /\ Good(db) /\ cs \in Seq(Change) /\ cs # <<>> /\ Orderly(cs) /\ RecordsHeld(db, cs)
      /\ Captured(tx.captured, cs)
  BY DEF DataInv, CallsLeft, Forward
<1>2. Head(cs) = cs[1]
  BY <1>1
<1>3. damage # "graph" => Sound(db, cs, tx.op)
  BY DEF DataInv, References, Forward
<1> HIDE DEF cs
<1>4. ~Blocked(cs[1]) /\ o \in Outcomes(cs[1])
  BY <1>2 DEF cs
<1>5. Good(o.db) /\ \E m \in Nat : Moved(db, cs, o.db, o.rest \o Tail(cs), m)
  BY <1>1, <1>4, CallMoves
<1>6. PICK m \in Nat : Moved(db, cs, o.db, left, m)
  BY <1>5 DEF cs
<1>7. left \in Seq(Change)
  BY <1>6 DEF Moved
<1>8. Orderly(left)
  BY <1>1, <1>6, OrderlyKept
<1>9. RecordsHeld(o.db, left)
  BY <1>1, <1>6, RecordsHeldKept
<1>10. Captured(tx.captured, left) /\ \A t \in Tables : InList(tx.captured, t) \/ o.db[t] = db[t]
  BY <1>1, <1>6, TouchesKept
<1>11. OutsideKept(o.db, tx, damage)
  BY <1>10 DEF DataInv, OutsideKept
<1>12. ASSUME damage # "graph" PROVE Sound(o.db, left, tx.op)
  <2>1. CASE tx.op.kind = "replace"
    <3>1. Replacing(db, cs, tx.op.document)
      BY <1>3, <1>12, <2>1 DEF Sound
    <3>2. cs[1].do = "record" => \A q \in cs[1].squads : db.squads[q].members \subseteq DOMAIN db.agents
      BY <1>4, RecordsKnown
    <3>3. Replacing(o.db, left, tx.op.document)
      BY <1>1, <1>5, <1>6, <3>1, <3>2, ReplacingAfter DEF Good
    <3> QED
      BY <2>1, <3>3 DEF Sound
  <2>2. CASE tx.op.kind # "replace"
    <3>1. ReferencesKept(db, cs)
      BY <1>3, <1>12, <2>2 DEF Sound
    <3>2. ReferencesKept(o.db, left)
      BY <1>1, <1>5, <1>6, <3>1, ReferencesAfter DEF Good
    <3> QED
      BY <2>2, <3>2 DEF Sound
  <2> QED
    BY <2>1, <2>2
<1> QED
  BY <1>5, <1>7, <1>8, <1>9, <1>10, <1>11, <1>12

(***************************************************************************)
(* How the invariant is kept, action by action.                            *)
(***************************************************************************)
\* The changes of a transaction, field by field.
TxFields == {"op", "before", "phase", "aborted", "clearing", "captured", "changes"}

\* A function over the fields is a transaction; one field of it is changed.
LEMMA TxOfFields ==
  ASSUME NEW t, t = [f \in TxFields |-> t[f]]
  PROVE  IsTx(t)
<1> DEFINE u == [op |-> t.op, before |-> t.before, phase |-> t.phase, aborted |-> t.aborted,
                 clearing |-> t.clearing, captured |-> t.captured, changes |-> t.changes]
<1>1. DOMAIN u = TxFields
  BY DEF TxFields
<1>2. \A f \in TxFields : u[f] = t[f]
  BY DEF TxFields
<1>3. u = [f \in TxFields |-> u[f]]
  BY <1>1
<1> HIDE DEF u
<1>4. u = t
  BY <1>2, <1>3
<1> QED
  BY <1>4 DEF IsTx, u

LEMMA TxUpdate ==
  ASSUME NEW t, IsTx(t), NEW f \in TxFields, NEW v, NEW u, u = [t EXCEPT ![f] = v]
  PROVE  IsTx(u) /\ u[f] = v /\ \A e \in TxFields : e # f => u[e] = t[e]
<1>1. DOMAIN t = TxFields /\ t = [e \in TxFields |-> t[e]]
  BY DEF IsTx, TxFields
<1>2. u = [e \in TxFields |-> u[e]] /\ u[f] = v /\ \A e \in TxFields : e # f => u[e] = t[e]
  BY <1>1
<1> QED
  BY <1>2, TxOfFields

\* t is the transaction u but for the fields of the set.
SameBut(t, u, fields) == \A e \in TxFields : e \notin fields => t[e] = u[e]

\* The updates that the actions make.
LEMMA TxUpdates ==
  ASSUME NEW t, IsTx(t)
  PROVE  /\ LET u == [t EXCEPT !.phase = "rollback", !.changes = <<>>]
            IN  IsTx(u) /\ u.phase = "rollback" /\ u.changes = <<>> /\ SameBut(u, t, {"phase", "changes"})
         /\ LET u == [t EXCEPT !.aborted = TRUE]
            IN  IsTx(u) /\ SameBut(u, t, {"aborted"})
         /\ LET u == [t EXCEPT !.clearing = FALSE]
            IN  IsTx(u) /\ u.clearing = FALSE /\ SameBut(u, t, {"clearing"})
         /\ \A left : LET u == [t EXCEPT !.changes = left]
                      IN  IsTx(u) /\ u.changes = left /\ SameBut(u, t, {"changes"})
         /\ \A rest : LET u == [t EXCEPT !.captured = rest, !.clearing = TRUE]
                      IN  IsTx(u) /\ u.captured = rest /\ u.clearing = TRUE /\ SameBut(u, t, {"captured", "clearing"})
<1>1. TxFields = {"op", "before", "phase", "aborted", "clearing", "captured", "changes"}
  BY DEF TxFields
<1>2. ASSUME NEW u, u = [t EXCEPT !.phase = "rollback", !.changes = <<>>]
      PROVE  IsTx(u) /\ u.phase = "rollback" /\ u.changes = <<>> /\ SameBut(u, t, {"phase", "changes"})
  <2>1. PICK w : w = [t EXCEPT !.phase = "rollback"]
    OBVIOUS
  <2>2. u = [w EXCEPT !.changes = <<>>]
    BY <1>2, <2>1
  <2>3. IsTx(w) /\ w["phase"] = "rollback" /\ \A e \in TxFields : e # "phase" => w[e] = t[e]
    BY <1>1, <2>1, TxUpdate
  <2>4. IsTx(u) /\ u["changes"] = <<>> /\ \A e \in TxFields : e # "changes" => u[e] = w[e]
    BY <1>1, <2>2, <2>3, TxUpdate
  <2> QED
    BY <1>1, <2>3, <2>4 DEF SameBut
<1>3. ASSUME NEW u, u = [t EXCEPT !.aborted = TRUE] PROVE IsTx(u) /\ SameBut(u, t, {"aborted"})
  <2>1. IsTx(u) /\ \A e \in TxFields : e # "aborted" => u[e] = t[e]
    BY <1>1, <1>3, TxUpdate
  <2> QED
    BY <2>1 DEF SameBut
<1>4. ASSUME NEW u, u = [t EXCEPT !.clearing = FALSE] PROVE IsTx(u) /\ u.clearing = FALSE /\ SameBut(u, t, {"clearing"})
  <2>1. IsTx(u) /\ u["clearing"] = FALSE /\ \A e \in TxFields : e # "clearing" => u[e] = t[e]
    BY <1>1, <1>4, TxUpdate
  <2> QED
    BY <2>1 DEF SameBut
<1>5. ASSUME NEW left, NEW u, u = [t EXCEPT !.changes = left]
      PROVE  IsTx(u) /\ u.changes = left /\ SameBut(u, t, {"changes"})
  <2>1. IsTx(u) /\ u["changes"] = left /\ \A e \in TxFields : e # "changes" => u[e] = t[e]
    BY <1>1, <1>5, TxUpdate
  <2> QED
    BY <2>1 DEF SameBut
<1>6. ASSUME NEW rest, NEW u, u = [t EXCEPT !.captured = rest, !.clearing = TRUE]
      PROVE  IsTx(u) /\ u.captured = rest /\ u.clearing = TRUE /\ SameBut(u, t, {"captured", "clearing"})
  <2>1. PICK w : w = [t EXCEPT !.captured = rest]
    OBVIOUS
  <2>2. u = [w EXCEPT !.clearing = TRUE]
    BY <1>6, <2>1
  <2>3. IsTx(w) /\ w["captured"] = rest /\ \A e \in TxFields : e # "captured" => w[e] = t[e]
    BY <1>1, <2>1, TxUpdate
  <2>4. IsTx(u) /\ u["clearing"] = TRUE /\ \A e \in TxFields : e # "clearing" => u[e] = w[e]
    BY <1>1, <2>2, <2>3, TxUpdate
  <2> QED
    BY <1>1, <2>3, <2>4 DEF SameBut
<1> QED
  BY <1>2, <1>3, <1>4, <1>5, <1>6

\* An operation is given up, whatever the last call did.
LEMMA DataCompensate ==
  ASSUME DataInv(db, tx, damage), Forward, NEW g, Good(g), OutsideKept(g, tx, damage)
  PROVE  DataInv(g, Compensate, damage)
<1> DEFINE t == Compensate
<1>1. tx # Free /\ IsTx(tx) /\ tx.op \in Operation /\ Good(tx.before) /\ tx.captured \in Seq(Tables) /\ tx.captured # <<>>
  BY Phases DEF DataInv, Forward
<1>2. /\ IsTx(t) /\ t.phase = "rollback" /\ t.changes = <<>>
      /\ t.op = tx.op /\ t.before = tx.before /\ t.clearing = tx.clearing /\ t.captured = tx.captured
  <2>1. IsTx(t) /\ t.phase = "rollback" /\ t.changes = <<>> /\ SameBut(t, tx, {"phase", "changes"})
    BY <1>1, TxUpdates DEF Compensate
  <2> QED
    BY <2>1 DEF SameBut, TxFields
<1>3. tx.clearing
  BY DEF DataInv, CallsLeft, Forward
<1> HIDE DEF t
<1>4. TxTyped(t) /\ t # Free
  BY <1>1, <1>2 DEF TxTyped, IsTx, Free
<1>5. CallsLeft(g, t) /\ RowsRestored(g, t) /\ OutsideKept(g, t, damage)
  BY <1>1, <1>2, <1>3 DEF CallsLeft, RowsRestored, OutsideKept
<1>6. References(g, t, damage)
  BY <1>1, <1>2, <1>4 DEF DataInv, References
<1>7. DataInv(g, t, damage)
  BY <1>4, <1>5, <1>6 DEF DataInv
<1> QED
  BY <1>7 DEF t

\* A storage call completes.
LEMMA DataStep ==
  ASSUME DataInv(db, tx, damage), Step
  PROVE  DataInv(db', tx', damage')
<1>1. Forward /\ ~Blocked(Head(tx.changes)) /\ damage' = damage
  BY DEF Step
<1>2. PICK o \in Outcomes(Head(tx.changes)) :
        /\ db' = o.db
        /\ CASE tx.aborted -> tx' = Compensate /\ UNCHANGED currentRevision
             [] ~tx.aborted /\ o.rest \o Tail(tx.changes) = <<>> -> tx' = Free /\ currentRevision' = currentRevision + 1
             [] OTHER -> tx' = [tx EXCEPT !.changes = o.rest \o Tail(tx.changes)] /\ UNCHANGED currentRevision
  BY DEF Step
<1> DEFINE left == o.rest \o Tail(tx.changes)
<1>3. /\ Good(o.db) /\ left \in Seq(Change) /\ Orderly(left) /\ RecordsHeld(o.db, left)
      /\ Captured(tx.captured, left)
      /\ OutsideKept(o.db, tx, damage)
      /\ damage # "graph" => Sound(o.db, left, tx.op)
  BY <1>1, DataCall
<1>4. \/ tx' = Compensate
      \/ left = <<>> /\ tx' = Free
      \/ left # <<>> /\ tx' = [tx EXCEPT !.changes = left]
  BY <1>2
<1> HIDE DEF left
<1>5. CASE tx' = Compensate
  BY <1>1, <1>2, <1>3, <1>5, DataCompensate
<1>6. CASE left = <<>> /\ tx' = Free
  <2>1. ASSUME damage # "graph" PROVE Closed(o.db)
    <3>1. CASE tx.op.kind = "replace"
      BY <1>3, <1>6, <2>1, <3>1, ReplacedIsClosed DEF Sound, Good
    <3>2. CASE tx.op.kind # "replace"
      BY <1>3, <2>1, <3>2 DEF Sound, ReferencesKept
    <3> QED
      BY <3>1, <3>2
  <2>2. TxTyped(Free) /\ Free.phase = "free"
    BY DEF TxTyped, Free
  <2>3. DataInv(o.db, Free, damage)
    BY <1>3, <2>1, <2>2 DEF DataInv, CallsLeft, OutsideKept, RowsRestored, References
  <2> QED
    BY <1>1, <1>2, <1>6, <2>3
<1>7. CASE left # <<>> /\ tx' = [tx EXCEPT !.changes = left]
  <2> DEFINE t == [tx EXCEPT !.changes = left]
  <2>1. /\ tx # Free /\ IsTx(tx) /\ tx.op \in Operation /\ Good(tx.before)
        /\ tx.captured \in Seq(Tables) /\ tx.captured # <<>>
    BY <1>1, Phases DEF DataInv, Forward
  <2>2. tx.phase = "forward" /\ tx.clearing
    BY <1>1 DEF DataInv, CallsLeft, Forward
  <2>3. /\ IsTx(t) /\ t.phase = "forward" /\ t.changes = left
        /\ t.op = tx.op /\ t.before = tx.before /\ t.clearing = tx.clearing /\ t.captured = tx.captured
    <3>1. IsTx(t) /\ t.changes = left /\ SameBut(t, tx, {"changes"})
      BY <2>1, TxUpdates
    <3> QED
      BY <2>2, <3>1 DEF SameBut, TxFields
  <2> HIDE DEF t
  <2>4. TxTyped(t) /\ t # Free
    BY <2>1, <2>3 DEF TxTyped, IsTx, Free
  <2>5. CallsLeft(o.db, t) /\ RowsRestored(o.db, t) /\ OutsideKept(o.db, t, damage)
    BY <1>3, <1>7, <2>1, <2>2, <2>3 DEF CallsLeft, RowsRestored, OutsideKept
  <2>6. References(o.db, t, damage)
    BY <1>3, <2>1, <2>3, <2>4 DEF DataInv, References
  <2>7. DataInv(o.db, t, damage)
    BY <1>3, <2>4, <2>5, <2>6 DEF DataInv
  <2> QED
    BY <1>1, <1>2, <1>7, <2>7 DEF t
<1> QED
  BY <1>4, <1>5, <1>6, <1>7

\* A storage call rejects, its row written or not.
LEMMA DataStepFails ==
  ASSUME DataInv(db, tx, damage), StepFails
  PROVE  DataInv(db', tx', damage')
<1>1. /\ Forward /\ ~Blocked(Head(tx.changes)) /\ damage' = damage /\ tx' = Compensate
      /\ db' \in {db} \union {o.db : o \in Outcomes(Head(tx.changes))}
  BY DEF StepFails
<1>2. Good(db') /\ OutsideKept(db', tx, damage)
  <2>1. CASE db' = db
    BY <2>1 DEF DataInv
  <2>2. CASE db' # db
    <3>1. PICK o \in Outcomes(Head(tx.changes)) : db' = o.db
      BY <1>1, <2>2
    <3>2. Good(o.db) /\ OutsideKept(o.db, tx, damage)
      BY <1>1, DataCall
    <3> QED
      BY <3>1, <3>2
  <2> QED
    BY <2>1, <2>2
<1> QED
  BY <1>1, <1>2, DataCompensate

\* A squad is refused inside the unit of work.
LEMMA DataRefuse ==
  ASSUME DataInv(db, tx, damage), Refuse
  PROVE  DataInv(db', tx', damage')
<1>1. Forward /\ damage' = damage /\ tx' = Compensate /\ db' = db
  BY DEF Refuse
<1>2. Good(db) /\ OutsideKept(db, tx, damage)
  BY DEF DataInv
<1> QED
  BY <1>1, <1>2, DataCompensate

\* An abort is noted.
LEMMA DataAbort ==
  ASSUME DataInv(db, tx, damage), AbortOperation
  PROVE  DataInv(db', tx', damage')
<1> DEFINE t == [tx EXCEPT !.aborted = TRUE]
<1>1. Forward /\ damage' = damage /\ tx' = t /\ db' = db
  BY DEF AbortOperation
<1>2. /\ tx # Free /\ IsTx(tx) /\ tx.op \in Operation /\ Good(tx.before)
      /\ tx.captured \in Seq(Tables) /\ tx.captured # <<>> /\ tx.phase = "forward"
  BY <1>1, Phases DEF DataInv, Forward
<1>3. /\ IsTx(t) /\ t.phase = "forward" /\ t.changes = tx.changes
      /\ t.op = tx.op /\ t.before = tx.before /\ t.clearing = tx.clearing /\ t.captured = tx.captured
  <2>1. IsTx(t) /\ SameBut(t, tx, {"aborted"})
    BY <1>2, TxUpdates
  <2> QED
    BY <1>2, <2>1 DEF SameBut, TxFields
<1> HIDE DEF t
<1>4. TxTyped(t) /\ t # Free
  BY <1>2, <1>3 DEF TxTyped, IsTx, Free
<1>5. CallsLeft(db, t) /\ RowsRestored(db, t) /\ OutsideKept(db, t, damage)
  BY <1>2, <1>3 DEF DataInv, CallsLeft, RowsRestored, OutsideKept
<1>6. References(db, t, damage)
  BY <1>2, <1>3, <1>4 DEF DataInv, References
<1>7. DataInv(db, t, damage)
  BY <1>4, <1>5, <1>6 DEF DataInv
<1> QED
  BY <1>1, <1>7

\* The host dies.
LEMMA DataCrash ==
  ASSUME DataInv(db, tx, damage), Crash
  PROVE  DataInv(db', tx', damage')
<1>1. db' = db /\ tx' = Free
  BY DEF Crash
<1>2. damage' \in {"none", "history", "graph"} /\ (damage' # "graph" => damage # "graph")
  BY DEF Crash, DataInv
<1>3. ASSUME damage' # "graph" PROVE Closed(db)
  <2>1. CASE tx = Free
    BY <1>2, <1>3, <2>1 DEF DataInv, References
  <2>2. CASE tx # Free
    <3>1. Forward /\ tx.op.kind # "replace"
      BY <1>3, <2>2 DEF Crash
    <3> QED
      BY <1>2, <1>3, <3>1 DEF DataInv, References, Sound, Forward, ReferencesKept
  <2> QED
    BY <2>1, <2>2
<1>4. TxTyped(Free) /\ Free.phase = "free"
  BY DEF TxTyped, Free
<1>5. Good(db)
  BY DEF DataInv
<1>6. DataInv(db, Free, damage')
  BY <1>2, <1>3, <1>4, <1>5 DEF DataInv, CallsLeft, OutsideKept, RowsRestored, References
<1> QED
  BY <1>1, <1>6

\* The last table of a list, and those before it.
LEMMA LastTable ==
  ASSUME NEW s \in Seq(Tables), s # <<>>
  PROVE  /\ Last(s) \in Tables /\ InList(s, Last(s))
         /\ Len(s) = 1 => \A table : InList(s, table) => table = Last(s)
         /\ Len(s) # 1 => /\ Front(s) \in Seq(Tables) /\ Front(s) # <<>>
                          /\ \A table : InList(s, table) => table = Last(s) \/ InList(Front(s), table)
<1>1. Len(s) \in Nat \ {0} /\ DOMAIN s = 1..Len(s) /\ Last(s) = s[Len(s)]
  BY DEF Last
<1>2. Last(s) \in Tables /\ InList(s, Last(s))
  BY <1>1 DEF InList
<1>3. Len(s) = 1 => \A table : InList(s, table) => table = Last(s)
  BY <1>1 DEF InList
<1>4. ASSUME Len(s) # 1
      PROVE  /\ Front(s) \in Seq(Tables) /\ Front(s) # <<>>
             /\ \A table : InList(s, table) => table = Last(s) \/ InList(Front(s), table)
  <2> DEFINE n == Len(s) - 1
  <2>1. n \in Nat \ {0} /\ Front(s) = SubSeq(s, 1, n)
    BY <1>1, <1>4 DEF Front
  <2>2. Front(s) \in Seq(Tables) /\ Len(Front(s)) = n /\ \A i \in 1..n : Front(s)[i] = s[i]
    BY <1>1, <2>1
  <2>3. DOMAIN Front(s) = 1..n
    BY <2>2
  <2>4. ASSUME NEW i \in DOMAIN s PROVE s[i] = Last(s) \/ InList(Front(s), s[i])
    <3>1. i = Len(s) \/ i \in 1..n
      BY <1>1
    <3> QED
      BY <1>1, <2>2, <2>3, <3>1 DEF InList
  <2>5. Front(s) # <<>>
    BY <2>1, <2>2
  <2> QED
    BY <2>2, <2>4, <2>5 DEF InList
<1> QED
  BY <1>2, <1>3, <1>4

\* Tables with the same rows are the same.
LEMMA SameTable ==
  ASSUME NEW type, NEW u, NEW v, IsTable(u, type), IsTable(v, type), SomeRows(u, v), DOMAIN v \subseteq DOMAIN u
  PROVE  u = v
<1>1. u = [k \in DOMAIN u |-> u[k]] /\ v = [k \in DOMAIN v |-> v[k]]
  BY DEF IsTable
<1>2. DOMAIN u = DOMAIN v /\ \A k \in DOMAIN u : u[k] = v[k]
  BY DEF SomeRows
<1> QED
  BY <1>1, <1>2

\* A transaction that is being compensated.
LEMMA RollbackTx ==
  ASSUME DataInv(db, tx, damage), Rollback
  PROVE  /\ tx # Free /\ IsTx(tx) /\ tx.op \in Operation /\ Good(tx.before) /\ tx.phase = "rollback"
         /\ tx.captured \in Seq(Tables) /\ tx.captured # <<>>
         /\ Table \in Tables /\ InList(tx.captured, Table)
         /\ IsTable(db[Table], Schema[Table]) /\ IsTable(tx.before[Table], Schema[Table])
<1>1. /\ tx # Free /\ IsTx(tx) /\ tx.op \in Operation /\ Good(tx.before) /\ tx.phase = "rollback"
      /\ tx.captured \in Seq(Tables) /\ tx.captured # <<>>
  BY Phases DEF DataInv, Rollback
<1>2. Table \in Tables /\ InList(tx.captured, Table)
  BY <1>1, LastTable DEF Table
<1>3. Typed(db) /\ Typed(tx.before)
  BY <1>1 DEF DataInv, Good
<1> QED
  BY <1>1, <1>2, <1>3, TypedTables

\* A table is restored or given up; after the last one the tables are the snapshot.
LEMMA DataNextTable ==
  ASSUME DataInv(db, tx, damage), Rollback, NEW dm \in {"none", "history", "graph"},
         dm = "graph" \/ (dm = damage /\ db[Table] = tx.before[Table])
  PROVE  /\ DataInv(db, NextTable, dm)
         /\ NextTable = Free /\ dm # "graph" => db = tx.before
         /\ NextTable # Free => NextTable.before = tx.before
<1>1. /\ tx # Free /\ IsTx(tx) /\ tx.op \in Operation /\ Good(tx.before) /\ tx.phase = "rollback"
      /\ tx.captured \in Seq(Tables) /\ tx.captured # <<>>
  BY RollbackTx
<1>2. Good(db)
  BY DEF DataInv
<1>3. dm # "graph" => \A table \in Tables : InList(tx.captured, table) \/ db[table] = tx.before[table]
  BY <1>1 DEF DataInv, OutsideKept
<1>4. CASE Len(tx.captured) = 1
  <2>1. NextTable = Free
    BY <1>4 DEF NextTable
  <2>2. ASSUME dm # "graph" PROVE db = tx.before
    <3>1. \A table \in Tables : db[table] = tx.before[table]
      BY <1>1, <1>3, <1>4, <2>2, LastTable DEF Table
    <3>2. db = [table \in Tables |-> db[table]] /\ tx.before = [table \in Tables |-> tx.before[table]]
      BY <1>1, <1>2, GraphFun DEF Good
    <3> QED
      BY <3>1, <3>2
  <2>3. dm # "graph" => Closed(db)
    BY <1>1, <2>2 DEF DataInv, References
  <2>4. TxTyped(Free) /\ Free.phase = "free"
    BY DEF TxTyped, Free
  <2>5. DataInv(db, Free, dm)
    BY <1>2, <2>3, <2>4 DEF DataInv, CallsLeft, OutsideKept, RowsRestored, References
  <2> QED
    BY <2>1, <2>2, <2>5
<1>5. CASE Len(tx.captured) # 1
  <2> DEFINE t == [tx EXCEPT !.captured = Front(tx.captured), !.clearing = TRUE]
  <2>1. NextTable = t
    BY <1>5 DEF NextTable
  <2>2. /\ IsTx(t) /\ t.captured = Front(tx.captured) /\ t.clearing = TRUE
        /\ t.op = tx.op /\ t.before = tx.before /\ t.phase = "rollback"
    <3>1. IsTx(t) /\ t.captured = Front(tx.captured) /\ t.clearing = TRUE /\ SameBut(t, tx, {"captured", "clearing"})
      BY <1>1, TxUpdates
    <3> QED
      BY <1>1, <3>1 DEF SameBut, TxFields
  <2> HIDE DEF t
  <2>3. /\ t.captured \in Seq(Tables) /\ t.captured # <<>>
        /\ \A table : InList(tx.captured, table) => table = Table \/ InList(t.captured, table)
    BY <1>1, <1>5, <2>2, LastTable DEF Table
  <2>4. TxTyped(t) /\ t # Free
    BY <1>1, <2>2, <2>3 DEF TxTyped, Free
  <2>5. OutsideKept(db, t, dm)
    BY <1>3, <2>2, <2>3 DEF OutsideKept
  <2>6. CallsLeft(db, t) /\ RowsRestored(db, t)
    BY <2>2 DEF CallsLeft, RowsRestored
  <2>7. References(db, t, dm)
    BY <1>1, <2>2, <2>4 DEF DataInv, References
  <2>8. DataInv(db, t, dm)
    BY <1>2, <2>4, <2>5, <2>6, <2>7 DEF DataInv
  <2> QED
    BY <2>1, <2>2, <2>4, <2>8
<1> QED
  BY <1>4, <1>5

\* A row of the table in progress is deleted or put back.
LEMMA DataRow ==
  ASSUME DataInv(db, tx, damage), Rollback, NEW table, IsTable(table, Schema[Table]),
         NEW g, g = [db EXCEPT ![Table] = table], NEW t, IsTx(t), SameBut(t, tx, {"clearing"}),
         t.clearing \/ SomeRows(table, tx.before[Table])
  PROVE  DataInv(g, t, damage)
<1>1. /\ tx # Free /\ IsTx(tx) /\ tx.op \in Operation /\ Good(tx.before) /\ tx.phase = "rollback"
      /\ tx.captured \in Seq(Tables) /\ tx.captured # <<>>
      /\ Table \in Tables /\ InList(tx.captured, Table)
  BY RollbackTx
<1>2. Good(db)
  BY DEF DataInv
<1>3. Good(g) /\ g[Table] = table /\ \A u \in Tables : u # Table => g[u] = db[u]
  <2>1. IsGraph(g) /\ Typed(g)
    BY <1>1, <1>2, TypedUpdate DEF Good
  <2>2. g[Table] = table /\ \A u \in Tables : u # Table => g[u] = db[u]
    <3>1. IsGraph(db) /\ Table \in Tables
      BY <1>1, <1>2 DEF Good
    <3>2. PICK w : w = Table
      OBVIOUS
    <3>3. g = [db EXCEPT ![w] = table] /\ w \in Tables
      BY <3>1, <3>2
    <3>4. g[w] = table /\ Written(db, g, w)
      BY <3>1, <3>3, WrittenGraph
    <3> QED
      BY <3>2, <3>4 DEF Written
  <2> QED
    BY <2>1, <2>2 DEF Good
<1>4. t.op = tx.op /\ t.before = tx.before /\ t.phase = "rollback" /\ t.captured = tx.captured
  BY <1>1 DEF SameBut, TxFields
<1>5. TxTyped(t) /\ t # Free
  BY <1>1, <1>4 DEF TxTyped, Free
<1>6. OutsideKept(g, t, damage)
  BY <1>1, <1>3, <1>4 DEF DataInv, OutsideKept
<1>7. CallsLeft(g, t) /\ RowsRestored(g, t)
  BY <1>3, <1>4 DEF CallsLeft, RowsRestored, Table
<1>8. References(g, t, damage)
  BY <1>1, <1>4, <1>5 DEF DataInv, References
<1> QED
  BY <1>3, <1>5, <1>6, <1>7, <1>8 DEF DataInv

\* A call of a compensation.
LEMMA DataRestoreTable ==
  ASSUME DataInv(db, tx, damage), RestoreTable
  PROVE  /\ DataInv(db', tx', damage')
         /\ tx' = Free /\ damage' # "graph" => db' = tx.before
         /\ tx' # Free => tx'.before = tx.before
<1> DEFINE under == db[Table]
           over == tx.before[Table]
           missing == DOMAIN over \ DOMAIN under
<1>1. Rollback /\ damage' = damage
  BY DEF RestoreTable
<1>2. /\ tx # Free /\ IsTx(tx) /\ tx.phase = "rollback" /\ Table \in Tables
      /\ IsTable(under, Schema[Table]) /\ IsTable(over, Schema[Table])
  BY <1>1, RollbackTx
<1>3. CASE tx.clearing /\ under # <<>>
  <2>1. PICK k \in DOMAIN under : db' = [db EXCEPT ![Table] = Without(@, {k})]
    BY <1>3 DEF RestoreTable
  <2>2. tx' = tx
    BY <1>3 DEF RestoreTable
  <2> DEFINE table == Without(under, {k})
  <2>3. IsTable(table, Schema[Table])
    BY <1>2, WithoutIsTable
  <2>4. db' = [db EXCEPT ![Table] = table]
    BY <2>1
  <2>5. SameBut(tx, tx, {"clearing"})
    BY DEF SameBut
  <2> HIDE DEF table
  <2>6. DataInv(db', tx, damage)
    BY <1>1, <1>2, <1>3, <2>3, <2>4, <2>5, DataRow
  <2> QED
    BY <1>1, <1>2, <2>2, <2>6
<1>4. CASE ~(tx.clearing /\ under # <<>>)
  <2>1. SomeRows(under, over)
    <3>1. CASE under = <<>>
      BY <3>1 DEF SomeRows
    <3>2. CASE under # <<>>
      BY <1>2, <1>4, <3>2 DEF DataInv, RowsRestored, Table
    <3> QED
      BY <3>1, <3>2
  <2>2. CASE missing = {}
    <3>1. tx' = NextTable /\ db' = db
      BY <1>4, <2>2 DEF RestoreTable
    <3>2. DOMAIN over \subseteq DOMAIN under
      BY <2>2
    <3>3. under = over
      BY <1>2, <2>1, <3>2, SameTable
    <3>4. damage \in {"none", "history", "graph"}
      BY DEF DataInv
    <3> QED
      BY <1>1, <3>1, <3>3, <3>4, DataNextTable
  <2>3. CASE missing # {}
    <3>1. PICK k \in missing : /\ db' = [db EXCEPT ![Table] = Laid(Row(k, tx.before[Table][k]), @)]
                               /\ tx' = [tx EXCEPT !.clearing = FALSE]
      BY <1>4, <2>3 DEF RestoreTable
    <3> DEFINE table == Laid(Row(k, over[k]), under)
    <3>2. k \in Schema[Table].keys /\ over[k] \in Schema[Table].rows
      BY <1>2 DEF IsTable
    <3>3. IsTable(table, Schema[Table])
      BY <1>2, <3>2, LaidIsTable
    <3>4. DOMAIN table = DOMAIN under \union {k} /\ table[k] = over[k] /\ \A x \in DOMAIN under : x # k => table[x] = under[x]
      <4>1. PICK v : v = over[k]
        OBVIOUS
      <4>2. table = Laid(Row(k, v), under)
        BY <4>1
      <4> HIDE DEF table, under
      <4>3. DOMAIN Laid(Row(k, v), under) = DOMAIN under \union {k}
        BY LaidDomain
      <4>4. table[k] = v /\ \A x \in DOMAIN under : x # k => table[x] = under[x]
        BY <4>2, LaidRow
      <4> QED
        BY <4>1, <4>2, <4>3, <4>4
    <3>5. SomeRows(table, over)
      BY <2>1, <3>4 DEF SomeRows
    <3>6. db' = [db EXCEPT ![Table] = table]
      BY <3>1
    <3> HIDE DEF table
    <3>7. IsTx(tx') /\ SameBut(tx', tx, {"clearing"})
      BY <1>2, <3>1, TxUpdates
    <3>8. DataInv(db', tx', damage)
      BY <1>1, <3>3, <3>5, <3>6, <3>7, DataRow
    <3>9. tx' # Free /\ tx'.before = tx.before
      BY <1>2, <3>7 DEF SameBut, TxFields, Free
    <3> QED
      BY <1>1, <3>8, <3>9
  <2> QED
    BY <2>2, <2>3
<1> QED
  BY <1>3, <1>4

\* A call of a compensation rejects.
LEMMA DataRestoreFails ==
  ASSUME DataInv(db, tx, damage), RestoreFails
  PROVE  DataInv(db', tx', damage')
  BY DataNextTable DEF RestoreFails

(***************************************************************************)
(* The calls outside the section.  What a preview showed is what the       *)
(* tables hold as long as the revision is the same, in the same process.   *)
(***************************************************************************)
CallFields == {"stage", "op", "revision", "process", "graph"}

\* A preview of this process shows the tables of its revision.
ShownAt(x, rev, proc, held, dm) ==
  x.op.kind \in Previewed /\ x.process = proc =>
    /\ x.revision <= rev
    /\ dm # "graph" /\ x.revision = rev => x.graph = held

\* A call outside the section.
CallOK(x, rev, proc, held, dm) ==
  x = Idle \/ /\ CallFields \subseteq DOMAIN x /\ x.stage \in {"previewed", "validating"} /\ x.op \in Operation
              /\ x.revision \in Nat /\ x.process \in 1..proc /\ ShownAt(x, rev, proc, held, dm)

\* All of them.
CallsInv(calls, rev, proc, held, dm) ==
  /\ DOMAIN calls = Clients /\ rev \in Nat /\ proc \in Nat \ {0}
  /\ \A c \in Clients : CallOK(calls[c], rev, proc, held, dm)

\* The calls under way, and the operation in the section.
Busy(calls) == {c \in Clients : calls[c] # Idle}
Running(t) == IF t = Free THEN 0 ELSE 1

\* Every revision was an operation.
CountInv(calls, rev, t, ops) ==
  /\ IsFiniteSet(Busy(calls)) /\ rev \in Nat /\ ops \in 0..MaxOperations
  /\ rev + Cardinality(Busy(calls)) + Running(t) <= ops

\* The inductive invariant of DefinitionsSpec.
DInv ==
  /\ DataInv(db, tx, damage)
  /\ CallsInv(call, currentRevision, process, Committed, damage)
  /\ CountInv(call, currentRevision, tx, operations)

\* What a storage call or the end of an operation does to the revision.
Advanced ==
  /\ process' = process /\ (damage' # "graph" => damage # "graph")
  /\ \/ currentRevision' = currentRevision + 1
     \/ currentRevision' = currentRevision /\ (damage' # "graph" => Committed' = Committed)

\* The start of an operation moves the revision or keeps what is committed.
LEMMA RunAdvances ==
  ASSUME tx = Free, db' = db, damage' = damage, process' = process, NEW op, Run(op), currentRevision \in Nat
  PROVE  /\ Advanced
         /\ currentRevision' \in Nat /\ currentRevision' + Running(tx') <= currentRevision + 1
  BY DEF Run, Advanced, Committed, Free, Running

\* So does every step inside the section.
LEMMA StepAdvances ==
  ASSUME DataInv(db, tx, damage), currentRevision \in Nat,
         Step \/ Refuse \/ StepFails \/ AbortOperation \/ RestoreTable \/ RestoreFails
  PROVE  /\ Advanced /\ currentRevision' \in Nat
         /\ currentRevision' + Running(tx') <= currentRevision + Running(tx)
<1>1. ASSUME Forward, NEW t, t = Compensate PROVE t # Free /\ tx # Free /\ t.before = tx.before
  <2>1. tx # Free /\ IsTx(tx)
    BY <1>1, Phases DEF DataInv, Forward
  <2>2. t.phase = "rollback" /\ SameBut(t, tx, {"phase", "changes"})
    BY <1>1, <2>1, TxUpdates DEF Compensate
  <2> QED
    BY <2>1, <2>2 DEF SameBut, TxFields, Free
<1>2. CASE Step
  <2>1. Forward /\ damage' = damage /\ process' = process
    BY <1>2 DEF Step
  <2>2. tx # Free /\ IsTx(tx) /\ tx.phase = "forward"
    BY <2>1, Phases DEF DataInv, Forward
  <2>3. PICK left : \/ tx' = Compensate /\ currentRevision' = currentRevision
                    \/ tx' = Free /\ currentRevision' = currentRevision + 1
                    \/ tx' = [tx EXCEPT !.changes = left] /\ currentRevision' = currentRevision
    BY <1>2 DEF Step
  <2>4. CASE tx' = Compensate /\ currentRevision' = currentRevision
    BY <1>1, <2>1, <2>4 DEF Advanced, Committed, Running
  <2>5. CASE tx' = Free /\ currentRevision' = currentRevision + 1
    BY <2>1, <2>2, <2>5 DEF Advanced, Running
  <2>6. CASE tx' = [tx EXCEPT !.changes = left] /\ currentRevision' = currentRevision
    <3>1. SameBut(tx', tx, {"changes"})
      BY <2>2, <2>6, TxUpdates
    <3>2. tx'.phase = "forward" /\ tx'.before = tx.before
      BY <2>2, <3>1 DEF SameBut, TxFields
    <3>3. tx' # Free
      BY <3>2 DEF Free
    <3> QED
      BY <2>1, <2>2, <2>6, <3>2, <3>3 DEF Advanced, Committed, Running
  <2> QED
    BY <2>3, <2>4, <2>5, <2>6
<1>3. CASE Refuse \/ StepFails
  <2>1. /\ Forward /\ damage' = damage /\ process' = process /\ tx' = Compensate
        /\ currentRevision' = currentRevision
    BY <1>3 DEF Refuse, StepFails
  <2> QED
    BY <1>1, <2>1 DEF Advanced, Committed, Running
<1>4. CASE AbortOperation
  <2>1. /\ Forward /\ damage' = damage /\ process' = process /\ tx' = [tx EXCEPT !.aborted = TRUE]
        /\ currentRevision' = currentRevision
    BY <1>4 DEF AbortOperation
  <2>2. tx # Free /\ IsTx(tx) /\ tx.phase = "forward"
    BY <2>1, Phases DEF DataInv, Forward
  <2>3. SameBut(tx', tx, {"aborted"})
    BY <2>1, <2>2, TxUpdates
  <2>4. tx'.phase = "forward" /\ tx'.before = tx.before
    BY <2>2, <2>3 DEF SameBut, TxFields
  <2>5. tx' # Free
    BY <2>4 DEF Free
  <2> QED
    BY <2>1, <2>2, <2>4, <2>5 DEF Advanced, Committed, Running
<1>5. CASE RestoreTable
  <2>1. Rollback /\ damage' = damage /\ process' = process /\ currentRevision' = currentRevision
    BY <1>5 DEF RestoreTable
  <2>2. tx # Free
    BY <2>1, RollbackTx
  <2>3. /\ tx' = Free /\ damage' # "graph" => db' = tx.before
        /\ tx' # Free => tx'.before = tx.before
    BY <1>5, DataRestoreTable
  <2> QED
    BY <2>1, <2>2, <2>3 DEF Advanced, Committed, Running
<1>6. CASE RestoreFails
  <2>1. Rollback /\ damage' = "graph" /\ process' = process /\ currentRevision' = currentRevision
    BY <1>6 DEF RestoreFails
  <2>2. tx # Free
    BY <2>1, RollbackTx
  <2> QED
    BY <2>1, <2>2 DEF Advanced, Running
<1> QED
  BY <1>2, <1>3, <1>4, <1>5, <1>6

\* A preview stays right while the revision moves.
LEMMA CallKept ==
  ASSUME NEW x, CallOK(x, currentRevision, process, Committed, damage), Advanced, currentRevision \in Nat
  PROVE  CallOK(x, currentRevision', process', Committed', damage')
  BY DEF CallOK, ShownAt, Advanced

\* The previews stay right.
LEMMA CallsKept ==
  ASSUME CallsInv(call, currentRevision, process, Committed, damage), Advanced, currentRevision' \in Nat,
         DOMAIN call' = Clients, \A c \in Clients : call'[c] = call[c] \/ call'[c] = Idle
  PROVE  CallsInv(call', currentRevision', process', Committed', damage')
<1>1. ASSUME NEW c \in Clients PROVE CallOK(call'[c], currentRevision', process', Committed', damage')
  <2>1. CASE call'[c] = Idle
    BY <2>1 DEF CallOK
  <2>2. CASE call'[c] = call[c]
    <3>1. CallOK(call[c], currentRevision, process, Committed, damage) /\ currentRevision \in Nat
      BY DEF CallsInv
    <3>2. CallOK(call[c], currentRevision', process', Committed', damage')
      BY <3>1, CallKept
    <3> QED
      BY <2>2, <3>2
  <2> QED
    BY <2>1, <2>2
<1> QED
  BY <1>1 DEF CallsInv, Advanced

(***************************************************************************)
(* Counting: every operation asked for is a call under way, the operation  *)
(* in the section, a success, or over.                                     *)
(***************************************************************************)
LEMMA FewerBusy ==
  ASSUME NEW calls, NEW later, IsFiniteSet(Busy(calls)), \A c \in Clients : later[c] # Idle => calls[c] # Idle
  PROVE  /\ IsFiniteSet(Busy(later)) /\ Cardinality(Busy(later)) \in Nat /\ Cardinality(Busy(calls)) \in Nat
         /\ Cardinality(Busy(later)) <= Cardinality(Busy(calls))
<1>1. Busy(later) \subseteq Busy(calls)
  BY DEF Busy
<1> QED
  BY <1>1, FS_Subset, FS_CardinalityType

\* One more, and one less, call under way.
LEMMA OneMoreBusy ==
  ASSUME NEW calls, NEW later, IsFiniteSet(Busy(calls)), NEW c \in Clients,
         \A b \in Clients : b # c => later[b] = calls[b]
  PROVE  /\ IsFiniteSet(Busy(later)) /\ Cardinality(Busy(later)) \in Nat /\ Cardinality(Busy(calls)) \in Nat
         /\ Cardinality(Busy(later)) <= Cardinality(Busy(calls)) + 1
<1>1. Busy(later) \subseteq Busy(calls) \union {c}
  BY DEF Busy
<1>2. /\ IsFiniteSet(Busy(calls) \union {c})
      /\ Cardinality(Busy(calls) \union {c}) <= Cardinality(Busy(calls)) + 1
  BY FS_AddElement, FS_CardinalityType
<1>3. Cardinality(Busy(calls)) \in Nat /\ Cardinality(Busy(calls) \union {c}) \in Nat
  BY <1>2, FS_CardinalityType
<1>4. /\ IsFiniteSet(Busy(later)) /\ Cardinality(Busy(later)) \in Nat
      /\ Cardinality(Busy(later)) <= Cardinality(Busy(calls) \union {c})
  BY <1>1, <1>2, FS_Subset, FS_CardinalityType
<1> QED
  BY <1>2, <1>3, <1>4

LEMMA OneLessBusy ==
  ASSUME NEW calls, NEW later, IsFiniteSet(Busy(calls)), NEW c \in Clients, calls[c] # Idle, later[c] = Idle,
         \A b \in Clients : b # c => later[b] = calls[b]
  PROVE  /\ IsFiniteSet(Busy(later)) /\ Cardinality(Busy(later)) \in Nat /\ Cardinality(Busy(calls)) \in Nat
         /\ Cardinality(Busy(later)) = Cardinality(Busy(calls)) - 1
<1>1. Busy(later) = Busy(calls) \ {c} /\ c \in Busy(calls)
  BY DEF Busy
<1>2. Cardinality(Busy(calls)) \in Nat
  BY FS_CardinalityType
<1>3. IsFiniteSet(Busy(calls) \ {c}) /\ Cardinality(Busy(calls) \ {c}) = Cardinality(Busy(calls)) - 1
  BY <1>1, FS_RemoveElement
<1>4. Cardinality(Busy(calls) \ {c}) \in Nat
  BY <1>3, FS_CardinalityType
<1> QED
  BY <1>1, <1>2, <1>3, <1>4

(***************************************************************************)
(* The invariant holds.                                                    *)
(***************************************************************************)
LEMMA CallsSet ==
  ASSUME NEW calls, NEW rev, NEW proc, NEW held, NEW dm, CallsInv(calls, rev, proc, held, dm),
         NEW c \in Clients, NEW x, CallOK(x, rev, proc, held, dm), NEW later, later = [calls EXCEPT ![c] = x]
  PROVE  CallsInv(later, rev, proc, held, dm)
  BY DEF CallsInv

\* The invariant holds at the start.
LEMMA InvStart == DefinitionsInit => DInv
<1> SUFFICES ASSUME DefinitionsInit PROVE DInv
  OBVIOUS
<1>1. DataInv(db, tx, damage)
  BY DataStart DEF DefinitionsInit
<1>2. CallsInv(call, currentRevision, process, Committed, damage)
  BY DEF DefinitionsInit, CallsInv, CallOK
<1>3. Busy(call) = {}
  BY DEF DefinitionsInit, Busy
<1>4. IsFiniteSet(Busy(call)) /\ Cardinality(Busy(call)) = 0
  BY <1>3, FS_EmptySet
<1>5. CountInv(call, currentRevision, tx, operations)
  BY <1>4, BoundsAssumption DEF DefinitionsInit, CountInv, Running
<1> QED
  BY <1>1, <1>2, <1>5 DEF DInv

\* A preview, or the wait of an agent record for its routes.
LEMMA InvAsk ==
  ASSUME DInv, NEW c \in Clients, NEW op \in Operations, Preview(c, op) \/ Observe(c, op)
  PROVE  DInv'
<1>1. PICK stage \in {"previewed", "validating"} :
        call' = [call EXCEPT ![c] = [stage |-> stage, op |-> op, revision |-> currentRevision,
                                     process |-> process, graph |-> db]]
  BY DEF Preview, PreviewImport, PreviewRecipe, PreviewRestore, Show, Observe
<1>2. /\ MayAsk(c) /\ operations' = operations + 1
      /\ db' = db /\ tx' = tx /\ currentRevision' = currentRevision /\ process' = process /\ damage' = damage
  BY DEF Preview, PreviewImport, PreviewRecipe, PreviewRestore, Show, Observe
<1>3. tx = Free /\ operations < MaxOperations /\ call[c] = Idle /\ Committed = db /\ Committed' = Committed
  BY <1>2 DEF MayAsk, Committed
<1>4. op \in Operation
  BY OperationsAssumption
<1> DEFINE x == [stage |-> stage, op |-> op, revision |-> currentRevision, process |-> process, graph |-> db]
<1>5. currentRevision \in Nat /\ process \in Nat \ {0} /\ DOMAIN call = Clients
  BY DEF DInv, CallsInv
<1>6. CallOK(x, currentRevision, process, Committed, damage)
  BY <1>3, <1>4, <1>5 DEF CallOK, ShownAt, CallFields
<1> HIDE DEF x
<1>7. CallsInv(call', currentRevision, process, Committed, damage)
  BY <1>1, <1>6, CallsSet DEF DInv, x
<1>8. \A b \in Clients : b # c => call'[b] = call[b]
  BY <1>1, <1>5
<1>9. /\ IsFiniteSet(Busy(call')) /\ Cardinality(Busy(call')) \in Nat /\ Cardinality(Busy(call)) \in Nat
      /\ Cardinality(Busy(call')) <= Cardinality(Busy(call)) + 1
  BY <1>8, OneMoreBusy DEF DInv, CountInv
<1>10. CountInv(call', currentRevision, tx, operations + 1)
  BY <1>3, <1>9, BoundsAssumption DEF DInv, CountInv, Running
<1> QED
  BY <1>2, <1>3, <1>7, <1>10 DEF DInv

\* A preview is confirmed, or a validation given up.
LEMMA InvConfirm ==
  ASSUME DInv, NEW c \in Clients, ConfirmPreview(c) \/ GiveUp(c)
  PROVE  DInv'
<1>1. /\ db' = db /\ tx' = tx /\ currentRevision' = currentRevision /\ process' = process /\ damage' = damage
      /\ operations' = operations /\ Committed' = Committed
  BY DEF ConfirmPreview, GiveUp, Committed
<1>2. CallOK(call[c], currentRevision, process, Committed, damage) /\ DOMAIN call = Clients
  BY DEF DInv, CallsInv
<1>3. call[c] # Idle
  BY DEF ConfirmPreview, GiveUp, Idle
<1>4. PICK x : call' = [call EXCEPT ![c] = x] /\ (x = Idle \/ x = [call[c] EXCEPT !.stage = "validating"])
  BY DEF ConfirmPreview, GiveUp
<1>5. CallOK(x, currentRevision, process, Committed, damage)
  BY <1>2, <1>3, <1>4 DEF CallOK, ShownAt, CallFields
<1>6. CallsInv(call', currentRevision, process, Committed, damage)
  BY <1>4, <1>5, CallsSet DEF DInv
<1>7. \A b \in Clients : call'[b] # Idle => call[b] # Idle
  BY <1>2, <1>3, <1>4
<1>8. /\ IsFiniteSet(Busy(call')) /\ Cardinality(Busy(call')) \in Nat /\ Cardinality(Busy(call)) \in Nat
      /\ Cardinality(Busy(call')) <= Cardinality(Busy(call))
  BY <1>7, FewerBusy DEF DInv, CountInv
<1>9. CountInv(call', currentRevision, tx, operations)
  BY <1>8 DEF DInv, CountInv, Running
<1> QED
  BY <1>1, <1>6, <1>9 DEF DInv

\* An operation without a preview begins.
LEMMA InvBegin ==
  ASSUME DInv, NEW c \in Clients, NEW op \in Operations, Begin(c, op)
  PROVE  DInv'
<1>1. /\ MayAsk(c) /\ Run(op) /\ (Vacuous(op) \/ Admitted(op)) /\ operations' = operations + 1
      /\ db' = db /\ call' = call /\ process' = process /\ damage' = damage
  BY DEF Begin
<1>2. tx = Free /\ operations < MaxOperations /\ op \in Operation
  BY <1>1, OperationsAssumption DEF MayAsk
<1>3. DataInv(db', tx', damage')
  BY <1>1, <1>2, DataRun DEF DInv
<1>4. currentRevision \in Nat /\ DOMAIN call = Clients
  BY DEF DInv, CallsInv
<1>5. Advanced /\ currentRevision' \in Nat /\ currentRevision' + Running(tx') <= currentRevision + 1
  BY <1>1, <1>2, <1>4, RunAdvances
<1>6. CallsInv(call', currentRevision', process', Committed', damage')
  BY <1>1, <1>4, <1>5, CallsKept DEF DInv
<1>7. CountInv(call, currentRevision', tx', operations + 1)
  <2>1. Cardinality(Busy(call)) \in Nat
    BY FS_CardinalityType DEF DInv, CountInv
  <2>2. Running(tx') \in Nat /\ Running(tx) = 0
    BY <1>2 DEF Running
  <2> QED
    BY <1>2, <1>5, <2>1, <2>2, BoundsAssumption DEF DInv, CountInv
<1> QED
  BY <1>1, <1>3, <1>6, <1>7 DEF DInv

\* A validated operation enters the section.
LEMMA InvEnter ==
  ASSUME DInv, NEW c \in Clients, EnterSection(c)
  PROVE  DInv'
<1>1. /\ tx = Free /\ call[c].stage = "validating" /\ call' = [call EXCEPT ![c] = Idle]
      /\ (Admitted(call[c].op) /\ Run(call[c].op)) \/ (tx' = tx /\ currentRevision' = currentRevision)
      /\ db' = db /\ operations' = operations /\ process' = process /\ damage' = damage
  BY DEF EnterSection
<1>2. currentRevision \in Nat /\ DOMAIN call = Clients /\ CallOK(call[c], currentRevision, process, Committed, damage)
  BY DEF DInv, CallsInv
<1>3. call[c] # Idle /\ call[c].op \in Operation
  BY <1>1, <1>2 DEF CallOK, Idle
<1>4. /\ DataInv(db', tx', damage')
      /\ Advanced /\ currentRevision' \in Nat /\ currentRevision' + Running(tx') <= currentRevision + 1
  <2>1. CASE Admitted(call[c].op) /\ Run(call[c].op)
    BY <1>1, <1>2, <1>3, <2>1, DataRun, RunAdvances DEF DInv
  <2>2. CASE tx' = tx /\ currentRevision' = currentRevision
    BY <1>1, <1>2, <2>2 DEF DInv, Advanced, Committed, Running
  <2> QED
    BY <1>1, <2>1, <2>2
<1>5. CallsInv(call', currentRevision', process', Committed', damage')
  BY <1>1, <1>2, <1>4, CallsKept DEF DInv
<1>6. /\ IsFiniteSet(Busy(call')) /\ Cardinality(Busy(call')) \in Nat /\ Cardinality(Busy(call)) \in Nat
      /\ Cardinality(Busy(call')) = Cardinality(Busy(call)) - 1
  <2>1. call'[c] = Idle /\ \A b \in Clients : b # c => call'[b] = call[b]
    BY <1>1, <1>2
  <2> QED
    BY <1>3, <2>1, OneLessBusy DEF DInv, CountInv
<1>7. CountInv(call', currentRevision', tx', operations)
  <2>1. Running(tx') \in Nat /\ Running(tx) = 0
    BY <1>1 DEF Running
  <2> QED
    BY <1>4, <1>6, <2>1 DEF DInv, CountInv
<1> QED
  BY <1>1, <1>4, <1>5, <1>7 DEF DInv

\* A step inside the section.
LEMMA InvCalls ==
  ASSUME DInv, Step \/ Refuse \/ StepFails \/ AbortOperation \/ RestoreTable \/ RestoreFails
  PROVE  DInv'
<1>1. call' = call /\ operations' = operations
  BY DEF Step, Refuse, StepFails, AbortOperation, RestoreTable, RestoreFails
<1>2. DataInv(db', tx', damage')
  BY DataStep, DataRefuse, DataStepFails, DataAbort, DataRestoreTable, DataRestoreFails DEF DInv
<1>3. currentRevision \in Nat /\ DOMAIN call = Clients
  BY DEF DInv, CallsInv
<1>4. /\ Advanced /\ currentRevision' \in Nat
      /\ currentRevision' + Running(tx') <= currentRevision + Running(tx)
  BY <1>3, StepAdvances DEF DInv
<1>5. CallsInv(call', currentRevision', process', Committed', damage')
  BY <1>1, <1>3, <1>4, CallsKept DEF DInv
<1>6. CountInv(call, currentRevision', tx', operations)
  <2>1. Cardinality(Busy(call)) \in Nat
    BY FS_CardinalityType DEF DInv, CountInv
  <2>2. Running(tx') \in Nat /\ Running(tx) \in Nat
    BY DEF Running
  <2> QED
    BY <1>4, <2>1, <2>2 DEF DInv, CountInv
<1> QED
  BY <1>1, <1>2, <1>5, <1>6 DEF DInv

\* The host dies, and previews of the page outlive it.
LEMMA InvCrash ==
  ASSUME DInv, Crash
  PROVE  DInv'
<1>1. /\ process' = process + 1 /\ tx' = Free /\ currentRevision' = 0 /\ operations' = operations
      /\ call' = [c \in Clients |-> IF call[c].stage = "previewed" THEN call[c] ELSE Idle]
  BY DEF Crash
<1>2. DataInv(db', tx', damage')
  BY DataCrash DEF DInv
<1>3. process \in Nat \ {0} /\ process' \in Nat \ {0}
  BY <1>1 DEF DInv, CallsInv
<1>4. ASSUME NEW c \in Clients PROVE CallOK(call'[c], 0, process', Committed', damage')
  <2>1. CallOK(call[c], currentRevision, process, Committed, damage)
    BY DEF DInv, CallsInv
  <2>2. call'[c] = call[c] \/ call'[c] = Idle
    BY <1>1
  <2>3. \A p \in 1..process : p \in 1..process' /\ p # process'
    BY <1>1, <1>3
  <2> QED
    BY <2>1, <2>2, <2>3 DEF CallOK, ShownAt
<1>5. CallsInv(call', 0, process', Committed', damage')
  BY <1>1, <1>3, <1>4 DEF CallsInv
<1>6. \A b \in Clients : call'[b] # Idle => call[b] # Idle
  BY <1>1
<1>7. /\ IsFiniteSet(Busy(call')) /\ Cardinality(Busy(call')) \in Nat /\ Cardinality(Busy(call)) \in Nat
      /\ Cardinality(Busy(call')) <= Cardinality(Busy(call))
  BY <1>6, FewerBusy DEF DInv, CountInv
<1>8. CountInv(call', 0, tx', operations)
  BY <1>1, <1>7 DEF DInv, CountInv, Running
<1> QED
  BY <1>1, <1>2, <1>5, <1>8 DEF DInv

\* Every step keeps the invariant.
LEMMA InvKept == DInv /\ [DefinitionsNext]_definitionsVars => DInv'
<1> SUFFICES ASSUME DInv, [DefinitionsNext]_definitionsVars PROVE DInv'
  OBVIOUS
<1>1. CASE UNCHANGED definitionsVars
  BY <1>1 DEF definitionsVars, DInv, Committed
<1>2. CASE \E c \in Clients, op \in Operations : Preview(c, op) \/ Observe(c, op) \/ Begin(c, op)
  BY <1>2, InvAsk, InvBegin
<1>3. CASE \E c \in Clients : ConfirmPreview(c) \/ GiveUp(c) \/ EnterSection(c)
  BY <1>3, InvConfirm, InvEnter
<1>4. CASE Step \/ Refuse \/ StepFails \/ AbortOperation \/ RestoreTable \/ RestoreFails
  BY <1>4, InvCalls
<1>5. CASE Crash
  BY <1>5, InvCrash
<1> QED
  BY <1>1, <1>2, <1>3, <1>4, <1>5 DEF DefinitionsNext

\* The invariant holds throughout.
LEMMA InvHolds == DefinitionsSpec => []DInv
  BY InvStart, InvKept, PTL DEF DefinitionsSpec

\* In every reachable state the definition service keeps its references: while
\* an operation other than a replacing import is under way, after it committed,
\* failed or was aborted and compensated, and after the host died, no squad names
\* an unknown agent and no mode, one-shot, project default or version an unknown
\* squad -- until a replacement or a compensation is cut short, by the death of
\* the host or by a second failure.
THEOREM TablesStayClosed == DefinitionsSpec => []GraphIsClosed
<1>1. DInv => GraphIsClosed
  <2> SUFFICES ASSUME DInv PROVE GraphIsClosed
    OBVIOUS
  <2>1. Typed(db) /\ damage \in {"none", "history", "graph"} /\ (Forward => tx.changes # <<>>)
    BY DEF DInv, DataInv, Good, CallsLeft, Forward
  <2>2. Forward \/ Rollback => tx.captured # <<>>
    BY Phases DEF DInv, DataInv, Forward, Rollback
  <2>3. currentRevision \in 0..MaxOperations
    <3>1. Cardinality(Busy(call)) \in Nat /\ Running(tx) \in Nat
      BY FS_CardinalityType DEF DInv, CountInv, Running
    <3> QED
      BY <3>1, BoundsAssumption DEF DInv, CountInv
  <2>4. damage # "graph" /\ (tx = Free \/ (Forward /\ tx.op.kind # "replace")) => Closed(db)
    BY DEF DInv, DataInv, References, Sound, ReferencesKept, Forward
  <2> QED
    BY <2>1, <2>2, <2>3, <2>4 DEF GraphIsClosed, TablesOK
<1> QED
  BY <1>1, InvHolds, PTL

\* An import or a restore that the caller confirmed runs on the very tables that
\* its preview was computed from, however many operations of other callers came in
\* between: the revision that the write coordinator counts tells.
THEOREM PreviewsOfTablesApplied == DefinitionsSpec => AppliedAsPreviewed
<1> DEFINE Shown ==
      \A c \in Clients :
        EnterSection(c) /\ tx' # Free /\ call[c].op.kind \in Previewed
          /\ call[c].process = process /\ damage # "graph"
          => db = call[c].graph
<1>1. DInv => Shown
  <2> SUFFICES ASSUME DInv, NEW c \in Clients, EnterSection(c), tx' # Free, call[c].op.kind \in Previewed,
                      call[c].process = process, damage # "graph"
               PROVE  db = call[c].graph
    OBVIOUS
  <2>1. tx = Free /\ call[c].stage = "validating" /\ Unchanged(c)
    BY DEF EnterSection
  <2>2. CallOK(call[c], currentRevision, process, Committed, damage)
    BY DEF DInv, CallsInv
  <2>3. call[c] # Idle
    BY <2>1 DEF Idle
  <2>4. call[c].graph = Committed
    BY <2>1, <2>2, <2>3 DEF CallOK, ShownAt, Unchanged
  <2> QED
    BY <2>1, <2>4 DEF Committed
<1>2. [][Shown]_definitionsVars <=> AppliedAsPreviewed
  BY DEF AppliedAsPreviewed
<1> QED
  BY <1>1, <1>2, InvHolds, PTL

(***************************************************************************)
(* The history of squads.  What one call of the list cs does to the        *)
(* versions: those that it does not drop stay, a squad is recorded or left *)
(* to be recorded, and what a recording pushes out is not the newest.      *)
(***************************************************************************)
Records(c, s) == c.do = "record" /\ s \in c.squads

HistoryMoves(g, h, cs, ds, m) ==
  /\ \A v \in DOMAIN g["squadVersions"] : v \in DOMAIN h["squadVersions"] \/ Drops(cs[1], "squadVersions", v)
  /\ \A s : Records(cs[1], s) => \/ \E i \in 1..m : Records(ds[i], s)
                                 \/ <<s, Latest(g, s) + 1>> \in DOMAIN h["squadVersions"]
  /\ \A i \in 1..m : \A s, n : cs[1].do = "record" /\ Drops(ds[i], "squadVersions", <<s, n>>) =>
       \E x : x > n /\ <<s, x>> \in DOMAIN h["squadVersions"]

\* A version that is pushed out has a newer one after it.
LEMMA ExcessIsOld ==
  ASSUME NEW versions, NEW q, NEW s, NEW n, <<s, n>> \in Excess(versions, q)
  PROVE  s = q /\ <<s, n>> \in DOMAIN versions /\ \E x : x > n /\ <<s, x>> \in DOMAIN versions
<1> DEFINE newer == {x \in {j[2] : j \in DOMAIN versions} : <<q, x>> \in DOMAIN versions /\ x > n}
<1>1. KeepVersions # 0 /\ s = q /\ <<s, n>> \in DOMAIN versions /\ Cardinality(newer) >= KeepVersions
  BY DEF Excess
<1>2. newer # {}
  <2>1. CASE newer = {}
    <3>1. Cardinality(newer) = 0
      BY <2>1, FS_EmptySet
    <3> HIDE DEF newer
    <3> QED
      BY <1>1, <3>1, KeepAssumption
  <2> QED
    BY <2>1
<1> QED
  BY <1>1, <1>2

\* The elements of two short lists, one after the other.
LEMMA TwoLists ==
  ASSUME NEW x, NEW y, NEW p, p = <<>> \/ p = <<x>>, NEW r, r = <<>> \/ r = <<y>>, NEW l, l = p \o r
  PROVE  /\ \A i \in 1..Len(l) : l[i] = x \/ l[i] = y
         /\ r = <<y>> => \E i \in 1..Len(l) : l[i] = y
<1>1. p \in Seq({x, y}) /\ r \in Seq({x, y})
  <2>1. <<>> \in Seq({x, y}) /\ <<x>> \in Seq({x, y}) /\ <<y>> \in Seq({x, y})
    OBVIOUS
  <2> QED
    BY <2>1
<1>2. /\ Len(p) \in Nat /\ Len(r) \in Nat /\ Len(l) = Len(p) + Len(r) /\ l \in Seq({x, y})
      /\ \A i \in 1..Len(r) : l[Len(p) + i] = r[i]
  BY <1>1, Appended
<1>3. \A i \in 1..Len(l) : l[i] \in {x, y}
  BY <1>2
<1>4. ASSUME r = <<y>> PROVE \E i \in 1..Len(l) : l[i] = y
  <2>1. Len(r) = 1 /\ r[1] = y
    BY <1>4
  <2>2. Len(p) + 1 \in 1..Len(l) /\ l[Len(p) + 1] = y
    BY <1>2, <2>1
  <2> QED
    BY <2>2
<1> QED
  BY <1>3, <1>4

\* What the recording of a version does to the history.
LEMMA RecordHistory ==
  ASSUME Good(db), NEW cs \in Seq(Change), cs # <<>>, cs[1].do = "record", NEW o \in RecordOne(cs[1]),
         NEW ds, \A i \in 1..Len(o.rest) : ds[i] = o.rest[i]
  PROVE  HistoryMoves(db, o.db, cs, ds, Len(o.rest))
<1> DEFINE c == cs[1]
           t == "squadVersions"
<1>1. PICK q \in c.squads :
        o = LET versions == Laid(Row(<<q, NextVersion(q)>>, Snapshot(db, q)), db.squadVersions)
            IN [db |-> [db EXCEPT !.squadVersions = versions],
                rest |-> Delete("squadVersions", Excess(versions, q)) \o Record(c.squads \ {q})]
  BY DEF RecordOne
<1> DEFINE key == <<q, Latest(db, q) + 1>>
           new == Laid(Row(key, Snapshot(db, q)), db[t])
           gone == Excess(new, q)
           others == c.squads \ {q}
           drop == Delete(t, gone)
           more == Record(others)
           cut == [do |-> "delete", table |-> t, keys |-> gone]
           go == [do |-> "record", squads |-> others]
<1>2. o.db = [db EXCEPT ![t] = new] /\ o.rest = drop \o more
  BY <1>1 DEF NextVersion
<1>3. t \in Tables /\ IsGraph(db)
  BY DEF Good, Tables
<1>4. DOMAIN new = DOMAIN db[t] \union {key}
  BY LaidDomain
<1>5. drop = IF gone = {} THEN <<>> ELSE <<cut>>
  BY DEF Delete
<1>6. more = IF others = {} THEN <<>> ELSE <<go>>
  BY DEF Record
<1>7. cut.do = "delete" /\ cut.table = t /\ cut.keys = gone /\ go.do = "record" /\ go.squads = others
  OBVIOUS
<1>8. \A s, n : <<s, n>> \in gone => \E x : x > n /\ <<s, x>> \in DOMAIN new
  BY ExcessIsOld
<1>b. o.db = [db EXCEPT ![t] = new]
  BY <1>2
<1> HIDE DEF new, gone, drop, more, cut, go, t, c
<1>9. o.db[t] = new /\ Written(db, o.db, t)
  BY <1>b, <1>3, WrittenGraph
<1>10. \A v \in DOMAIN db[t] : v \in DOMAIN o.db[t]
  BY <1>4, <1>9
<1> HIDE DEF others
<1>a. o.rest = drop \o more
  BY <1>2
<1>11. /\ \A i \in 1..Len(o.rest) : o.rest[i] = cut \/ o.rest[i] = go
       /\ more = <<go>> => \E i \in 1..Len(o.rest) : o.rest[i] = go
  <2>1. (drop = <<>> \/ drop = <<cut>>) /\ (more = <<>> \/ more = <<go>>)
    BY <1>5, <1>6
  <2> QED
    BY <1>a, <2>1, TwoLists
<1>12. others # {} => \E i \in 1..Len(o.rest) : o.rest[i] = go
  BY <1>6, <1>11
<1>13. ASSUME NEW s, Records(c, s)
       PROVE  (\E i \in 1..Len(o.rest) : Records(ds[i], s)) \/ <<s, Latest(db, s) + 1>> \in DOMAIN o.db[t]
  <2>1. CASE s = q
    BY <1>4, <1>9, <2>1
  <2>2. CASE s # q
    <3>1. s \in others
      BY <1>13, <2>2 DEF Records, others
    <3> QED
      BY <1>7, <1>12, <3>1 DEF Records
  <2> QED
    BY <2>1, <2>2
<1>14. ASSUME NEW i \in 1..Len(o.rest), NEW s, NEW n, Drops(ds[i], t, <<s, n>>)
       PROVE  \E x : x > n /\ <<s, x>> \in DOMAIN o.db[t]
  <2>1. ds[i] = cut
    BY <1>7, <1>11, <1>14 DEF Drops
  <2>2. <<s, n>> \in gone
    BY <1>7, <1>14, <2>1 DEF Drops
  <2> QED
    BY <1>8, <1>9, <2>2
<1> QED
  BY <1>10, <1>13, <1>14 DEF HistoryMoves, t, c

\* What any call does to it.
LEMMA CallHistory ==
  ASSUME Good(db), NEW cs \in Seq(Change), cs # <<>>, RecordsHeld(db, cs), ~Blocked(cs[1]), NEW o \in Outcomes(cs[1]),
         NEW ds, NEW m, ds = o.rest \o Tail(cs), Moved(db, cs, o.db, ds, m)
  PROVE  HistoryMoves(db, o.db, cs, ds, m)
<1> DEFINE c == cs[1]
           t == "squadVersions"
<1>1. c \in Change /\ t \in Tables /\ IsGraph(db)
  BY DEF Good, Tables
<1>2. ~Touches(c, t) => o.db[t] = db[t]
  BY <1>1 DEF Moved, Advances
<1>3. CASE c.do = "put"
  <2>1. ~Touches(c, t)
    BY <1>1, <1>3, ChangeKinds DEF Touches
  <2> QED
    BY <1>2, <1>3, <2>1 DEF HistoryMoves, Records
<1>4. CASE c.do = "delete"
  <2>1. PICK k \in c.keys :
          o = [db |-> [db EXCEPT ![c.table] = Without(@, {k})], rest |-> Delete(c.table, c.keys \ {k})]
    BY <1>4 DEF Outcomes, DeleteOne
  <2>2. \A v \in DOMAIN db[t] : v \in DOMAIN o.db[t] \/ Drops(c, t, v)
    <3>1. CASE c.table # t
      BY <1>2, <1>4, <3>1 DEF Touches
    <3>2. CASE c.table = t
      <4> DEFINE new == Without(db[t], {k})
      <4>1. o.db = [db EXCEPT ![t] = new]
        BY <2>1, <3>2
      <4>2. DOMAIN new = DOMAIN db[t] \ {k}
        BY WithoutDomain
      <4>a. t \in Tables /\ IsGraph(db)
        BY <1>1
      <4> HIDE DEF new, t, c
      <4>3. o.db[t] = new /\ Written(db, o.db, t)
        BY <4>a, <4>1, WrittenGraph
      <4> QED
        BY <1>4, <3>2, <4>2, <4>3 DEF Drops
    <3> QED
      BY <3>1, <3>2
  <2> QED
    BY <1>4, <2>2 DEF HistoryMoves, Records
<1>5. CASE c.do = "record"
  <2>1. o \in RecordOne(c)
    BY <1>5 DEF Outcomes
  <2>2. c.squads \subseteq DOMAIN db.squads
    <3>1. \A q \in c.squads : Holds(db, cs, "squads", q, 1)
      BY <1>5 DEF RecordsHeld
    <3> QED
      BY <3>1 DEF Holds
  <2>3. Advances(db, cs, o.db, ds, Len(o.rest)) /\ Continued(cs, ds, o.rest)
    BY <1>5, <2>1, <2>2, RecordCall
  <2>4. m = Len(o.rest)
    BY <2>3 DEF Moved, Advances, Shifted
  <2>5. \A i \in 1..Len(o.rest) : ds[i] = o.rest[i]
    BY <2>3 DEF Continued
  <2> QED
    BY <1>5, <2>1, <2>4, <2>5, RecordHistory
<1>6. CASE c.do = "throw"
  BY <1>6 DEF Blocked
<1> QED
  BY <1>1, <1>3, <1>4, <1>5, <1>6, ChangeKinds
(***************************************************************************)
(* What the calls left owe to the history: a squad that differs from its   *)
(* newest version is still to be recorded, or to be deleted.               *)
(***************************************************************************)
RecordedIn(cs, s) == \E j \in DOMAIN cs : Records(cs[j], s)
RecordedAfter(cs, s, i) == \E j \in DOMAIN cs : j > i /\ Records(cs[j], s)

Current(g, s) == Latest(g, s) # 0 => g.squadVersions[<<s, Latest(g, s)>>] = Snapshot(g, s)
Settled(g, cs) == \A s \in DOMAIN g.squads : Current(g, s) \/ RecordedIn(cs, s) \/ Outgoing(cs, "squads", s)

\* A squad that is put is recorded later.
SquadPutsRecorded(cs) == \A i \in DOMAIN cs : \A s \in Squads : Puts(cs[i], "squads", s) => RecordedAfter(cs, s, i)

\* Agents are put before squads and recordings, each with one content,
PutsAgents(c) == c.do = "put" /\ c.table = "agents"
AgentsFirst(cs) ==
  \A i, j \in DOMAIN cs : PutsAgents(cs[i]) =>
    /\ j < i => cs[j].do = "delete" \/ PutsAgents(cs[j])
    /\ \A a : Puts(cs[i], "agents", a) /\ Puts(cs[j], "agents", a) => cs[i].rows[a] = cs[j].rows[a]

\* and the squads of a changed agent are recorded, or go.
AgentPutsRecorded(g, cs) ==
  \A i \in DOMAIN cs : \A a, s : Puts(cs[i], "agents", a) /\ s \in DOMAIN g.squads /\ a \in g.squads[s].members =>
    \/ a \in DOMAIN g.agents /\ g.agents[a] = cs[i].rows[a]
    \/ RecordedIn(cs, s) \/ Outgoing(cs, "squads", s)

\* No squad sees an agent go: it is unused, or all the squads that were go too.
AgentsCleared(g, cs) ==
  \A i \in DOMAIN cs : \A a : Drops(cs[i], "agents", a) =>
    /\ \A s \in DOMAIN g.squads : Outgoing(cs, "squads", s)
    /\ \A j \in 1..(i - 1) : cs[j].do # "put"
AgentsUnseen(g, cs) == AgentsUnused(g, cs) \/ AgentsCleared(g, cs)

\* A version that is deleted is an old one, or one of a squad that goes.
Leaves(g, cs, s) ==
  /\ s \notin DOMAIN g.squads \/ Outgoing(cs, "squads", s)
  /\ \A j \in DOMAIN cs : ~Puts(cs[j], "squads", s)
OldVersionsDropped(g, cs) ==
  \A i \in DOMAIN cs : \A s : \A n \in Nat : Drops(cs[i], "squadVersions", <<s, n>>) => n < Latest(g, s) \/ Leaves(g, cs, s)

HistoryKept(g, cs) ==
  /\ Settled(g, cs)
  /\ SquadPutsRecorded(cs) /\ AgentsFirst(cs) /\ AgentPutsRecorded(g, cs)
  /\ AgentsUnseen(g, cs) /\ OldVersionsDropped(g, cs)

\* A recording still to come, one call later.
LEMMA RecordedAfterKept ==
  ASSUME NEW g, NEW h, NEW cs, NEW ds, NEW m, Moved(g, cs, h, ds, m),
         NEW i, NEW j \in DOMAIN cs, Was(cs, ds, m, i, j), NEW s, RecordedAfter(cs, s, j)
  PROVE  RecordedAfter(ds, s, i)
<1>1. /\ m \in Nat /\ DOMAIN cs = 1..Len(cs) /\ Len(cs) \in Nat
      /\ \A y \in DOMAIN cs : y > 1 => y + m - 1 \in DOMAIN ds /\ ds[y + m - 1] = cs[y]
  BY Parts
<1>2. PICK x \in DOMAIN cs : x > j /\ Records(cs[x], s)
  BY DEF RecordedAfter
<1>3. x > 1
  BY <1>1, <1>2
<1>4. x + m - 1 \in DOMAIN ds /\ ds[x + m - 1] = cs[x]
  BY <1>1, <1>3
<1>5. x + m - 1 > i
  BY <1>1, <1>2, <1>3 DEF Was
<1> QED
  BY <1>2, <1>4, <1>5 DEF RecordedAfter

\* A squad that is to be recorded still is, unless the call was to record it.
LEMMA RecordedKept ==
  ASSUME NEW g, NEW h, NEW cs, NEW ds, NEW m, Moved(g, cs, h, ds, m), NEW s, RecordedIn(cs, s)
  PROVE  RecordedIn(ds, s) \/ Records(cs[1], s)
<1>1. /\ DOMAIN cs = 1..Len(cs) /\ Len(cs) \in Nat
      /\ \A y \in DOMAIN cs : y > 1 => y + m - 1 \in DOMAIN ds /\ ds[y + m - 1] = cs[y]
  BY Parts
<1>2. PICK x \in DOMAIN cs : Records(cs[x], s)
  BY DEF RecordedIn
<1>3. CASE x > 1
  BY <1>1, <1>2, <1>3 DEF RecordedIn
<1>4. CASE x = 1
  BY <1>2, <1>4
<1> QED
  BY <1>1, <1>3, <1>4

\* Each part of the condition is kept by a call.
LEMMA SquadPutsRecordedKept ==
  ASSUME NEW g, NEW h, NEW cs, NEW ds, NEW m, Moved(g, cs, h, ds, m), SquadPutsRecorded(cs)
  PROVE  SquadPutsRecorded(ds)
<1> SUFFICES ASSUME NEW i \in DOMAIN ds, NEW s \in Squads, Puts(ds[i], "squads", s) PROVE RecordedAfter(ds, s, i)
  BY DEF SquadPutsRecorded
<1>1. PICK j \in DOMAIN cs : Was(cs, ds, m, i, j)
  BY EveryWas
<1>2. Puts(cs[j], "squads", s)
  BY <1>1, WasPuts
<1>3. RecordedAfter(cs, s, j)
  BY <1>2 DEF SquadPutsRecorded
<1> QED
  BY <1>1, <1>3, RecordedAfterKept

\* What is left comes in the order in which it was.
LEMMA WasOrder ==
  ASSUME NEW cs, NEW ds, NEW m, NEW i, NEW j, Was(cs, ds, m, i, j), NEW x, NEW y, Was(cs, ds, m, x, y), x < i
  PROVE  y <= j
  BY DEF Was

\* Agents still come first.
LEMMA AgentsFirstKept ==
  ASSUME NEW g, NEW h, NEW cs, NEW ds, NEW m, Moved(g, cs, h, ds, m), AgentsFirst(cs)
  PROVE  AgentsFirst(ds)
<1> SUFFICES ASSUME NEW i \in DOMAIN ds, NEW x \in DOMAIN ds, PutsAgents(ds[i])
             PROVE  /\ x < i => ds[x].do = "delete" \/ PutsAgents(ds[x])
                    /\ \A a : Puts(ds[i], "agents", a) /\ Puts(ds[x], "agents", a) => ds[i].rows[a] = ds[x].rows[a]
  BY DEF AgentsFirst
<1>1. PICK j \in DOMAIN cs : Was(cs, ds, m, i, j)
  BY EveryWas
<1>2. PICK y \in DOMAIN cs : Was(cs, ds, m, x, y)
  BY EveryWas
<1>3. PutsAgents(cs[j])
  BY <1>1 DEF Was, PartOf, PutsAgents
<1>4. /\ y < j => cs[y].do = "delete" \/ PutsAgents(cs[y])
      /\ \A a : Puts(cs[j], "agents", a) /\ Puts(cs[y], "agents", a) => cs[j].rows[a] = cs[y].rows[a]
  BY <1>3 DEF AgentsFirst
<1>5. DOMAIN cs = 1..Len(cs) /\ Len(cs) \in Nat
  BY Parts
<1>6. ASSUME x < i PROVE ds[x].do = "delete" \/ PutsAgents(ds[x])
  <2>1. y <= j
    BY <1>1, <1>2, <1>6, WasOrder
  <2>2. cs[y].do = "delete" \/ PutsAgents(cs[y])
    BY <1>3, <1>4, <1>5, <2>1
  <2> QED
    BY <1>2, <2>2 DEF Was, PartOf, PutsAgents
<1>7. ASSUME NEW a, Puts(ds[i], "agents", a), Puts(ds[x], "agents", a) PROVE ds[i].rows[a] = ds[x].rows[a]
  BY <1>1, <1>2, <1>4, <1>7, WasPuts
<1> QED
  BY <1>6, <1>7

\* What is to be deleted and recorded does not come back.
LEMMA LeavesKept ==
  ASSUME NEW g, NEW h, NEW cs, NEW ds, NEW m, Moved(g, cs, h, ds, m), NEW s, Leaves(g, cs, s)
  PROVE  Leaves(h, ds, s)
<1>1. "squads" \in Tables \ {"squadVersions"} /\ "squads" \in Tables /\ 1 \in DOMAIN cs
  BY Parts DEF Tables
<1>2. ASSUME NEW x \in DOMAIN ds, Puts(ds[x], "squads", s) PROVE FALSE
  <2>1. PICK j \in DOMAIN cs : Was(cs, ds, m, x, j)
    BY EveryWas
  <2>2. Puts(cs[j], "squads", s)
    BY <1>2, <2>1, WasPuts
  <2> QED
    BY <2>2 DEF Leaves
<1>3. CASE Outgoing(cs, "squads", s)
  <2>1. Outgoing(ds, "squads", s) \/ s \notin DOMAIN h["squads"]
    BY <1>1, <1>3, OutgoingAfter
  <2> QED
    BY <1>2, <2>1 DEF Leaves
<1>4. CASE s \notin DOMAIN g.squads
  <2>1. s \in DOMAIN h["squads"] => s \in DOMAIN g["squads"] \/ Puts(cs[1], "squads", s)
    BY <1>1, FirstMoves
  <2>2. ~Puts(cs[1], "squads", s)
    BY <1>1 DEF Leaves
  <2> QED
    BY <1>2, <1>4, <2>1, <2>2 DEF Leaves
<1> QED
  BY <1>3, <1>4 DEF Leaves

\* Still no squad sees an agent go.
LEMMA AgentsUnseenKept ==
  ASSUME NEW g, NEW h, NEW cs, NEW ds, NEW m, Moved(g, cs, h, ds, m), Orderly(cs), AgentsUnseen(g, cs),
         DOMAIN h.squads \subseteq Squads
  PROVE  AgentsUnseen(h, ds)
<1>1. CASE AgentsUnused(g, cs)
  BY <1>1, AgentsUnusedKept DEF AgentsUnseen
<1>2. CASE AgentsCleared(g, cs)
  <2>1. "squads" \in Tables \ {"squadVersions"} /\ "squads" \in Tables /\ DOMAIN cs = 1..Len(cs) /\ Len(cs) \in Nat
        /\ 1 \in DOMAIN cs
    BY Parts DEF Tables
  <2>2. ASSUME NEW i \in DOMAIN ds, NEW a, Drops(ds[i], "agents", a)
        PROVE  /\ \A s \in DOMAIN h.squads : Outgoing(ds, "squads", s)
               /\ \A y \in 1..(i - 1) : ds[y].do # "put"
    <3>1. PICK j \in DOMAIN cs : Was(cs, ds, m, i, j)
      BY EveryWas
    <3>2. Drops(cs[j], "agents", a)
      BY <2>2, <3>1, WasDrops
    <3>3. /\ \A s \in DOMAIN g.squads : Outgoing(cs, "squads", s)
          /\ \A y \in 1..(j - 1) : cs[y].do # "put"
      BY <1>2, <3>2 DEF AgentsCleared
    <3>4. ASSUME NEW s \in DOMAIN h.squads PROVE Outgoing(ds, "squads", s)
      <4>1. ~Puts(cs[1], "squads", s)
        <5>1. j = 1 \/ 1 \in 1..(j - 1)
          BY <2>1
        <5> QED
          BY <3>2, <3>3, <5>1 DEF Drops, Puts
      <4>2. s \in DOMAIN g["squads"]
        BY <2>1, <3>4, <4>1, FirstMoves
      <4>3. Outgoing(cs, "squads", s)
        BY <3>3, <4>2
      <4>4. Outgoing(ds, "squads", s) \/ s \notin DOMAIN h["squads"]
        BY <2>1, <4>3, OutgoingAfter
      <4> QED
        BY <3>4, <4>4
    <3>5. ASSUME NEW y \in 1..(i - 1), ds[y].do = "put" PROVE FALSE
      <4>1. cs[j].do = "delete"
        BY <3>2 DEF Drops
      <4>2. PICK x \in 1..(j - 1) : x \in DOMAIN cs /\ Was(cs, ds, m, y, x)
        BY <3>1, <3>5, <4>1, BeforeDeletion
      <4>3. cs[x].do = "put"
        BY <3>5, <4>2 DEF Was, PartOf
      <4> QED
        BY <3>3, <4>2, <4>3
    <3> QED
      BY <3>4, <3>5
  <2> QED
    BY <2>2 DEF AgentsUnseen, AgentsCleared
<1> QED
  BY <1>1, <1>2 DEF AgentsUnseen

\* A squad that sees one of its agents go is to go itself.
LEMMA SeenGoing ==
  ASSUME NEW g, NEW cs, 1 \in DOMAIN cs, AgentsUnseen(g, cs), NEW a \in Agents, Drops(cs[1], "agents", a),
         NEW s \in DOMAIN g.squads, a \in g.squads[s].members
  PROVE  Outgoing(cs, "squads", s)
  BY DEF AgentsUnseen, AgentsUnused, AgentsCleared

\* A squad that is to be recorded or to go still is, or is recorded or gone.
LEMMA AgentPutsRecordedKept ==
  ASSUME NEW g, NEW h, NEW cs, NEW ds, NEW m, Moved(g, cs, h, ds, m), AgentsFirst(cs), AgentsUnseen(g, cs),
         AgentPutsRecorded(g, cs), \A s \in DOMAIN g.squads : g.squads[s].members \subseteq Agents
  PROVE  AgentPutsRecorded(h, ds)
<1> SUFFICES ASSUME NEW i \in DOMAIN ds, NEW a, NEW s \in DOMAIN h.squads,
                    Puts(ds[i], "agents", a), a \in h.squads[s].members
             PROVE  \/ a \in DOMAIN h.agents /\ h.agents[a] = ds[i].rows[a]
                    \/ RecordedIn(ds, s) \/ Outgoing(ds, "squads", s)
  BY DEF AgentPutsRecorded
<1>1. /\ {"agents", "squads"} \subseteq Tables \ {"squadVersions"} /\ "squads" \in Tables
      /\ DOMAIN cs = 1..Len(cs) /\ Len(cs) \in Nat /\ 1 \in DOMAIN cs
  BY Parts DEF Tables
<1>2. PICK j \in DOMAIN cs : Was(cs, ds, m, i, j)
  BY EveryWas
<1>3. Puts(cs[j], "agents", a) /\ ds[i].rows[a] = cs[j].rows[a] /\ PutsAgents(cs[j])
  BY <1>2, WasPuts DEF Puts, PutsAgents
<1>4. j # 1 => cs[1].do = "delete" \/ PutsAgents(cs[1])
  BY <1>1, <1>3 DEF AgentsFirst
<1>5. ~Puts(cs[1], "squads", s) /\ ~Records(cs[1], s)
  BY <1>3, <1>4 DEF PutsAgents, Puts, Records
<1>6. s \in DOMAIN g["squads"] /\ h["squads"][s] = g["squads"][s]
  BY <1>1, <1>5, FirstMoves
<1>7. Outgoing(cs, "squads", s) => Outgoing(ds, "squads", s)
  <2>1. Outgoing(cs, "squads", s) => Outgoing(ds, "squads", s) \/ s \notin DOMAIN h["squads"]
    BY <1>1, OutgoingAfter
  <2> QED
    BY <2>1
<1>8. RecordedIn(cs, s) => RecordedIn(ds, s)
  BY <1>5, RecordedKept
<1>9. CASE a \in DOMAIN g.agents /\ g.agents[a] = cs[j].rows[a]
  <2>1. CASE Drops(cs[1], "agents", a)
    <3>1. a \in Agents
      BY <1>6
    <3>2. Outgoing(cs, "squads", s)
      BY <1>1, <1>6, <2>1, <3>1, SeenGoing
    <3> QED
      BY <1>7, <3>2
  <2>2. CASE ~Drops(cs[1], "agents", a)
    <3>1. a \in DOMAIN h["agents"]
      BY <1>1, <1>9, <2>2, FirstMoves
    <3>2. h["agents"][a] = g["agents"][a] \/ (Puts(cs[1], "agents", a) /\ h["agents"][a] = cs[1].rows[a])
      BY <1>1, <3>1, FirstMoves
    <3>3. Puts(cs[1], "agents", a) => cs[1].rows[a] = cs[j].rows[a]
      BY <1>1, <1>3 DEF AgentsFirst
    <3> QED
      BY <1>3, <1>9, <3>1, <3>2, <3>3
  <2> QED
    BY <2>1, <2>2
<1> QED
  BY <1>3, <1>6, <1>7, <1>8, <1>9 DEF AgentPutsRecorded

\* The newest version after a call, seen from the versions that are there.
LEMMA NewestVersion ==
  ASSUME NEW h, IsTable(h["squadVersions"], Schema.squadVersions), NEW s, NEW n \in Nat,
         <<s, n>> \in DOMAIN h["squadVersions"]
  PROVE  n <= Latest(h, s)
<1>1. n \in VersionNumbers(h, s)
  BY DEF VersionNumbers
<1> QED
  BY <1>1, LatestIsNewest

\* The newest version of a squad that has one.
LEMMA LatestThere ==
  ASSUME NEW g, IsTable(g["squadVersions"], Schema.squadVersions), NEW s
  PROVE  Latest(g, s) \in Nat /\ (Latest(g, s) # 0 => <<s, Latest(g, s)>> \in DOMAIN g["squadVersions"])
<1>1. Latest(g, s) \in Nat /\ (VersionNumbers(g, s) # {} => Latest(g, s) \in VersionNumbers(g, s))
  BY LatestIsNewest
<1>2. VersionNumbers(g, s) = {} => Latest(g, s) = 0
  BY DEF Latest
<1> QED
  BY <1>1, <1>2 DEF VersionNumbers

\* Still only old versions go, and those of squads that go.
LEMMA OldVersionsKept ==
  ASSUME NEW g, NEW h, NEW cs, NEW ds, NEW m, Moved(g, cs, h, ds, m), HistoryMoves(g, h, cs, ds, m),
         OldVersionsDropped(g, cs),
         IsTable(g["squadVersions"], Schema.squadVersions), IsTable(h["squadVersions"], Schema.squadVersions)
  PROVE  OldVersionsDropped(h, ds)
<1> SUFFICES ASSUME NEW i \in DOMAIN ds, NEW s, NEW n \in Nat, Drops(ds[i], "squadVersions", <<s, n>>)
             PROVE  n < Latest(h, s) \/ Leaves(h, ds, s)
  BY DEF OldVersionsDropped
<1>1. PICK j \in DOMAIN cs : Was(cs, ds, m, i, j)
  BY EveryWas
<1>2. Latest(g, s) \in Nat /\ Latest(h, s) \in Nat /\ 1 \in DOMAIN cs
  BY LatestThere, Parts
<1>3. Drops(cs[j], "squadVersions", <<s, n>>) \/ (i \in 1..m /\ cs[1].do = "record")
  BY <1>1, PartDrops DEF Was
<1>4. CASE i \in 1..m /\ cs[1].do = "record"
  <2>1. PICK x : x > n /\ <<s, x>> \in DOMAIN h["squadVersions"]
    BY <1>4 DEF HistoryMoves
  <2>2. x \in Nat
    BY <2>1 DEF IsTable, Schema
  <2>3. x <= Latest(h, s)
    BY <2>1, <2>2, NewestVersion
  <2> QED
    BY <1>2, <2>1, <2>2, <2>3
<1>5. CASE Drops(cs[j], "squadVersions", <<s, n>>)
  <2>1. n < Latest(g, s) \/ Leaves(g, cs, s)
    BY <1>5 DEF OldVersionsDropped
  <2>2. CASE Leaves(g, cs, s)
    BY <2>2, LeavesKept
  <2>3. CASE n < Latest(g, s)
    <3>1. <<s, Latest(g, s)>> \in DOMAIN g["squadVersions"]
      BY <1>2, <2>3, LatestThere
    <3>2. CASE <<s, Latest(g, s)>> \in DOMAIN h["squadVersions"]
      BY <1>2, <2>3, <3>2, NewestVersion
    <3>3. CASE Drops(cs[1], "squadVersions", <<s, Latest(g, s)>>)
      <4>1. Leaves(g, cs, s)
        BY <1>2, <3>3 DEF OldVersionsDropped
      <4> QED
        BY <4>1, LeavesKept
    <3> QED
      BY <3>1, <3>2, <3>3 DEF HistoryMoves
  <2> QED
    BY <2>1, <2>2, <2>3
<1> QED
  BY <1>3, <1>4, <1>5

\* Snapshots are the same while the squad and its members are.
LEMMA SameSnapshot ==
  ASSUME NEW g, NEW h, NEW s, h["squads"][s] = g["squads"][s],
         \A a \in g["squads"][s].members : a \in DOMAIN h["agents"] <=> a \in DOMAIN g["agents"],
         \A a \in g["squads"][s].members : a \in DOMAIN g["agents"] => h["agents"][a] = g["agents"][a]
  PROVE  Snapshot(h, s) = Snapshot(g, s)
<1>1. h.squads[s].members \intersect DOMAIN h.agents = g.squads[s].members \intersect DOMAIN g.agents
  OBVIOUS
<1>2. [a \in h.squads[s].members \intersect DOMAIN h.agents |-> h.agents[a]]
        = [a \in g.squads[s].members \intersect DOMAIN g.agents |-> g.agents[a]]
  BY <1>1
<1> QED
  BY <1>2 DEF Snapshot

\* A squad is recorded: its newest version is its snapshot.
LEMMA JustRecorded ==
  ASSUME NEW g, NEW h, NEW cs, NEW ds, NEW m, Moved(g, cs, h, ds, m), cs[1].do = "record",
         IsTable(g["squadVersions"], Schema.squadVersions), IsTable(h["squadVersions"], Schema.squadVersions),
         NEW s, <<s, Latest(g, s) + 1>> \in DOMAIN h["squadVersions"]
  PROVE  Current(h, s)
<1> DEFINE n == Latest(g, s) + 1
<1>a. Latest(g, s) \in Nat
  BY LatestThere
<1>1. Latest(g, s) \in Nat /\ n \in Nat
  BY <1>a
<1>2. VersionsMove(g, h, cs[1])
  BY DEF Moved, Advances
<1>3. <<s, n>> \notin DOMAIN g["squadVersions"]
  BY <1>1, NewestVersion
<1>4. h["squadVersions"][<<s, n>>] = Snapshot(g, s)
  BY <1>2, <1>3 DEF VersionsMove
<1>5. Latest(h, s) = n
  <2>1. n <= Latest(h, s) /\ Latest(h, s) \in Nat
    BY <1>1, NewestVersion, LatestThere
  <2>2. <<s, Latest(h, s)>> \in DOMAIN h["squadVersions"]
    BY <1>1, <2>1, LatestThere
  <2>3. CASE <<s, Latest(h, s)>> \in DOMAIN g["squadVersions"]
    BY <1>1, <2>1, <2>3, NewestVersion
  <2>4. CASE <<s, Latest(h, s)>> \notin DOMAIN g["squadVersions"]
    BY <1>2, <2>2, <2>4 DEF VersionsMove
  <2> QED
    BY <2>3, <2>4
<1>6. "agents" \in Tables \ {"squadVersions"} /\ "squads" \in Tables \ {"squadVersions"}
  BY DEF Tables
<1>7. h["agents"] = g["agents"] /\ h["squads"] = g["squads"]
  BY <1>6, RecordTouches
<1>8. Snapshot(h, s) = Snapshot(g, s)
  BY <1>7, SameSnapshot
<1> QED
  BY <1>4, <1>5, <1>8 DEF Current

\* The newest version stays that of a squad which is not recorded.
LEMMA StillNewest ==
  ASSUME NEW g, NEW h, NEW cs, NEW ds, NEW m, Moved(g, cs, h, ds, m), HistoryMoves(g, h, cs, ds, m),
         IsTable(g["squadVersions"], Schema.squadVersions), IsTable(h["squadVersions"], Schema.squadVersions),
         NEW s, ~Records(cs[1], s), ~Drops(cs[1], "squadVersions", <<s, Latest(g, s)>>),
         Current(g, s), Snapshot(h, s) = Snapshot(g, s)
  PROVE  Current(h, s)
<1>1. Latest(g, s) \in Nat /\ Latest(h, s) \in Nat
  BY LatestThere
<1>2. \A n : <<s, n>> \in DOMAIN h["squadVersions"] =>
        <<s, n>> \in DOMAIN g["squadVersions"] /\ h["squadVersions"][<<s, n>>] = g["squadVersions"][<<s, n>>]
  <2>1. VersionsMove(g, h, cs[1])
    BY DEF Moved, Advances
  <2> QED
    BY <2>1 DEF VersionsMove, Records
<1>3. ASSUME Latest(h, s) # 0 PROVE h.squadVersions[<<s, Latest(h, s)>>] = Snapshot(h, s)
  <2>1. <<s, Latest(h, s)>> \in DOMAIN h["squadVersions"]
    BY <1>3, LatestThere
  <2>2. Latest(h, s) <= Latest(g, s)
    BY <1>1, <1>2, <2>1, NewestVersion
  <2>3. <<s, Latest(g, s)>> \in DOMAIN g["squadVersions"]
    BY <1>1, <1>3, <2>2, LatestThere
  <2>4. <<s, Latest(g, s)>> \in DOMAIN h["squadVersions"]
    BY <2>3 DEF HistoryMoves
  <2>5. Latest(g, s) <= Latest(h, s)
    BY <1>1, <2>4, NewestVersion
  <2>6. Latest(g, s) = Latest(h, s) /\ Latest(g, s) # 0
    BY <1>1, <1>3, <2>2, <2>5
  <2> QED
    BY <1>2, <2>1, <2>6 DEF Current
<1> QED
  BY <1>3 DEF Current

\* A squad is recorded, or to be, or as its newest version says, after a call.
LEMMA SettledKept ==
  ASSUME NEW g, NEW h, NEW cs, NEW ds, NEW m, Moved(g, cs, h, ds, m), HistoryMoves(g, h, cs, ds, m),
         Good(g), Good(h), HistoryKept(g, cs)
  PROVE  Settled(h, ds)
<1> SUFFICES ASSUME NEW s \in DOMAIN h.squads PROVE Current(h, s) \/ RecordedIn(ds, s) \/ Outgoing(ds, "squads", s)
  BY DEF Settled
<1>1. /\ {"agents", "squads"} \subseteq Tables \ {"squadVersions"} /\ "squads" \in Tables
      /\ DOMAIN cs = 1..Len(cs) /\ Len(cs) \in Nat /\ 1 \in DOMAIN cs
  BY Parts DEF Tables
<1>2. /\ IsTable(g["squadVersions"], Schema.squadVersions) /\ IsTable(h["squadVersions"], Schema.squadVersions)
      /\ \A q \in DOMAIN g.squads : g.squads[q].members \subseteq Agents
      /\ DOMAIN h.squads \subseteq Squads
  BY SchemaTables DEF Good, Typed, IsTable, Schema, SquadRecordSet, Tables
<1>3. CASE Puts(cs[1], "squads", s)
  <2>1. RecordedAfter(cs, s, 1)
    BY <1>1, <1>2, <1>3 DEF HistoryKept, SquadPutsRecorded
  <2>2. RecordedIn(cs, s) /\ ~Records(cs[1], s)
    BY <1>3, <2>1 DEF RecordedAfter, RecordedIn, Records, Puts
  <2> QED
    BY <2>2, RecordedKept
<1>4. CASE ~Puts(cs[1], "squads", s)
  <2>1. s \in DOMAIN g["squads"] /\ h["squads"][s] = g["squads"][s]
    BY <1>1, <1>4, FirstMoves
  <2>2. Outgoing(cs, "squads", s) => Outgoing(ds, "squads", s)
    <3>1. Outgoing(cs, "squads", s) => Outgoing(ds, "squads", s) \/ s \notin DOMAIN h["squads"]
      BY <1>1, OutgoingAfter
    <3> QED
      BY <3>1
  <2>3. CASE RecordedIn(cs, s)
    <3>1. CASE Records(cs[1], s)
      <4>1. cs[1].do = "record"
        BY <3>1 DEF Records
      <4>2. (\E i \in 1..m : Records(ds[i], s)) \/ <<s, Latest(g, s) + 1>> \in DOMAIN h["squadVersions"]
        BY <3>1 DEF HistoryMoves
      <4>3. \A i \in 1..m : i \in DOMAIN ds
        BY Parts
      <4> QED
        BY <1>2, <4>1, <4>2, <4>3, JustRecorded DEF RecordedIn
    <3> QED
      BY <2>3, <3>1, RecordedKept
  <2>4. CASE ~RecordedIn(cs, s) /\ ~Outgoing(cs, "squads", s)
    <3>1. Current(g, s) /\ ~Records(cs[1], s)
      BY <1>1, <2>1, <2>4 DEF HistoryKept, Settled, RecordedIn
    <3>2. ASSUME NEW a \in g["squads"][s].members
          PROVE  /\ ~Drops(cs[1], "agents", a)
                 /\ Puts(cs[1], "agents", a) => a \in DOMAIN g.agents /\ g.agents[a] = cs[1].rows[a]
      <4>1. ~Drops(cs[1], "agents", a)
        BY <1>1, <1>2, <2>1, <2>4, SeenGoing DEF HistoryKept
      <4>2. Puts(cs[1], "agents", a) => a \in DOMAIN g.agents /\ g.agents[a] = cs[1].rows[a]
        BY <1>1, <2>1, <2>4 DEF HistoryKept, AgentPutsRecorded
      <4> QED
        BY <4>1, <4>2
    <3>3. /\ \A a \in g["squads"][s].members : a \in DOMAIN h["agents"] <=> a \in DOMAIN g["agents"]
          /\ \A a \in g["squads"][s].members : a \in DOMAIN g["agents"] => h["agents"][a] = g["agents"][a]
      BY <1>1, <3>2, FirstMoves
    <3>4. Snapshot(h, s) = Snapshot(g, s)
      BY <2>1, <3>3, SameSnapshot
    <3>5. ~Drops(cs[1], "squadVersions", <<s, Latest(g, s)>>)
      <4>1. Latest(g, s) \in Nat
        BY <1>2, LatestThere
      <4>2. ~Leaves(g, cs, s)
        BY <2>1, <2>4 DEF Leaves
      <4> QED
        BY <1>1, <4>1, <4>2 DEF HistoryKept, OldVersionsDropped
    <3> QED
      BY <1>2, <3>1, <3>4, <3>5, StillNewest
  <2> QED
    BY <2>2, <2>3, <2>4
<1> QED
  BY <1>3, <1>4

\* The whole condition is kept by a call.
LEMMA HistoryAfter ==
  ASSUME NEW g, NEW h, NEW cs, NEW ds, NEW m, Moved(g, cs, h, ds, m), HistoryMoves(g, h, cs, ds, m),
         Good(g), Good(h), Orderly(cs), HistoryKept(g, cs)
  PROVE  HistoryKept(h, ds)
<1>1. /\ IsTable(g["squadVersions"], Schema.squadVersions) /\ IsTable(h["squadVersions"], Schema.squadVersions)
      /\ \A q \in DOMAIN g.squads : g.squads[q].members \subseteq Agents
      /\ DOMAIN h.squads \subseteq Squads
  BY SchemaTables DEF Good, Typed, IsTable, Schema, SquadRecordSet, Tables
<1>2. /\ SquadPutsRecorded(cs) /\ AgentsFirst(cs) /\ AgentPutsRecorded(g, cs)
      /\ AgentsUnseen(g, cs) /\ OldVersionsDropped(g, cs)
  BY DEF HistoryKept
<1>3. Settled(h, ds)
  BY SettledKept
<1>4. SquadPutsRecorded(ds) /\ AgentsFirst(ds)
  BY <1>2, SquadPutsRecordedKept, AgentsFirstKept
<1>5. AgentPutsRecorded(h, ds)
  BY <1>1, <1>2, AgentPutsRecordedKept
<1>6. AgentsUnseen(h, ds)
  BY <1>1, <1>2, AgentsUnseenKept
<1>7. OldVersionsDropped(h, ds)
  BY <1>1, <1>2, OldVersionsKept
<1> QED
  BY <1>3, <1>4, <1>5, <1>6, <1>7 DEF HistoryKept
(***************************************************************************)
(* What the plans owe to the history.                                      *)
(***************************************************************************)
Doomed(cs) == \E i \in DOMAIN cs : cs[i].do = "throw"
Owed(g, cs) == SquadPutsRecorded(cs) /\ AgentsFirst(cs) /\ AgentPutsRecorded(g, cs) /\ OldVersionsDropped(g, cs)

\* The elements of the lists that put rows or record squads.
LEMMA PutElements ==
  ASSUME NEW t, NEW rows, NEW p, p = Put(t, rows)
  PROVE  \A i \in DOMAIN p : p[i].do = "put" /\ p[i].table = t /\ p[i].rows = rows
<1> DEFINE c == [do |-> "put", table |-> t, rows |-> rows]
<1>1. p = IF rows = <<>> THEN <<>> ELSE <<c>>
  BY DEF Put
<1>2. c.do = "put" /\ c.table = t /\ c.rows = rows
  OBVIOUS
<1> HIDE DEF c
<1>3. (p = <<>> => DOMAIN p = {}) /\ (p = <<c>> => DOMAIN p = {1} /\ p[1] = c)
  OBVIOUS
<1> QED
  BY <1>1, <1>2, <1>3

\* What a list of one recording holds.
LEMMA RecordElements ==
  ASSUME NEW squads, NEW p, p = Record(squads)
  PROVE  /\ \A i \in DOMAIN p : p[i].do = "record"
         /\ \A s \in squads : RecordedIn(p, s)
<1> DEFINE c == [do |-> "record", squads |-> squads]
<1>1. p = IF squads = {} THEN <<>> ELSE <<c>>
  BY DEF Record
<1>2. c.do = "record" /\ c.squads = squads
  OBVIOUS
<1> HIDE DEF c
<1>3. (p = <<>> => DOMAIN p = {}) /\ (p = <<c>> => DOMAIN p = {1} /\ p[1] = c)
  OBVIOUS
<1> QED
  BY <1>1, <1>2, <1>3 DEF RecordedIn, Records

\* A list after another.
LEMMA RecordedInEither ==
  ASSUME NEW p \in Seq(Change), NEW r \in Seq(Change), NEW s, RecordedIn(p, s) \/ RecordedIn(r, s)
  PROVE  RecordedIn(p \o r, s)
<1>1. /\ Len(p) \in Nat /\ DOMAIN p = 1..Len(p) /\ DOMAIN r = 1..Len(r) /\ Len(r) \in Nat
      /\ DOMAIN (p \o r) = 1..(Len(p) + Len(r))
      /\ \A x \in 1..Len(p) : (p \o r)[x] = p[x]
      /\ \A x \in 1..Len(r) : (p \o r)[Len(p) + x] = r[x]
  BY Appended
<1>2. \A i \in DOMAIN p : i \in DOMAIN (p \o r) /\ (p \o r)[i] = p[i]
  BY <1>1
<1>3. \A i \in DOMAIN r : Len(p) + i \in DOMAIN (p \o r) /\ (p \o r)[Len(p) + i] = r[i]
  BY <1>1
<1> QED
  BY <1>2, <1>3 DEF RecordedIn

\* Two lists that record what they put, one after the other.
LEMMA SquadPutsTwice ==
  ASSUME NEW p \in Seq(Change), NEW r \in Seq(Change), SquadPutsRecorded(p), SquadPutsRecorded(r)
  PROVE  SquadPutsRecorded(p \o r)
<1>1. /\ Len(p) \in Nat /\ DOMAIN p = 1..Len(p) /\ DOMAIN r = 1..Len(r) /\ Len(r) \in Nat
      /\ DOMAIN (p \o r) = 1..(Len(p) + Len(r))
      /\ \A x \in 1..Len(p) : (p \o r)[x] = p[x]
      /\ \A x \in 1..Len(r) : (p \o r)[Len(p) + x] = r[x]
  BY Appended
<1>2. \A i \in DOMAIN p : i \in DOMAIN (p \o r) /\ (p \o r)[i] = p[i]
  BY <1>1
<1>3. \A i \in DOMAIN r : Len(p) + i \in DOMAIN (p \o r) /\ (p \o r)[Len(p) + i] = r[i]
  BY <1>1
<1> SUFFICES ASSUME NEW i \in DOMAIN (p \o r), NEW c, c = (p \o r)[i], NEW s \in Squads, Puts(c, "squads", s)
             PROVE  RecordedAfter(p \o r, s, i)
  BY DEF SquadPutsRecorded
<1>4. CASE i \in DOMAIN p /\ c = p[i]
  <2>1. PICK j \in DOMAIN p : j > i /\ Records(p[j], s)
    BY <1>4 DEF SquadPutsRecorded, RecordedAfter
  <2> QED
    BY <1>2, <2>1 DEF RecordedAfter
<1>5. ASSUME NEW x \in DOMAIN r, i = Len(p) + x, c = r[x] PROVE RecordedAfter(p \o r, s, i)
  <2>1. PICK j \in DOMAIN r : j > x /\ Records(r[j], s)
    BY <1>5 DEF SquadPutsRecorded, RecordedAfter
  <2>2. Len(p) + j > i
    BY <1>1, <1>5, <2>1
  <2> QED
    BY <1>3, <2>1, <2>2 DEF RecordedAfter
<1> QED
  BY <1>4, <1>5, AppendCases

\* A list without squads has none to record.
LEMMA NoSquadPuts ==
  ASSUME NEW p, \A i \in DOMAIN p : p[i].do = "put" => p[i].table # "squads"
  PROVE  SquadPutsRecorded(p)
  BY DEF SquadPutsRecorded, Puts

\* What a list without deletions does not touch.
LEMMA ListedOwes ==
  ASSUME NEW cs, NEW T, NEW S, Listed(cs, T, S)
  PROVE  /\ \A g : OldVersionsDropped(g, cs)
         /\ "agents" \notin T => \A i \in DOMAIN cs : ~PutsAgents(cs[i])
         /\ "squads" \notin T => SquadPutsRecorded(cs)
<1>1. "agents" \in Tables /\ "squads" \in Tables
  BY DEF Tables
<1>2. \A i \in DOMAIN cs : cs[i].do # "delete" /\ \A t \in Tables : Touches(cs[i], t) => t \in T
  BY DEF Listed
<1>3. \A g : OldVersionsDropped(g, cs)
  BY <1>2 DEF OldVersionsDropped, Drops
<1>4. ASSUME "agents" \notin T, NEW i \in DOMAIN cs, PutsAgents(cs[i]) PROVE FALSE
  <2>1. Touches(cs[i], "agents")
    BY <1>4 DEF PutsAgents, Touches
  <2> QED
    BY <1>1, <1>2, <1>4, <2>1
<1>5. ASSUME "squads" \notin T PROVE SquadPutsRecorded(cs)
  <2>1. ASSUME NEW i \in DOMAIN cs, cs[i].do = "put", cs[i].table = "squads" PROVE FALSE
    <3>1. Touches(cs[i], "squads")
      BY <2>1 DEF Touches
    <3> QED
      BY <1>1, <1>2, <1>5, <3>1
  <2> QED
    BY <2>1, NoSquadPuts
<1> QED
  BY <1>3, <1>4, <1>5

\* A list without agents owes nothing to their squads.
LEMMA PlainOwes ==
  ASSUME NEW g, NEW cs, \A i \in DOMAIN cs : ~PutsAgents(cs[i]), SquadPutsRecorded(cs), OldVersionsDropped(g, cs)
  PROVE  Owed(g, cs)
<1>1. AgentsFirst(cs)
  BY DEF AgentsFirst
<1>2. AgentPutsRecorded(g, cs)
  BY DEF AgentPutsRecorded, PutsAgents, Puts
<1> QED
  BY <1>1, <1>2 DEF Owed

\* Deletions and agents, then a list without agents.
LEMMA AgentsLead ==
  ASSUME NEW g, NEW p \in Seq(Change), NEW r \in Seq(Change), NEW rows, NEW cs, cs = p \o r,
         \A i \in DOMAIN p : p[i].do = "delete" \/ (PutsAgents(p[i]) /\ p[i].rows = rows),
         \A i \in DOMAIN r : ~PutsAgents(r[i]),
         \A a \in DOMAIN rows : \A s \in DOMAIN g.squads : a \in g.squads[s].members =>
           \/ a \in DOMAIN g.agents /\ g.agents[a] = rows[a]
           \/ RecordedIn(cs, s) \/ Outgoing(cs, "squads", s)
  PROVE  AgentsFirst(cs) /\ AgentPutsRecorded(g, cs)
<1>1. /\ Len(p) \in Nat /\ DOMAIN p = 1..Len(p) /\ DOMAIN r = 1..Len(r) /\ Len(r) \in Nat
      /\ DOMAIN cs = 1..(Len(p) + Len(r))
      /\ \A x \in 1..Len(p) : cs[x] = p[x]
  BY Appended
<1>2. ASSUME NEW i \in DOMAIN cs, PutsAgents(cs[i]) PROVE i \in DOMAIN p /\ cs[i].rows = rows
  <2>1. i \in DOMAIN p /\ cs[i] = p[i]
    BY <1>2, AppendCases
  <2> QED
    BY <1>2, <2>1 DEF PutsAgents
<1>3. AgentsFirst(cs)
  <2> SUFFICES ASSUME NEW i \in DOMAIN cs, NEW j \in DOMAIN cs, PutsAgents(cs[i])
               PROVE  /\ j < i => cs[j].do = "delete" \/ PutsAgents(cs[j])
                      /\ \A a : Puts(cs[i], "agents", a) /\ Puts(cs[j], "agents", a) => cs[i].rows[a] = cs[j].rows[a]
    BY DEF AgentsFirst
  <2>1. ASSUME j < i PROVE cs[j].do = "delete" \/ PutsAgents(cs[j])
    <3>1. j \in DOMAIN p /\ cs[j] = p[j]
      BY <1>1, <1>2, <2>1
    <3> QED
      BY <3>1
  <2>2. ASSUME NEW a, Puts(cs[j], "agents", a) PROVE cs[i].rows = cs[j].rows
    BY <1>2, <2>2 DEF Puts, PutsAgents
  <2> QED
    BY <2>1, <2>2
<1>4. AgentPutsRecorded(g, cs)
  <2>1. ASSUME NEW i \in DOMAIN cs, NEW a, Puts(cs[i], "agents", a) PROVE a \in DOMAIN rows /\ cs[i].rows = rows
    BY <1>2, <2>1 DEF Puts, PutsAgents
  <2> QED
    BY <2>1 DEF AgentPutsRecorded
<1> QED
  BY <1>3, <1>4

\* Agents put, then a list without agents that records the squads of those that differ.
LEMMA AgentsOwed ==
  ASSUME NEW g, NEW rows, IsTable(rows, Schema["agents"]), NEW T, "agents" \notin T, NEW S, NEW r, Listed(r, T, S),
         SquadPutsRecorded(r),
         \A a \in DOMAIN rows : \A s \in DOMAIN g.squads : a \in g.squads[s].members =>
           (a \in DOMAIN g.agents /\ g.agents[a] = rows[a]) \/ RecordedIn(r, s),
         NEW cs, cs = Put("agents", rows) \o r
  PROVE  Owed(g, cs)
<1> DEFINE p == Put("agents", rows)
<1>1. p \in Seq(Change) /\ Listed(p, {"agents"}, {})
  BY TableNames, PutListed
<1>2. \A i \in DOMAIN p : PutsAgents(p[i]) /\ p[i].rows = rows
  BY PutElements DEF PutsAgents
<1>a. cs = p \o r
  OBVIOUS
<1> HIDE DEF p
<1>3. r \in Seq(Change) /\ \A i \in DOMAIN r : ~PutsAgents(r[i])
  BY ListedOwes DEF Listed
<1>4. SquadPutsRecorded(cs)
  <2>1. SquadPutsRecorded(p)
    BY <1>1, ListedOwes
  <2> QED
    BY <1>1, <1>3, <1>a, <2>1, SquadPutsTwice
<1>5. \A s : RecordedIn(r, s) => RecordedIn(cs, s)
  BY <1>1, <1>3, <1>a, RecordedInEither
<1>6. AgentsFirst(cs) /\ AgentPutsRecorded(g, cs)
  BY <1>1, <1>2, <1>3, <1>5, <1>a, AgentsLead
<1>7. OldVersionsDropped(g, cs)
  <2>1. \A i \in DOMAIN cs : cs[i].do # "delete"
    <3>1. (\A i \in DOMAIN p : p[i].do # "delete") /\ (\A i \in DOMAIN r : r[i].do # "delete")
      BY <1>1 DEF Listed
    <3> QED
      BY <1>1, <1>3, <1>a, <3>1, AppendCases
  <2> QED
    BY <2>1 DEF OldVersionsDropped, Drops
<1> QED
  BY <1>4, <1>6, <1>7 DEF Owed

\* A squad put and recorded, one or many.
LEMMA PutAndRecordOwes ==
  ASSUME NEW s \in Squads, NEW r \in SquadRecordSet, NEW cs, cs = PutAndRecord(s, r)
  PROVE  cs \in Seq(Change) /\ SquadPutsRecorded(cs) /\ RecordedIn(cs, s)
<1> DEFINE p == Put("squads", Row(s, r))
           q == Record({s})
<1>1. p \in Seq(Change)
  <2>1. s \in Schema["squads"].keys /\ r \in Schema["squads"].rows
    BY DEF Schema
  <2>2. IsTable(Row(s, r), Schema["squads"]) /\ "squads" \in Tables \ {"squadVersions"} /\ "squads" \in Tables
    BY <2>1, RowIsTable DEF Tables
  <2> QED
    BY <2>2, PutListed
<1>2. q \in Seq(Change)
  <2>1. "squadVersions" \in Tables
    BY DEF Tables
  <2> QED
    BY <2>1, RecordListed
<1>3. \A i \in DOMAIN p : p[i].rows = Row(s, r)
  BY PutElements
<1>4. RecordedIn(q, s) /\ \A i \in DOMAIN q : q[i].do = "record"
  BY RecordElements
<1>5. cs = p \o q
  BY DEF PutAndRecord
<1>6. DOMAIN Row(s, r) = {s}
  BY RowOf
<1> HIDE DEF p, q
<1>7. RecordedIn(cs, s)
  BY <1>1, <1>2, <1>4, <1>5, RecordedInEither
<1>8. PICK y \in DOMAIN q : Records(q[y], s)
  BY <1>4 DEF RecordedIn
<1>9. /\ Len(p) \in Nat /\ DOMAIN p = 1..Len(p) /\ DOMAIN q = 1..Len(q) /\ Len(q) \in Nat
      /\ DOMAIN (p \o q) = 1..(Len(p) + Len(q))
      /\ \A x \in 1..Len(q) : (p \o q)[Len(p) + x] = q[x]
  BY <1>1, <1>2, Appended
<1>10. ASSUME NEW i \in DOMAIN cs, NEW x \in Squads, Puts(cs[i], "squads", x) PROVE RecordedAfter(cs, x, i)
  <2>1. i \in DOMAIN p /\ cs[i] = p[i]
    BY <1>1, <1>2, <1>4, <1>5, <1>10, AppendCases DEF Puts
  <2>2. x = s
    BY <1>3, <1>6, <1>10, <2>1 DEF Puts
  <2>3. Len(p) + y > i /\ Len(p) + y \in DOMAIN cs /\ cs[Len(p) + y] = q[y]
    BY <1>5, <1>9, <2>1
  <2> QED
    BY <1>8, <2>2, <2>3 DEF RecordedAfter
<1>11. cs \in Seq(Change)
  BY <1>1, <1>2, <1>5, Appended
<1> QED
  BY <1>7, <1>10, <1>11 DEF SquadPutsRecorded

\* Every squad of an import is put and recorded.
LEMMA FlatRecorded ==
  ASSUME NEW n \in Nat, NEW names \in [1..n -> Squads], NEW records \in [1..n -> SquadRecordSet],
         NEW cs, cs = FlattenSeq(SquadList(names, records, n))
  PROVE  SquadPutsRecorded(cs)
<1> DEFINE F == SquadList(names, records, n)
<1>1. DOMAIN F = 1..n /\ \A i \in 1..n : F[i] = PutAndRecord(names[i], records[i])
  BY DEF SquadList
<1>2. F \in Seq({F[i] : i \in 1..n}) /\ Len(F) = n
  <2>1. F = [i \in 1..n |-> F[i]]
    BY DEF SquadList
  <2> HIDE DEF F
  <2>2. F \in [1..n -> {F[i] : i \in 1..n}]
    BY <2>1
  <2> QED
    BY <2>2
<1>3. cs = FlattenSeq(F)
  BY DEF F
<1> HIDE DEF F
<1>4. CASE n = 0
  <2>1. F = <<>>
    BY <1>2, <1>4
  <2>2. cs = <<>> /\ DOMAIN <<>> = {}
    BY <1>3, <2>1 DEF FlattenSeq
  <2> QED
    BY <2>2, NoSquadPuts
<1>5. CASE n # 0
  <2> DEFINE L == {p \in Seq(Change) : SquadPutsRecorded(p)}
  <2>1. ASSUME NEW p \in L, NEW r \in L PROVE p \o r \in L
    <3>1. p \in Seq(Change) /\ r \in Seq(Change) /\ SquadPutsRecorded(p) /\ SquadPutsRecorded(r)
      OBVIOUS
    <3> QED
      BY <3>1, Appended, SquadPutsTwice
  <2>2. ASSUME NEW i \in 1..n PROVE F[i] \in L
    <3>1. names[i] \in Squads /\ records[i] \in SquadRecordSet /\ F[i] = PutAndRecord(names[i], records[i])
      BY <1>1
    <3>2. F[i] \in Seq(Change) /\ SquadPutsRecorded(F[i])
      BY <3>1, PutAndRecordOwes
    <3> QED
      BY <3>2
  <2> HIDE DEF L
  <2>3. FlattenSeq(F) \in L
    BY <1>1, <1>2, <1>5, <2>1, <2>2, FlattenClosed
  <2> QED
    BY <1>3, <2>3 DEF L
<1> QED
  BY <1>4, <1>5

\* The squads of a document are recorded.
LEMMA ImportOwes ==
  ASSUME NEW d, IsTable(d.squads, Schema["squads"]), NEW cs, cs = ImportSquads(d)
  PROVE  SquadPutsRecorded(cs) /\ \A s \in DOMAIN d.squads : RecordedIn(cs, s)
<1> DEFINE K == DOMAIN d.squads
           n == Cardinality(K)
           names == SetToSeq(K)
           records == [i \in 1..n |-> d.squads[names[i]]]
           F == [i \in 1..Len(names) |-> Put("squads", Row(names[i], d.squads[names[i]])) \o Record({names[i]})]
<1>1. IsFiniteSet(K) /\ K \subseteq Squads /\ \A s \in K : d.squads[s] \in SquadRecordSet
  BY DEF IsTable, Schema
<1>2. n \in Nat /\ names \in [1..n -> K]
  BY <1>1, SetToSeqCovers
<1>3. cs = FlattenSeq(F)
  BY DEF ImportSquads
<1> HIDE DEF K, n, names
<1>4. names \in [1..n -> Squads] /\ records \in [1..n -> SquadRecordSet]
  BY <1>1, <1>2
<1>5. Len(names) = n
  BY <1>2
<1>6. F = SquadList(names, records, n)
  <2>1. DOMAIN F = 1..n /\ IsMap(F)
    BY <1>5 DEF IsMap
  <2>2. DOMAIN SquadList(names, records, n) = 1..n /\ IsMap(SquadList(names, records, n))
    BY DEF SquadList, IsMap
  <2>3. ASSUME NEW i \in 1..n PROVE F[i] = SquadList(names, records, n)[i]
    BY <1>5 DEF SquadList, PutAndRecord
  <2> HIDE DEF F, records
  <2> QED
    BY <2>1, <2>2, <2>3, SameLists
<1> HIDE DEF F, records
<1>7. SquadPutsRecorded(cs)
  BY <1>2, <1>3, <1>4, <1>6, FlatRecorded
<1>8. ASSUME NEW s \in DOMAIN d.squads PROVE RecordedIn(cs, s)
  <2>1. {"squads", "squadVersions"} \subseteq Tables /\ s \in Squads
    BY <1>1 DEF Tables, K
  <2>2. SquadsImported(cs, d, Tables, {}, {})
    BY <2>1, ImportList
  <2>3. \E x \in DOMAIN cs : Puts(cs[x], "squads", s)
    BY <2>2 DEF SquadsImported
  <2> QED
    BY <1>7, <2>1, <2>3 DEF SquadPutsRecorded, RecordedAfter, RecordedIn
<1> QED
  BY <1>7, <1>8

\* The squads that a deleted agent leaves are recorded.
LEMMA DropOwes ==
  ASSUME NEW g, Typed(g), NEW a, NEW cs, cs = DropList(g, a)
  PROVE  SquadPutsRecorded(cs)
<1> DEFINE K == MembersOf(g, a)
           n == Cardinality(K)
           names == SetToSeq(K)
           records == [i \in 1..n |-> DropMember(g.squads[names[i]], a)]
           F == [i \in 1..n |-> LET s == names[i]
                                IN Put("squads", Row(s, DropMember(g.squads[s], a))) \o Record({s})]
<1>1. IsFiniteSet(K) /\ K \subseteq Squads /\ \A s \in K : g.squads[s] \in SquadRecordSet
  <2>1. IsTable(g["squads"], Schema["squads"])
    BY TypedTables DEF Tables
  <2>2. K \subseteq DOMAIN g.squads
    BY DEF MembersOf
  <2> QED
    BY <2>1, <2>2, FS_Subset DEF IsTable, Schema
<1>2. n \in Nat /\ names \in [1..n -> K]
  BY <1>1, SetToSeqCovers
<1>3. cs = FlattenSeq(F)
  BY DEF DropList
<1> HIDE DEF K, n, names
<1>4. names \in [1..n -> Squads] /\ records \in [1..n -> SquadRecordSet]
  BY <1>1, <1>2, DropMemberTyped
<1>5. F = SquadList(names, records, n)
  <2>1. DOMAIN F = 1..n /\ IsMap(F)
    BY DEF IsMap
  <2>2. DOMAIN SquadList(names, records, n) = 1..n /\ IsMap(SquadList(names, records, n))
    BY DEF SquadList, IsMap
  <2>3. ASSUME NEW i \in 1..n PROVE F[i] = SquadList(names, records, n)[i]
    BY DEF SquadList, PutAndRecord
  <2> HIDE DEF F, records
  <2> QED
    BY <2>1, <2>2, <2>3, SameLists
<1> HIDE DEF F, records
<1> QED
  BY <1>2, <1>3, <1>4, <1>5, FlatRecorded

\* What each plan owes, given that the references hold.
LEMMA CreateAgentOwes ==
  ASSUME Closed(db), NEW op, op.agent \in Agents, op.content \in Contents, op.agent \notin DOMAIN db.agents
  PROVE  Owed(db, CreateAgentPlan(op).changes)
<1> DEFINE rows == Row(op.agent, op.content)
           r == <<>>
           cs == Put("agents", rows)
<1>1. IsTable(rows, Schema["agents"]) /\ DOMAIN rows = {op.agent}
  BY AgentRow, RowOf
<1>2. cs \in Seq(Change)
  <2>1. Listed(cs, {"agents"}, {}) /\ Valid(cs, {}, {})
    BY <1>1, AgentsPut
  <2> QED
    BY <2>1 DEF Listed
<1>3. cs = cs \o r /\ Listed(r, {}, {}) /\ DOMAIN r = {}
  BY <1>2, AppendNone, EmptyList
<1>4. \A s \in DOMAIN db.squads : op.agent \notin db.squads[s].members
  BY DEF Closed, SquadsClosed, ValidSquad
<1>5. CreateAgentPlan(op).changes = cs
  BY DEF CreateAgentPlan, Plan
<1>a. cs = Put("agents", rows) \o r
  BY <1>3
<1> HIDE DEF rows, r, cs
<1>6. SquadPutsRecorded(r)
  BY <1>3, NoSquadPuts
<1>7. "agents" \notin {}
  OBVIOUS
<1>8. Owed(db, cs)
  BY <1>1, <1>3, <1>4, <1>6, <1>7, <1>a, AgentsOwed
<1> QED
  BY <1>5, <1>8

\* An agent is updated, and its squads are recorded.
LEMMA UpdateAgentOwes ==
  ASSUME Typed(db), NEW op, op.agent \in Agents, op.content \in Contents
  PROVE  Owed(db, UpdateAgentPlan(op).changes)
<1> DEFINE rows == Row(op.agent, op.content)
           users == MembersOf(db, op.agent)
           r == Record(users)
           cs == Put("agents", rows) \o r
<1>1. IsTable(rows, Schema["agents"]) /\ DOMAIN rows = {op.agent}
  BY AgentRow, RowOf
<1>2. users \subseteq DOMAIN db.squads /\ users \subseteq Squads
  BY PointersTyped DEF MembersOf
<1>3. Listed(r, {"squadVersions"}, DOMAIN db.squads)
  BY <1>2, RecordListed
<1>4. SquadPutsRecorded(r) /\ \A s \in users : RecordedIn(r, s)
  BY RecordElements, NoSquadPuts
<1>5. UpdateAgentPlan(op).changes = cs
  BY DEF UpdateAgentPlan, Plan
<1>6. \A a \in DOMAIN rows : \A s \in DOMAIN db.squads : a \in db.squads[s].members => s \in users
  BY <1>1 DEF MembersOf
<1>a. cs = Put("agents", rows) \o r
  OBVIOUS
<1> HIDE DEF rows, r, cs, users
<1>7. "agents" \notin {"squadVersions"}
  OBVIOUS
<1>8. Owed(db, cs)
  BY <1>1, <1>3, <1>4, <1>6, <1>7, <1>a, AgentsOwed
<1> QED
  BY <1>5, <1>8

\* A squad is created or updated, and recorded.
LEMMA PutSquadOwes ==
  ASSUME NEW s \in Squads, NEW r \in SquadRecordSet
  PROVE  Owed(db, PutSquadPlan(s, r).changes)
<1> DEFINE p == PutAndRecord(s, r)
<1>1. PutSquadPlan(s, r).changes = p
  BY DEF PutSquadPlan, Plan, PutAndRecord
<1>2. Listed(p, {"squads", "squadVersions"}, {})
  BY PutSquadListed
<1>3. SquadPutsRecorded(p)
  BY PutAndRecordOwes
<1> HIDE DEF p
<1>4. OldVersionsDropped(db, p) /\ \A i \in DOMAIN p : ~PutsAgents(p[i])
  BY <1>2, ListedOwes
<1>5. Owed(db, p)
  BY <1>3, <1>4, PlainOwes
<1> QED
  BY <1>1, <1>5

\* A list that ends in an error is never carried out.
LEMMA ThrowDooms == Doomed(Throw)
  BY DEF Doomed, Throw

\* A list that ends in one that throws is to throw.
LEMMA DoomedLater ==
  ASSUME NEW p \in Seq(Change), NEW r \in Seq(Change), Doomed(r)
  PROVE  Doomed(p \o r)
<1>1. /\ Len(p) \in Nat /\ DOMAIN r = 1..Len(r) /\ Len(r) \in Nat /\ DOMAIN (p \o r) = 1..(Len(p) + Len(r))
      /\ \A x \in 1..Len(r) : (p \o r)[Len(p) + x] = r[x]
  BY Appended
<1>2. PICK x \in DOMAIN r : r[x].do = "throw"
  BY DEF Doomed
<1>3. Len(p) + x \in DOMAIN (p \o r) /\ (p \o r)[Len(p) + x] = r[x]
  BY <1>1
<1> QED
  BY <1>2, <1>3 DEF Doomed

\* A member is added or removed.
LEMMA MemberOwes ==
  ASSUME Typed(db), NEW op, op.squad \in DOMAIN db.squads, op.agent \in Agents,
         NEW plan, plan \in {AddMemberPlan(op), RemoveMemberPlan(op)}
  PROVE  Doomed(plan.changes) \/ Owed(db, plan.changes)
<1> DEFINE s == op.squad
           more == AddTo(db.squads[s], op.agent)
           less == DropMember(db.squads[s], op.agent)
           refused == Plan(<<"squads", "squadVersions">>, Throw)
<1>1. s \in Squads /\ db.squads[s] \in SquadRecordSet
  BY PointersTyped
<1>2. more \in SquadRecordSet /\ less \in SquadRecordSet
  BY <1>1, DropMemberTyped DEF AddTo, SquadRecordSet
<1>3. AddMemberPlan(op) \in {refused, PutSquadPlan(s, more)}
  BY DEF AddMemberPlan
<1>4. RemoveMemberPlan(op) \in {refused, PutSquadPlan(s, less)}
  BY DEF RemoveMemberPlan
<1>5. Doomed(refused.changes)
  BY ThrowDooms DEF Plan
<1> HIDE DEF more, less, refused, s
<1>6. \A r \in SquadRecordSet : Owed(db, PutSquadPlan(s, r).changes)
  BY <1>1, PutSquadOwes
<1> QED
  BY <1>2, <1>3, <1>4, <1>5, <1>6

\* An agent leaves its squads, and is deleted.
LEMMA DeleteAgentOwes ==
  ASSUME Typed(db), NEW op, op.agent \in Agents
  PROVE  Owed(db, DeleteAgentPlan(op).changes)
<1> DEFINE a == op.agent
           p == DropList(db, a)
           r == Delete("agents", {a})
           cs == p \o r
           T == {"squads", "squadVersions"}
<1>1. DeleteAgentPlan(op).changes = cs
  BY DEF DeleteAgentPlan, Plan, DropList
<1>2. "agents" \in Tables /\ {a} \in SUBSET Keys /\ "agents" \notin T
  <2>1. Schema["agents"].keys = Agents
    BY DEF Schema
  <2> QED
    BY <2>1, TableNames DEF Keys
<1>3. Clears(r, "agents", {a})
  BY <1>2, DeleteIsList
<1> HIDE DEF r
<1>4. r \in Seq(Change) /\ \A i \in DOMAIN r : r[i].do = "delete" /\ r[i].table = "agents"
  BY <1>3 DEF Clears
<1>5. SquadPutsRecorded(p)
  BY DropOwes
<1> HIDE DEF p, a
<1>6. Listed(p, T, DOMAIN db.squads)
  BY DropListed DEF p
<1> HIDE DEF T, cs
<1>7. /\ p \in Seq(Change) /\ \A i \in DOMAIN p : p[i].do # "delete" /\ ~PutsAgents(p[i])
  BY <1>2, <1>6, ListedOwes DEF Listed
<1>8. SquadPutsRecorded(r)
  BY <1>4, NoSquadPuts
<1>9. SquadPutsRecorded(cs)
  BY <1>4, <1>5, <1>7, <1>8, SquadPutsTwice DEF cs
<1>10. \A i \in DOMAIN cs : ~PutsAgents(cs[i]) /\ ~(cs[i].do = "delete" /\ cs[i].table = "squadVersions")
  <2>1. \A i \in DOMAIN r : ~PutsAgents(r[i])
    BY <1>4 DEF PutsAgents
  <2> QED
    BY <1>4, <1>7, <2>1, AppendCases DEF cs
<1>11. OldVersionsDropped(db, cs)
  BY <1>10 DEF OldVersionsDropped, Drops
<1>12. Owed(db, cs)
  BY <1>9, <1>10, <1>11, PlainOwes
<1> QED
  BY <1>1, <1>12

\* The versions of a deleted squad go with it.
LEMMA DeleteSquadOwes ==
  ASSUME Typed(db), NEW op, op.squad \in Squads, op.squad \in DOMAIN db.squads
  PROVE  Owed(db, DeleteSquadPlan(op).changes)
<1> DEFINE s == op.squad
           k1 == PointingInto(db.sessionModes, {s})
           k2 == PointingInto(db.nextModes, {s})
           k3 == PointingInto(db.projectDefaults, {s})
           k4 == {k \in DOMAIN db.squadVersions : k[1] = s}
           d1 == Delete("sessionModes", k1)
           d2 == Delete("nextModes", k2)
           d3 == Delete("projectDefaults", k3)
           d4 == Delete("squadVersions", k4)
           p == d1 \o d2 \o d3 \o d4
           r == Delete("squads", {s})
           cs == p \o r
<1>1. DeleteSquadPlan(op).changes = cs
  BY DEF DeleteSquadPlan, Plan
<1>2. {"sessionModes", "nextModes", "projectDefaults", "squadVersions", "squads"} \subseteq Tables
  BY DEF Tables
<1>3. k1 \in SUBSET Keys /\ k2 \in SUBSET Keys /\ k3 \in SUBSET Keys /\ k4 \in SUBSET Keys /\ {s} \in SUBSET Keys
  <2>1. k1 \subseteq DOMAIN db["sessionModes"] /\ k2 \subseteq DOMAIN db["nextModes"]
        /\ k3 \subseteq DOMAIN db["projectDefaults"] /\ k4 \subseteq DOMAIN db["squadVersions"]
        /\ {s} \subseteq DOMAIN db["squads"]
    BY DEF PointingInto
  <2> HIDE DEF k1, k2, k3, k4, s
  <2>2. \A t \in Tables : \A keys : keys \subseteq DOMAIN db[t] => keys \in SUBSET Keys
    BY ManyKeys
  <2>3. k1 \in SUBSET Keys /\ k2 \in SUBSET Keys
    BY <1>2, <2>1, <2>2
  <2>4. k3 \in SUBSET Keys /\ k4 \in SUBSET Keys
    BY <1>2, <2>1, <2>2
  <2>5. {s} \in SUBSET Keys
    BY <1>2, <2>1, <2>2
  <2> QED
    BY <2>3, <2>4, <2>5
<1>a. \A v \in k4 : v[1] = s
  OBVIOUS
<1> HIDE DEF k1, k2, k3, k4
<1>4. Clears(d1, "sessionModes", k1) /\ Clears(d2, "nextModes", k2) /\ Clears(d3, "projectDefaults", k3)
      /\ Clears(d4, "squadVersions", k4) /\ Clears(r, "squads", {s})
  BY <1>2, <1>3, DeleteIsList
<1> DEFINE C == {c \in Change : c.do = "delete" /\ \A v : Drops(c, "squadVersions", v) => v[1] = s}
<1> HIDE DEF d1, d2, d3, d4, r
<1>5. d1 \in Seq(C) /\ d2 \in Seq(C) /\ d3 \in Seq(C) /\ d4 \in Seq(C) /\ r \in Seq(C)
  <2>1. ASSUME NEW e, NEW t, NEW keys, Clears(e, t, keys), t = "squadVersions" => keys = k4
        PROVE  e \in Seq(C)
    <3>1. e \in Seq(Change) /\ \A i \in DOMAIN e : e[i].do = "delete" /\ e[i].table = t /\ e[i].keys = keys
      BY <2>1 DEF Clears
    <3>2. \A i \in 1..Len(e) : e[i] \in C
      BY <1>a, <2>1, <3>1 DEF Drops
    <3> HIDE DEF C
    <3> QED
      BY <3>1, <3>2
  <2> HIDE DEF C
  <2>2. d1 \in Seq(C) /\ d2 \in Seq(C) /\ d3 \in Seq(C)
    BY <1>4, <2>1
  <2>3. d4 \in Seq(C) /\ r \in Seq(C)
    BY <1>4, <2>1
  <2> QED
    BY <2>2, <2>3
<1>b. p = ((d1 \o d2) \o d3) \o d4
  OBVIOUS
<1> HIDE DEF C, p
<1>6. p \in Seq(C)
  <2> DEFINE p2 == d1 \o d2
             p3 == p2 \o d3
  <2>1. p2 \in Seq(C)
    BY <1>5, Appended
  <2> HIDE DEF p2
  <2>2. p3 \in Seq(C)
    BY <1>5, <2>1, Appended
  <2> HIDE DEF p3
  <2>3. p = p3 \o d4
    BY <1>b DEF p2, p3
  <2> QED
    BY <1>5, <2>2, <2>3, Appended
<1>7. cs \in Seq(C)
  BY <1>5, <1>6, Appended
<1> HIDE DEF cs
<1>8. \A i \in DOMAIN cs : cs[i] \in C
  BY <1>7
<1>9. \A i \in DOMAIN cs : cs[i].do = "delete" /\ cs[i] \in Change /\ \A v : Drops(cs[i], "squadVersions", v) => v[1] = s
  BY <1>8 DEF C
<1>10. Outgoing(cs, "squads", s)
  <2>1. p \in Seq(Change) /\ r \in Seq(Change)
    <3>1. C \subseteq Change
      BY DEF C
    <3> QED
      BY <1>5, <1>6, <3>1
  <2>2. Outgoing(r, "squads", s)
    BY <1>4 DEF Clears, Outgoing
  <2> QED
    BY <2>1, <2>2, OutgoingInEither DEF cs
<1>11. Leaves(db, cs, s)
  BY <1>9, <1>10 DEF Leaves, Puts
<1>12. OldVersionsDropped(db, cs)
  BY <1>9, <1>11 DEF OldVersionsDropped
<1>13. SquadPutsRecorded(cs) /\ \A i \in DOMAIN cs : ~PutsAgents(cs[i])
  BY <1>9, NoSquadPuts DEF PutsAgents
<1>14. Owed(db, cs)
  BY <1>12, <1>13, PlainOwes
<1> QED
  BY <1>1, <1>14

\* Modes, one-shots and defaults are not part of the history.
LEMMA PointOwes ==
  ASSUME NEW op \in Operation, op.kind = "point"
  PROVE  Owed(db, PointPlan(op).changes)
<1> DEFINE t == op.table
           del == Delete(t, {op.key})
           put == Put(t, Row(op.key, op.squad))
           cs == PointPlan(op).changes
<1>1. t \in Pointers
  BY OperationCases DEF Pointers
<1>2. t # "agents" /\ t # "squads" /\ t # "squadVersions"
  BY <1>1 DEF Pointers
<1>3. cs = del \/ cs = put
  BY DEF PointPlan, Plan
<1>4. \A i \in DOMAIN put : put[i].do = "put" /\ put[i].table = t
  BY PutElements
<1>5. \A i \in DOMAIN del : del[i].do = "delete" /\ del[i].table = t
  <2> DEFINE keys == {op.key}
             c == [do |-> "delete", table |-> t, keys |-> keys]
  <2>1. del = IF keys = {} THEN <<>> ELSE <<c>>
    BY DEF Delete
  <2>2. c.do = "delete" /\ c.table = t
    OBVIOUS
  <2> HIDE DEF c, del
  <2>3. (del = <<>> => DOMAIN del = {}) /\ (del = <<c>> => DOMAIN del = {1} /\ del[1] = c)
    OBVIOUS
  <2> QED
    BY <2>1, <2>2, <2>3
<1> HIDE DEF del, put, cs, t
<1>6. \A i \in DOMAIN cs : (cs[i].do = "put" \/ cs[i].do = "delete") /\ cs[i].table = t
  BY <1>3, <1>4, <1>5
<1>7. SquadPutsRecorded(cs)
  BY <1>2, <1>6, NoSquadPuts
<1>8. OldVersionsDropped(db, cs) /\ \A i \in DOMAIN cs : ~PutsAgents(cs[i])
  BY <1>2, <1>6 DEF OldVersionsDropped, Drops, PutsAgents
<1>9. Owed(db, cs)
  BY <1>7, <1>8, PlainOwes
<1> QED
  BY <1>9 DEF cs

\* A merging import records its squads, and the other squads of the agents it changes.
LEMMA MergeOwes ==
  ASSUME Good(db), Closed(db), NEW op, op.document \in DocumentSet
  PROVE  Owed(db, MergePlan(op).changes)
<1> DEFINE d == op.document
           laid == [db EXCEPT !.squads = Laid(d.squads, @)]
           others == Affected(laid, Changed(db, d.agents), DOMAIN d.squads)
           p == Put("agents", d.agents)
           q == ImportSquads(d)
           r == Record(others)
           S == DOMAIN db.squads
           T == {"squads", "squadVersions"}
<1>1. MergePlan(op).changes = (p \o q) \o r
  BY DEF MergePlan, Plan
<1>2. IsTable(d.agents, Schema["agents"]) /\ IsTable(d.squads, Schema["squads"])
  BY DocumentTyped
<1>3. laid.squads = Laid(d.squads, db.squads)
  <2>1. "squads" \in DOMAIN db
    BY GraphFun DEF Good, Tables
  <2> QED
    BY <2>1
<1>4. DOMAIN laid.squads = DOMAIN d.squads \union S /\ \A s \in S \ DOMAIN d.squads : laid.squads[s] = db.squads[s]
  BY <1>3 DEF Laid
<1> HIDE DEF laid, d
<1>5. others = {s \in DOMAIN laid.squads \ DOMAIN d.squads : laid.squads[s].members \intersect Changed(db, d.agents) # {}}
  BY DEF Affected
<1> HIDE DEF others
<1>6. others \subseteq S /\ others \subseteq Squads
  <2>1. others \subseteq S
    BY <1>4, <1>5
  <2> QED
    BY <2>1, PointersTyped DEF Good
<1>7. ASSUME NEW a \in DOMAIN d.agents, NEW s \in S, a \in db.squads[s].members
      PROVE  (a \in DOMAIN db.agents /\ db.agents[a] = d.agents[a]) \/ s \in DOMAIN d.squads \/ s \in others
  <2>1. a \in DOMAIN db.agents
    BY <1>7 DEF Closed, SquadsClosed, ValidSquad
  <2>2. CASE a \in Changed(db, d.agents)
    BY <1>4, <1>5, <1>7, <2>2
  <2>3. CASE a \notin Changed(db, d.agents)
    BY <2>1, <2>3 DEF Changed
  <2> QED
    BY <2>2, <2>3
<1>8. SquadPutsRecorded(q) /\ \A s \in DOMAIN d.squads : RecordedIn(q, s)
  BY <1>2, ImportOwes
<1>9. SquadPutsRecorded(r) /\ \A s \in others : RecordedIn(r, s)
  BY RecordElements, NoSquadPuts
<1> HIDE DEF q, r, S
<1>10. Listed(q, T, S) /\ q \in Seq(Change)
  <2>1. SquadsImported(q, d, T, {}, S)
    BY <1>2, ImportList DEF q
  <2> QED
    BY <2>1 DEF SquadsImported, Listed
<1>11. Listed(q \o r, T, S) /\ r \in Seq(Change)
  <2>1. "squadVersions" \in T
    OBVIOUS
  <2>2. Listed(q \o r, T, S) /\ (Valid(q, {}, S) => Valid(q \o r, {}, S))
    BY <1>6, <1>10, <2>1, ThenRecord DEF r
  <2>3. r \in Seq(Change)
    BY <1>6, <2>1, RecordListed DEF r
  <2> QED
    BY <2>2, <2>3
<1>12. p \in Seq(Change)
  <2>1. Listed(p, {"agents"}, {}) /\ Valid(p, {}, {})
    BY <1>2, AgentsPut
  <2> QED
    BY <2>1 DEF Listed
<1>13. MergePlan(op).changes = p \o (q \o r)
  BY <1>1, <1>10, <1>11, <1>12, AppendAssociates
<1> DEFINE qr == q \o r
           cs == p \o qr
<1>14. SquadPutsRecorded(qr)
  BY <1>8, <1>9, <1>10, <1>11, SquadPutsTwice
<1>15. \A s : s \in DOMAIN d.squads \/ s \in others => RecordedIn(qr, s)
  BY <1>8, <1>9, <1>10, <1>11, RecordedInEither
<1>16. Listed(qr, T, S) /\ "agents" \notin T
  BY <1>11
<1>17. MergePlan(op).changes = cs /\ cs = Put("agents", d.agents) \o qr
  BY <1>13
<1> HIDE DEF qr, cs, p, T
<1>18. Owed(db, cs)
  BY <1>2, <1>7, <1>14, <1>15, <1>16, <1>17, AgentsOwed DEF S
<1> QED
  BY <1>17, <1>18

\* A restore records the squad, and the other squads of the members it changes.
LEMMA RestoreOwes ==
  ASSUME Typed(db), NEW op, op.version \in DOMAIN db.squadVersions
  PROVE  Doomed(RestorePlan(op).changes) \/ Owed(db, RestorePlan(op).changes)
<1> DEFINE found == db.squadVersions[op.version]
           s == op.version[1]
           changed == {a \in DOMAIN found.members : a \notin DOMAIN db.agents \/ db.agents[a] # found.members[a]}
           others == Affected(db, changed, {s})
           S == DOMAIN db.squads
           put == PutAndRecord(s, found.record)
           q == put \o Record(others)
           p == Put("agents", found.members)
           T == {"squads", "squadVersions"}
<1>1. RestorePlan(op).changes \in {p \o q, p \o Throw}
  BY DEF RestorePlan, Plan, PutAndRecord
<1>2. IsTable(found.members, Schema["agents"]) /\ found.record \in SquadRecordSet /\ s \in Squads
  <2>1. IsTable(db["squadVersions"], Schema["squadVersions"])
    BY TypedTables DEF Tables
  <2>2. /\ Schema["squadVersions"].keys = Squads \X (Nat \ {0})
        /\ Schema["squadVersions"].rows = [record : SquadRecordSet, members : FiniteTables(Agents, Contents)]
        /\ Schema["agents"].keys = Agents /\ Schema["agents"].rows = Contents
    BY DEF Schema
  <2>3. found \in [record : SquadRecordSet, members : FiniteTables(Agents, Contents)] /\ s \in Squads
    BY <2>1, <2>2 DEF IsTable
  <2>4. found.members \in FiniteTables(Schema["agents"].keys, Schema["agents"].rows)
    BY <2>2, <2>3
  <2> QED
    BY <2>3, <2>4, FiniteTable
<1> HIDE DEF found, s
<1>3. others \subseteq S /\ others \subseteq Squads
  <2>1. others \subseteq S
    BY DEF Affected
  <2> QED
    BY <2>1, PointersTyped
<1>4. \A a \in DOMAIN found.members : \A x \in S : a \in db.squads[x].members =>
        (a \in DOMAIN db.agents /\ db.agents[a] = found.members[a]) \/ x = s \/ x \in others
  BY DEF Affected
<1> HIDE DEF others, S
<1>5. SquadPutsRecorded(put) /\ RecordedIn(put, s)
  BY <1>2, PutAndRecordOwes
<1>6. SquadPutsRecorded(Record(others)) /\ \A x \in others : RecordedIn(Record(others), x)
  BY RecordElements, NoSquadPuts
<1>7. Listed(put, T, S) /\ put \in Seq(Change)
  <2>1. Listed(put, T, S)
    BY <1>2, PutSquadListed
  <2> QED
    BY <2>1 DEF Listed
<1> HIDE DEF put
<1>8. Listed(q, T, S) /\ Record(others) \in Seq(Change)
  <2>1. "squadVersions" \in T
    OBVIOUS
  <2>2. Listed(q, T, S) /\ (Valid(put, {}, S) => Valid(q, {}, S))
    BY <1>3, <1>7, <2>1, ThenRecord
  <2>3. Record(others) \in Seq(Change)
    BY <1>3, <2>1, RecordListed
  <2> QED
    BY <2>2, <2>3
<1>9. SquadPutsRecorded(q) /\ \A x : x = s \/ x \in others => RecordedIn(q, x)
  BY <1>5, <1>6, <1>7, <1>8, SquadPutsTwice, RecordedInEither
<1>10. "agents" \notin T
  OBVIOUS
<1> DEFINE cs == p \o q
<1>11. cs = Put("agents", found.members) \o q
  OBVIOUS
<1> HIDE DEF q, T, cs
<1>12. Owed(db, cs)
  BY <1>2, <1>4, <1>8, <1>9, <1>10, <1>11, AgentsOwed DEF S
<1>13. Doomed(p \o Throw)
  <2>1. p \in Seq(Change)
    <3>1. Listed(p, {"agents"}, {}) /\ Valid(p, {}, {})
      BY <1>2, AgentsPut
    <3> QED
      BY <3>1 DEF Listed
  <2>2. Throw \in Seq(Change)
    <3>1. Listed(Throw, {}, {}) /\ Valid(Throw, {}, {})
      BY ThrowListed
    <3> QED
      BY <3>1 DEF Listed
  <2>3. Doomed(Throw)
    BY ThrowDooms
  <2> HIDE DEF p
  <2> QED
    BY <2>1, <2>2, <2>3, DoomedLater
<1> QED
  BY <1>1, <1>12, <1>13 DEF cs

\* A replacing import clears the squads before the agents go, and records those it brings in.
LEMMA ReplaceOwes ==
  ASSUME Good(db), NEW op, op.document \in DocumentSet
  PROVE  Owed(db, ReplacePlan(op).changes) /\ AgentsUnseen(db, ReplacePlan(op).changes)
<1> DEFINE d == op.document
           a == Put("agents", d.agents)
           q == ImportSquads(d)
           T == {"squads", "squadVersions"}
           S == DOMAIN d.squads
<1>1. PICK p : ReplacePlan(op).changes = (p \o a) \o q /\ ClearsFor(db, p, d) /\ VersionsSpared(p, d)
  BY ReplaceClears
<1>2. IsTable(d.agents, Schema["agents"]) /\ IsTable(d.squads, Schema["squads"])
  BY DocumentTyped
<1>3. p \in Seq(Change) /\ (\A i \in DOMAIN p : p[i].do = "delete") /\ \A s \in DOMAIN db.squads : Outgoing(p, "squads", s)
  BY <1>1 DEF ClearsFor, Clearing
<1>4. \A i \in DOMAIN a : a[i].do = "put" /\ a[i].table = "agents" /\ a[i].rows = d.agents
  BY PutElements
<1>5. a \in Seq(Change)
  <2>1. Listed(a, {"agents"}, {}) /\ Valid(a, {}, {})
    BY <1>2, AgentsPut
  <2> QED
    BY <2>1 DEF Listed
<1>6. SquadPutsRecorded(q)
  BY <1>2, ImportOwes
<1>7. /\ Listed(q, T, {}) /\ q \in Seq(Change)
      /\ \A x \in DOMAIN q : \A s : Puts(q[x], "squads", s) => s \in S
  <2>1. SquadsImported(q, d, T, {}, {})
    BY <1>2, ImportList
  <2> QED
    BY <2>1 DEF SquadsImported, Listed
<1> DEFINE f == p \o a
           cs == f \o q
<1>8. ReplacePlan(op).changes = cs
  BY <1>1
<1> HIDE DEF a, q, d, S
<1>9. f \in Seq(Change) /\ \A i \in DOMAIN f :
        \/ i \in DOMAIN p /\ f[i] = p[i]
        \/ PutsAgents(f[i]) /\ f[i].rows = d.agents
  BY <1>3, <1>4, <1>5, Appended, AppendCases DEF PutsAgents
<1>10. \A s \in DOMAIN db.squads : Outgoing(cs, "squads", s)
  <2>1. \A s \in DOMAIN db.squads : Outgoing(f, "squads", s)
    BY <1>3, <1>5, OutgoingInEither
  <2> QED
    BY <1>7, <1>9, <2>1, OutgoingInEither
<1>11. \A i \in DOMAIN q : ~PutsAgents(q[i]) /\ q[i].do # "delete"
  <2>1. "agents" \notin T
    OBVIOUS
  <2> HIDE DEF T
  <2>2. \A i \in DOMAIN q : ~PutsAgents(q[i])
    BY <1>7, <2>1, ListedOwes
  <2> QED
    BY <1>7, <2>2 DEF Listed
<1>b. cs = f \o q
  OBVIOUS
<1>c. DOMAIN p = 1..Len(p) /\ Len(p) \in Nat /\ DOMAIN f \subseteq Nat /\ \A i \in DOMAIN p : i \in DOMAIN f /\ f[i] = p[i]
  BY <1>3, <1>5, Appended
<1>d. DOMAIN cs \subseteq Nat /\ DOMAIN f = 1..Len(f) /\ Len(f) \in Nat /\ \A i \in DOMAIN f : i \in DOMAIN cs /\ cs[i] = f[i]
  BY <1>7, <1>9, Appended
<1> HIDE DEF f, cs
<1>12. AgentsFirst(cs) /\ AgentPutsRecorded(db, cs)
  <2>1. \A i \in DOMAIN f : f[i].do = "delete" \/ (PutsAgents(f[i]) /\ f[i].rows = d.agents)
    BY <1>3, <1>9
  <2> QED
    BY <1>7, <1>9, <1>10, <1>11, <1>b, <2>1, AgentsLead
<1>13. SquadPutsRecorded(cs)
  <2>1. \A i \in DOMAIN f : f[i].do = "put" => f[i].table # "squads"
    BY <1>3, <1>9 DEF PutsAgents
  <2>2. SquadPutsRecorded(f)
    BY <2>1, NoSquadPuts
  <2> QED
    BY <1>6, <1>7, <1>9, <1>b, <2>2, SquadPutsTwice
<1>14. ASSUME NEW i \in DOMAIN cs, cs[i].do = "delete" PROVE i \in DOMAIN p /\ cs[i] = p[i]
  <2>1. i \in DOMAIN f /\ cs[i] = f[i]
    BY <1>7, <1>9, <1>11, <1>14, <1>b, AppendCases
  <2> QED
    BY <1>9, <1>14, <2>1 DEF PutsAgents
<1>15. \A i \in DOMAIN cs : \A s : Puts(cs[i], "squads", s) => s \in S
  <2>1. \A i \in DOMAIN f : \A s : ~Puts(f[i], "squads", s)
    BY <1>3, <1>9 DEF PutsAgents, Puts
  <2> QED
    BY <1>7, <1>9, <1>b, <2>1, AppendCases
<1>16. OldVersionsDropped(db, cs)
  <2> SUFFICES ASSUME NEW i \in DOMAIN cs, NEW s, NEW n \in Nat, Drops(cs[i], "squadVersions", <<s, n>>)
               PROVE  Leaves(db, cs, s)
    BY DEF OldVersionsDropped
  <2>1. i \in DOMAIN p /\ cs[i] = p[i]
    BY <1>14 DEF Drops
  <2>2. s \notin S
    <3>1. <<s, n>>[1] \notin S
      BY <1>1, <2>1 DEF VersionsSpared, S, d
    <3> QED
      BY <3>1
  <2> QED
    BY <1>10, <1>15, <2>2 DEF Leaves
<1>17. AgentsCleared(db, cs)
  <2> SUFFICES ASSUME NEW i \in DOMAIN cs, NEW x, Drops(cs[i], "agents", x), NEW j \in 1..(i - 1)
               PROVE  cs[j].do # "put"
    BY <1>10 DEF AgentsCleared
  <2>1. i \in DOMAIN p
    BY <1>14 DEF Drops
  <2>2. j \in DOMAIN p
    BY <1>c, <2>1
  <2>3. cs[j] = p[j]
    BY <1>c, <1>d, <2>2
  <2> QED
    BY <1>3, <2>2, <2>3
<1>18. Owed(db, cs) /\ AgentsUnseen(db, cs)
  BY <1>12, <1>13, <1>16, <1>17 DEF Owed, AgentsUnseen
<1> QED
  BY <1>8, <1>18

\* A list that an operation begins with keeps the history, or is never carried out.
LEMMA RunOwes ==
  ASSUME Good(db), Closed(db), NEW op \in Operation, Admitted(op), ~Vacuous(op),
         NEW cs, cs = PlanOf(op).changes
  PROVE  Doomed(cs) \/ (Owed(db, cs) /\ (op.kind = "replace" => AgentsUnseen(db, cs)))
<1>1. Typed(db)
  BY DEF Good
<1>2. CASE op.kind = "createAgent"
  <2>1. op.agent \in Agents /\ op.content \in Contents /\ op.agent \notin DOMAIN db.agents
    BY <1>2, OperationCases DEF Admitted
  <2> QED
    BY <1>2, <2>1, CreateAgentOwes DEF PlanOf
<1>3. CASE op.kind = "updateAgent"
  <2>1. op.agent \in Agents /\ op.content \in Contents
    BY <1>3, OperationCases
  <2> QED
    BY <1>1, <1>3, <2>1, UpdateAgentOwes DEF PlanOf
<1>4. CASE op.kind = "deleteAgent"
  <2>1. op.agent \in Agents
    BY <1>4, OperationCases
  <2> QED
    BY <1>1, <1>4, <2>1, DeleteAgentOwes DEF PlanOf
<1>5. CASE op.kind \in {"createSquad", "updateSquad"}
  <2>1. op.squad \in Squads /\ op.record \in SquadRecordSet
    BY <1>5, OperationCases
  <2> QED
    BY <1>5, <2>1, PutSquadOwes DEF PlanOf
<1>6. CASE op.kind \in {"addMember", "removeMember"}
  <2>1. op.agent \in Agents
    BY <1>6, OperationCases
  <2>2. op.squad \in DOMAIN db.squads
    BY <1>6 DEF Admitted
  <2>3. PlanOf(op) \in {AddMemberPlan(op), RemoveMemberPlan(op)}
    BY <1>6 DEF PlanOf
  <2> QED
    BY <1>1, <1>6, <2>1, <2>2, <2>3, MemberOwes
<1>7. CASE op.kind = "deleteSquad"
  <2>1. op.squad \in Squads
    BY <1>7, OperationCases
  <2>2. op.squad \in DOMAIN db.squads
    BY <1>7 DEF Vacuous
  <2> QED
    BY <1>1, <1>7, <2>1, <2>2, DeleteSquadOwes DEF PlanOf
<1>8. CASE op.kind = "point"
  BY <1>8, PointOwes DEF PlanOf
<1>9. CASE op.kind \in {"merge", "recipe"}
  <2>1. op.document \in DocumentSet
    BY <1>9, OperationCases
  <2> QED
    BY <1>9, <2>1, MergeOwes DEF PlanOf
<1>10. CASE op.kind = "replace"
  <2>1. op.document \in DocumentSet
    BY <1>10, OperationCases
  <2> QED
    BY <1>10, <2>1, ReplaceOwes DEF PlanOf
<1>11. CASE op.kind = "restore"
  <2>1. op.version \in DOMAIN db.squadVersions
    BY <1>11 DEF Admitted
  <2> QED
    BY <1>1, <1>11, <2>1, RestoreOwes DEF PlanOf
<1> QED
  BY <1>2, <1>3, <1>4, <1>5, <1>6, <1>7, <1>8, <1>9, <1>10, <1>11, OperationCases

\* Between operations the history is right: it then is kept by the list of the next.
LEMMA RunHistory ==
  ASSUME Good(db), Closed(db), HistoryCurrent(db), NEW op \in Operation, Admitted(op), ~Vacuous(op),
         NEW cs, cs = PlanOf(op).changes
  PROVE  Doomed(cs) \/ HistoryKept(db, cs)
<1>1. Doomed(cs) \/ (Owed(db, cs) /\ (op.kind = "replace" => AgentsUnseen(db, cs)))
  BY RunOwes
<1>2. op.kind # "replace" => AgentsUnseen(db, cs)
  <2>1. Ready(db, op, PlanOf(op).captured, PlanOf(op).changes)
    BY RunReady
  <2> QED
    BY <2>1 DEF Ready, Sound, ReferencesKept, AgentsUnseen
<1>3. Settled(db, cs)
  BY DEF Settled, HistoryCurrent, Current
<1> QED
  BY <1>1, <1>2, <1>3 DEF HistoryKept, Owed

\* A list that is to throw still is, until it does.
LEMMA DoomedKept ==
  ASSUME NEW g, NEW h, NEW cs, NEW ds, NEW m, Moved(g, cs, h, ds, m), ~Blocked(cs[1]), Doomed(cs)
  PROVE  Doomed(ds)
<1>1. PICK j \in DOMAIN cs : cs[j].do = "throw"
  BY DEF Doomed
<1>2. DOMAIN cs = 1..Len(cs) /\ Len(cs) \in Nat /\ \A y \in DOMAIN cs : y > 1 => y + m - 1 \in DOMAIN ds /\ ds[y + m - 1] = cs[y]
  BY Parts
<1>3. j # 1
  BY <1>1 DEF Blocked
<1>4. j > 1
  BY <1>2, <1>3
<1>5. j + m - 1 \in DOMAIN ds /\ ds[j + m - 1].do = "throw"
  BY <1>1, <1>2, <1>4
<1> QED
  BY <1>5 DEF Doomed

\* The invariant of the history: it is right between operations and before the one
\* in progress, and the calls that are left keep it unless they are to throw.
HistoryInv(g, t, dm) ==
  dm = "none" =>
    /\ t = Free => HistoryCurrent(g)
    /\ t # Free => HistoryCurrent(t.before)
    /\ t.phase = "forward" => Doomed(t.changes) \/ HistoryKept(g, t.changes)

\* An operation begins.
LEMMA HistoryRun ==
  ASSUME DataInv(db, tx, damage), HistoryInv(db, tx, damage), tx = Free, NEW op \in Operation,
         Admitted(op) \/ Vacuous(op), Run(op)
  PROVE  HistoryInv(db, tx', damage)
<1>1. CASE Vacuous(op) \/ PlanOf(op).changes = <<>>
  BY <1>1 DEF Run
<1>2. CASE ~(Vacuous(op) \/ PlanOf(op).changes = <<>>)
  <2> DEFINE captured == PlanOf(op).captured
             changes == PlanOf(op).changes
             t == [op |-> op, before |-> db, phase |-> "forward", aborted |-> FALSE, clearing |-> TRUE,
                   captured |-> captured, changes |-> changes]
  <2>1. tx' = t
    BY <1>2 DEF Run
  <2>2. ASSUME damage = "none" PROVE HistoryCurrent(db) /\ (Doomed(changes) \/ HistoryKept(db, changes))
    <3>1. Good(db) /\ Closed(db) /\ HistoryCurrent(db)
      BY <2>2 DEF DataInv, References, HistoryInv
    <3> QED
      BY <1>2, <3>1, RunHistory
  <2> HIDE DEF captured, changes
  <2>3. t # Free /\ t.before = db /\ t.changes = changes
    BY DEF Free
  <2>4. HistoryInv(db, t, damage)
    BY <2>2, <2>3 DEF HistoryInv
  <2> QED
    BY <2>1, <2>4
<1> QED
  BY <1>1, <1>2

\* An operation that is given up leaves the history to its compensation.
LEMMA HistoryCompensate ==
  ASSUME DataInv(db, tx, damage), HistoryInv(db, tx, damage), Forward, NEW g
  PROVE  HistoryInv(g, Compensate, damage)
<1> DEFINE t == Compensate
<1>1. tx # Free /\ IsTx(tx)
  BY Phases DEF DataInv, Forward
<1>2. t.phase = "rollback" /\ t.before = tx.before
  <2>1. t.phase = "rollback" /\ SameBut(t, tx, {"phase", "changes"})
    BY <1>1, TxUpdates DEF Compensate
  <2> QED
    BY <2>1 DEF SameBut, TxFields
<1> HIDE DEF t
<1>3. t # Free
  BY <1>2 DEF Free
<1>4. HistoryInv(g, t, damage)
  BY <1>1, <1>2, <1>3 DEF HistoryInv
<1> QED
  BY <1>4 DEF t

\* What a call does to the tables and to the list of those left.
LEMMA CallMade ==
  ASSUME DataInv(db, tx, damage), Forward, ~Blocked(Head(tx.changes)), NEW o \in Outcomes(Head(tx.changes)),
         NEW left, left = o.rest \o Tail(tx.changes)
  PROVE  /\ Good(o.db) /\ ~Blocked(tx.changes[1])
         /\ \E m : Moved(db, tx.changes, o.db, left, m) /\ HistoryMoves(db, o.db, tx.changes, left, m)
<1> DEFINE cs == tx.changes
<1>1. Good(db) /\ cs \in Seq(Change) /\ cs # <<>> /\ RecordsHeld(db, cs)
  BY DEF DataInv, CallsLeft, Forward
<1>2. Head(cs) = cs[1]
  BY <1>1
<1> HIDE DEF cs
<1>3. ~Blocked(cs[1]) /\ o \in Outcomes(cs[1])
  BY <1>2 DEF cs
<1>4. Good(o.db) /\ \E m \in Nat : Moved(db, cs, o.db, o.rest \o Tail(cs), m)
  BY <1>1, <1>3, CallMoves
<1>5. left = o.rest \o Tail(cs)
  BY DEF cs
<1>6. PICK m : Moved(db, cs, o.db, left, m)
  BY <1>4, <1>5
<1>7. HistoryMoves(db, o.db, cs, left, m)
  BY <1>1, <1>3, <1>5, <1>6, CallHistory
<1> QED
  BY <1>3, <1>4, <1>6, <1>7 DEF cs

\* A storage call completes.
LEMMA HistoryStep ==
  ASSUME DataInv(db, tx, damage), HistoryInv(db, tx, damage), Step
  PROVE  HistoryInv(db', tx', damage')
<1>1. Forward /\ ~Blocked(Head(tx.changes)) /\ damage' = damage
  BY DEF Step
<1>2. PICK o \in Outcomes(Head(tx.changes)) :
        /\ db' = o.db
        /\ CASE tx.aborted -> tx' = Compensate /\ UNCHANGED currentRevision
             [] ~tx.aborted /\ o.rest \o Tail(tx.changes) = <<>> -> tx' = Free /\ currentRevision' = currentRevision + 1
             [] OTHER -> tx' = [tx EXCEPT !.changes = o.rest \o Tail(tx.changes)] /\ UNCHANGED currentRevision
  BY DEF Step
<1> DEFINE left == o.rest \o Tail(tx.changes)
<1>3. \/ tx' = Compensate
      \/ left = <<>> /\ tx' = Free
      \/ left # <<>> /\ tx' = [tx EXCEPT !.changes = left]
  BY <1>2
<1>4. /\ Good(o.db) /\ ~Blocked(tx.changes[1])
      /\ \E m : Moved(db, tx.changes, o.db, left, m) /\ HistoryMoves(db, o.db, tx.changes, left, m)
  BY <1>1, CallMade
<1> HIDE DEF left
<1>5. tx # Free /\ IsTx(tx) /\ tx.phase = "forward" /\ Good(db) /\ Orderly(tx.changes)
  BY <1>1, Phases DEF DataInv, CallsLeft, Forward
<1>6. ASSUME damage = "none" PROVE Doomed(left) \/ HistoryKept(o.db, left)
  <2>1. PICK m : Moved(db, tx.changes, o.db, left, m) /\ HistoryMoves(db, o.db, tx.changes, left, m)
    BY <1>4
  <2>2. CASE Doomed(tx.changes)
    BY <1>4, <2>1, <2>2, DoomedKept
  <2>3. CASE HistoryKept(db, tx.changes)
    BY <1>4, <1>5, <2>1, <2>3, HistoryAfter
  <2> QED
    BY <1>5, <1>6, <2>2, <2>3 DEF HistoryInv
<1>7. CASE tx' = Compensate
  BY <1>1, <1>7, HistoryCompensate
<1>8. CASE left = <<>> /\ tx' = Free
  <2>1. ASSUME damage = "none" PROVE HistoryCurrent(o.db)
    <3>1. HistoryKept(o.db, <<>>)
      BY <1>6, <1>8, <2>1 DEF Doomed
    <3>2. \A s \in DOMAIN o.db.squads : Current(o.db, s)
      BY <3>1 DEF HistoryKept, Settled, RecordedIn, Outgoing
    <3> QED
      BY <3>2 DEF HistoryCurrent, Current
  <2>2. Free.phase = "free"
    BY DEF Free
  <2>3. HistoryInv(o.db, Free, damage)
    BY <2>1, <2>2 DEF HistoryInv
  <2> QED
    BY <1>1, <1>2, <1>8, <2>3
<1>9. CASE left # <<>> /\ tx' = [tx EXCEPT !.changes = left]
  <2> DEFINE t == [tx EXCEPT !.changes = left]
  <2>1. t.phase = "forward" /\ t.changes = left /\ t.before = tx.before
    <3>1. IsTx(t) /\ t.changes = left /\ SameBut(t, tx, {"changes"})
      BY <1>5, TxUpdates
    <3> QED
      BY <1>5, <3>1 DEF SameBut, TxFields
  <2> HIDE DEF t
  <2>2. t # Free
    BY <2>1 DEF Free
  <2>3. HistoryInv(o.db, t, damage)
    BY <1>5, <1>6, <2>1, <2>2 DEF HistoryInv
  <2> QED
    BY <1>1, <1>2, <1>9, <2>3 DEF t
<1> QED
  BY <1>3, <1>7, <1>8, <1>9

\* An abort is noted.
LEMMA HistoryAbort ==
  ASSUME DataInv(db, tx, damage), HistoryInv(db, tx, damage), AbortOperation
  PROVE  HistoryInv(db', tx', damage')
<1> DEFINE t == [tx EXCEPT !.aborted = TRUE]
<1>1. Forward /\ damage' = damage /\ tx' = t /\ db' = db
  BY DEF AbortOperation
<1>2. tx # Free /\ IsTx(tx) /\ tx.phase = "forward"
  BY <1>1, Phases DEF DataInv, Forward
<1>3. t.phase = "forward" /\ t.changes = tx.changes /\ t.before = tx.before
  <2>1. IsTx(t) /\ SameBut(t, tx, {"aborted"})
    BY <1>2, TxUpdates
  <2> QED
    BY <1>2, <2>1 DEF SameBut, TxFields
<1> HIDE DEF t
<1>4. t # Free
  BY <1>3 DEF Free
<1>5. HistoryInv(db, t, damage)
  BY <1>2, <1>3, <1>4 DEF HistoryInv
<1> QED
  BY <1>1, <1>5

\* A call of a compensation.
LEMMA HistoryRestoreTable ==
  ASSUME DataInv(db, tx, damage), HistoryInv(db, tx, damage), RestoreTable
  PROVE  HistoryInv(db', tx', damage')
<1>1. Rollback /\ damage' = damage
  BY DEF RestoreTable
<1>2. tx # Free
  BY <1>1, RollbackTx
<1>3. /\ tx' = Free /\ damage' # "graph" => db' = tx.before
      /\ tx' # Free => tx'.before = tx.before
  BY DataRestoreTable
<1>4. tx'.phase # "forward"
  <2>1. IsTx(tx) /\ tx.phase = "rollback"
    BY <1>1, RollbackTx
  <2>2. PICK front : tx' \in {tx, [tx EXCEPT !.clearing = FALSE], Free, [tx EXCEPT !.captured = front, !.clearing = TRUE]}
    BY DEF RestoreTable, NextTable
  <2>3. CASE tx' = [tx EXCEPT !.clearing = FALSE]
    BY <2>1, <2>3, TxUpdates DEF SameBut, TxFields
  <2>4. CASE tx' = [tx EXCEPT !.captured = front, !.clearing = TRUE]
    <3>1. SameBut(tx', tx, {"captured", "clearing"})
      BY <2>1, <2>4, TxUpdates
    <3> QED
      BY <2>1, <3>1 DEF SameBut, TxFields
  <2> QED
    BY <2>1, <2>2, <2>3, <2>4 DEF Free
<1> QED
  BY <1>1, <1>2, <1>3, <1>4 DEF HistoryInv

\* The host dies: where an operation was under way, the history may be wrong.
LEMMA HistoryCrash ==
  ASSUME HistoryInv(db, tx, damage), Crash
  PROVE  HistoryInv(db', tx', damage')
<1>1. db' = db /\ tx' = Free /\ (damage' = "none" => tx = Free /\ damage = "none")
  BY DEF Crash
<1>2. Free.phase # "forward"
  BY DEF Free
<1> QED
  BY <1>1, <1>2 DEF HistoryInv

\* The invariant of the history is kept by every step.
LEMMA HistoryInvKept ==
  ASSUME DInv, HistoryInv(db, tx, damage), [DefinitionsNext]_definitionsVars
  PROVE  HistoryInv(db', tx', damage')
<1>1. DataInv(db, tx, damage)
  BY DEF DInv
<1>2. CASE db' = db /\ tx' = tx /\ damage' = damage
  BY <1>2 DEF HistoryInv
<1>3. ASSUME NEW op \in Operation, tx = Free, Admitted(op) \/ Vacuous(op), Run(op), db' = db, damage' = damage
      PROVE  HistoryInv(db', tx', damage')
  BY <1>1, <1>3, HistoryRun
<1>4. ASSUME NEW c \in Clients, NEW op \in Operations, Preview(c, op) \/ Observe(c, op)
      PROVE  HistoryInv(db', tx', damage')
  BY <1>2, <1>4 DEF Preview, PreviewImport, PreviewRecipe, PreviewRestore, Show, Observe
<1>5. ASSUME NEW c \in Clients, NEW op \in Operations, Begin(c, op)
      PROVE  HistoryInv(db', tx', damage')
  BY <1>3, <1>5, OperationsAssumption DEF Begin, MayAsk
<1>6. ASSUME NEW c \in Clients, ConfirmPreview(c) \/ GiveUp(c)
      PROVE  HistoryInv(db', tx', damage')
  BY <1>2, <1>6 DEF ConfirmPreview, GiveUp
<1>7. ASSUME NEW c \in Clients, EnterSection(c)
      PROVE  HistoryInv(db', tx', damage')
  <2>1. /\ tx = Free /\ call[c].stage = "validating" /\ db' = db /\ damage' = damage
        /\ (Admitted(call[c].op) /\ Run(call[c].op)) \/ tx' = tx
    BY <1>7 DEF EnterSection
  <2>2. CallOK(call[c], currentRevision, process, Committed, damage)
    BY DEF DInv, CallsInv
  <2>3. call[c].op \in Operation
    BY <2>1, <2>2 DEF CallOK, Idle
  <2> QED
    BY <1>2, <1>3, <2>1, <2>3
<1>8. CASE Refuse \/ StepFails
  <2>1. Forward /\ tx' = Compensate /\ damage' = damage
    BY <1>8 DEF Refuse, StepFails
  <2> QED
    BY <1>1, <2>1, HistoryCompensate
<1>9. CASE RestoreFails
  BY <1>9 DEF RestoreFails, HistoryInv
<1>10. CASE Step \/ AbortOperation \/ RestoreTable \/ Crash
  BY <1>1, <1>10, HistoryStep, HistoryAbort, HistoryRestoreTable, HistoryCrash
<1>11. CASE UNCHANGED definitionsVars
  BY <1>2, <1>11 DEF definitionsVars
<1> QED
  BY <1>4, <1>5, <1>6, <1>7, <1>8, <1>9, <1>10, <1>11 DEF DefinitionsNext

\* The invariant of the history holds throughout.
LEMMA HistoryInvHolds == DefinitionsSpec => []HistoryInv(db, tx, damage)
<1>1. DefinitionsInit => HistoryInv(db, tx, damage)
  <2> SUFFICES ASSUME DefinitionsInit PROVE HistoryInv(db, tx, damage)
    OBVIOUS
  <2>1. tx = Free /\ Free.phase = "free" /\ HistoryCurrent(db)
    BY HistoryAssumption DEF DefinitionsInit, Free
  <2> QED
    BY <2>1 DEF HistoryInv
<1>2. DInv /\ HistoryInv(db, tx, damage) /\ [DefinitionsNext]_definitionsVars => HistoryInv(db, tx, damage)'
  BY HistoryInvKept
<1> QED
  BY <1>1, <1>2, InvHolds, PTL DEF DefinitionsSpec

\* A call of an operation writes no version over another.
LEMMA VersionsOfCall ==
  ASSUME DataInv(db, tx, damage), Forward, ~Blocked(Head(tx.changes)), NEW o \in Outcomes(Head(tx.changes)),
         NEW k \in DOMAIN db["squadVersions"] \intersect DOMAIN o.db["squadVersions"]
  PROVE  o.db["squadVersions"][k] = db["squadVersions"][k]
<1>1. PICK left : left = o.rest \o Tail(tx.changes)
  OBVIOUS
<1>2. PICK m : Moved(db, tx.changes, o.db, left, m)
  BY <1>1, CallMade
<1>3. VersionsMove(db, o.db, tx.changes[1])
  BY <1>2 DEF Moved, Advances
<1>4. IsTable(db["squadVersions"], Schema.squadVersions)
  BY TypedTables DEF DataInv, Good, Tables
<1>5. ASSUME NEW q PROVE k # <<q, Latest(db, q) + 1>>
  <2>1. Latest(db, q) \in Nat
    BY <1>4, LatestThere
  <2>2. ASSUME k = <<q, Latest(db, q) + 1>> PROVE FALSE
    <3>1. Latest(db, q) + 1 <= Latest(db, q)
      BY <1>4, <2>1, <2>2, NewestVersion
    <3> QED
      BY <2>1, <3>1
  <2> QED
    BY <2>2
<1> QED
  BY <1>3, <1>5 DEF VersionsMove

\* A table is written that keeps the values of the rows it had.
LEMMA VersionsOfWrite ==
  ASSUME NEW g, IsGraph(g), NEW w \in Tables, NEW table, NEW h, h = [g EXCEPT ![w] = table],
         \A x \in DOMAIN g[w] \intersect DOMAIN table : table[x] = g[w][x],
         NEW k \in DOMAIN g["squadVersions"] \intersect DOMAIN h["squadVersions"]
  PROVE  h["squadVersions"][k] = g["squadVersions"][k]
<1>1. h[w] = table /\ Written(g, h, w)
  BY GraphFun DEF Written
<1>2. CASE w = "squadVersions"
  BY <1>1, <1>2
<1>3. CASE w # "squadVersions"
  BY <1>1, <1>3 DEF Written, Tables
<1> QED
  BY <1>2, <1>3

\* Neither does a call of a compensation.
LEMMA VersionsOfRestore ==
  ASSUME DataInv(db, tx, damage), RestoreTable,
         NEW k \in DOMAIN db["squadVersions"] \intersect DOMAIN db'["squadVersions"]
  PROVE  db'["squadVersions"][k] = db["squadVersions"][k]
<1>1. Table \in Tables /\ IsGraph(db)
  BY RollbackTx DEF RestoreTable, DataInv, Good
<1>2. db' = db \/ \E table : /\ db' = [db EXCEPT ![Table] = table]
                             /\ \A x \in DOMAIN db[Table] \intersect DOMAIN table : table[x] = db[Table][x]
  <2>1. CASE \E x \in DOMAIN db[Table] : db' = [db EXCEPT ![Table] = Without(@, {x})]
    <3>1. PICK x \in DOMAIN db[Table] : db' = [db EXCEPT ![Table] = Without(db[Table], {x})]
      BY <2>1
    <3>2. PICK table : table = Without(db[Table], {x})
      OBVIOUS
    <3>3. \A y \in DOMAIN db[Table] : y \notin {x} => table[y] = db[Table][y]
      BY <3>2, WithoutRows
    <3>4. \A y \in DOMAIN table : y # x
      <4>1. DOMAIN Without(db[Table], {x}) = DOMAIN db[Table] \ {x}
        BY WithoutDomain
      <4> QED
        BY <3>2, <4>1
    <3> QED
      BY <3>1, <3>2, <3>3, <3>4
  <2>2. CASE \E x : x \notin DOMAIN db[Table] /\ db' = [db EXCEPT ![Table] = Laid(Row(x, tx.before[Table][x]), @)]
    <3>1. PICK x : x \notin DOMAIN db[Table] /\ db' = [db EXCEPT ![Table] = Laid(Row(x, tx.before[Table][x]), db[Table])]
      BY <2>2
    <3>2. PICK v : v = tx.before[Table][x]
      OBVIOUS
    <3>3. PICK table : table = Laid(Row(x, v), db[Table])
      OBVIOUS
    <3>4. \A y \in DOMAIN db[Table] : y # x => table[y] = db[Table][y]
      BY <3>3, LaidRow
    <3> QED
      BY <3>1, <3>2, <3>3, <3>4
  <2> QED
    BY <2>1, <2>2 DEF RestoreTable
<1>3. CASE db' = db
  BY <1>3
<1>4. CASE db' # db
  <2>1. PICK table : /\ db' = [db EXCEPT ![Table] = table]
                     /\ \A x \in DOMAIN db[Table] \intersect DOMAIN table : table[x] = db[Table][x]
    BY <1>2, <1>4
  <2>2. IsGraph(db) /\ Table \in Tables
    BY <1>1
  <2> QED
    BY <2>1, <2>2, VersionsOfWrite
<1> QED
  BY <1>3, <1>4

\* Between operations the newest version of every squad is the squad and its
\* members as they are: whatever creates, edits, imports, restores or deletes them
\* records what it changed, also where its operation failed, was aborted and
\* compensated.  And no step ever changes a recorded version: a new one takes a
\* number that no version of the squad has, a compensation puts back only what is
\* missing.
THEOREM HistoryStaysRight == DefinitionsSpec => HistoryIsRight
<1> DEFINE Kept == VersionsKept
<1>1. HistoryInv(db, tx, damage) => HistoryIsCurrent
  BY DEF HistoryInv, HistoryIsCurrent
<1>2. DInv /\ [DefinitionsNext]_definitionsVars => Kept
  <2> SUFFICES ASSUME DInv, [DefinitionsNext]_definitionsVars,
                      NEW k \in DOMAIN db["squadVersions"] \intersect DOMAIN db'["squadVersions"]
               PROVE  db'["squadVersions"][k] = db["squadVersions"][k]
    BY DEF VersionsKept
  <2>1. CASE db' = db
    BY <2>1
  <2>2. CASE db' # db
    <3>1. DataInv(db, tx, damage)
      BY DEF DInv
    <3>2. Step \/ StepFails \/ RestoreTable
      BY <2>2 DEF DefinitionsNext, definitionsVars, Preview, PreviewImport, PreviewRecipe, PreviewRestore, Show,
                  Observe, Begin, ConfirmPreview, GiveUp, EnterSection, Refuse, AbortOperation, RestoreFails, Crash
    <3>3. CASE Step \/ StepFails
      <4>1. Forward /\ ~Blocked(Head(tx.changes)) /\ \E o \in Outcomes(Head(tx.changes)) : db' = o.db
        BY <2>2, <3>3 DEF Step, StepFails
      <4> QED
        BY <3>1, <4>1, VersionsOfCall
    <3>4. CASE RestoreTable
      BY <3>1, <3>4, VersionsOfRestore
    <3> QED
      BY <3>2, <3>3, <3>4
  <2> QED
    BY <2>1, <2>2
<1>3. [][Kept]_definitionsVars <=> [][VersionsKept]_definitionsVars
  OBVIOUS
<1> HIDE DEF Kept
<1> QED
  BY <1>1, <1>2, <1>3, InvHolds, HistoryInvHolds, PTL DEF HistoryIsRight, DefinitionsSpec

=============================================================================
