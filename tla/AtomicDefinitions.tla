------------------------- MODULE AtomicDefinitions -------------------------
(***************************************************************************)
(* What the definition service promises about the definition graph: every  *)
(* operation changes all of its tables in one step or none of them.        *)
(***************************************************************************)
EXTENDS DefinitionGraph

VARIABLE graph

CreateAgent(a, c) ==
  /\ a \notin DOMAIN graph.agents
  /\ graph' = [graph EXCEPT !.agents = Laid(Row(a, c), @)]

UpdateAgent(a, c) ==
  /\ a \in DOMAIN graph.agents
  /\ graph' = Recorded([graph EXCEPT !.agents = Laid(Row(a, c), @)], MembersOf(graph, a))

DeleteAgent(a) ==
  /\ a \in DOMAIN graph.agents
  /\ \A s \in MembersOf(graph, a) :
       graph.squads[s].members # {a} /\ a \notin graph.squads[s].gate
  /\ graph' = Recorded(
       [graph EXCEPT !.agents = Without(@, {a}),
                     !.squads = [s \in DOMAIN @ |-> DropMember(@[s], a)]],
       MembersOf(graph, a))

PutSquad(s, r) ==
  /\ ValidSquad(r, DOMAIN graph.agents)
  /\ graph' = Recorded([graph EXCEPT !.squads = Laid(Row(s, r), @)], {s})

CreateSquad(s, r) == s \notin DOMAIN graph.squads /\ PutSquad(s, r)
UpdateSquad(s, r) == s \in DOMAIN graph.squads /\ PutSquad(s, r)

AddMember(s, a) ==
  /\ s \in DOMAIN graph.squads
  /\ a \notin graph.squads[s].members
  /\ PutSquad(s, AddTo(graph.squads[s], a))

RemoveMember(s, a) ==
  /\ s \in DOMAIN graph.squads
  /\ a \notin graph.squads[s].gate
  /\ PutSquad(s, DropMember(graph.squads[s], a))

DeleteSquad(s) ==
  /\ s \in DOMAIN graph.squads
  /\ graph' = WithoutSquads(graph, {s})

SetSessionMode(x, s) ==
  /\ s \in DOMAIN graph.squads \union {NoSquad}
  /\ graph' = [graph EXCEPT !.sessionModes = Laid(Row(x, s), @)]

InheritSessionMode(x) == graph' = [graph EXCEPT !.sessionModes = Without(@, {x})]

SetNextMode(x, s) ==
  /\ s \in DOMAIN graph.squads \union {NoSquad}
  /\ graph' = [graph EXCEPT !.nextModes = Laid(Row(x, s), @)]

InheritNextMode(x) == graph' = [graph EXCEPT !.nextModes = Without(@, {x})]

SetProjectDefault(p, s) ==
  /\ s \in DOMAIN graph.squads
  /\ graph' = [graph EXCEPT !.projectDefaults = Laid(Row(p, s), @)]

ClearProjectDefault(p) == graph' = [graph EXCEPT !.projectDefaults = Without(@, {p})]

MergeDocument(d) ==
  /\ ValidDocument(d, DOMAIN graph.agents)
  /\ LET merged == Overlaid(graph, d.agents, d.squads)
     IN graph' = Recorded(merged, DOMAIN d.squads \union Affected(merged, Changed(graph, d.agents), {}))

ReplaceWithDocument(d) ==
  /\ ValidDocument(d, {})
  /\ LET cleared == WithoutSquads([graph EXCEPT !.agents = d.agents], DOMAIN graph.squads \ DOMAIN d.squads)
     IN graph' = Recorded([cleared EXCEPT !.squads = d.squads], DOMAIN d.squads)

\* restoreSquadVersion: the snapshot's members are written back as well.
RestoreVersion(s, n) ==
  /\ <<s, n>> \in DOMAIN graph.squadVersions
  /\ LET found == graph.squadVersions[<<s, n>>]
         changed == {a \in DOMAIN found.members :
                       a \notin DOMAIN graph.agents \/ graph.agents[a] # found.members[a]}
         restored == Overlaid(graph, found.members, Row(s, found.record))
     IN /\ ValidSquad(found.record, DOMAIN restored.agents)
        /\ graph' = Recorded(restored, {s} \union Affected(restored, changed, {s}))

AtomicNext ==
  \/ \E a \in Agents, c \in Contents : CreateAgent(a, c) \/ UpdateAgent(a, c)
  \/ \E a \in Agents : DeleteAgent(a)
  \/ \E s \in Squads, r \in SquadRecords : CreateSquad(s, r) \/ UpdateSquad(s, r)
  \/ \E s \in Squads, a \in Agents : AddMember(s, a) \/ RemoveMember(s, a)
  \/ \E s \in Squads : DeleteSquad(s)
  \/ \E x \in Sessions, s \in Squads \union {NoSquad} : SetSessionMode(x, s) \/ SetNextMode(x, s)
  \/ \E x \in Sessions : InheritSessionMode(x) \/ InheritNextMode(x)
  \/ \E p \in Projects, s \in Squads : SetProjectDefault(p, s)
  \/ \E p \in Projects : ClearProjectDefault(p)
  \/ \E d \in Documents : MergeDocument(d) \/ ReplaceWithDocument(d)
  \/ \E k \in DOMAIN graph.squadVersions : RestoreVersion(k[1], k[2])

AtomicInit == graph \in StartGraphs

AtomicSpec == AtomicInit /\ [][AtomicNext]_graph

=============================================================================
