--------------------------- MODULE MCDefinitions ---------------------------
EXTENDS Definitions

CONSTANTS a1, a2, s1, s2, x1, p1, old, new, c1, c2

MCAgents == {a1, a2}
MCSquads == {s1, s2}
MCSessions == {x1}
MCProjects == {p1}
MCContents == {old, new}

One(a) == [members |-> {a}, leader |-> NoAgent, gate |-> {}]
Pair == [members |-> {a1, a2}, leader |-> a1, gate |-> {}]
Loose == [members |-> {a1, a2}, leader |-> NoAgent, gate |-> {}]
Gated == [members |-> {a1, a2}, leader |-> NoAgent, gate |-> {a1, a2}]
MCSquadRecords == {One(a1), Pair, Loose, Gated}

\* Two squads that share agents, the first with a history that was pruned and
\* chosen everywhere.
Old(a) == [b \in {a1, a2} |-> IF b = a THEN old ELSE new]
Installed ==
  [agents |-> Old(a2),
   squads |-> [s \in {s1, s2} |-> IF s = s1 THEN Pair ELSE Loose],
   sessionModes |-> [x \in {x1} |-> s1],
   nextModes |-> [x \in {x1} |-> s1],
   projectDefaults |-> [p \in {p1} |-> s1],
   squadVersions |->
     [k \in {<<s1, 2>>, <<s1, 3>>, <<s2, 1>>} |->
        CASE k = <<s1, 2>> -> [record |-> Gated, members |-> [b \in {a1, a2} |-> old]]
          [] k = <<s1, 3>> -> [record |-> Pair, members |-> Old(a2)]
          [] OTHER -> [record |-> Loose, members |-> Old(a2)]]]
MCStartGraphs == {Installed}

\* A recipe, a backup whose squad needs an agent it does not bring, and a
\* backup of another squad.
Recipe == [agents |-> [a \in {a1, a2} |-> IF a = a1 THEN new ELSE old], squads |-> [s \in {s2} |-> Pair]]
Partial == [agents |-> [a \in {a1} |-> new], squads |-> [s \in {s1} |-> Gated]]
Other == [agents |-> [a \in {a2} |-> new], squads |-> [s \in {s2} |-> One(a2)]]
MCDocuments == {Recipe, Partial, Other}

MCOperations ==
  {[kind |-> "createAgent", agent |-> a1, content |-> old],
   [kind |-> "updateAgent", agent |-> a1, content |-> old],
   [kind |-> "deleteAgent", agent |-> a1],
   [kind |-> "createSquad", squad |-> s1, record |-> Gated],
   [kind |-> "updateSquad", squad |-> s1, record |-> One(a1)],
   [kind |-> "addMember", squad |-> s1, agent |-> a1],
   [kind |-> "removeMember", squad |-> s1, agent |-> a1],
   [kind |-> "deleteSquad", squad |-> s1],
   [kind |-> "point", table |-> "sessionModes", key |-> x1, squad |-> NoSquad],
   [kind |-> "point", table |-> "nextModes", key |-> x1, squad |-> s2],
   [kind |-> "point", table |-> "projectDefaults", key |-> p1, squad |-> Nothing],
   [kind |-> "merge", document |-> Partial],
   [kind |-> "recipe", document |-> Recipe],
   [kind |-> "replace", document |-> Other],
   [kind |-> "restore", version |-> <<s1, 2>>]}



ClientSymmetry == Permutations(Clients)
=============================================================================
