-------------------------- MODULE MCMemberScheduler --------------------------
EXTENDS MemberScheduler

\* Every dependency graph over three members, every policy, and the limits
\* and budgets at which batches, waves and retries get in each other's way.
Graphs == {g \in [Members -> SUBSET Members] : \A m \in Members : \A d \in g[m] : d < m}

MCSquads ==
  [deps : Graphs, limit : Members, policy : Policies, budget : {NoBudget, 1, 2}, reused : {{}, {1}}]

MCSmallSquads ==
  [deps : Graphs, limit : Members, policy : Policies, budget : {NoBudget, 1}, reused : {{}}]
=============================================================================
