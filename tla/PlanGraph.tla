----------------------------- MODULE PlanGraph -----------------------------
(***************************************************************************)
(* The validation of an execution plan and its waves                       *)
(* (validateExecutionPlan and executionWaves in                            *)
(* src/src/tools/orchestration.ts).  A proposal comes from a planner, a    *)
(* stored run or the lead; what is accepted is stored and executed.        *)
(*                                                                         *)
(* A proposal has its assignments in nodes, a sequence of members, their   *)
(* dependencies in deps and its memberOrder in order.                      *)
(***************************************************************************)
EXTENDS Naturals, SequencesExt

CONSTANTS
  Members,      \* the squad's members, in the squad's order 1, 2, ...
  Strangers,    \* identities outside the squad
  Proposals,    \* what validateExecutionPlan may be given
  RequireAll    \* options.requireAllMembers

Identities == Members \union Strangers

ASSUME MembersAssumption ==
  /\ Members = 1..Cardinality(Members)
  /\ Strangers \subseteq Nat \ Members
  /\ RequireAll \in BOOLEAN

Plans == [nodes : Seq(Identities), order : Seq(Identities), deps : [Identities -> SUBSET Identities]]

ASSUME ProposalsAssumption == Proposals \subseteq Plans

VARIABLES
  plan,       \* the proposal under validation
  stage,
  indegree,   \* dependencies of a member that are not placed yet
  ready,      \* the members without one, queued in the planner's order
  placed      \* the order computed so far

planVars == <<plan, stage, indegree, ready, placed>>

Position(s, x) == CHOOSE i \in 1..Len(s) : s[i] = x
Nodes(p) == ToSet(p.nodes)

\* Identities: members of the squad, each with one assignment.
NodesAreMembers(p) ==
  /\ p.nodes # <<>>
  /\ Nodes(p) \subseteq Members
  /\ IsInjective(p.nodes)
  /\ RequireAll => Nodes(p) = Members

DependenciesAreSelected(p) == \A n \in Nodes(p) : p.deps[n] \subseteq Nodes(p) \ {n}

\* memberOrder names every selected member once.
OrderIsComplete(p) == Len(p.order) = Len(p.nodes) /\ ToSet(p.order) = Nodes(p)

\* Fault: the order is taken as it is.
OrderIsTaken(p) == TRUE

\* No dependency is placed after its dependent.
OrderRespectsDependencies(p) ==
  \A n \in Nodes(p) : \A d \in p.deps[n] : Position(p.order, d) < Position(p.order, n)

WellFormed(p) ==
  /\ NodesAreMembers(p) /\ DependenciesAreSelected(p)
  /\ OrderIsComplete(p) /\ OrderRespectsDependencies(p)

\* Fault: the queue is in the squad's order.
FirstOfSquad(p, queue) == CHOOSE n \in queue : \A m \in queue : n <= m

\* The queue is sorted by the planner's order after every push.
First(p, queue) == CHOOSE n \in queue : \A m \in queue : Position(p.order, n) <= Position(p.order, m)

Propose(p) ==
  /\ plan = p
  /\ stage = "proposed"
  /\ indegree = [n \in Identities |-> 0]
  /\ ready = {} /\ placed = <<>>

Refuse ==
  /\ stage = "proposed"
  /\ ~WellFormed(plan)
  /\ stage' = "refused"
  /\ UNCHANGED <<plan, indegree, ready, placed>>

StartSort ==
  /\ stage = "proposed"
  /\ WellFormed(plan)
  /\ indegree' = [n \in Identities |-> IF n \in Nodes(plan) THEN Cardinality(plan.deps[n]) ELSE 0]
  /\ ready' = {n \in Nodes(plan) : plan.deps[n] = {}}
  /\ stage' = "sorting"
  /\ UNCHANGED <<plan, placed>>

Followers(n) == {m \in Nodes(plan) : n \in plan.deps[m]}

\* Fault: a member is ready when one of its dependencies is placed.
PlaceOnFirst ==
  /\ stage = "sorting"
  /\ ready # {}
  /\ LET n == First(plan, ready)
     IN  /\ placed' = Append(placed, n)
         /\ ready' = (ready \ {n}) \union Followers(n)
  /\ UNCHANGED <<plan, stage, indegree>>

Place ==
  /\ stage = "sorting"
  /\ ready # {}
  /\ LET n == First(plan, ready)
     IN  /\ placed' = Append(placed, n)
         /\ indegree' = [m \in Identities |-> IF m \in Followers(n) THEN indegree[m] - 1 ELSE indegree[m]]
         /\ ready' = (ready \ {n}) \union {m \in Followers(n) : indegree[m] = 1}
  /\ UNCHANGED <<plan, stage>>

\* The accepted plan is stored in the computed order.
FinishSort ==
  /\ stage = "sorting"
  /\ ready = {}
  /\ IF Len(placed) = Len(plan.nodes)
       THEN stage' = "accepted" /\ plan' = [plan EXCEPT !.order = placed, !.nodes = placed]
       ELSE stage' = "cyclic" /\ UNCHANGED plan
  /\ UNCHANGED <<indegree, ready, placed>>

Validate == Refuse \/ StartSort \/ Place \/ FinishSort

(***************************************************************************)
(* executionWaves: what has run after the first k waves, in their order.   *)
(***************************************************************************)
\* The nodes of S, in their order.
Kept(nodes, S) ==
  LET upTo[k \in 0..Len(nodes)] ==
        IF k = 0 THEN <<>>
        ELSE IF nodes[k] \in S THEN Append(upTo[k - 1], nodes[k]) ELSE upTo[k - 1]
  IN upTo[Len(nodes)]

\* Fault: one finished dependency is enough.
WaveOnAny(nodes, deps, ran) ==
  {n \in ToSet(nodes) : n \notin ToSet(ran) /\ (deps[n] = {} \/ deps[n] \intersect ToSet(ran) # {})}

\* Who has not run, and has nothing to wait for.
Wave(nodes, deps, ran) == {n \in ToSet(nodes) : n \notin ToSet(ran) /\ deps[n] \subseteq ToSet(ran)}

Ran(nodes, deps) ==
  LET run[k \in 0..Len(nodes)] ==
        IF k = 0 THEN <<>> ELSE run[k - 1] \o Kept(nodes, Wave(nodes, deps, run[k - 1]))
  IN run

Flat(nodes, deps) == Ran(nodes, deps)[Len(nodes)]

\* No wave is empty before every node has run.
WavesEnd(nodes, deps) == Len(Flat(nodes, deps)) = Len(nodes)

(***************************************************************************)
(* Properties.                                                             *)
(***************************************************************************)
\* The stages and the computed order: every member is placed once.
PlanTypeOK ==
  /\ stage \in {"proposed", "refused", "sorting", "cyclic", "accepted"}
  /\ IsInjective(placed) /\ ready \intersect ToSet(placed) = {}
  /\ \A n \in Identities : indegree[n] \in 0..Len(plan.nodes)

\* The order of the planner is the order computed, member by member: it is
\* only checked, never rewritten.
PlannersOrderStands ==
  stage \in {"sorting", "cyclic", "accepted"} =>
    /\ placed = SubSeq(plan.order, 1, Len(placed))
    /\ stage = "accepted" => Len(placed) = Len(plan.nodes)

\* Some members can never be run: each waits for another of them.
Cyclic(p) ==
  \E S \in (SUBSET Nodes(p)) \ {{}} : \A n \in S : p.deps[n] \intersect S # {}

\* A plan with a cycle is refused before it is sorted, and the sort always
\* places every member.
CyclesAreRefused == /\ stage # "cyclic"
                    /\ Cyclic(plan) => stage \in {"proposed", "refused"}

\* The waves of an accepted plan end, and a member is in a later wave than
\* what it depends on.
AcceptedPlanRuns ==
  stage = "accepted" =>
    LET ran == Ran(plan.nodes, plan.deps)
        after(k) == ToSet(ran[k])
    IN /\ WavesEnd(plan.nodes, plan.deps) /\ IsInjective(ran[Len(plan.nodes)])
       /\ \A n \in Nodes(plan) : \A d \in plan.deps[n] :
            \E k \in DOMAIN ran : d \in after(k) /\ n \notin after(k)

\* What is accepted can be executed as its planner meant it.
AcceptedPlanIsSound == PlannersOrderStands /\ CyclesAreRefused /\ AcceptedPlanRuns
=============================================================================
