-------------------------- MODULE ContinuationPlan --------------------------
(***************************************************************************)
(* What a continuation may change of a failed plan (prepareContinuation in *)
(* src/src/tools/continuation.ts): members that failed and what rests on   *)
(* them run again, independent successes are reused.  The plan made of the *)
(* lead's request goes through the validation of PlanGraph, as do the      *)
(* proposals of planners.                                                  *)
(***************************************************************************)
EXTENDS PlanGraph

CONSTANTS Sources,    \* plans that were accepted and run
          Requests    \* [changed, deps]: the assignments a lead submits

ASSUME RequestsAssumption == Requests \subseteq [changed : SUBSET Identities, deps : [Identities -> SUBSET Identities]]

ASSUME SourcesAssumption ==
  \A s \in Sources : s \in Plans /\ s.order = s.nodes /\ NodesAreMembers(s) /\ DependenciesAreSelected(s)
                       /\ OrderRespectsDependencies(s)

VARIABLES
  source,     \* the plan of the settled run
  completed,  \* its members that completed
  fixed,      \* squad.executionOrder is configured
  request,    \* the lead's request
  step,       \* where prepareContinuation is
  editable,   \* tasks that failed, and successes that rest on them
  affected    \* tasks that are run again

callVars == <<source, completed, fixed, request>>
continueVars == <<planVars, callVars, step, editable, affected>>

Failed == Nodes(source) \ completed

\* An assignment replaces the dependencies it was given for, or keeps them.
NewDeps == [n \in Identities |-> IF n \in request.changed THEN request.deps[n] ELSE source.deps[n]]

\* A squad with a fixed order runs serially, so its plan is a chain.
Chain(p) == \A i \in 1..Len(p.nodes) : p.deps[p.nodes[i]] = IF i = 1 THEN {} ELSE {p.nodes[i - 1]}

ContinueInit ==
  /\ source \in Sources
  /\ completed \in SUBSET Nodes(source)
  /\ fixed \in BOOLEAN /\ (fixed => Chain(source))
  /\ request \in Requests
  /\ Propose(source)
  /\ step = "checking"
  /\ editable = {} /\ affected = {}

\* A planner's proposal, or the stored plan of a retry: nothing to continue.
PlannedInit ==
  /\ source \in Proposals
  /\ completed = {} /\ fixed = FALSE
  /\ request = [changed |-> {}, deps |-> source.deps]
  /\ Propose(source)
  /\ step = "planned"
  /\ editable = {} /\ affected = {}

Refused == step' = "refused" /\ UNCHANGED <<planVars, callVars, editable, affected>>

\* Known tasks only, and every unfinished one has its remaining assignment.
RequestCovers ==
  /\ request.changed \subseteq Nodes(source)
  /\ Failed # {} /\ Failed \subseteq request.changed

CheckRequest ==
  /\ step = "checking"
  /\ \/ ~RequestCovers /\ Refused
     \/ /\ RequestCovers
        /\ editable' = Failed
        /\ affected' = Failed
        /\ step' = "expanding"
        /\ UNCHANGED <<planVars, callVars>>

\* One pass over the assignments, which sees what it has just added.
Pass(nodes, set, deps) ==
  LET upTo[k \in 0..Len(nodes)] ==
        IF k = 0 THEN set
        ELSE IF deps[nodes[k]] \intersect upTo[k - 1] # {} THEN upTo[k - 1] \union {nodes[k]} ELSE upTo[k - 1]
  IN upTo[Len(nodes)]

Expanded == Pass(source.nodes, editable, source.deps)

ExpandEditable ==
  /\ step = "expanding"
  /\ Expanded # editable
  /\ editable' = Expanded
  /\ UNCHANGED <<planVars, callVars, step, affected>>

\* Fault: what a request may restart is not checked.
CheckEditableSkipped ==
  /\ step = "expanding"
  /\ Expanded = editable
  /\ step' = "growing"
  /\ UNCHANGED <<planVars, callVars, editable, affected>>

\* A request may not restart what did not rest on a failure.
CheckEditable ==
  /\ step = "expanding"
  /\ Expanded = editable
  /\ IF request.changed \subseteq editable
       THEN step' = "growing" /\ UNCHANGED <<planVars, callVars, editable, affected>>
       ELSE Refused

\* Fault: what rests on a failure through another success is reused.
GrownDirect == affected \union {n \in Nodes(source) : (source.deps[n] \union NewDeps[n]) \intersect Failed # {}}

\* Fault: the squad's members are searched instead of the plan's.
GrownOverSquad == Pass(SetToSortSeq(Members, <), affected, source.deps)

\* The old and the new dependencies: one that was removed still counts.
Grown == Pass(source.nodes, Pass(source.nodes, affected, source.deps), NewDeps)

GrowAffected ==
  /\ step = "growing"
  /\ Grown # affected
  /\ affected' = Grown
  /\ UNCHANGED <<planVars, callVars, step, editable>>

\* Fault: the plan keeps its old order.
ResubmitInOldOrder ==
  /\ step = "growing"
  /\ Grown = affected
  /\ plan' = [nodes |-> source.nodes, deps |-> NewDeps, order |-> source.order]
  /\ step' = "validating"
  /\ UNCHANGED <<stage, indegree, ready, placed, callVars, editable, affected>>

\* The new plan, in the order of its waves; a fixed order must stay.
Resubmit ==
  /\ step = "growing"
  /\ Grown = affected
  /\ LET order == Flat(source.nodes, NewDeps)
     IN IF /\ request.changed \subseteq affected
           /\ WavesEnd(source.nodes, NewDeps)
           /\ fixed => order = source.order
        THEN /\ plan' = [nodes |-> source.nodes, deps |-> NewDeps, order |-> order]
             /\ step' = "validating"
             /\ UNCHANGED <<stage, indegree, ready, placed, callVars, editable, affected>>
        ELSE Refused

Revalidate ==
  /\ step \in {"planned", "validating"}
  /\ Validate
  /\ UNCHANGED <<callVars, step, editable, affected>>

ContinueNext ==
  CheckRequest \/ ExpandEditable \/ CheckEditable \/ GrowAffected \/ Resubmit \/ Revalidate

ContinueSpec == (PlannedInit \/ ContinueInit) /\ [][ContinueNext]_continueVars

(***************************************************************************)
(* Properties.                                                             *)
(***************************************************************************)
ContinueTypeOK ==
  /\ PlanTypeOK
  /\ step \in {"planned", "checking", "refused", "expanding", "growing", "validating"}
  /\ editable \subseteq Nodes(source) /\ affected \subseteq Nodes(source)

Accepted == step = "validating" /\ stage = "accepted"
Reused == Nodes(source) \ affected

\* What is reused completed, keeps its assignment, and rests on reused work
\* only, by its old dependencies and by the new ones.
ReuseIsSound ==
  Accepted => \A n \in Reused :
    /\ n \in completed
    /\ plan.deps[n] = source.deps[n]
    /\ source.deps[n] \subseteq Reused

\* Every set that holds the failures and whatever rests on it in the source.
RestsOnFailure(S) == Failed \subseteq S /\ \A n \in Nodes(source) : source.deps[n] \intersect S # {} => n \in S

\* No more is run again than the failures and what rested on them: a lead
\* cannot restart a success by inventing a dependency.
NothingElseRestarts ==
  Accepted => \A S \in SUBSET Nodes(source) : RestsOnFailure(S) => affected \subseteq S

\* A configured order survives, and what passes the checks of the
\* continuation always passes the validation of the plan.
PlanSurvives ==
  /\ Accepted /\ fixed => plan.order = source.order
  /\ step = "validating" => stage \notin {"refused", "cyclic"}

\* A continuation repeats neither too little nor too much, and its plan stands.
ContinuationIsExact == ReuseIsSound /\ NothingElseRestarts /\ PlanSurvives

\* Every accepted plan can be run in its order, and that of a continuation starts
\* again what it must and nothing else.
PlansAreExact == ContinueTypeOK /\ AcceptedPlanIsSound /\ ContinuationIsExact
=============================================================================
