--------------------------- MODULE MCQualityLoop ---------------------------
EXTENDS QualityLoop

CONSTANT unlimited

MCSetting(planner, max, before, budget, all) ==
  [planner |-> planner, maxRounds |-> max, before |-> before, members |-> 1, budget |-> budget, allCompleted |-> all]

\* The first run of a chain, with and without a budget, with and without a planner.
MCFirstRuns ==
  {MCSetting("none", 2, 0, b, all) : b \in {unlimited, 4}, all \in BOOLEAN}
    \union {MCSetting(p, 1, 0, 5, TRUE) : p \in {"routed", "unrouted"}}
    \union {MCSetting("none", 0, 0, unlimited, TRUE)}

\* The continuation of a run that spent 2 tokens.
MCSuccessors == {MCSetting("none", r, 2, b, TRUE) : r \in {1, 2}, b \in {unlimited, 5}}

MCAnyRun == MCFirstRuns \union MCSuccessors
=============================================================================
