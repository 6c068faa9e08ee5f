--------------------------- MODULE MCRunLifecycle ---------------------------
EXTENDS RunLifecycle

CONSTANTS f1, b1

MCForeground == {f1}
MCBackground == {b1}

\* Storage faults, and refused jobs with an age limit on history.
MCSettings == {[age |-> FALSE, job |-> FALSE, store |-> TRUE], [age |-> TRUE, job |-> TRUE, store |-> FALSE]}
=============================================================================
