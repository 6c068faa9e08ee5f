---------------------------- MODULE MCRunPolling ----------------------------
EXTENDS RunPolling

CONSTANTS r1, r2, none

MCRuns == {r1, r2}

\* Either a request rejects, or the user does two things.
MCBudgets == {<<1, 1>>, <<0, 2>>}
=============================================================================
