--------------------------- MODULE MCRunRequests ---------------------------
EXTENDS RunRequests

CONSTANTS k1, k2

MCKeys == {k1, k2}

\* A new run, and the message's run again.
MCRequests == {Request(Nothing, Nothing), Request(Root, Nothing)}
=============================================================================
