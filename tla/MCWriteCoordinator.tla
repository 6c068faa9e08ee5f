------------------------- MODULE MCWriteCoordinator -------------------------
EXTENDS WriteCoordinator

CONSTANTS w1, w2, w3, r1

MCWriters == {w1, w2, w3}
MCReaders == {r1}
MCAbortable == {w2, w3, r1}
=============================================================================
