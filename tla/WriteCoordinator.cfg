SPECIFICATION FairSpec
CONSTANTS
  w1 = w1
  w2 = w2
  w3 = w3
  r1 = r1
  Writers <- MCWriters
  Readers <- MCReaders
  Abortable <- MCAbortable
INVARIANTS
  ServedInOrder
PROPERTIES
  ReadsAreStable
  EveryCallReturns
  ImplementsFifoLock
