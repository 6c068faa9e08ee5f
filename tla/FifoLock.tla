------------------------------ MODULE FifoLock ------------------------------
(***************************************************************************)
(* What WriteCoordinator (src/src/tools/infrastructure/write-coordinator.ts)*)
(* promises to the definition and admission services: one critical section *)
(* at a time, granted in order of arrival, where a caller that loses       *)
(* interest leaves the line at once and never holds up those behind it.    *)
(***************************************************************************)
EXTENDS Naturals

CONSTANT Calls      \* every call ever made to run, read or readVersioned

VARIABLES
  arrival,          \* arrival[c]: the place of c in the order of arrival, 0 before
  line,             \* the calls that have arrived and not left
  serving           \* the calls whose operation runs: empty or one call

lockVars == <<arrival, line, serving>>

LockInit ==
  /\ arrival = [c \in Calls |-> 0]
  /\ line = {}
  /\ serving = {}

Join(c) ==
  /\ arrival[c] = 0
  /\ arrival'[c] \in Nat
  /\ \A d \in Calls : arrival[d] < arrival'[c]
  /\ arrival' = [arrival EXCEPT ![c] = arrival'[c]]
  /\ line' = line \union {c}
  /\ UNCHANGED serving

Serve(c) ==
  /\ serving = {}
  /\ c \in line
  /\ \A d \in line : arrival[c] <= arrival[d]
  /\ serving' = {c}
  /\ UNCHANGED <<arrival, line>>

\* A call that is not being served may leave from any place in the line.
Quit(c) ==
  /\ c \in line \ serving
  /\ line' = line \ {c}
  /\ UNCHANGED <<arrival, serving>>

Depart(c) ==
  /\ c \in serving
  /\ serving' = {}
  /\ line' = line \ {c}
  /\ UNCHANGED arrival

LockNext == \E c \in Calls : Join(c) \/ Serve(c) \/ Quit(c) \/ Depart(c)

LockSpec == LockInit /\ [][LockNext]_lockVars
=============================================================================
