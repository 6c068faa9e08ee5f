---------------------------- MODULE TeamCatalog ----------------------------
(***************************************************************************)
(* The catalog of the browser client: AgentTeamController.load in          *)
(* src/src/client/controller.ts and the loop beside it that loads again    *)
(* after every reconnection (refreshAgentTeamsOnReconnect).  The views     *)
(* that watch the catalog, Composer and SettingsPage, extend this module   *)
(* and conjoin what each of them does at a change of the catalog.          *)
(*                                                                         *)
(* A snapshot is the number of definition writes the host had committed    *)
(* when it answered.  The host answers at any time after the request, the  *)
(* answer arrives at any later time, or the request rejects in the client  *)
(* (time-out, lost connection, a snapshot that is not one).  Callbacks of  *)
(* one settled promise run in one turn of the event loop: one step.        *)
(***************************************************************************)
EXTENDS Naturals, Sequences

VARIABLES
  log,       \* the definition writes that the host committed, in order
  status,    \* state.status
  seen,      \* state.data: how many of those writes the catalog shows
  load,      \* pending: the request in flight, its answer, and need: how much of the log
             \* existed when load(true) was last called for this request (history)
  queued,    \* queuedRefresh
  connected, \* source.getSnapshot() # undefined
  loop,      \* the reconnection loop: "off", waits for the "pending" or the "queued"
             \* load, or for its "timer"
  faults     \* what is left of the budget of lost connections and rejected requests

catalogVars == <<status, seen, load, queued, loop>>

NoLoad == [stage |-> "idle", data |-> 0, need |-> 0]
NewLoad(need) == [stage |-> "asked", data |-> 0, need |-> need]
NotQueued == [on |-> FALSE, need |-> 0]
Pending == load.stage # "idle"

CatalogInit ==
  /\ log = <<>>
  /\ status = "loading"
  /\ seen = 0
  /\ load = NewLoad(0)
  /\ queued = NotQueued
  /\ connected = TRUE
  /\ loop = "pending"

-----------------------------------------------------------------------------
\* Fault: a forced load takes the request in flight for its own.
ForcedLoadJoins ==
  /\ IF Pending
       THEN load' = [load EXCEPT !.need = Len(log)] /\ UNCHANGED status
       ELSE status' = "loading" /\ load' = NewLoad(Len(log))
  /\ UNCHANGED <<seen, queued>>

\* load(true): a request in flight may already have its answer, so the call waits
\* for it and asks again; several calls share that second request.
ForcedLoad ==
  /\ IF Pending
       THEN /\ queued' = [on |-> TRUE, need |-> Len(log)]
            /\ UNCHANGED <<status, load>>
       ELSE /\ status' = "loading"
            /\ load' = NewLoad(Len(log))
            /\ UNCHANGED queued
  /\ UNCHANGED seen

\* Which request a caller of load(true) waits for.
Ticket == IF Pending THEN "queued" ELSE "pending"

LoadAnswered ==
  /\ load.stage = "asked"
  /\ connected
  /\ load' = [load EXCEPT !.stage = "answered", !.data = Len(log)]
  /\ UNCHANGED <<log, status, seen, queued, loop, connected, faults>>

\* The request settles, and a queued refresh starts whatever the outcome.
LoadSettles(ok) ==
  /\ IF ok THEN load.stage = "answered" ELSE Pending
  /\ seen' = IF ok THEN load.data ELSE seen
  /\ status' = IF queued.on THEN "loading" ELSE IF ok THEN "ready" ELSE "error"
  /\ load' = IF queued.on THEN NewLoad(queued.need) ELSE NoLoad
  /\ queued' = NotQueued
  /\ loop' = CASE loop = "queued" -> "pending"
               [] loop = "pending" -> IF ok \/ ~connected THEN "off" ELSE "timer"
               [] OTHER -> loop
  /\ UNCHANGED <<log, connected>>

\* A request to a host out of reach rejects; else it takes a fault.
Rejects == faults' = IF connected THEN faults - 1 ELSE faults
MayReject == connected => faults > 0

LoadDelivered == LoadSettles(TRUE) /\ UNCHANGED faults
LoadFails == MayReject /\ LoadSettles(FALSE) /\ Rejects

\* The connection is lost: the loop drops its attempt and its timer.
Disconnect ==
  /\ connected /\ faults > 0
  /\ connected' = FALSE
  /\ faults' = faults - 1
  /\ loop' = "off"
  /\ UNCHANGED <<log, status, seen, load, queued>>

\* The connection is back: a new generation of the loop begins.
Reconnect ==
  /\ ~connected
  /\ connected' = TRUE
  /\ loop' = Ticket
  /\ ForcedLoad
  /\ UNCHANGED <<log, faults>>

LoopTimer ==
  /\ loop = "timer"
  /\ loop' = Ticket
  /\ ForcedLoad
  /\ UNCHANGED <<log, connected, faults>>

\* load(true) by a view: after a definition call, or at the press of its button.
Refresh == ForcedLoad /\ UNCHANGED <<log, connected, loop, faults>>

\* A definition write at the host, by anyone.
Commit(entry) == log' = Append(log, entry)

-----------------------------------------------------------------------------
\* A call of load(true) resolves with a snapshot that holds every write committed
\* before the call, whatever requests were in flight at that moment: what the
\* settings page shows after a save holds the save.
RefreshIsFresh ==
  load.stage = "answered" => load.data >= load.need /\ load.data >= seen
=============================================================================
