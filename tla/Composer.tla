------------------------------ MODULE Composer ------------------------------
(***************************************************************************)
(* The conversation's mode control under the message box                   *)
(* (src/src/client/ComposerControl.tsx) with the requests it sends         *)
(* (ModeGateway in src/src/client/controller.ts) and the handlers that     *)
(* answer them (src/src/rpc.ts), over the catalog of TeamCatalog.          *)
(*                                                                         *)
(* The component numbers its requests and keeps only what the newest one   *)
(* answers (requestRef): here a request is current or it is not, and a     *)
(* read that is not current, which changes nothing, is dropped.  An action *)
(* that is not current still runs at the host.  One team exists            *)
(* throughout, and one session is watched.  Which team is selected, the    *)
(* last run and the layout of the panel are left out.  Intervals have no   *)
(* length.                                                                 *)
(***************************************************************************)
EXTENDS TeamCatalog

CONSTANTS
  Modes,      \* the modes a session may be in when the control is mounted
  Clicks,     \* what the user may choose, a subset of Kinds
  MaxActs,    \* bound: actions of the user
  MaxWrites,  \* bound: definition writes by others
  MaxFaults   \* bound: lost connections and rejected requests

Durable == {"enabled", "disabled", "inherit"}
OneShot == {"next-solo", "next-inherit"}
Kinds == Durable \cup OneShot \cup {"default"}

ASSUME ComposerAssumption ==
  /\ Modes \subseteq [override : Durable, next : {"none", "solo"}, default : BOOLEAN, ready : BOOLEAN]
  /\ Clicks \subseteq Kinds
  /\ MaxActs \in Nat /\ MaxWrites \in Nat /\ MaxFaults \in Nat

VARIABLES
  mode,   \* at the host: the session's override, its one-shot, the project's default, and
          \* whether the session is loaded
  shown,  \* what the control shows of a response
  ui,     \* busy, error and initialized
  read,   \* the effect's request or its timer
  acts,   \* the user's actions, in order
  late    \* something changed the mode since the request last shown took effect (history)

modeVars == <<mode, shown, ui, read, acts, late>>
composerVars == <<log, catalogVars, connected, faults, modeVars>>

-----------------------------------------------------------------------------
\* readModeResponse: the project is known once the session is loaded.
Effective(s) == s.override = "enabled" \/ (s.override = "inherit" /\ s.ready /\ s.default)
Response(s) ==
  [override |-> s.override, effective |-> Effective(s), next |-> s.next,
   key |-> s.ready, default |-> s.ready /\ s.default]

\* isAuthoritativeModeResponse
Authoritative(r) == r.key \/ r.override # "inherit" \/ r.effective

Nothing == [override |-> "inherit", effective |-> FALSE, next |-> "none", key |-> FALSE, default |-> FALSE]
NoRead == [stage |-> "none", answer |-> Nothing]
Asked == [stage |-> "asked", answer |-> Nothing]
Waiting == [stage |-> "timer", answer |-> Nothing]

ComposerInit ==
  /\ CatalogInit
  /\ faults = MaxFaults
  /\ mode \in Modes
  /\ shown = Nothing
  /\ ui = [busy |-> FALSE, error |-> FALSE, initialized |-> FALSE]
  /\ read = NoRead
  /\ acts = <<>>
  /\ late = FALSE

-----------------------------------------------------------------------------
\* The generation moves on: nothing sent so far is current.
Supersede == [i \in DOMAIN acts |-> [acts[i] EXCEPT !.current = FALSE]]

\* Fault: a control whose request was given up stays locked.
CatalogLostLocked(wasReady) ==
  /\ ui' = [ui EXCEPT !.initialized = FALSE]
  /\ read' = IF wasReady THEN NoRead ELSE read
  /\ acts' = IF wasReady THEN Supersede ELSE acts
  /\ UNCHANGED <<mode, shown, late>>

\* The catalog is being read or could not be: the control is unlocked and shows that
\* it is loading.  Leaving "ready" cleans up the effect that ran there.
CatalogLost(wasReady) ==
  /\ ui' = [ui EXCEPT !.busy = FALSE, !.initialized = FALSE]
  /\ read' = IF wasReady THEN NoRead ELSE read
  /\ acts' = IF wasReady THEN Supersede ELSE acts
  /\ UNCHANGED <<mode, shown, late>>

\* A new revision of the catalog is ready: the mode is read.
ReadMode ==
  /\ ui' = [ui EXCEPT !.busy = TRUE, !.error = FALSE]
  /\ read' = Asked
  /\ acts' = Supersede
  /\ UNCHANGED <<mode, shown, late>>

\* The effect of the component after a forced load.
LoadSeen == IF Pending THEN UNCHANGED modeVars ELSE CatalogLost(status = "ready")

CatalogAnswered == LoadAnswered /\ UNCHANGED modeVars

CatalogDelivered ==
  /\ LoadDelivered
  /\ IF status' = "ready" THEN ReadMode ELSE CatalogLost(TRUE)

CatalogFails == LoadFails /\ CatalogLost(FALSE)

LinkLost == Disconnect /\ UNCHANGED modeVars
LinkBack == Reconnect /\ LoadSeen
CatalogTimer == LoopTimer /\ LoadSeen

\* The panel's button, and whoever changed a definition in this client.
CatalogRefresh == (status = "error" \/ seen < Len(log)) /\ Refresh /\ LoadSeen

DefinitionWritten ==
  /\ Len(log) < MaxWrites
  /\ Commit("write")
  /\ UNCHANGED <<catalogVars, connected, faults, modeVars>>

-----------------------------------------------------------------------------
\* The reading effect.
ReadAnswered ==
  /\ read.stage = "asked" /\ connected
  /\ read' = [stage |-> "answered", answer |-> Response(mode)]
  /\ late' = FALSE
  /\ UNCHANGED <<mode, shown, ui, acts>>

\* Fault: the first answer of the host is final.
ReadDeliveredOnce ==
  /\ read.stage = "answered"
  /\ shown' = read.answer
  /\ ui' = [busy |-> FALSE, error |-> FALSE, initialized |-> TRUE]
  /\ read' = NoRead
  /\ UNCHANGED <<mode, acts, late>>

\* An answer that may change when the session is loaded leaves the mode as it was
\* shown, and is asked for again.
ReadDelivered ==
  /\ read.stage = "answered"
  /\ shown' = IF Authoritative(read.answer) THEN read.answer
              ELSE [read.answer EXCEPT !.override = shown.override, !.effective = shown.effective]
  /\ ui' = [busy |-> FALSE, error |-> FALSE, initialized |-> TRUE]
  /\ read' = IF Authoritative(read.answer) THEN NoRead ELSE Waiting
  /\ UNCHANGED <<mode, acts, late>>

ReadFails ==
  /\ read.stage \in {"asked", "answered"} /\ MayReject
  /\ ui' = [busy |-> FALSE, error |-> TRUE, initialized |-> TRUE]
  /\ read' = Waiting
  /\ Rejects
  /\ UNCHANGED <<mode, shown, acts, late>>

ReadTimer ==
  /\ read.stage = "timer"
  /\ read' = Asked
  /\ UNCHANGED <<mode, shown, ui, acts, late>>

-----------------------------------------------------------------------------
\* A choice in the panel.  It does not start the reading effect again.
Act(kind) ==
  /\ kind \in Clicks /\ Len(acts) < MaxActs
  /\ ~ui.busy
  /\ kind = "default" => shown.key
  /\ acts' = Append(Supersede,
               [kind |-> IF kind # "default" THEN kind
                         ELSE IF shown.default THEN "default-off" ELSE "default-on",
                stage |-> "sent", answer |-> Nothing, current |-> TRUE])
  /\ ui' = [ui EXCEPT !.busy = TRUE, !.error = FALSE]
  /\ read' = NoRead
  /\ UNCHANGED <<mode, shown, late>>

Written(s, kind) ==
  CASE kind \in Durable -> [s EXCEPT !.override = kind]
    [] kind = "next-solo" -> [s EXCEPT !.next = "solo"]
    [] kind = "next-inherit" -> [s EXCEPT !.next = "none"]
    [] kind = "default-on" -> [s EXCEPT !.default = TRUE]
    [] kind = "default-off" -> [s EXCEPT !.default = FALSE]

\* The handler writes, and then reads the state for its answer.
ActExecuted(i) ==
  /\ acts[i].stage = "sent" /\ connected
  /\ mode' = Written(mode, acts[i].kind)
  /\ late' = ~acts[i].current
  /\ acts' = [acts EXCEPT ![i].stage = "executed"]
  /\ UNCHANGED <<shown, ui, read>>

\* A project's default is answered as it was written.
ActAnswered(i) ==
  /\ acts[i].stage = "executed"
  /\ acts' = [acts EXCEPT ![i].stage = "answered",
       ![i].answer = [Response(mode) EXCEPT !.default =
          IF acts[i].kind \in {"default-on", "default-off"} THEN acts[i].kind = "default-on" ELSE @]]
  /\ UNCHANGED <<mode, shown, ui, read, late>>

\* Fault: every action is listened to.
HeardAlways(i) == TRUE

\* Only the newest request is listened to.
Heard(i) == acts[i].current

ActDelivered(i) ==
  /\ acts[i].stage = "answered"
  /\ Heard(i)
  /\ shown' = acts[i].answer
  /\ ui' = [ui EXCEPT !.busy = FALSE,
                      !.initialized = @ \/ acts[i].kind \notin {"default-on", "default-off"}]
  /\ acts' = [acts EXCEPT ![i].stage = "done", ![i].answer = Nothing, ![i].current = FALSE]
  /\ UNCHANGED <<mode, read, late>>

\* The request rejects in the client; the host may still run it.
ActFails(i) ==
  /\ Heard(i) /\ acts[i].stage \in {"sent", "executed", "answered"}
  /\ MayReject
  /\ ui' = [ui EXCEPT !.busy = FALSE, !.error = TRUE]
  /\ acts' = [acts EXCEPT ![i].current = FALSE]
  /\ Rejects
  /\ UNCHANGED <<mode, shown, read, late>>

\* A message is sent: the host consumes the one-shot, and no client hears of it.
MessageSent ==
  /\ mode.next # "none"
  /\ mode' = [mode EXCEPT !.next = "none"]
  /\ late' = TRUE
  /\ UNCHANGED <<shown, ui, read, acts>>

\* The host loads the session and with it the project.
SessionLoaded ==
  /\ ~mode.ready
  /\ mode' = [mode EXCEPT !.ready = TRUE]
  /\ late' = TRUE
  /\ UNCHANGED <<shown, ui, read, acts>>

-----------------------------------------------------------------------------
CatalogStep ==
  \/ CatalogAnswered \/ CatalogDelivered \/ CatalogFails
  \/ LinkLost \/ LinkBack \/ CatalogTimer \/ CatalogRefresh \/ DefinitionWritten

ModeStep ==
  /\ \/ ReadAnswered \/ ReadDelivered \/ ReadTimer
     \/ \E kind \in Clicks : Act(kind)
     \/ \E i \in DOMAIN acts : ActExecuted(i) \/ ActAnswered(i) \/ ActDelivered(i)
     \/ MessageSent \/ SessionLoaded
  /\ UNCHANGED faults

ModeFault == ReadFails \/ \E i \in DOMAIN acts : ActFails(i)

ComposerNext ==
  \/ CatalogStep
  \/ (ModeStep \/ ModeFault) /\ UNCHANGED <<log, catalogVars, connected>>

Quiet == UNCHANGED <<log, catalogVars, connected>>

ComposerSpec == ComposerInit /\ [][ComposerNext]_composerVars



\* Every request of the client settles (withRpcTimeout), every timer fires, a lost
\* connection comes back, and the host loads the session it was asked about.
Fairness ==
  /\ WF_composerVars(CatalogDelivered \/ CatalogFails)
  /\ WF_composerVars(CatalogAnswered)
  /\ WF_composerVars(CatalogTimer)
  /\ WF_composerVars(LinkBack)
  /\ WF_composerVars(ReadAnswered /\ UNCHANGED faults /\ Quiet)
  /\ WF_composerVars(((ReadDelivered /\ UNCHANGED faults) \/ ReadFails) /\ Quiet)
  /\ WF_composerVars(ReadTimer /\ UNCHANGED faults /\ Quiet)
  /\ WF_composerVars(SessionLoaded /\ UNCHANGED faults /\ Quiet)
  /\ \A i \in 1..MaxActs :
       /\ WF_composerVars(i \in DOMAIN acts /\ Heard(i) /\ ActExecuted(i) /\ UNCHANGED faults /\ Quiet)
       /\ WF_composerVars(i \in DOMAIN acts /\ Heard(i) /\ ActAnswered(i) /\ UNCHANGED faults /\ Quiet)
       /\ WF_composerVars(i \in DOMAIN acts /\ ((ActDelivered(i) /\ UNCHANGED faults) \/ ActFails(i)) /\ Quiet)

FairSpec == ComposerSpec /\ Fairness

-----------------------------------------------------------------------------
\* At rest: ready, unlocked, no request and no error pending.
AtRest ==
  /\ status = "ready" /\ ui.initialized /\ ~ui.busy /\ ~ui.error
  /\ read.stage = "none"

\* At rest the control shows the mode that the host will apply to the next message,
\* except for what happened since behind its back (a request given up that the host
\* ran later, a one-shot consumed, a session loaded): no answer of an older request
\* and no answer given before an action can be what stays on screen.
RestShowsTheMode == AtRest /\ ~late => shown = Response(mode)

\* The control never stays locked, nor "loading" under a catalog that is ready.
Usable == ~ui.busy /\ (ui.initialized \/ status # "ready")
ComposerSettles == ~Usable ~> Usable

\* Until the user acts, the control finds out the mode at last, the project's default
\* included, from a host that loads the session only after the first reads.
ModeIsFoundOut ==
  <>[](acts = <<>> /\ status = "ready" =>
         AtRest /\ shown.override = mode.override /\ shown.effective = Effective(mode))
=============================================================================
