---------------------------- MODULE SettingsPage ----------------------------
(***************************************************************************)
(* The settings page of the client (src/src/client/SettingsPage.tsx and    *)
(* RecipesWorkspace.tsx): the team editor of TeamEditor, the import        *)
(* dialogs of ImportDialogs and the catalog of TeamCatalog, with the calls *)
(* that the page makes, in flight side by side, against a host that other  *)
(* clients write to.                                                       *)
(*                                                                         *)
(* The page keeps the draft; a tab's own state (a restore preview, a       *)
(* dialog) lives while the tab is shown and the catalog is ready, and what *)
(* arrives for a tab that is gone is dropped.  The members' tab, which     *)
(* works like the teams' one, creating, cloning and deleting a team, plan  *)
(* previews and diagnoses are left out, and the user answers every         *)
(* question of the page with yes.                                          *)
(***************************************************************************)
EXTENDS TeamCatalog, TeamEditor, ImportDialogs

CONSTANTS
  Mine, Theirs,  \* the text the user types, the text others write
  Scopes         \* bounds: which dialogs are used, which texts are typed and versions
                 \* restored, and how many calls of the page, writes by others and faults
                 \* (lost connections, rejected requests) there are

Limits == [dialogs : SUBSET Dialogs, texts : SUBSET {Mine}, versions : SUBSET (Nat \ {0}),
           calls : Nat, others : Nat, faults : Nat]

ASSUME SettingsAssumption == \A scope \in Scopes : scope \in Limits

Tabs == {"teams", "recipes"}

VARIABLES
  scope,    \* the bounds of this behaviour
  view,     \* the tab
  ed,       \* the editor (TeamEditor)
  restored, \* the restore preview on screen: of which team and version, at which revision,
            \* and whether it came after another team was selected (history)
  dialogs,  \* dialogs[k] (ImportDialogs)
  calls,    \* the page's calls, in order
  busy,     \* a call of run() began and none has ended since
  typed,    \* the user's last text, unless the user gave it up since (history)
  strayed,  \* the tab was left with a draft that was marked (history)
  others    \* writes left to other clients

pageVars == <<scope, view, ed, restored, dialogs, calls, busy, typed, strayed, others>>
settingsVars == <<log, catalogVars, connected, faults, pageVars>>

Nowhere == [team |-> NoTeam, version |-> 0, rev |-> 0, late |-> FALSE]
NoDialogs == [k \in Dialogs |-> Blank]

\* A call: what it asks for, what the preview it rests on was of, the revision of that
\* preview and whether it came late, and the place of the call's write in the log.
Call(kind, what, of, rev) ==
  [kind |-> kind, what |-> what, of |-> of, rev |-> rev, late |-> FALSE, at |-> 0, stage |-> "sent", live |-> TRUE]

PageInit ==
  /\ CatalogInit
  /\ scope \in Scopes
  /\ faults = scope.faults
  /\ view = "teams"
  /\ ed = NoEditor
  /\ restored = Nowhere
  /\ dialogs = NoDialogs
  /\ calls = <<>>
  /\ busy = FALSE
  /\ typed = NoTeam
  /\ strayed = FALSE
  /\ others = scope.others

\* A call at a stage where it no longer matters to which tab it belongs.
Over(call, stage) == [call EXCEPT !.stage = stage, !.live = FALSE]

Shown(tab) == status = "ready" /\ view = tab
Begin(call) == Len(calls) < scope.calls /\ calls' = Append(calls, call) /\ busy' = TRUE

\* The tab goes away, with all that it kept.
TabGone ==
  /\ restored' = Nowhere
  /\ dialogs' = NoDialogs

Orphans(c) == [i \in DOMAIN c |-> [c[i] EXCEPT !.live = FALSE]]

-----------------------------------------------------------------------------
\* The catalog.  Calls that wait for the load in flight go on when it settles, and
\* those that wait for the next one now wait for this.
Moved(c) ==
  [i \in DOMAIN c |-> CASE c[i].stage = "pending" -> Over(c[i], "done")
                         [] c[i].stage = "queued" -> Over(c[i], "pending")
                         [] OTHER -> c[i]]
WaitsForLoad == \E i \in DOMAIN calls : calls[i].stage = "pending"

\* A save or a restore ends by reading its team from the catalog into the editor.
RECORDED == {"save", "restore"}
LastRecorded ==
  {i \in DOMAIN calls :
     /\ calls[i].stage = "pending" /\ calls[i].kind \in RECORDED
     /\ \A j \in DOMAIN calls : j > i => ~(calls[j].stage = "pending" /\ calls[j].kind \in RECORDED)}

\* The new catalog marks a dirty draft before they do; only a save takes the mark away.
MarkStays == Dirty(ed) /\ \A i \in DOMAIN calls : calls[i].stage = "pending" => calls[i].kind # "save"

CatalogShown(n) ==
  IF LastRecorded = {} THEN CatalogChanged(ed, log, n)
  ELSE [Editing(Record(log, n, calls[CHOOSE i \in LastRecorded : TRUE].what.team))
          EXCEPT !.conflict = MarkStays]

CatalogAnswered == LoadAnswered /\ UNCHANGED pageVars

CatalogDelivered ==
  /\ LoadDelivered
  /\ ed' = CatalogShown(load.data)
  /\ strayed' = (strayed /\ ed'.base = ed.base)
  /\ calls' = Moved(calls)
  /\ busy' = (busy /\ ~WaitsForLoad)
  /\ UNCHANGED <<scope, view, restored, dialogs, typed, others>>

CatalogFails ==
  /\ LoadFails
  /\ calls' = Moved(calls)
  /\ busy' = (busy /\ ~WaitsForLoad)
  /\ UNCHANGED <<scope, view, ed, restored, dialogs, typed, strayed, others>>

\* While the catalog is loaded no tab is shown.
PageLoads(c) ==
  IF Pending THEN calls' = c /\ UNCHANGED <<restored, dialogs>>
  ELSE calls' = Orphans(c) /\ TabGone

Waits == UNCHANGED <<scope, view, ed, busy, typed, strayed, others>> /\ PageLoads(calls)

LinkLost == Disconnect /\ UNCHANGED pageVars
LinkBack == Reconnect /\ Waits
CatalogTimer == LoopTimer /\ Waits
ClickRefresh == ~busy /\ Refresh /\ Waits

OthersWrite ==
  /\ others > 0
  /\ others' = others - 1
  /\ Commit([team |-> FirstTeam, text |-> Theirs])
  /\ UNCHANGED <<catalogVars, connected, faults, scope, view, ed, restored, dialogs, calls, busy, typed, strayed>>

-----------------------------------------------------------------------------
\* The editor.
Edit ==
  /\ Shown("teams")
  /\ Mine \in scope.texts /\ ed.draft.text # Mine
  /\ ed' = Typed(ed, Mine)
  /\ typed' = IF \E i \in DOMAIN calls : calls[i].kind \in RECORDED /\ calls[i].stage # "done"
              THEN NoTeam ELSE Mine
  /\ UNCHANGED <<scope, view, restored, dialogs, calls, busy, strayed, others>>

Discard ==
  /\ Shown("teams") /\ Dirty(ed) /\ ~busy
  /\ ed' = Discarded(ed)
  /\ typed' = NoTeam
  /\ UNCHANGED <<scope, view, restored, dialogs, calls, busy, strayed, others>>

\* Fault: the preview of a version stays on screen.
SelectKeeping(team) ==
  /\ Shown("teams")
  /\ ed' = Editing(Record(log, seen, team))
  /\ typed' = NoTeam
  /\ strayed' = FALSE
  /\ UNCHANGED <<scope, view, restored, dialogs, calls, busy, others>>

\* Another team: the preview of a version goes, but not a request for one.
Select(team) ==
  /\ Shown("teams")
  /\ ed' = Editing(Record(log, seen, team))
  /\ typed' = NoTeam
  /\ strayed' = FALSE
  /\ restored' = IF team = ed.draft.team THEN restored ELSE Nowhere
  /\ UNCHANGED <<scope, view, dialogs, calls, busy, others>>

GoTo(tab) ==
  /\ tab \in Tabs \ {view}
  /\ view' = tab
  /\ ed' = IF view = "teams" THEN TabLeft(ed) ELSE ed
  /\ typed' = IF view = "teams" /\ Dirty(ed) THEN NoTeam ELSE typed
  /\ strayed' = (strayed \/ (view = "teams" /\ Dirty(ed) /\ ed.conflict))
  /\ TabGone
  /\ calls' = Orphans(calls)
  /\ UNCHANGED <<scope, busy, others>>

\* Nothing but edits of a valid draft can be saved; a marked one after a question.
CanSave == Shown("teams") /\ Dirty(ed) /\ ~busy

Save ==
  /\ CanSave
  /\ Begin(Call("save", ed.draft, ed.draft, 0))
  /\ UNCHANGED <<scope, view, ed, restored, dialogs, typed, strayed, others>>

LookAt(version) ==
  /\ Shown("teams")
  /\ LET what == [team |-> ed.draft.team, version |-> version]
     IN Begin(Call("look", what, what, 0))
  /\ UNCHANGED <<scope, view, ed, restored, dialogs, typed, strayed, others>>

Restore ==
  /\ Shown("teams") /\ restored # Nowhere
  /\ Begin([Call("restore", [team |-> ed.draft.team, version |-> restored.version],
                 [team |-> restored.team, version |-> restored.version], restored.rev)
              EXCEPT !.late = restored.late])
  /\ typed' = NoTeam
  /\ UNCHANGED <<scope, view, ed, restored, dialogs, strayed, others>>

-----------------------------------------------------------------------------
\* The dialogs.
Turn(k, d) == dialogs' = [dialogs EXCEPT ![k] = d]
Still == UNCHANGED <<scope, view, ed, restored, typed, strayed, others>>

PickFile(k, doc) ==
  /\ Shown("recipes") /\ dialogs[k].file = NoFile
  /\ Turn(k, FilePicked(dialogs[k], doc))
  /\ Still /\ UNCHANGED <<calls, busy>>

FileArrives(k) ==
  /\ dialogs[k].file # NoFile
  /\ \/ Turn(k, FileRead(k, dialogs[k]))
     \/ \E large \in BOOLEAN : Turn(k, FileRefused(k, dialogs[k], large))
  /\ Still /\ UNCHANGED <<calls, busy>>

\* A recipe's choice is shown with its preview.
Choose(k, choice) ==
  /\ Shown("recipes") /\ dialogs[k].choice # choice
  /\ k = "recipe" => dialogs[k].preview # NoPreview
  /\ Turn(k, Chosen(k, dialogs[k], choice))
  /\ Still /\ UNCHANGED <<calls, busy>>

CancelBackup ==
  /\ Shown("recipes") /\ dialogs["backup"].preview # NoPreview
  /\ Turn("backup", [dialogs["backup"] EXCEPT !.doc = NoDoc, !.preview = NoPreview, !.ask = NoAsk])
  /\ Still /\ UNCHANGED <<calls, busy>>

HostPreviews(k) ==
  /\ dialogs[k].ask.stage = "asked" /\ connected
  /\ Turn(k, PreviewAnswered(dialogs[k], Len(log)))
  /\ Still /\ UNCHANGED <<calls, busy>>

PreviewArrives(k) ==
  /\ dialogs[k].ask.stage = "answered"
  /\ Turn(k, PreviewShown(dialogs[k]))
  /\ Still /\ UNCHANGED <<calls, busy>>

PreviewLost(k) ==
  /\ dialogs[k].ask.stage # "none" /\ MayReject
  /\ Turn(k, PreviewFailed(dialogs[k]))
  /\ Rejects
  /\ Still /\ UNCHANGED <<calls, busy>>

Import(k) ==
  /\ Shown("recipes") /\ CanApply(k, dialogs[k])
  /\ LET d == dialogs[k]
     IN Begin(Call("import", [dialog |-> k, doc |-> d.doc, choice |-> d.choice],
                   [dialog |-> k, doc |-> d.preview.doc, choice |-> d.preview.choice], d.preview.rev))
  /\ Still /\ UNCHANGED dialogs

-----------------------------------------------------------------------------
\* The calls.  What a call writes at the host: an import changes the first team, or
\* makes a copy.
Write(call) ==
  CASE call.kind = "save" -> call.what
    [] call.kind = "restore" ->
         [team |-> call.what.team, text |-> Texts(log, call.what.team)[call.what.version]]
    [] call.kind = "import" ->
         [team |-> IF call.what.dialog = "recipe" /\ call.what.choice = "gentle" THEN NoTeam ELSE FirstTeam,
          text |-> call.what.doc]

\* Fault: the host does not compare revisions.
AdmittedAlways(call) == TRUE

\* A restore or an import is refused once the definitions have changed.
Admitted(call) == call.kind \in {"restore", "import"} => call.rev = Len(log)

\* A version that the team does not have is not offered.
Possible(call) ==
  call.kind \in {"look", "restore"} => call.what.version <= Len(Texts(log, call.what.team))

\* The host runs a call, or a call that the client has given up.
Execute(i) ==
  /\ calls[i].stage \in {"sent", "lost"} /\ connected
  /\ LET lost == calls[i].stage = "lost"
         next(stage) == IF lost THEN "done" ELSE stage
     IN \/ /\ calls[i].kind = "look" /\ Possible(calls[i]) /\ ~lost
           /\ calls' = [calls EXCEPT ![i].stage = "executed", ![i].rev = Len(log)]
           /\ UNCHANGED log
        \/ /\ calls[i].kind # "look" /\ Possible(calls[i]) /\ Admitted(calls[i])
           /\ Commit(Write(calls[i]))
           /\ calls' = [calls EXCEPT ![i].stage = next("executed"), ![i].at = Len(log) + 1]
        \/ /\ ~(Possible(calls[i]) /\ Admitted(calls[i]))
           /\ calls' = [calls EXCEPT ![i].stage = next("refused")]
           /\ UNCHANGED log
  /\ UNCHANGED <<catalogVars, connected, loop, faults, scope, view, ed, restored, dialogs, busy, typed, strayed, others>>

\* A look is over when it is answered, anything else when the catalog is loaded again.
LookArrives(i) ==
  /\ calls[i].kind = "look" /\ calls[i].stage = "executed"
  /\ restored' = IF calls[i].live
                 THEN [team |-> calls[i].what.team, version |-> calls[i].what.version,
                       rev |-> calls[i].rev, late |-> calls[i].what.team # ed.draft.team]
                 ELSE restored
  /\ calls' = [calls EXCEPT ![i].stage = "done"]
  /\ busy' = FALSE
  /\ UNCHANGED <<log, catalogVars, connected, faults, scope, view, ed, dialogs, typed, strayed, others>>

Acknowledged(i) ==
  /\ calls[i].kind # "look" /\ calls[i].stage = "executed"
  /\ ForcedLoad
  /\ PageLoads([calls EXCEPT ![i].stage = Ticket])
  /\ UNCHANGED <<log, connected, loop, faults, scope, view, ed, busy, typed, strayed, others>>

Refused(i) ==
  /\ calls[i].stage = "refused"
  /\ calls' = [calls EXCEPT ![i].stage = "done"]
  /\ busy' = FALSE
  /\ restored' = IF calls[i].kind = "restore" /\ calls[i].live THEN Nowhere ELSE restored
  /\ dialogs' = IF calls[i].kind = "import" /\ calls[i].live
                THEN [dialogs EXCEPT ![calls[i].what.dialog] = PreviewStale(@)] ELSE dialogs
  /\ UNCHANGED <<log, catalogVars, connected, faults, scope, view, ed, typed, strayed, others>>

\* The call rejects in the client; the host may still run it.
CallFails(i) ==
  /\ calls[i].stage \in {"sent", "executed", "refused"} /\ MayReject
  /\ calls' = [calls EXCEPT ![i].stage = IF @ = "sent" /\ calls[i].kind # "look" THEN "lost" ELSE "done"]
  /\ busy' = FALSE
  /\ Rejects
  /\ UNCHANGED <<log, catalogVars, connected, scope, view, ed, restored, dialogs, typed, strayed, others>>

-----------------------------------------------------------------------------
CatalogStep ==
  \/ CatalogAnswered \/ CatalogDelivered \/ CatalogFails
  \/ LinkLost \/ LinkBack \/ CatalogTimer \/ ClickRefresh \/ OthersWrite

EditorStep ==
  \/ Edit \/ Discard \/ Save \/ Restore
  \/ \E team \in Teams : Select(team)
  \/ \E tab \in Tabs : GoTo(tab)
  \/ \E version \in scope.versions : LookAt(version)

DialogStep ==
  \E k \in scope.dialogs :
    \/ \E doc \in Docs : PickFile(k, doc)
    \/ \E choice \in Choices : Choose(k, choice)
    \/ FileArrives(k) \/ HostPreviews(k) \/ PreviewArrives(k) \/ Import(k)

CallStep ==
  \E i \in DOMAIN calls :
    Execute(i) \/ LookArrives(i) \/ Acknowledged(i) \/ Refused(i) \/ CallFails(i)

PageNext ==
  \/ CatalogStep
  \/ (EditorStep \/ DialogStep \/ CancelBackup) /\ UNCHANGED <<log, catalogVars, connected, faults>>
  \/ (\E k \in scope.dialogs : PreviewLost(k)) /\ UNCHANGED <<log, catalogVars, connected>>
  \/ CallStep

PageSpec == PageInit /\ [][PageNext]_settingsVars

-----------------------------------------------------------------------------
\* What the user typed last, and did not give up, is on the screen or has been saved:
\* no new catalog, failed save, lost connection or late answer takes it away.  (Text
\* typed while a save or a restore is under way may be lost to the end of that call.)
TypedIsKept ==
  typed = NoTeam \/ ed.draft.text = typed \/ \E i \in DOMAIN log : log[i].text = typed

\* A draft that can be saved without a question started from the record that the
\* catalog shows: a version that the client knows of is not overwritten unasked.
\* (Unless the tab was left with a draft that was marked, which takes the mark away.)
OverwriteIsAsked ==
  CanSave /\ ~ed.conflict => strayed \/ ed.base = Record(log, seen, ed.base.team)

\* What a preview-first dialog makes the host do is what its preview showed when the
\* user agreed, and nothing was written in between, so that a call that was given up and
\* repeated is not done twice.  (Except that a preview of a restore that arrives after
\* another team was selected is taken for one of that team.)
AppliedAsShown ==
  \A i \in DOMAIN calls :
    calls[i].kind \in {"restore", "import"} =>
      /\ calls[i].what = calls[i].of \/ calls[i].late
      /\ calls[i].at # 0 => calls[i].at = calls[i].rev + 1
=============================================================================
