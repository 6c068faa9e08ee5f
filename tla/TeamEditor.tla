----------------------------- MODULE TeamEditor -----------------------------
(***************************************************************************)
(* What the editor of teams does with its draft                            *)
(* (TeamSettingsPageContent in src/src/client/SettingsPage.tsx): a draft,  *)
(* the record it started from, and whether the record changed elsewhere    *)
(* in the meantime.  A record of a team is one text; the history of a team *)
(* is the texts written to it, which are its restorable versions.          *)
(***************************************************************************)
EXTENDS Naturals, Sequences

CONSTANTS
  Teams,      \* teams; they exist throughout
  FirstTeam,  \* the first of the catalog
  NoTeam,     \* no id: the page before its first catalog, and a copy that an import makes
  Original    \* the text of every team at the start

ASSUME TeamsAssumption == FirstTeam \in Teams /\ NoTeam \notin Teams

\* The texts of a team after the writes of a log.
Texts(log, team) ==
  LET writes == SelectSeq(log, LAMBDA entry : entry.team = team)
  IN <<Original>> \o [i \in DOMAIN writes |-> writes[i].text]

\* The team in a catalog that shows the first n writes; the first team for want of it.
Record(log, n, team) ==
  LET found == IF team \in Teams THEN team ELSE FirstTeam
      texts == Texts(SubSeq(log, 1, n), found)
  IN [team |-> found, text |-> texts[Len(texts)]]

Editing(record) == [draft |-> record, base |-> record, conflict |-> FALSE]
NoEditor == Editing([team |-> NoTeam, text |-> Original])

Dirty(ed) == ed.draft # ed.base

\* Fault: a new catalog always replaces the draft.
CatalogChangedReplaces(ed, log, n) == Editing(Record(log, n, ed.draft.team))

\* A new revision of the catalog: a draft with edits is kept and marked.
CatalogChanged(ed, log, n) ==
  IF Dirty(ed) THEN [ed EXCEPT !.conflict = TRUE]
  ELSE Editing(Record(log, n, ed.draft.team))

Typed(ed, text) == [ed EXCEPT !.draft.text = text]

\* Fault: giving up the edits takes the mark away as well.
DiscardedUnmarked(ed) == [ed EXCEPT !.draft = ed.base, !.conflict = FALSE]

\* The edits are given up; the mark stays until the record is read again.
Discarded(ed) == [ed EXCEPT !.draft = ed.base]

\* The tab is left with edits: the draft goes back to the record it started from,
\* which may not be the one of the catalog.
TabLeft(ed) == IF Dirty(ed) THEN Editing(ed.base) ELSE ed
=============================================================================
