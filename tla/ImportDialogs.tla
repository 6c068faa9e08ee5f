--------------------------- MODULE ImportDialogs ---------------------------
(***************************************************************************)
(* The two dialogs of src/src/client/RecipesWorkspace.tsx, "recipe" and    *)
(* "backup": a document is read from a file, previewed at the host under a *)
(* choice (a recipe's policy and routes, a backup's mode), and imported    *)
(* with the definition revision of the preview.                            *)
(*                                                                         *)
(* A generation counter drops every answer but the last request's, so a    *)
(* dialog keeps one request.  A file that is being read keeps the choice   *)
(* that was on screen when it was picked.  Documents pasted as text take   *)
(* the way of a file that is read at once.  What a preview says is left    *)
(* out, and so are the sizes that make a file too large.                   *)
(***************************************************************************)
EXTENDS Naturals

CONSTANTS
  Docs,    \* documents
  NoDoc    \* null

ASSUME DocsAssumption == NoDoc \notin Docs

Dialogs == {"recipe", "backup"}
Choices == {"gentle", "rough"}   \* copy or merge; merge or replace

NoPreview == [doc |-> NoDoc, choice |-> "gentle", rev |-> 0]
NoAsk == [stage |-> "none", doc |-> NoDoc, choice |-> "gentle", rev |-> 0]
NoFile == [doc |-> NoDoc, choice |-> "gentle"]
Blank == [doc |-> NoDoc, choice |-> "gentle", preview |-> NoPreview, ask |-> NoAsk,
          file |-> NoFile, busy |-> FALSE]

\* Fault: the answer of an earlier request is taken for the answer of this one.
PreviewAskedOnce(k, d, doc, choice) ==
  [d EXCEPT !.doc = doc,
            !.ask = IF @.stage = "none" THEN [stage |-> "asked", doc |-> doc, choice |-> choice, rev |-> 0] ELSE @,
            !.busy = k = "recipe",
            !.preview = IF k = "backup" THEN NoPreview ELSE @]

\* previewRecipe keeps the old preview on screen while it waits, previewBackup does not.
PreviewAsked(k, d, doc, choice) ==
  [d EXCEPT !.doc = doc,
            !.ask = [stage |-> "asked", doc |-> doc, choice |-> choice, rev |-> 0],
            !.busy = k = "recipe",
            !.preview = IF k = "backup" THEN NoPreview ELSE @]

PreviewAnswered(d, rev) == [d EXCEPT !.ask.stage = "answered", !.ask.rev = rev]

PreviewShown(d) ==
  [d EXCEPT !.preview = [doc |-> d.ask.doc, choice |-> d.ask.choice, rev |-> d.ask.rev],
            !.ask = NoAsk, !.busy = FALSE]

PreviewFailed(d) == [d EXCEPT !.preview = NoPreview, !.ask = NoAsk, !.busy = FALSE]

FilePicked(d, doc) == [d EXCEPT !.file = [doc |-> doc, choice |-> d.choice]]

\* The file has been read: previewed under the choice of when it was picked.
FileRead(k, d) == PreviewAsked(k, [d EXCEPT !.file = NoFile], d.file.doc, d.file.choice)

\* It is too large, unreadable or not JSON.  The backup dialog then still takes the
\* answer of an earlier request, unless the file is too large.
FileRefused(k, d, large) ==
  [d EXCEPT !.file = NoFile, !.doc = NoDoc, !.preview = NoPreview, !.busy = FALSE,
            !.ask = IF k = "recipe" \/ large THEN NoAsk ELSE @]

\* Another choice asks for another preview.
Chosen(k, d, choice) ==
  IF d.doc = NoDoc THEN [d EXCEPT !.choice = choice]
  ELSE PreviewAsked(k, [d EXCEPT !.choice = choice], d.doc, choice)

\* Fault: any preview on screen is good enough.
CanApplyAnyPreview(k, d) == d.doc # NoDoc /\ d.preview # NoPreview

\* The guards of applyRecipe (its fingerprint) and of importBackup (the mode).
CanApply(k, d) ==
  /\ d.doc # NoDoc /\ d.preview # NoPreview
  /\ d.preview.choice = d.choice
  /\ k = "recipe" => d.preview.doc = d.doc /\ ~d.busy

\* The import was refused because the definitions have changed since the preview.
PreviewStale(d) == [d EXCEPT !.preview = NoPreview, !.ask = NoAsk]
=============================================================================
