--------------------------- MODULE MCSettingsPage ---------------------------
EXTENDS SettingsPage, TLC

CONSTANTS alpha, beta, none, v0, mine, theirs, doc1, doc2, nodoc

MCTeams == {alpha, beta}
MCDocs == {doc1, doc2}
DocSymmetry == Permutations(MCDocs)

\* An editor beside another client; either dialog beside another client or with a call
\* given up and repeated; an import under the edits of the editor.
MCScopes == {
  [dialogs |-> {}, texts |-> {mine}, versions |-> {1}, calls |-> 2, others |-> 1, faults |-> 1],
  [dialogs |-> {"recipe"}, texts |-> {}, versions |-> {}, calls |-> 1, others |-> 1, faults |-> 1],
  [dialogs |-> {"backup"}, texts |-> {}, versions |-> {}, calls |-> 2, others |-> 0, faults |-> 1],
  [dialogs |-> {"backup"}, texts |-> {mine}, versions |-> {}, calls |-> 1, others |-> 1, faults |-> 0]}
=============================================================================
