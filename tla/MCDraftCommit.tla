--------------------------- MODULE MCDraftCommit ---------------------------
(***************************************************************************)
(* TLC instances of DraftCommit: up to three drafts beside one issue Jira  *)
(* already holds.                                                          *)
(***************************************************************************)
EXTENDS DraftCommit

OneIssue == <<Issue>>

\* A behaviour has the user discard and work on during a Commit, or Commit's
\* calls fail, or the app killed; everything else goes with any of them.
Apart == {{"discard", "overlap"}, {"lost", "clear"}, {"crash"}}
=============================================================================
