--------------------------- MODULE MCSprintCommit ---------------------------
(***************************************************************************)
(* TLC instance of SprintCommit: a started and a future sprint, one draft. *)
(***************************************************************************)
EXTENDS SprintCommit

\* Everything but a drop on a draft that is gone, and a sprint started in
\* Jira between the reading of its state and its deletion.
Orderly == Disturbances \ {"stale", "race"}
=============================================================================
