---------------------------- MODULE MCBoardMoves ----------------------------
(***************************************************************************)
(* TLC instances of BoardMoves: cards between three statuses, two of them  *)
(* in one column, and two sprints.                                         *)
(***************************************************************************)
EXTENDS BoardMoves

CONSTANTS todo, doing, review

TwoColumns == {{todo}, {doing, review}}

\* Everything but a move in Jira between the check and the push.
Unraced == Disturbances \ {"race", "late"}
=============================================================================
