---------------------------- MODULE MCEditCommit ----------------------------
(***************************************************************************)
(* TLC instances of EditCommit: one or two issues, one or two fields, two  *)
(* or three values, and few enough versions and journal ids to be explored *)
(* exhaustively.  Field names and values are model values, interchangeable.*)
(***************************************************************************)
EXTENDS EditCommit, TLC

Symmetry == Permutations(Fields) \cup Permutations(Values)

\* The disturbances of each run.
Everything   == Disturbances
NoOverlap    == Disturbances \ {"overlap"}
NoOverride   == NoOverlap \ {"override"}
CheckedPush  == {"fault", "discard", "keep"}
OnlyOverlap  == {"overlap"}
=============================================================================
