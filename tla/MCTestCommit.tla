---------------------------- MODULE MCTestCommit ----------------------------
(***************************************************************************)
(* TLC instances of TestCommit: a Test of two steps.                       *)
(***************************************************************************)
EXTENDS TestCommit

CONSTANTS initial, mine, theirs, blank, erased

OneMine   == {mine}
MineOrOld == {mine, initial}
OneTheirs == {theirs}
TwoFields == {"summary", "status"}
OneField  == {"summary"}

\* The disturbances of each run.
All         == Disturbances
JustOutside == {"outside"}
=============================================================================
