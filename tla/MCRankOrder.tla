---------------------------- MODULE MCRankOrder ----------------------------
(***************************************************************************)
(* TLC instances of RankOrder: three cards in two columns.                 *)
(***************************************************************************)
EXTENDS RankOrder

\* Everything but a drop between reading the rows and reading the order.
Settling == Disturbances \ {"early"}

\* An order that is not the one the journal is read in.
OneOrder == {<<2, 3, 1>>}

\* All three in one column, the last alone to the right of the other two, or
\* the top one alone to their left.
SomeColumns == {<<1, 1, 1>>, <<2, 1, 1>>, <<2, 1, 2>>}
=============================================================================
