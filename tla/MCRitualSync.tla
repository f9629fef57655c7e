---------------------------- MODULE MCRitualSync ----------------------------
(***************************************************************************)
(* TLC instances of RitualSync: the sprint's own page, and four bodies,    *)
(* one of which Confluence rewrites into another.                          *)
(***************************************************************************)
EXTENDS RitualSync

CONSTANTS template, typed, blank, normal

Bodies     == {template, typed, blank, normal}
NormalForm == [t \in Bodies |-> IF t = typed THEN normal ELSE t]

ThreeTexts == {typed, normal, blank}

\* The disturbances of the run.
Faults == {"edit", "delete", "create", "refused", "lost", "crash"}
=============================================================================
