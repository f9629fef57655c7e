--------------------------- MODULE IntentLedger ---------------------------
(***************************************************************************)
(* What TAM promises of an edit, with no cache, no version and no step in  *)
(* between.  The user asks for a value; the journal owes it to Jira; what  *)
(* is owed for an issue reaches Jira whole or not at all; and a debt is    *)
(* struck out only by the user or once nothing asked for is left in it.    *)
(* EditCommit implements it as long as nobody edits while a job runs.      *)
(***************************************************************************)
CONSTANTS Keys, Fields, Values, None

VARIABLES server,  \* what Jira holds
          want,    \* what the user asked for and has neither got nor withdrawn
          owed     \* what the journal will send

ledger == <<server, want, owed>>

Nothing == [f \in Fields |-> None]

Init ==
    /\ server \in [Keys -> [Fields -> Values]]
    /\ want = [k \in Keys |-> Nothing]
    /\ owed = [k \in Keys |-> Nothing]

Ask(k, f, v) ==
    /\ want' = [want EXCEPT ![k][f] = v]
    /\ owed' = [owed EXCEPT ![k][f] = v]
    /\ UNCHANGED server

Withdraw(S) ==
    /\ want' = [k \in Keys |-> [f \in Fields |-> IF <<k, f>> \in S THEN None ELSE want[k][f]]]
    /\ owed' = [k \in Keys |-> [f \in Fields |-> IF <<k, f>> \in S THEN None ELSE owed[k][f]]]
    /\ UNCHANGED server

\* The whole debt of an issue lands at once.
Land(k) ==
    /\ owed[k] # Nothing
    /\ server' = [server EXCEPT ![k] =
          [f \in Fields |-> IF owed[k][f] = None THEN server[k][f] ELSE owed[k][f]]]
    /\ want' = [want EXCEPT ![k] =
          [f \in Fields |-> IF want[k][f] = owed[k][f] THEN None ELSE want[k][f]]]
    /\ UNCHANGED owed

\* A debt is cleared only when nothing the user asked for is left in it.
Settle(k) ==
    /\ want[k] = Nothing
    /\ owed' = [owed EXCEPT ![k] = Nothing]
    /\ UNCHANGED <<server, want>>

Elsewhere(k) ==
    /\ \E vals \in [Fields -> Values] : server' = [server EXCEPT ![k] = vals]
    /\ UNCHANGED <<want, owed>>

Next ==
    \/ \E k \in Keys, f \in Fields, v \in Values : Ask(k, f, v)
    \/ \E S \in SUBSET (Keys \X Fields) : Withdraw(S)
    \/ \E k \in Keys : Land(k) \/ Settle(k) \/ Elsewhere(k)

Spec == Init /\ [][Next]_ledger
=============================================================================
