--------------------------- MODULE MCSyncPaging ---------------------------
(***************************************************************************)
(* TLC instances of SyncPaging: two issues in pages of one, the            *)
(* clock of the app at most one step ahead and the cut-off one step back.  *)
(***************************************************************************)
EXTENDS SyncPaging

Steady  == {}
=============================================================================
