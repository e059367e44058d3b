--------------------------- MODULE MCLedgerSocket ---------------------------
(***************************************************************************)
(* Two connections of a user who may have one open, pages of one change.   *)
(***************************************************************************)
EXTENDS LedgerSocket

CONSTANTS s1, s2
=============================================================================
