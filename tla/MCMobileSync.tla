---------------------------- MODULE MCMobileSync ----------------------------
(***************************************************************************)
(* One phone and the web: a period of 2, 3 once it is overdue.             *)
(***************************************************************************)
EXTENDS MobileSync

CONSTANTS phone
=============================================================================
