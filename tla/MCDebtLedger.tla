---------------------------- MODULE MCDebtLedger ----------------------------
(***************************************************************************)
(* Small loans: a capital of 1.00 without interest, at 10% or at 200%, in  *)
(* one period or three, rounded to whole units or to cents, with a penalty *)
(* of 5% or none.  Three periods never divide the totals evenly.           *)
(***************************************************************************)
EXTENDS DebtLedger

CONSTANTS clerk
=============================================================================
