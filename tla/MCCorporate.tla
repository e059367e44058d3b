----------------------------- MODULE MCCorporate -----------------------------
(***************************************************************************)
(* A small instance of Corporate: two people, who may work for the same    *)
(* organization, have one each, or keep a personal ledger.  They are       *)
(* interchangeable.                                                        *)
(***************************************************************************)
EXTENDS Corporate, TLC

CONSTANTS ana, rui, invoice

Symmetry == Permutations(People)
==============================================================================
