------------------------------ MODULE MCWorker ------------------------------
(***************************************************************************)
(* A small instance of Worker: the loop and one process from cron, and     *)
(* either a loan or documents, which have no state in common.              *)
(***************************************************************************)
EXTENDS Worker

CONSTANTS worker, cron, doc

\* An installment due before the first day or after it.
LoanOrDocuments ==
  {[loan |-> {day}, files |-> {}] : day \in DueDays} \cup {[loan |-> {}, files |-> Files]}

Before == -1
Days == {Before, 1}
=============================================================================
