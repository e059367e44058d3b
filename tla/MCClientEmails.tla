--------------------------- MODULE MCClientEmails ---------------------------
(***************************************************************************)
(* Small instances of ClientEmails: one or two loans, and one process or   *)
(* two, the long-running worker and a run started by cron, which no        *)
(* property tells apart.                                                   *)
(***************************************************************************)
EXTENDS ClientEmails, TLC

CONSTANTS loan1, loan2, worker, cron

MCWorkers == Permutations({worker, cron})
=============================================================================
