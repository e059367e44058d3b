------------------------------- MODULE Worker -------------------------------
(***************************************************************************)
(* The processes that run in the background: run_notification_worker, a    *)
(* loop that sweeps generated PDFs every ten minutes and sends reminders   *)
(* every minute, and the commands it is made of, which may also be run by  *)
(* hand or from cron while it runs.  Composes PdfStore and Reminders.      *)
(*                                                                         *)
(* The loop also compacts the change log once a day; what that does is in  *)
(* ChangeFeed.                                                             *)
(***************************************************************************)
EXTENDS PdfStore, Reminders

CONSTANTS
  Ledgers,   \* what a ledger may hold: a loan's installments and documents to generate
  Loop,      \* the process that runs run_notification_worker
  MaxDeaths, \* bound: how often processes die
  MaxRuns    \* bound: commands run beside the loop

ASSUME WorkerAssumption ==
  /\ Ledgers \subseteq [loan : SUBSET DueDays, files : SUBSET Files]
  /\ Processes = Sweepers /\ Loop \in Processes /\ MaxDeaths \in Nat /\ MaxRuns \in Nat

VARIABLES
  stage,    \* what each process does
  sweepDue, \* the loop has not swept for PDF_CLEANUP_INTERVAL_SECONDS
  deaths, runs

reminders == <<clock, paid, rows, run, doubts>>
loop == <<stage, sweepDue, deaths, runs>>
vars == <<store, sweep, reminders, loop>>

Init ==
  /\ \E ledger \in Ledgers : InitStore(ledger.files) /\ InitReminders(ledger.loan)
  /\ stage = [p \in Processes |-> IF p = Loop THEN "top" ELSE "down"]
  /\ sweepDue = TRUE /\ deaths = 0 /\ runs = 0

To(p, next) == stage' = [stage EXCEPT ![p] = next]

\* The top of the loop, and cleanup_generated_pdfs.
StartSweep(p) ==
  /\ \/ p = Loop /\ stage[p] = "top" /\ sweepDue /\ UNCHANGED runs
     \/ p # Loop /\ stage[p] = "down" /\ runs < MaxRuns /\ runs' = runs + 1
  /\ BeginSweep(p) /\ To(p, "sweep")
  /\ UNCHANGED <<store, reminders, sweepDue, deaths>>

\* A sweep that failed counts as done: it must not stop reminders.
Swept(p) == IF p = Loop THEN FALSE ELSE sweepDue

EndSweep(p) ==
  /\ stage[p] = "sweep" /\ sweep[p].at = "off"
  /\ sweepDue' = Swept(p)
  /\ To(p, IF p = Loop THEN "top" ELSE "down")
  /\ UNCHANGED <<store, sweep, reminders, deaths, runs>>

StartRun(p) ==
  /\ \/ p = Loop /\ stage[p] = "top" /\ ~sweepDue /\ UNCHANGED runs
     \/ p # Loop /\ stage[p] = "down" /\ runs < MaxRuns /\ runs' = runs + 1
  /\ BeginRun(p) /\ To(p, "remind")
  /\ UNCHANGED <<store, sweep, clock, paid, rows, sweepDue, deaths>>

\* The loop sleeps and begins again, a command ends.
FinishRun(p) ==
  /\ stage[p] = "remind" /\ EndRun(p)
  /\ To(p, IF p = Loop THEN "top" ELSE "down")
  /\ UNCHANGED <<store, sweep, clock, paid, rows, doubts, sweepDue, deaths, runs>>

\* Read at the top of the loop only.
TenMinutes ==
  /\ stage[Loop] = "top" /\ ~sweepDue
  /\ sweepDue' = TRUE
  /\ UNCHANGED <<store, sweep, reminders, stage, deaths, runs>>

Ended(p) == To(p, "down") /\ sweep' = [sweep EXCEPT ![p] = NoSweep] /\ RunDies(p)

\* An exception ends the process.
Raised(p) ==
  /\ run[p].at = "raised"
  /\ Ended(p)
  /\ UNCHANGED <<store, clock, paid, rows, crossed, sweepDue, deaths, runs>>

Dies(p) ==
  /\ stage[p] # "down" /\ deaths < MaxDeaths
  /\ deaths' = deaths + 1
  /\ Ended(p)
  /\ UNCHANGED <<store, clock, paid, rows, crossed, sweepDue, runs>>

\* The supervisor starts the loop again, which sweeps at once.
Restart ==
  /\ stage[Loop] = "down"
  /\ To(Loop, "top") /\ sweepDue' = TRUE
  /\ UNCHANGED <<store, sweep, reminders, deaths, runs>>

Step(p) ==
  \/ StartSweep(p) \/ EndSweep(p) \/ StartRun(p) \/ FinishRun(p) \/ Raised(p)
  \/ SweepStep(p) /\ UNCHANGED <<reminders, loop>>
  \/ RunStep(p) /\ UNCHANGED <<store, sweep, loop>>

Users ==
  \/ \E f \in Files : Request(f) /\ UNCHANGED <<reminders, loop>>
  \/ (DayPasses \/ Subscribe \/ \E i \in DueDays : Pay(i)) /\ UNCHANGED <<store, sweep, loop>>

Next ==
  \/ \E p \in Processes : Step(p) \/ Dies(p)
  \/ TenMinutes \/ Restart \/ Users

Spec == Init /\ [][Next]_vars
=============================================================================
