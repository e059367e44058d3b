----------------------------- MODULE Reminders -----------------------------
(***************************************************************************)
(* The reminders of ledger/push.py and ledger/client_notifications.py: one *)
(* run of send_due_notifications looks at every unpaid installment, queues *)
(* the client's emails, sends the owner's web pushes, and then sends the   *)
(* queued emails.  Runs of several processes may overlap; Worker composes  *)
(* them.                                                                   *)
(*                                                                         *)
(* One owner with one browser, one client with an email address, one loan; *)
(* an installment is known by the day it is due.  Claims of emails have a  *)
(* lease, which ClientEmails models; here a claim outlives its process and *)
(* no other.  Owner preferences are on.                                    *)
(***************************************************************************)
EXTENDS Integers, FiniteSets

CONSTANTS
  Processes,
  DueDays,      \* days on which installments of the loan may be due
  Interval,     \* days between overdue emails, 30
  MaxDay        \* bound: the calendar

ASSUME RemindersAssumption ==
  DueDays \subseteq Int /\ Interval \in Nat \ {0} /\ MaxDay \in Nat

VARIABLES
  installments, \* of the loan
  clock,      \* localdate
  paid,       \* installments that are paid
  subscribed, \* the browser's WebPushSubscription exists
  emails,     \* the client's reminder emails, by event_key
  recorded,   \* event_keys of web pushes with a PushDelivery row
  pushed,     \* event_keys of web pushes the push service has taken, with how often
  run,        \* each process's run
  doubt,      \* history: pushes whose process died before it recorded them, or that two
              \* processes were about to send
  crossed     \* history: a run began beside one that had begun on an earlier day

rows == <<installments, subscribed, emails, recorded, pushed>>
doubts == <<doubt, crossed>>

NoRun == [at |-> "off"]
Running == {q \in Processes : run[q].at \notin {"off", "raised"}}

Tomorrow(i) == <<"tomorrow", i, i>>
Overdue(i, day) == <<"overdue", i, day>>
Combined(day) == <<"overdue", 0, day>>

InitReminders(loan) ==
  /\ installments = loan
  /\ clock = 0 /\ paid = {} /\ subscribed = TRUE
  /\ emails = <<>> /\ recorded = {} /\ pushed = <<>>
  /\ run = [p \in Processes |-> NoRun]
  /\ doubt = {} /\ crossed = FALSE

-----------------------------------------------------------------------------
(* What goes on around the runs.                                           *)

DayPasses ==
  /\ clock < MaxDay
  /\ clock' = clock + 1
  /\ UNCHANGED <<paid, rows, run, doubts>>

Pay(i) ==
  /\ i \in installments \ paid
  /\ paid' = paid \cup {i}
  /\ UNCHANGED <<clock, rows, run, doubts>>

\* push_subscription_view.
Subscribe ==
  /\ subscribed' = ~subscribed
  /\ UNCHANGED <<installments, clock, paid, emails, recorded, pushed, run, doubts>>

-----------------------------------------------------------------------------
(* send_due_notifications.                                                 *)

Least(S) == CHOOSE i \in S : \A j \in S : i <= j

Set(p, fields) == run' = [run EXCEPT ![p] = fields]
Go(p, at) == run' = [run EXCEPT ![p].at = at]

\* The unpaid installments are listed once.
BeginRun(p) ==
  /\ Set(p, [at |-> "item", day |-> clock, todo |-> installments \ paid, asked |-> FALSE,
             batch |-> {}, email |-> {}])
  /\ crossed' = (crossed \/ \E q \in Running : run[q].day # clock)
  /\ UNCHANGED doubt

Item(p) == Least(run[p].todo)
DueTomorrow(p) == Item(p) = run[p].day + 1
IsOverdue(p) == Item(p) < run[p].day

Queued(key) ==
  IF key \in DOMAIN emails THEN emails
  ELSE [k \in DOMAIN emails \cup {key} |->
          IF k = key THEN [status |-> "pending", sentOn |-> -1] ELSE emails[k]]

Reminded == {k \in DOMAIN emails : k[1] = "overdue"}

\* Mutant: an email that was not delivered yet does not keep the next one back.
MayRemindUnlessSent(day) ==
  \A k \in Reminded : emails[k].status = "sent" => day - emails[k].sentOn >= Interval

\* queue_overdue_reminder, its reads.
MayRemind(day) ==
  /\ \A k \in Reminded : emails[k].status \notin {"pending", "sending"}
  /\ \A k \in Reminded : emails[k].status = "sent" => day - emails[k].sentOn >= Interval

\* The client's email: at once the day before; for the first overdue installment of the
\* loan, when the last one was long enough ago.
Remind(p) ==
  /\ run[p].at = "item" /\ run[p].todo # {}
  /\ \/ /\ DueTomorrow(p)
        /\ emails' = Queued(Tomorrow(Item(p)))
        /\ Go(p, "push")
     \/ /\ IsOverdue(p) /\ ~run[p].asked
        /\ run' = [run EXCEPT ![p].asked = TRUE,
                              ![p].at = IF MayRemind(run[p].day) THEN "queue" ELSE "push"]
        /\ UNCHANGED emails
     \/ /\ ~DueTomorrow(p) /\ (IsOverdue(p) => run[p].asked)
        /\ Go(p, "push") /\ UNCHANGED emails
  /\ UNCHANGED <<installments, clock, paid, subscribed, recorded, pushed, doubts>>

QueueReminder(p) ==
  /\ run[p].at = "queue"
  /\ emails' = Queued(Combined(run[p].day))
  /\ Go(p, "push")
  /\ UNCHANGED <<installments, clock, paid, subscribed, recorded, pushed, doubts>>

PushKey(p) ==
  IF DueTomorrow(p) THEN Tomorrow(Item(p)) ELSE Overdue(Item(p), run[p].day)

\* Mutant: only the day-before push is looked up.
DeliveredTomorrow(key) == key \in recorded /\ key[1] = "tomorrow"

Delivered(key) == key \in recorded

Done(p) == [run[p] EXCEPT !.at = "item", !.todo = @ \ {Item(p)}]

CheckPush(p) ==
  /\ run[p].at = "push"
  /\ IF (DueTomorrow(p) \/ IsOverdue(p)) /\ subscribed /\ ~Delivered(PushKey(p))
     THEN /\ Go(p, "send")
          /\ doubt' = IF \E q \in Processes \ {p} : run[q].at \in {"send", "record"}
                                                    /\ PushKey(q) = PushKey(p)
                      THEN doubt \cup {PushKey(p)} ELSE doubt
     ELSE Set(p, Done(p)) /\ UNCHANGED doubt
  /\ UNCHANGED <<clock, paid, rows, crossed>>

\* send_push_to_user: taken, refused, or the subscription is gone (404, 410).
Send(p) ==
  /\ run[p].at = "send"
  /\ \/ /\ subscribed
        /\ pushed' = [k \in DOMAIN pushed \cup {PushKey(p)} |->
                        IF k # PushKey(p) THEN pushed[k]
                        ELSE IF k \in DOMAIN pushed THEN 2 ELSE 1]
        /\ Go(p, "record") /\ UNCHANGED subscribed
     \/ subscribed' \in {subscribed, FALSE} /\ Set(p, Done(p)) /\ UNCHANGED pushed
  /\ UNCHANGED <<installments, clock, paid, emails, recorded, doubts>>

\* The row is made; a row another process made for the same key ends the run.
Record(p) ==
  /\ run[p].at = "record"
  /\ recorded' = recorded \cup {PushKey(p)}
  /\ Set(p, IF PushKey(p) \in recorded THEN [at |-> "raised"] ELSE Done(p))
  /\ UNCHANGED <<installments, clock, paid, subscribed, emails, pushed, doubts>>

-----------------------------------------------------------------------------
(* send_client_emails.                                                     *)

Unfinished == {k \in DOMAIN emails : emails[k].status \in {"pending", "sending"}}
Held(k) == \E q \in Processes : run[q].at = "smtp" /\ run[q].email = k

BeginMail(p) ==
  /\ run[p].at = "item" /\ run[p].todo = {}
  /\ run' = [run EXCEPT ![p].at = "mail", ![p].batch = Unfinished]
  /\ UNCHANGED <<clock, paid, rows, doubts>>

\* An email that another process holds, or has finished, is passed over.
Claim(p) ==
  /\ run[p].at = "mail"
  /\ \E k \in run[p].batch :
       IF k \in Unfinished /\ ~Held(k)
       THEN /\ emails' = [emails EXCEPT ![k].status = "sending"]
            /\ run' = [run EXCEPT ![p].at = "smtp", ![p].batch = @ \ {k}, ![p].email = k]
       ELSE run' = [run EXCEPT ![p].batch = @ \ {k}] /\ UNCHANGED emails
  /\ UNCHANGED <<installments, clock, paid, subscribed, recorded, pushed, doubts>>

\* _deliver looks again whether there is something to remind of.
StillDue(k, day) ==
  IF k[1] = "tomorrow" THEN k[2] = day + 1 /\ k[2] \notin paid
  ELSE \E i \in installments \ paid : i < day

FinishMail(p) ==
  LET k == run[p].email
      day == run[p].day
  IN /\ run[p].at = "smtp"
     /\ emails' \in IF StillDue(k, day)
                   THEN {[emails EXCEPT ![k] = [status |-> "sent", sentOn |-> day]],
                         [emails EXCEPT ![k].status = "pending"]}
                   ELSE {[emails EXCEPT ![k].status = "cancelled"]}
     /\ run' = [run EXCEPT ![p].at = "mail", ![p].email = {}]
     /\ UNCHANGED <<installments, clock, paid, subscribed, recorded, pushed, doubts>>

EndRun(p) == run[p].at = "mail" /\ run[p].batch = {} /\ Set(p, NoRun)

RunStep(p) ==
  \/ Remind(p) \/ QueueReminder(p) \/ CheckPush(p) \/ Send(p) \/ Record(p)
  \/ BeginMail(p) \/ Claim(p) \/ FinishMail(p)

\* The process dies.
RunDies(p) ==
  /\ Set(p, NoRun)
  /\ doubt' = IF run[p].at = "record" THEN doubt \cup {PushKey(p)} ELSE doubt

-----------------------------------------------------------------------------
(* Properties.                                                             *)

\* Overdue emails of a loan are Interval days apart, unless runs overlap that began on
\* different days.  README: "Overdue emails repeat every 30 days after the last successful
\* reminder".
RemindersApart ==
  ~crossed =>
    \A j, k \in Reminded :
      emails[j].status = "sent" /\ emails[k].status = "sent" /\ j[3] < k[3] =>
        emails[k].sentOn - emails[j].sentOn >= Interval

\* The owner's browser is told once of an installment that is due tomorrow, and once a day
\* of one that is overdue, unless a process died before it recorded the push or two
\* processes sent it at the same time.  README: "at most one overdue notification per
\* installment per day".
PushedOnce == \A key \in DOMAIN pushed : pushed[key] = 1 \/ key \in doubt
=============================================================================
