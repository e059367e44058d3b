---------------------------- MODULE ClientEmails ----------------------------
(***************************************************************************)
(* The email queue of ledger/client_notifications.py: payments queue a     *)
(* receipt and, when they settle a loan, a full-payment email in the       *)
(* transaction that records them; processes running send_client_emails     *)
(* claim queued emails by compare-and-set and send them over SMTP.         *)
(*                                                                         *)
(* Loans are multi-period loans whose periods are paid whole.  A queued    *)
(* email is a PushDelivery row; its id is its position in the queue.  The  *)
(* processes are the long-running worker and the runs of                   *)
(* send_due_notifications that cron starts every minute, which overlap     *)
(* when one of them takes longer than that.                                *)
(***************************************************************************)
EXTENDS Integers, Sequences, FiniteSets

CONSTANTS
  Debts,       \* loans, each of its own client, who has an email address
  Unreachable, \* loans whose client's address the mail relay refuses
  Duration,    \* periods of a loan
  Workers,     \* processes that may run send_client_emails
  Limit,       \* emails a batch takes from the queue
  Lease,       \* time after which a claim is taken over
  MaxOps,      \* bound: payments ever recorded
  MaxTime      \* bound: the clock

ASSUME LoansAssumption == Unreachable \subseteq Debts /\ Duration \in Nat \ {0}
ASSUME WorkersAssumption ==
  /\ Limit \in Nat \ {0} /\ Lease \in Nat \ {0} /\ MaxOps \in Nat /\ MaxTime \in Nat

Numbers == 1..Duration
Ids == 1..(2 * MaxOps)
Never == -1
NoJob == [id |-> 0]

VARIABLES
  active,   \* the payments of each loan that are not reversed
  ops,      \* payment operations recorded so far
  queue,    \* the PushDelivery rows
  clock,
  pc, now, todo, job,  \* each process: what it does, its batch's time and
                       \* remaining rows as listed, and the email in its hands
  mailed,   \* how often an email reached its client (2: more than once)
  reported, \* payments some delivered email mentions
  late,     \* emails held in a batch older than the lease
  doubt,    \* emails that went out although their process saw a failure or died
  raced,    \* payments whose receipt was being sent when the loan was settled
  undone    \* payments left to a settlement that was reverted before it was mailed

ledger == <<active, ops>>
workers == <<pc, now, todo, job>>
outcome == <<mailed, reported, late, doubt>>
vars == <<ledger, queue, clock, workers, outcome, raced, undone>>

Rows == 1..Len(queue)

-----------------------------------------------------------------------------
(* Ledger transactions.                                                    *)

Open(d) == {n \in Numbers : \A p \in active[d] : p.number # n}

\* What a payment covers: the chosen period, or the first open ones in order.
Choices(d) == {{n} : n \in Open(d)} \cup {{m \in Open(d) : m <= n} : n \in Open(d)}

\* Mutant: the full-payment email does not take over earlier receipts.
PendingIdsNone(d) == {}

\* The payments the loan's pending receipts would report.
PendingIds(d) ==
  UNION {queue[e].ids : e \in {x \in Rows : /\ queue[x].kind = "payment_received"
                                            /\ queue[x].debt = d
                                            /\ queue[x].status = "pending"}}

Receipt(d, new) ==
  [kind |-> "payment_received", debt |-> d, ids |-> new, settlement |-> {},
   status |-> "pending", at |-> Never]

\* Queued when the loan's status becomes paid, for its present active payments.
SettlementEmail(d, new) ==
  [kind |-> "debt_paid", debt |-> d, ids |-> new \cup PendingIds(d),
   settlement |-> active[d] \cup new, status |-> "pending", at |-> Never]

\* The payments whose receipt some process has claimed.
SendingIds(d) ==
  UNION {queue[e].ids : e \in {x \in Rows : /\ queue[x].kind = "payment_received"
                                            /\ queue[x].debt = d
                                            /\ queue[x].status = "sending"}}

RecordPayment(d) ==
  /\ ops < MaxOps
  /\ ops' = ops + 1
  /\ \E S \in Choices(d) :
       LET new == {[op |-> ops + 1, number |-> n] : n \in S}
       IN /\ active' = [active EXCEPT ![d] = @ \cup new]
          /\ IF S = Open(d)
             THEN /\ queue' = queue \o <<Receipt(d, new), SettlementEmail(d, new)>>
                  /\ raced' = raced \cup SendingIds(d)
             ELSE /\ queue' = Append(queue, Receipt(d, new))
                  /\ UNCHANGED raced
  /\ UNCHANGED <<clock, workers, outcome, undone>>

\* Reversing a period's payment queues nothing.
RevertInstallment(d, n) ==
  /\ n \notin Open(d)
  /\ active' = [active EXCEPT ![d] = {p \in @ : p.number # n}]
  /\ undone' = undone \cup
       UNION {queue[e].ids : e \in {x \in Rows : /\ queue[x].kind = "debt_paid"
                                                 /\ queue[x].debt = d
                                                 /\ queue[x].status # "sent"}}
  /\ UNCHANGED <<ops, queue, clock, workers, outcome, raced>>

-----------------------------------------------------------------------------
(* send_client_emails.                                                     *)

\* Mutant: claimed rows are never listed again.
WaitingPending == {e \in Rows : queue[e].status = "pending"}

Waiting == {e \in Rows : queue[e].status \in {"pending", "sending"}}
Batch == {e \in Waiting : Cardinality({f \in Waiting : f < e}) < Limit}

\* The batch's time and its rows are read once.
Begin(w) ==
  /\ pc[w] = "idle" /\ todo[w] = {} /\ Waiting # {}
  /\ now' = [now EXCEPT ![w] = clock]
  /\ todo' = [todo EXCEPT ![w] = {[id |-> e, seen |-> queue[e]] : e \in Batch}]
  /\ UNCHANGED <<ledger, queue, clock, pc, job, outcome, raced, undone>>

IsNext(w, x) == x \in todo[w] /\ \A y \in todo[w] : x.id <= y.id

\* Another process's claim still holds, as far as this batch can tell.
Leased(w, x) == x.seen.status = "sending" /\ now[w] - x.seen.at < Lease

\* Mutant: the row is claimed by its id alone.
UnchangedAssumed(x) == TRUE

\* filter(payload=original): nobody has touched the row since it was listed.
Unchanged(x) == queue[x.id] = x.seen

Skip(w) ==
  /\ pc[w] = "idle"
  /\ \E x \in todo[w] :
       /\ IsNext(w, x)
       /\ Leased(w, x) \/ ~Unchanged(x)
       /\ todo' = [todo EXCEPT ![w] = @ \ {x}]
  /\ UNCHANGED <<ledger, queue, clock, pc, now, job, outcome, raced, undone>>

Overrun(w, t) == t - now[w] >= Lease

Claim(w) ==
  /\ pc[w] = "idle"
  /\ \E x \in todo[w] :
       LET claimed == [x.seen EXCEPT !.status = "sending", !.at = now[w]]
       IN /\ IsNext(w, x)
          /\ ~Leased(w, x) /\ Unchanged(x)
          /\ queue' = [queue EXCEPT ![x.id] = claimed]
          /\ todo' = [todo EXCEPT ![w] = @ \ {x}]
          /\ job' = [job EXCEPT ![w] =
               [id |-> x.id, claimed |-> claimed, paid |-> FALSE, mentions |-> {}, result |-> "none"]]
          /\ late' = late \cup {e \in {x.id} : Overrun(w, clock)}
  /\ pc' = [pc EXCEPT ![w] = "debt"]
  /\ UNCHANGED <<ledger, clock, now, mailed, reported, doubt, raced, undone>>

Mine(w) == job[w].claimed

\* _deliver reads the loan's status and, with later queries, its payments.
ReadDebt(w) ==
  /\ pc[w] = "debt"
  /\ pc' = [pc EXCEPT ![w] = "facts"]
  /\ job' = [job EXCEPT ![w].paid = Open(Mine(w).debt) = {}]
  /\ UNCHANGED <<ledger, queue, clock, now, todo, outcome, raced, undone>>

\* The payments the email would report.
Mentioned(w) == Mine(w).ids \cap active[Mine(w).debt]

\* A receipt is dropped once the loan is paid, a full-payment email unless the
\* active payments are the ones it was queued for.
Obsolete(w) ==
  IF Mine(w).kind = "payment_received"
  THEN Mentioned(w) = {} \/ job[w].paid
  ELSE ~job[w].paid \/ Mine(w).settlement # active[Mine(w).debt]

ReadFacts(w) ==
  /\ pc[w] = "facts"
  /\ IF Obsolete(w)
     THEN /\ pc' = [pc EXCEPT ![w] = "finish"]
          /\ job' = [job EXCEPT ![w].result = "cancelled"]
     ELSE /\ pc' = [pc EXCEPT ![w] = "smtp"]
          /\ job' = [job EXCEPT ![w].mentions = Mentioned(w)]
  /\ UNCHANGED <<ledger, queue, clock, now, todo, outcome, raced, undone>>

\* The client gets the email; the relay may still look as if it had failed.
Delivered(w) ==
  /\ mailed' = [mailed EXCEPT ![job[w].id] = IF @ = 2 THEN 2 ELSE @ + 1]
  /\ reported' = reported \cup job[w].mentions

Send(w) ==
  /\ pc[w] = "smtp" /\ Mine(w).debt \notin Unreachable
  /\ Delivered(w)
  /\ pc' = [pc EXCEPT ![w] = "finish"]
  /\ job' = [job EXCEPT ![w].result = "sent"]
  /\ UNCHANGED <<ledger, queue, clock, now, todo, late, doubt, raced, undone>>

SendFails(w) ==
  /\ pc[w] = "smtp"
  /\ \/ UNCHANGED <<mailed, reported, doubt>>
     \/ /\ Mine(w).debt \notin Unreachable
        /\ Delivered(w)
        /\ doubt' = doubt \cup {job[w].id}
  /\ pc' = [pc EXCEPT ![w] = "finish"]
  /\ job' = [job EXCEPT ![w].result = "pending"]
  /\ UNCHANGED <<ledger, queue, clock, now, todo, late, raced, undone>>

\* Mutant: the outcome is written whoever holds the row.
FinishAnyway(w) ==
  /\ pc[w] = "finish"
  /\ queue' = [queue EXCEPT ![job[w].id].status = job[w].result]
  /\ pc' = [pc EXCEPT ![w] = "idle"]
  /\ job' = [job EXCEPT ![w] = NoJob]
  /\ UNCHANGED <<ledger, clock, now, todo, outcome, raced, undone>>

\* filter(payload=claimed): a process whose claim was taken over writes nothing.
Finish(w) ==
  /\ pc[w] = "finish"
  /\ queue' = IF queue[job[w].id] = Mine(w)
              THEN [queue EXCEPT ![job[w].id].status = job[w].result] ELSE queue
  /\ pc' = [pc EXCEPT ![w] = "idle"]
  /\ job' = [job EXCEPT ![w] = NoJob]
  /\ UNCHANGED <<ledger, clock, now, todo, outcome, raced, undone>>

\* The process dies and is started again.  Bound: early enough for its claim to
\* expire before the clock stops.
Crash(w) ==
  /\ pc[w] # "idle" \/ todo[w] # {}
  /\ clock + Lease <= MaxTime
  /\ pc' = [pc EXCEPT ![w] = "idle"]
  /\ todo' = [todo EXCEPT ![w] = {}]
  /\ job' = [job EXCEPT ![w] = NoJob]
  /\ doubt' = doubt \cup {e \in {job[w].id} : pc[w] = "finish" /\ job[w].result = "sent"}
  /\ UNCHANGED <<ledger, queue, clock, now, mailed, reported, late, raced, undone>>

Tick ==
  /\ clock < MaxTime
  /\ clock' = clock + 1
  /\ late' = late \cup {job[w].id : w \in {v \in Workers : pc[v] # "idle" /\ Overrun(v, clock + 1)}}
  /\ UNCHANGED <<ledger, queue, workers, mailed, reported, doubt, raced, undone>>

-----------------------------------------------------------------------------
Init ==
  /\ active = [d \in Debts |-> {}]
  /\ ops = 0 /\ queue = <<>> /\ clock = 0
  /\ pc = [w \in Workers |-> "idle"]
  /\ now = [w \in Workers |-> 0]
  /\ todo = [w \in Workers |-> {}]
  /\ job = [w \in Workers |-> NoJob]
  /\ mailed = [e \in Ids |-> 0]
  /\ reported = {} /\ raced = {} /\ undone = {}
  /\ late = {} /\ doubt = {}

Work(w) ==
  \/ Begin(w) \/ Skip(w) \/ Claim(w) \/ ReadDebt(w) \/ ReadFacts(w)
  \/ Send(w) \/ SendFails(w) \/ Finish(w)

Next ==
  \/ \E d \in Debts : RecordPayment(d) \/ \E n \in Numbers : RevertInstallment(d, n)
  \/ \E w \in Workers : Work(w) \/ Crash(w)
  \/ Tick

Spec == Init /\ [][Next]_vars

\* Processes keep running batches and time passes.  An email that is tried again
\* and again is not refused every time, unless its address is unreachable.
Fairness ==
  /\ WF_vars(Tick)
  /\ \A w \in Workers :
       /\ WF_vars(Begin(w) \/ Skip(w) \/ Claim(w) \/ ReadDebt(w) \/ ReadFacts(w) \/ Finish(w))
       /\ WF_vars(Send(w) \/ SendFails(w))
       /\ \A e \in Ids : SF_vars(job[w].id = e /\ Send(w))
FairSpec == Spec /\ Fairness

-----------------------------------------------------------------------------
(* Properties.                                                             *)

Final == {"sent", "cancelled"}

\* An email reaches its client twice only if its batch was older than the lease
\* while it held the email, or the process died or lost the relay's answer after
\* the email had gone out.  Otherwise the compare-and-set claim and the lease
\* keep overlapping processes apart.
AtMostOnce == \A e \in Ids : mailed[e] = 2 => e \in late \cup doubt

\* A row that is sent or cancelled stays as it is, whatever a process that lost
\* its claim does later.
FinalStays ==
  [][\A e \in Rows : queue[e].status \in Final => queue'[e] = queue[e]]_vars

\* No active payment drops out of the emails: it was reported, or a receipt or
\* the full-payment email of the present settlement is still to report it, unless
\* its receipt was being sent when the loan was settled or the settlement that
\* took it over was reverted.
Awaits(d, p) ==
  \E e \in Waiting :
    /\ queue[e].debt = d /\ p \in queue[e].ids
    /\ queue[e].kind = "debt_paid" => queue[e].settlement = active[d]
ReceiptsAccounted ==
  \A d \in Debts : \A p \in active[d] :
    p \in reported \cup raced \cup undone \/ Awaits(d, p)

\* Limit emails that the relay refuses and that are still to be tried again come before it.
Blocked(e) ==
  Cardinality({f \in Waiting : f < e /\ queue[f].debt \in Unreachable}) >= Limit

\* An email to an address that works is sent or found obsolete in the end, however many
\* processes die with it in their hands and although refused emails before it are tried
\* again for ever, unless there are never fewer of those than a batch takes.
EmailsFinish ==
  \A e \in Ids :
    (e \in Rows /\ queue[e].debt \notin Unreachable)
      ~> ((e \in Rows /\ queue[e].status \in Final) \/ [](e \in Rows /\ Blocked(e)))
=============================================================================
