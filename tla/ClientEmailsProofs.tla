------------------------- MODULE ClientEmailsProofs -------------------------
(***************************************************************************)
(* For any number of loans, processes and emails, any batch size, lease    *)
(* and horizon: an email that is finished stays as it is, no email reaches *)
(* its client twice but for the reasons AtMostOnce names, and no payment   *)
(* drops out of the emails but for those ReceiptsAccounted names.          *)
(***************************************************************************)
EXTENDS ClientEmails, TLAPS

Statuses == {"pending", "sending", "sent", "cancelled"}
PaymentRecord == [op : Nat, number : Numbers]
Email == [kind : {"payment_received", "debt_paid"}, debt : Debts, ids : SUBSET PaymentRecord,
          settlement : SUBSET PaymentRecord, status : Statuses, at : Int]
Job == [id : Nat, claimed : Email, paid : BOOLEAN, mentions : SUBSET PaymentRecord,
        result : {"none", "sent", "pending", "cancelled"}]

EmailTypeOK ==
  /\ active \in [Debts -> SUBSET PaymentRecord] /\ ops \in Nat
  /\ queue \in Seq(Email) /\ clock \in Nat
  /\ pc \in [Workers -> {"idle", "debt", "facts", "smtp", "finish"}]
  /\ now \in [Workers -> Nat]
  /\ todo \in [Workers -> SUBSET [id : Nat, seen : Email]]
  /\ DOMAIN job = Workers
  /\ mailed \in [Ids -> 0..2]

\* A batch lists rows that were unfinished, and a process at work has claimed its row.
Listed(w) == \A x \in todo[w] : x.id \in Rows /\ x.seen.status \in {"pending", "sending"}
Claimed(w) ==
  pc[w] # "idle" => /\ job[w] \in Job /\ job[w].id \in Rows
                    /\ Mine(w).status = "sending" /\ Mine(w).at = now[w]
                    /\ pc[w] = "finish" => job[w].result # "none"

\* Every email belongs to a loan; every process at work claimed its row in its batch's time.
ClaimInv ==
  /\ EmailTypeOK
  /\ \A w \in Workers : now[w] <= clock /\ Listed(w) /\ Claimed(w)

\* A row keeps what it says of its loan.
Same(m, n) == m.kind = n.kind /\ m.debt = n.debt /\ m.ids = n.ids /\ m.settlement = n.settlement

-----------------------------------------------------------------------------

LEMMA ClaimInit == Init => ClaimInv
  BY WorkersAssumption DEF Init, ClaimInv, EmailTypeOK, Listed, Claimed

\* Rows are only added, and old rows keep their places.
LEMMA Appended ==
  ASSUME NEW q \in Seq(Email), NEW s \in Seq(Email)
  PROVE  q \o s \in Seq(Email) /\ Len(q) <= Len(q \o s)
         /\ \A e \in 1..Len(q) : (q \o s)[e] = q[e]
  OBVIOUS

\* The emails a payment queues are rows.
LEMMA Emails ==
  ASSUME ClaimInv, NEW d \in Debts, NEW new \in SUBSET PaymentRecord
  PROVE  Receipt(d, new) \in Email /\ SettlementEmail(d, new) \in Email
<1> USE DEF ClaimInv, EmailTypeOK
<1>1. active[d] \in SUBSET PaymentRecord
  OBVIOUS
<1>2. PendingIds(d) \in SUBSET PaymentRecord
  <2>1. \A e \in Rows : queue[e] \in Email
    BY DEF Rows
  <2>2. \A e \in Rows : queue[e].ids \in SUBSET PaymentRecord
    BY <2>1 DEF Email
  <2> QED
    BY ONLY <2>2 DEF PendingIds
<1>3. Receipt(d, new) \in Email
  BY DEF Receipt, Email, Statuses, Never
<1>4. SettlementEmail(d, new) \in Email
  BY <1>1, <1>2 DEF SettlementEmail, Email, Statuses, Never
<1> QED
  BY <1>3, <1>4

\* What a transaction of the ledger adds to the queue.
LEMMA Queued ==
  ASSUME ClaimInv, NEW d \in Debts, RecordPayment(d)
  PROVE  \E s \in Seq(Email) : queue' = queue \o s
<1> USE DEF ClaimInv, EmailTypeOK
<1>1. PICK S \in Choices(d) :
        LET new == {[op |-> ops + 1, number |-> n] : n \in S}
        IN queue' = IF S = Open(d) THEN queue \o <<Receipt(d, new), SettlementEmail(d, new)>>
                    ELSE Append(queue, Receipt(d, new))
  BY DEF RecordPayment
<1> DEFINE new == {[op |-> ops + 1, number |-> n] : n \in S}
<1>2. S \subseteq Numbers
  BY DEF Choices, Open
<1>3. new \in SUBSET PaymentRecord
  BY <1>2 DEF PaymentRecord
<1> HIDE DEF new
<1>4. Receipt(d, new) \in Email /\ SettlementEmail(d, new) \in Email
  BY <1>3, Emails
<1>5. CASE S = Open(d)
  <2>1. <<Receipt(d, new), SettlementEmail(d, new)>> \in Seq(Email)
    BY <1>4
  <2> QED
    BY <1>1, <1>5, <2>1 DEF new
<1>6. CASE S # Open(d)
  <2>1. <<Receipt(d, new)>> \in Seq(Email) /\ Append(queue, Receipt(d, new)) = queue \o <<Receipt(d, new)>>
    BY <1>4
  <2> QED
    BY <1>1, <1>6, <2>1 DEF new
<1> QED
  BY <1>5, <1>6

\* A row that changes keeps its place and its type.
LEMMA Replaced ==
  ASSUME NEW q \in Seq(Email), NEW e \in 1..Len(q), NEW r \in Email
  PROVE  /\ [q EXCEPT ![e] = r] \in Seq(Email) /\ Len([q EXCEPT ![e] = r]) = Len(q)
         /\ [q EXCEPT ![e] = r][e] = r
         /\ \A f \in 1..Len(q) : f # e => [q EXCEPT ![e] = r][f] = q[f]
  OBVIOUS

\* A claim: the row is as the batch listed it, and is not finished.
LEMMA Claiming ==
  ASSUME ClaimInv, NEW w \in Workers, Claim(w)
  PROVE  \E x \in todo[w], claimed \in Email :
           /\ x.id \in Rows /\ queue[x.id] = x.seen /\ x.seen.status \in {"pending", "sending"}
           /\ ~Leased(w, x)
           /\ claimed.status = "sending" /\ claimed.at = now[w] /\ Same(claimed, x.seen)
           /\ queue' = [queue EXCEPT ![x.id] = claimed]
           /\ job'[w] \in Job /\ job'[w].id = x.id /\ job'[w].claimed = claimed
           /\ job'[w].result = "none"
           /\ late' = late \cup {e \in {x.id} : Overrun(w, clock)}
           /\ todo' = [todo EXCEPT ![w] = todo[w] \ {x}]
           /\ DOMAIN job' = Workers /\ \A v \in Workers : v # w => job'[v] = job[v]
           /\ \A v \in Workers : v # w => pc'[v] = pc[v] /\ todo'[v] = todo[v]
           /\ pc'[w] = "debt"
<1> USE DEF ClaimInv, EmailTypeOK
<1>1. PICK x \in todo[w] :
        LET claimed == [x.seen EXCEPT !.status = "sending", !.at = now[w]]
        IN /\ ~Leased(w, x) /\ Unchanged(x)
           /\ queue' = [queue EXCEPT ![x.id] = claimed]
           /\ todo' = [todo EXCEPT ![w] = @ \ {x}]
           /\ job' = [job EXCEPT ![w] =
                [id |-> x.id, claimed |-> claimed, paid |-> FALSE, mentions |-> {}, result |-> "none"]]
           /\ late' = late \cup {e \in {x.id} : Overrun(w, clock)}
  BY DEF Claim
<1> DEFINE claimed == [x.seen EXCEPT !.status = "sending", !.at = now[w]]
<1>2. x.id \in Rows /\ x.id \in Nat /\ x.seen \in Email /\ x.seen.status \in {"pending", "sending"}
  BY DEF Listed
<1>3. claimed \in Email /\ claimed.status = "sending" /\ claimed.at = now[w] /\ Same(claimed, x.seen)
  <2>1. now[w] \in Int /\ "sending" \in Statuses
    BY DEF Statuses
  <2> QED
    BY ONLY <1>2, <2>1 DEF Email, Same
<1>4. pc' = [pc EXCEPT ![w] = "debt"]
  BY DEF Claim
<1>5. queue[x.id] = x.seen
  BY <1>1 DEF Unchanged
<1> HIDE DEF claimed
<1>6. [id |-> x.id, claimed |-> claimed, paid |-> FALSE, mentions |-> {}, result |-> "none"] \in Job
  BY <1>2, <1>3 DEF Job
<1>7. /\ queue' = [queue EXCEPT ![x.id] = claimed]
      /\ job' = [job EXCEPT ![w] =
           [id |-> x.id, claimed |-> claimed, paid |-> FALSE, mentions |-> {}, result |-> "none"]]
  BY <1>1 DEF claimed
<1>8. /\ job'[w] \in Job /\ job'[w].id = x.id /\ job'[w].claimed = claimed /\ job'[w].result = "none"
      /\ DOMAIN job' = Workers /\ \A v \in Workers : v # w => job'[v] = job[v]
  BY <1>6, <1>7
<1> QED
  BY <1>1, <1>2, <1>3, <1>4, <1>5, <1>7, <1>8

\* The end of a claim: nothing is written, or the row that is still the claim's gets
\* its outcome.
LEMMA Finishing ==
  ASSUME ClaimInv, NEW w \in Workers, Finish(w)
  PROVE  /\ queue' \in Seq(Email) /\ Len(queue') = Len(queue)
         /\ \A e \in Rows : ~(e = job[w].id /\ queue[e] = Mine(w)) => queue'[e] = queue[e]
         /\ queue[job[w].id] = Mine(w) =>
              queue'[job[w].id].status = job[w].result /\ Same(queue'[job[w].id], Mine(w))
<1> USE DEF ClaimInv, EmailTypeOK
<1>1. /\ job[w] \in Job /\ job[w].id \in Rows
      /\ queue' = IF queue[job[w].id] = Mine(w)
                  THEN [queue EXCEPT ![job[w].id].status = job[w].result] ELSE queue
  BY DEF Finish, Claimed
<1>2. CASE queue[job[w].id] # Mine(w)
  BY <1>1, <1>2
<1>3. CASE queue[job[w].id] = Mine(w)
  <2> DEFINE row == [queue[job[w].id] EXCEPT !.status = job[w].result]
  <2>1. job[w].result \in Statuses
    BY <1>1 DEF Finish, Claimed, Statuses, Job
  <2>2. row \in Email /\ row.status = job[w].result /\ Same(row, queue[job[w].id])
    <3>1. queue[job[w].id] \in Email
      BY <1>1 DEF Rows
    <3> QED
      BY ONLY <2>1, <3>1 DEF Email, Same
  <2>3. queue' = [queue EXCEPT ![job[w].id] = row]
    BY <1>1, <1>3
  <2> HIDE DEF row
  <2> QED
    BY <1>1, <1>3, <2>2, <2>3, Replaced DEF Rows, Same
<1> QED
  BY <1>2, <1>3

LEMMA ClaimStep == ClaimInv /\ [Next]_vars => ClaimInv'
<1> SUFFICES ASSUME ClaimInv, [Next]_vars PROVE ClaimInv'
  OBVIOUS
<1> USE DEF ClaimInv, EmailTypeOK, ledger, workers, outcome
<1>1. CASE UNCHANGED vars
  BY <1>1 DEF vars, Listed, Claimed, Mine, Rows
<1>2. ASSUME NEW d \in Debts, RecordPayment(d) PROVE ClaimInv'
  <2>1. PICK s \in Seq(Email) : queue' = queue \o s
    BY <1>2, Queued
  <2>2. queue' \in Seq(Email) /\ Len(queue) \in Nat /\ Len(queue') \in Nat /\ Len(queue) <= Len(queue')
    BY <2>1, Appended
  <2>3. PICK S \in Choices(d) :
          active' = [active EXCEPT ![d] = @ \cup {[op |-> ops + 1, number |-> n] : n \in S}]
    BY <1>2 DEF RecordPayment
  <2>4. S \subseteq Numbers
    BY DEF Choices, Open
  <2>5. {[op |-> ops + 1, number |-> n] : n \in S} \in SUBSET PaymentRecord
    BY <2>4 DEF PaymentRecord
  <2>6. active' \in [Debts -> SUBSET PaymentRecord]
    BY <2>3, <2>5
  <2> QED
    BY <1>2, <2>2, <2>6 DEF RecordPayment, Listed, Claimed, Mine, Rows
<1>3. ASSUME NEW d \in Debts, NEW n \in Numbers, RevertInstallment(d, n) PROVE ClaimInv'
  BY <1>3 DEF RevertInstallment, Listed, Claimed, Mine, Rows
<1>4. ASSUME NEW w \in Workers, Begin(w) PROVE ClaimInv'
  <2>1. \A e \in Rows : queue[e] \in Email /\ e \in Nat
    BY DEF Rows
  <2>2. {[id |-> e, seen |-> queue[e]] : e \in Batch} \in SUBSET [id : Nat, seen : Email]
    <3>1. \A e \in Batch : [id |-> e, seen |-> queue[e]] \in [id : Nat, seen : Email]
      BY <2>1 DEF Batch, Waiting
    <3> QED
      BY <3>1
  <2>3. \A x \in {[id |-> e, seen |-> queue[e]] : e \in Batch} :
          x.id \in Rows /\ x.seen.status \in {"pending", "sending"}
    <3>1. \A e \in Batch : e \in Rows /\ queue[e].status \in {"pending", "sending"}
      BY DEF Batch, Waiting
    <3> QED
      BY <3>1
  <2>4. todo' \in [Workers -> SUBSET [id : Nat, seen : Email]]
    BY <1>4, <2>2 DEF Begin
  <2>5. \A v \in Workers : Listed(v)'
    BY <1>4, <2>3 DEF Begin, Listed, Rows
  <2> QED
    BY <1>4, <2>4, <2>5 DEF Begin, Claimed, Mine, Rows
<1>5. ASSUME NEW w \in Workers, Skip(w) PROVE ClaimInv'
  BY <1>5 DEF Skip, Listed, Claimed, Mine, Rows
<1>6. ASSUME NEW w \in Workers, Claim(w) PROVE ClaimInv'
  <2>1. PICK x \in todo[w], claimed \in Email :
          /\ x.id \in Rows /\ claimed.status = "sending" /\ claimed.at = now[w]
          /\ queue' = [queue EXCEPT ![x.id] = claimed]
          /\ job'[w] \in Job /\ job'[w].id = x.id /\ job'[w].claimed = claimed
          /\ todo' = [todo EXCEPT ![w] = todo[w] \ {x}]
          /\ DOMAIN job' = Workers /\ \A v \in Workers : v # w => job'[v] = job[v]
          /\ \A v \in Workers : v # w => pc'[v] = pc[v] /\ todo'[v] = todo[v]
    <3> HIDE DEF ClaimInv, EmailTypeOK
    <3> QED
      BY <1>6, Claiming
  <2>2. queue' \in Seq(Email) /\ Len(queue') = Len(queue)
    BY <2>1, Replaced DEF Rows
  <2>3. pc' \in [Workers -> {"idle", "debt", "facts", "smtp", "finish"}]
    BY <1>6 DEF Claim
  <2>4. todo' \in [Workers -> SUBSET [id : Nat, seen : Email]]
    BY <2>1
  <2>5. \A v \in Workers : Listed(v)'
    BY <2>1, <2>2 DEF Listed, Rows
  <2>6. \A v \in Workers : Claimed(v)'
    BY <1>6, <2>1, <2>2 DEF Claim, Claimed, Mine, Rows
  <2> QED
    BY <1>6, <2>1, <2>2, <2>3, <2>4, <2>5, <2>6 DEF Claim
<1>7. ASSUME NEW w \in Workers, ReadDebt(w) PROVE ClaimInv'
  <2>1. job'[w] = [job[w] EXCEPT !.paid = (Open(Mine(w).debt) = {})] /\ job[w] \in Job
    BY <1>7 DEF ReadDebt, Claimed
  <2>2. job'[w] \in Job /\ job'[w].id = job[w].id /\ job'[w].claimed = job[w].claimed
    BY <2>1 DEF Job
  <2> QED
    BY <1>7, <2>2 DEF ReadDebt, Listed, Claimed, Mine, Rows
<1>8. ASSUME NEW w \in Workers, ReadFacts(w) PROVE ClaimInv'
  <2>1. job[w] \in Job
    BY <1>8 DEF ReadFacts, Claimed
  <2>2. Mentioned(w) \in SUBSET PaymentRecord
    BY <2>1 DEF Mentioned, Mine, Job, Email
  <2>3. \/ job'[w] = [job[w] EXCEPT !.result = "cancelled"]
        \/ job'[w] = [job[w] EXCEPT !.mentions = Mentioned(w)]
    BY <1>8 DEF ReadFacts
  <2>4. /\ job'[w] \in Job /\ job'[w].id = job[w].id /\ job'[w].claimed = job[w].claimed
        /\ pc'[w] = "finish" => job'[w].result = "cancelled"
    BY <1>8, <2>1, <2>2, <2>3 DEF Job, ReadFacts
  <2>5. DOMAIN job' = Workers /\ \A v \in Workers : v # w => job'[v] = job[v]
    BY <1>8 DEF ReadFacts
  <2>6. /\ pc' \in [Workers -> {"idle", "debt", "facts", "smtp", "finish"}]
        /\ \A v \in Workers : v # w => pc'[v] = pc[v]
    BY <1>8 DEF ReadFacts
  <2> QED
    <3>1. \A v \in Workers : Claimed(v)'
      BY <1>8, <2>4, <2>5, <2>6 DEF ReadFacts, Claimed, Mine, Rows
    <3> QED
      BY <1>8, <2>5, <2>6, <3>1 DEF ReadFacts, Listed, Rows
<1>9. ASSUME NEW w \in Workers, Send(w) PROVE ClaimInv'
  <2>1. job'[w] = [job[w] EXCEPT !.result = "sent"] /\ job[w] \in Job
    BY <1>9 DEF Send, Claimed
  <2>2. job'[w] \in Job /\ job'[w].id = job[w].id /\ job'[w].claimed = job[w].claimed
    BY <2>1 DEF Job
  <2>3. mailed' \in [Ids -> 0..2]
    <3>1. mailed' = [mailed EXCEPT ![job[w].id] = IF mailed[job[w].id] = 2 THEN 2 ELSE mailed[job[w].id] + 1]
      BY <1>9 DEF Send, Delivered
    <3>2. CASE job[w].id \in Ids
      BY <3>1, <3>2
    <3>3. CASE job[w].id \notin Ids
      BY <3>1, <3>3
    <3> QED
      BY <3>2, <3>3
  <2> QED
    BY <1>9, <2>2, <2>3 DEF Send, Listed, Claimed, Mine, Rows
<1>10. ASSUME NEW w \in Workers, SendFails(w) PROVE ClaimInv'
  <2>1. job'[w] = [job[w] EXCEPT !.result = "pending"] /\ job[w] \in Job
    BY <1>10 DEF SendFails, Claimed
  <2>2. job'[w] \in Job /\ job'[w].id = job[w].id /\ job'[w].claimed = job[w].claimed
    BY <2>1 DEF Job
  <2>3. mailed' \in [Ids -> 0..2]
    BY <1>10 DEF SendFails, Delivered
  <2> QED
    BY <1>10, <2>2, <2>3 DEF SendFails, Listed, Claimed, Mine, Rows
<1>11. ASSUME NEW w \in Workers, Finish(w) PROVE ClaimInv'
  <2>1. queue' \in Seq(Email) /\ Len(queue') = Len(queue)
    BY <1>11, Finishing
  <2> QED
    BY <1>11, <2>1 DEF Finish, Listed, Claimed, Mine, Rows
<1>12. ASSUME NEW w \in Workers, Crash(w) PROVE ClaimInv'
  BY <1>12 DEF Crash, Listed, Claimed, Mine, Rows
<1>13. CASE Tick
  BY <1>13 DEF Tick, Listed, Claimed, Mine, Rows
<1> QED
  BY <1>1, <1>2, <1>3, <1>4, <1>5, <1>6, <1>7, <1>8, <1>9, <1>10, <1>11, <1>12, <1>13 DEF Next, Work

LEMMA ClaimAlways == Spec => []ClaimInv
  BY ClaimInit, ClaimStep, PTL DEF Spec

-----------------------------------------------------------------------------
(* Finished rows.                                                          *)

LEMMA FinalStep ==
  ASSUME ClaimInv, [Next]_vars
  PROVE  \A e \in Rows : queue[e].status \in Final => queue'[e] = queue[e]
<1> DEFINE Stays == \A e \in Rows : queue[e].status \in Final => queue'[e] = queue[e]
<1> USE DEF ClaimInv, EmailTypeOK, workers
<1>1. ASSUME NEW d \in Debts, RecordPayment(d) PROVE Stays
  <2>1. PICK s \in Seq(Email) : queue' = queue \o s
    BY <1>1, Queued
  <2> QED
    BY <2>1, Appended DEF Rows
<1>2. ASSUME NEW w \in Workers, Claim(w) PROVE Stays
  <2>1. PICK x \in todo[w], claimed \in Email :
          /\ x.id \in Rows /\ queue[x.id].status \in {"pending", "sending"}
          /\ queue' = [queue EXCEPT ![x.id] = claimed]
    <3> HIDE DEF ClaimInv, EmailTypeOK
    <3> QED
      BY <1>2, Claiming
  <2> QED
    BY <2>1, Replaced DEF Rows, Final
<1>3. ASSUME NEW w \in Workers, Finish(w) PROVE Stays
  <2>1. Mine(w).status = "sending"
    BY <1>3 DEF Finish, Claimed
  <2> QED
    BY <1>3, <2>1, Finishing DEF Final
<1>4. CASE queue' = queue
  BY <1>4
<1> QED
  BY <1>1, <1>2, <1>3, <1>4
     DEF Next, Work, vars, RevertInstallment, Begin, Skip, ReadDebt, ReadFacts, Send, SendFails, Crash, Tick

\* A row that is sent or cancelled stays as it is, whatever a process that lost its
\* claim does later.
THEOREM FinalRowsStay == Spec => FinalStays
<1>1. ClaimInv /\ [Next]_vars => [\A e \in Rows : queue[e].status \in Final => queue'[e] = queue[e]]_vars
  BY FinalStep
<1> QED
  BY <1>1, ClaimAlways, PTL DEF Spec, FinalStays

-----------------------------------------------------------------------------
(* At most once.                                                           *)

Working(w) == pc[w] # "idle"

\* Unless its batch has outlived the lease, a process still has the row it claimed,
KeepsClaim(w) == Working(w) /\ job[w].id \notin late => queue[job[w].id] = Mine(w) /\ ~Overrun(w, clock)

\* no other process has it,
Alone(v, w) == Working(v) /\ Working(w) /\ job[v].id = job[w].id /\ job[v].id \notin late => v = w

\* and an email that went out once is sent, or about to be.
Settled(e) ==
  mailed[e] > 0 /\ e \notin late \cup doubt =>
    /\ mailed[e] = 1 /\ e \in Rows
    /\ \/ queue[e].status = "sent"
       \/ \E w \in Workers : pc[w] = "finish" /\ job[w].id = e /\ job[w].result = "sent"

OnceInv ==
  /\ \A w \in Workers : KeepsClaim(w)
  /\ \A v, w \in Workers : Alone(v, w)
  /\ \A e \in Ids : Settled(e)

\* Nobody claims the row of a process that has kept its claim: the lease still runs, as
\* the clock of no batch is ahead of the clock.
LEMMA ClaimsAreKept ==
  ASSUME ClaimInv, OnceInv, NEW v \in Workers, NEW w \in Workers, NEW x \in todo[w],
         x.id \in Rows, queue[x.id] = x.seen, ~Leased(w, x), Working(v), job[v].id = x.id,
         x.id \notin late
  PROVE  FALSE
<1>1. queue[x.id] = Mine(v) /\ ~Overrun(v, clock)
  BY DEF OnceInv, KeepsClaim
<1>2. Mine(v).status = "sending" /\ Mine(v).at = now[v]
  BY DEF ClaimInv, Claimed, Working
<1>3. now[w] <= clock /\ now[w] \in Nat /\ now[v] \in Nat /\ clock \in Nat
  BY DEF ClaimInv, EmailTypeOK
<1> QED
  BY <1>1, <1>2, <1>3, WorkersAssumption DEF Leased, Overrun

LEMMA OnceClaim ==
  ASSUME ClaimInv, OnceInv, NEW w \in Workers, Claim(w)
  PROVE  OnceInv'
<1> USE DEF ClaimInv, EmailTypeOK
<1>1. PICK x \in todo[w], claimed \in Email :
        /\ x.id \in Rows /\ queue[x.id] = x.seen /\ x.seen.status \in {"pending", "sending"}
        /\ ~Leased(w, x)
        /\ queue' = [queue EXCEPT ![x.id] = claimed]
        /\ job'[w].id = x.id /\ job'[w].claimed = claimed
        /\ late' = late \cup {e \in {x.id} : Overrun(w, clock)}
        /\ \A v \in Workers : v # w => job'[v] = job[v]
        /\ \A v \in Workers : v # w => pc'[v] = pc[v]
        /\ pc'[w] = "debt"
  <2> HIDE DEF ClaimInv, EmailTypeOK
  <2> QED
    BY Claiming
<1>2. now' = now /\ clock' = clock /\ mailed' = mailed /\ doubt' = doubt /\ pc[w] = "idle"
  BY DEF Claim
<1>3. /\ Len(queue') = Len(queue) /\ queue'[x.id] = claimed
      /\ \A f \in Rows : f # x.id => queue'[f] = queue[f]
  BY <1>1, Replaced DEF Rows
<1>4. \A v \in Workers : Working(v) /\ job[v].id = x.id => x.id \in late
  BY <1>1, ClaimsAreKept
<1>5. ASSUME NEW v \in Workers PROVE KeepsClaim(v)'
  <2>1. CASE v = w
    BY <1>1, <1>2, <1>3, <2>1 DEF KeepsClaim, Mine, Overrun
  <2>2. CASE v # w
    BY <1>1, <1>2, <1>3, <1>4, <2>2 DEF KeepsClaim, Mine, Overrun, OnceInv, Working, Claimed
  <2> QED
    BY <2>1, <2>2
<1>6. ASSUME NEW v \in Workers, NEW u \in Workers PROVE Alone(v, u)'
  BY <1>1, <1>4 DEF Alone, OnceInv, Working
<1>7. ASSUME NEW e \in Ids PROVE Settled(e)'
  <2> SUFFICES ASSUME mailed[e] > 0, e \notin late \cup doubt
               PROVE  Settled(e)'
    BY <1>1, <1>2 DEF Settled
  <2>1. /\ mailed[e] = 1 /\ e \in Rows
        /\ \/ queue[e].status = "sent"
           \/ \E v \in Workers : pc[v] = "finish" /\ job[v].id = e /\ job[v].result = "sent"
    BY DEF OnceInv, Settled
  <2>2. e # x.id
    BY <1>1, <1>4, <2>1 DEF Working
  <2>3. queue'[e] = queue[e] /\ e \in Rows'
    BY <1>3, <2>1, <2>2 DEF Rows
  <2>4. CASE queue[e].status = "sent"
    BY <1>2, <2>1, <2>3, <2>4 DEF Settled
  <2>5. ASSUME NEW v \in Workers, pc[v] = "finish", job[v].id = e, job[v].result = "sent"
        PROVE  pc'[v] = "finish" /\ job'[v].id = e /\ job'[v].result = "sent"
    BY <1>1, <1>2, <2>5
  <2> QED
    BY <1>2, <2>1, <2>3, <2>4, <2>5 DEF Settled
<1> QED
  BY <1>5, <1>6, <1>7 DEF OnceInv

\* A process reads, or hands the email to the relay and it does not get through.
LEMMA OnceRead ==
  ASSUME ClaimInv, OnceInv, NEW w \in Workers, Working(w), pc[w] # "finish",
         DOMAIN job' = Workers, \A v \in Workers : v # w => job'[v] = job[v] /\ pc'[v] = pc[v],
         job'[w].id = job[w].id, job'[w].claimed = job[w].claimed, pc'[w] # "idle",
         UNCHANGED <<queue, clock, now, mailed, late>>, doubt \subseteq doubt'
  PROVE  OnceInv'
<1>1. ASSUME NEW v \in Workers PROVE KeepsClaim(v)' /\ job'[v].id = job[v].id /\ (Working(v)' <=> Working(v))
  BY DEF OnceInv, KeepsClaim, Mine, Overrun, Working
<1>2. ASSUME NEW v \in Workers, NEW u \in Workers PROVE Alone(v, u)'
  BY <1>1 DEF OnceInv, Alone
<1>3. ASSUME NEW e \in Ids PROVE Settled(e)'
  BY DEF OnceInv, Settled, Rows
<1> QED
  BY <1>1, <1>2, <1>3 DEF OnceInv

LEMMA OnceSend ==
  ASSUME ClaimInv, OnceInv, NEW w \in Workers, Send(w)
  PROVE  OnceInv'
<1> USE DEF ClaimInv, EmailTypeOK
<1>1. /\ job[w] \in Job /\ Working(w) /\ pc[w] = "smtp" /\ job[w].id \in Rows
      /\ Mine(w).status = "sending"
  BY DEF Send, Claimed, Working
<1>2. job'[w] = [job[w] EXCEPT !.result = "sent"]
  BY DEF Send
<1>3. job'[w].id = job[w].id /\ job'[w].claimed = job[w].claimed /\ job'[w].result = "sent"
  BY ONLY <1>1, <1>2 DEF Job
<1>4. /\ pc'[w] = "finish" /\ \A v \in Workers : v # w => job'[v] = job[v] /\ pc'[v] = pc[v]
      /\ UNCHANGED <<queue, clock, now, late, doubt>>
      /\ mailed' = [mailed EXCEPT ![job[w].id] = IF @ = 2 THEN 2 ELSE @ + 1]
  BY DEF Send, Delivered
<1>5. ASSUME NEW v \in Workers PROVE KeepsClaim(v)' /\ job'[v].id = job[v].id /\ (Working(v)' <=> Working(v))
  BY <1>1, <1>3, <1>4 DEF OnceInv, KeepsClaim, Mine, Overrun, Working
<1>6. ASSUME NEW v \in Workers, NEW u \in Workers PROVE Alone(v, u)'
  BY <1>4, <1>5 DEF OnceInv, Alone
<1>7. ASSUME NEW e \in Ids PROVE Settled(e)'
  <2>1. CASE e # job[w].id
    <3>1. mailed'[e] = mailed[e]
      BY <1>4, <2>1
    <3>2. Settled(e)
      BY DEF OnceInv
    <3>3. ASSUME NEW v \in Workers, pc[v] = "finish", job[v].id = e, job[v].result = "sent"
          PROVE  pc'[v] = "finish" /\ job'[v].id = e /\ job'[v].result = "sent"
      BY <1>1, <1>4, <3>3
    <3> QED
      BY <1>4, <3>1, <3>2, <3>3 DEF Settled, Rows
  <2>2. CASE e = job[w].id /\ e \notin late \cup doubt
    <3>1. queue[e] = Mine(w)
      BY <1>1, <2>2 DEF OnceInv, KeepsClaim
    <3>2. \A v \in Workers : pc[v] = "finish" => job[v].id # e
      BY <1>1, <2>2 DEF OnceInv, Alone, Working
    <3>3. mailed[e] = 0
      <4>1. Settled(e) /\ mailed[e] \in 0..2
        BY DEF OnceInv
      <4>2. queue[e].status # "sent"
        BY <1>1, <3>1
      <4> QED
        BY <2>2, <3>2, <4>1, <4>2 DEF Settled
    <3>4. mailed'[e] = 1
      BY <1>4, <2>2, <3>3
    <3> QED
      BY <1>1, <1>3, <1>4, <2>2, <3>4 DEF Settled, Rows
  <2>3. CASE e = job[w].id /\ e \in late \cup doubt
    BY <1>4, <2>3 DEF Settled
  <2> QED
    BY <2>1, <2>2, <2>3
<1> QED
  BY <1>5, <1>6, <1>7 DEF OnceInv

LEMMA OnceFails ==
  ASSUME ClaimInv, OnceInv, NEW w \in Workers, SendFails(w)
  PROVE  OnceInv'
<1> USE DEF ClaimInv, EmailTypeOK
<1>1. job[w] \in Job /\ Working(w) /\ pc[w] # "finish"
  BY DEF SendFails, Claimed, Working
<1>2. job'[w] = [job[w] EXCEPT !.result = "pending"]
  BY DEF SendFails
<1>3. job'[w].id = job[w].id /\ job'[w].claimed = job[w].claimed
  BY ONLY <1>1, <1>2 DEF Job
<1>4. /\ pc'[w] = "finish" /\ \A v \in Workers : v # w => job'[v] = job[v] /\ pc'[v] = pc[v]
      /\ UNCHANGED <<queue, clock, now, late>> /\ DOMAIN job' = Workers
  BY DEF SendFails
<1>5. CASE UNCHANGED <<mailed, doubt>>
  BY <1>1, <1>3, <1>4, <1>5, OnceRead
<1>6. CASE /\ mailed' = [mailed EXCEPT ![job[w].id] = IF @ = 2 THEN 2 ELSE @ + 1]
           /\ doubt' = doubt \cup {job[w].id}
  <2>1. ASSUME NEW v \in Workers PROVE KeepsClaim(v)' /\ job'[v].id = job[v].id /\ (Working(v)' <=> Working(v))
    BY <1>1, <1>3, <1>4 DEF OnceInv, KeepsClaim, Mine, Overrun, Working
  <2>2. ASSUME NEW v \in Workers, NEW u \in Workers PROVE Alone(v, u)'
    BY <1>4, <2>1 DEF OnceInv, Alone
  <2>3. ASSUME NEW e \in Ids PROVE Settled(e)'
    <3>1. CASE e = job[w].id
      BY <1>6, <3>1 DEF Settled
    <3>2. CASE e # job[w].id
      <4>1. mailed'[e] = mailed[e] /\ Settled(e)
        BY <1>6, <3>2 DEF OnceInv
      <4>2. ASSUME NEW v \in Workers, pc[v] = "finish", job[v].id = e, job[v].result = "sent"
            PROVE  pc'[v] = "finish" /\ job'[v].id = e /\ job'[v].result = "sent"
        BY <1>1, <1>4, <4>2
      <4> QED
        BY <1>4, <1>6, <4>1, <4>2 DEF Settled, Rows
    <3> QED
      BY <3>1, <3>2
  <2> QED
    BY <2>1, <2>2, <2>3 DEF OnceInv
<1> QED
  BY <1>5, <1>6 DEF SendFails, Delivered

LEMMA OnceFinish ==
  ASSUME ClaimInv, OnceInv, NEW w \in Workers, Finish(w)
  PROVE  OnceInv'
<1> USE DEF ClaimInv, EmailTypeOK
<1>1. /\ Working(w) /\ job[w].id \in Rows /\ Mine(w).status = "sending" /\ pc[w] = "finish"
      /\ pc'[w] = "idle" /\ \A v \in Workers : v # w => job'[v] = job[v] /\ pc'[v] = pc[v]
      /\ UNCHANGED <<clock, now, mailed, late, doubt>>
  BY DEF Finish, Claimed, Working, outcome
<1>2. /\ Len(queue') = Len(queue)
      /\ \A e \in Rows : ~(e = job[w].id /\ queue[e] = Mine(w)) => queue'[e] = queue[e]
      /\ queue[job[w].id] = Mine(w) => queue'[job[w].id].status = job[w].result
  BY Finishing
<1>3. ASSUME NEW v \in Workers, Working(v)'
      PROVE  v # w /\ Working(v) /\ job'[v] = job[v]
  BY <1>1, <1>3 DEF Working
<1>4. ASSUME NEW v \in Workers PROVE KeepsClaim(v)'
  <2> SUFFICES ASSUME Working(v)', job[v].id \notin late
               PROVE  queue'[job[v].id] = Mine(v) /\ ~Overrun(v, clock)
    BY <1>1, <1>3 DEF KeepsClaim, Mine, Overrun
  <2>1. v # w /\ Working(v)
    BY <1>3
  <2>2. job[v].id # job[w].id
    BY <1>1, <2>1 DEF OnceInv, Alone
  <2>3. queue[job[v].id] = Mine(v) /\ ~Overrun(v, clock)
    BY <2>1 DEF OnceInv, KeepsClaim
  <2>4. job[v].id \in Rows
    BY <2>1 DEF Claimed, Working
  <2> QED
    BY <1>2, <2>2, <2>3, <2>4
<1>5. ASSUME NEW v \in Workers, NEW u \in Workers PROVE Alone(v, u)'
  BY <1>1, <1>3 DEF OnceInv, Alone
<1>6. ASSUME NEW e \in Ids PROVE Settled(e)'
  <2> SUFFICES ASSUME mailed[e] > 0, e \notin late \cup doubt PROVE Settled(e)'
    BY <1>1 DEF Settled
  <2>1. /\ mailed[e] = 1 /\ e \in Rows
        /\ \/ queue[e].status = "sent"
           \/ \E v \in Workers : pc[v] = "finish" /\ job[v].id = e /\ job[v].result = "sent"
    BY DEF OnceInv, Settled
  <2>2. mailed'[e] = 1 /\ e \in Rows'
    BY <1>1, <1>2, <2>1 DEF Rows
  <2>3. CASE queue[e].status = "sent"
    <3>1. queue'[e] = queue[e]
      BY <1>1, <1>2, <2>1, <2>3
    <3> QED
      BY <2>2, <2>3, <3>1 DEF Settled
  <2>4. ASSUME NEW v \in Workers, pc[v] = "finish", job[v].id = e, job[v].result = "sent"
        PROVE  Settled(e)'
    <3>1. CASE v = w
      <4>1. queue[e] = Mine(w)
        BY <1>1, <2>4, <3>1 DEF OnceInv, KeepsClaim
      <4> QED
        BY <1>2, <2>2, <2>4, <3>1, <4>1 DEF Settled
    <3>2. CASE v # w
      <4>1. pc'[v] = "finish" /\ job'[v].id = e /\ job'[v].result = "sent"
        BY <1>1, <2>4, <3>2
      <4> QED
        BY <2>2, <4>1 DEF Settled
    <3> QED
      BY <3>1, <3>2
  <2> QED
    BY <2>1, <2>3, <2>4
<1> QED
  BY <1>4, <1>5, <1>6 DEF OnceInv

\* A dying process leaves its email to the next claim, or in doubt if it had gone out.
LEMMA OnceCrash ==
  ASSUME ClaimInv, OnceInv, NEW w \in Workers, Crash(w)
  PROVE  OnceInv'
<1> USE DEF ClaimInv, EmailTypeOK
<1>1. /\ pc'[w] = "idle" /\ \A v \in Workers : v # w => job'[v] = job[v] /\ pc'[v] = pc[v]
      /\ UNCHANGED <<queue, clock, now, mailed, late>>
      /\ doubt' = doubt \cup {e \in {job[w].id} : pc[w] = "finish" /\ job[w].result = "sent"}
  BY DEF Crash
<1>2. ASSUME NEW v \in Workers, Working(v)'
      PROVE  v # w /\ Working(v) /\ job'[v] = job[v]
  BY <1>1, <1>2 DEF Working
<1>3. ASSUME NEW v \in Workers PROVE KeepsClaim(v)'
  BY <1>1, <1>2 DEF OnceInv, KeepsClaim, Mine, Overrun
<1>4. ASSUME NEW v \in Workers, NEW u \in Workers PROVE Alone(v, u)'
  BY <1>1, <1>2 DEF OnceInv, Alone
<1>5. ASSUME NEW e \in Ids PROVE Settled(e)'
  <2>1. Settled(e)
    BY DEF OnceInv
  <2>2. ASSUME NEW v \in Workers, pc[v] = "finish", job[v].id = e, job[v].result = "sent", e \notin doubt'
        PROVE  pc'[v] = "finish" /\ job'[v].id = e /\ job'[v].result = "sent"
    BY <1>1, <2>2
  <2> QED
    BY <1>1, <2>1, <2>2 DEF Settled, Rows
<1> QED
  BY <1>3, <1>4, <1>5 DEF OnceInv

\* Time passes: whose batch reaches the lease now is late.
LEMMA OnceTick == ClaimInv /\ OnceInv /\ Tick => OnceInv'
<1> SUFFICES ASSUME ClaimInv, OnceInv, Tick PROVE OnceInv'
  OBVIOUS
<1>1. /\ UNCHANGED <<queue, pc, now, job, mailed, doubt>> /\ clock' = clock + 1
      /\ late' = late \cup {job[w].id : w \in {v \in Workers : pc[v] # "idle" /\ Overrun(v, clock + 1)}}
  BY DEF Tick, workers
<1>2. ASSUME NEW v \in Workers PROVE KeepsClaim(v)'
  BY <1>1 DEF OnceInv, KeepsClaim, Mine, Overrun, Working
<1>3. ASSUME NEW v \in Workers, NEW u \in Workers PROVE Alone(v, u)'
  BY <1>1 DEF OnceInv, Alone, Working
<1>4. ASSUME NEW e \in Ids PROVE Settled(e)'
  BY <1>1 DEF OnceInv, Settled, Rows
<1> QED
  BY <1>2, <1>3, <1>4 DEF OnceInv

\* The ledger and the batches that have claimed nothing yet.
LEMMA OnceAside ==
  ASSUME ClaimInv, OnceInv, UNCHANGED <<clock, pc, job, mailed, late, doubt>>,
         \A v \in Workers : Working(v) => now'[v] = now[v],
         Len(queue) <= Len(queue'), Len(queue') \in Nat, \A e \in Rows : queue'[e] = queue[e]
  PROVE  OnceInv'
<1> USE DEF ClaimInv, EmailTypeOK
<1>1. ASSUME NEW v \in Workers PROVE KeepsClaim(v)'
  BY DEF OnceInv, KeepsClaim, Mine, Overrun, Working, Claimed
<1>2. ASSUME NEW v \in Workers, NEW u \in Workers PROVE Alone(v, u)'
  BY DEF OnceInv, Alone, Working
<1>3. ASSUME NEW e \in Ids PROVE Settled(e)'
  BY DEF OnceInv, Settled, Rows
<1> QED
  BY <1>1, <1>2, <1>3 DEF OnceInv

LEMMA OnceStep == ClaimInv /\ OnceInv /\ [Next]_vars => OnceInv'
<1> SUFFICES ASSUME ClaimInv, OnceInv, [Next]_vars PROVE OnceInv'
  OBVIOUS
<1> USE DEF ClaimInv, EmailTypeOK, workers, outcome, ledger
<1>0. Len(queue) \in Nat
  OBVIOUS
<1>1. CASE UNCHANGED vars
  BY <1>0, <1>1, OnceAside DEF vars
<1>2. ASSUME NEW d \in Debts, RecordPayment(d) PROVE OnceInv'
  <2>1. PICK s \in Seq(Email) : queue' = queue \o s
    BY <1>2, Queued
  <2>2. Len(queue) <= Len(queue') /\ Len(queue') \in Nat /\ \A e \in Rows : queue'[e] = queue[e]
    BY <2>1, Appended DEF Rows
  <2>3. UNCHANGED <<clock, pc, job, mailed, late, doubt, now>>
    BY <1>2 DEF RecordPayment
  <2> QED
    BY <2>2, <2>3, OnceAside
<1>3. ASSUME NEW d \in Debts, NEW n \in Numbers, RevertInstallment(d, n) PROVE OnceInv'
  BY <1>0, <1>3, OnceAside DEF RevertInstallment
<1>4. ASSUME NEW w \in Workers, Begin(w) PROVE OnceInv'
  BY <1>0, <1>4, OnceAside DEF Begin, Working
<1>5. ASSUME NEW w \in Workers, Skip(w) PROVE OnceInv'
  BY <1>0, <1>5, OnceAside DEF Skip
<1>6. ASSUME NEW w \in Workers, ReadDebt(w) PROVE OnceInv'
  <2>1. job'[w] = [job[w] EXCEPT !.paid = (Open(Mine(w).debt) = {})] /\ job[w] \in Job
    BY <1>6 DEF ReadDebt, Claimed
  <2>2. job'[w].id = job[w].id /\ job'[w].claimed = job[w].claimed
    BY ONLY <2>1 DEF Job
  <2>3. /\ UNCHANGED <<queue, clock, now, mailed, late, doubt>> /\ pc'[w] # "idle" /\ pc[w] = "debt"
        /\ DOMAIN job' = Workers /\ \A v \in Workers : v # w => job'[v] = job[v] /\ pc'[v] = pc[v]
    BY <1>6 DEF ReadDebt
  <2> QED
    BY <2>2, <2>3, OnceRead DEF Working
<1>7. ASSUME NEW w \in Workers, ReadFacts(w) PROVE OnceInv'
  <2>1. /\ job[w] \in Job
        /\ \/ job'[w] = [job[w] EXCEPT !.result = "cancelled"]
           \/ job'[w] = [job[w] EXCEPT !.mentions = Mentioned(w)]
    BY <1>7 DEF ReadFacts, Claimed
  <2>2. job'[w].id = job[w].id /\ job'[w].claimed = job[w].claimed
    BY ONLY <2>1 DEF Job
  <2>3. /\ UNCHANGED <<queue, clock, now, mailed, late, doubt>> /\ pc'[w] # "idle" /\ pc[w] = "facts"
        /\ DOMAIN job' = Workers /\ \A v \in Workers : v # w => job'[v] = job[v] /\ pc'[v] = pc[v]
    BY <1>7 DEF ReadFacts
  <2> QED
    BY <2>2, <2>3, OnceRead DEF Working
<1> QED
  BY <1>1, <1>2, <1>3, <1>4, <1>5, <1>6, <1>7, OnceClaim, OnceSend, OnceFails, OnceFinish, OnceCrash, OnceTick
     DEF Next, Work

\* An email reaches its client twice only if its batch was older than the lease while it
\* held the email, or the process died or lost the relay's answer after the email had
\* gone out.
THEOREM EmailsReachOnce == Spec => []AtMostOnce
<1>1. Init => OnceInv
  BY DEF Init, OnceInv, KeepsClaim, Alone, Settled, Working
<1>2. OnceInv => AtMostOnce
  BY DEF OnceInv, Settled, AtMostOnce
<1> QED
  BY <1>1, <1>2, ClaimAlways, OnceStep, PTL DEF Spec

-----------------------------------------------------------------------------
(* No payment drops out of the emails.                                     *)

Settles(m) == m.kind = "debt_paid"
Known(m) ==
  /\ \A p \in m.ids \cup m.settlement : p.op <= ops
  /\ Settles(m) => \A n \in Numbers : \E p \in m.settlement : p.number = n

\* An active payment of a settled loan is left to the full-payment email.
ByFinal(d, p, e) ==
  /\ e \in Waiting /\ queue[e].debt = d /\ p \in queue[e].ids
  /\ Settles(queue[e]) /\ queue[e].settlement = active[d]
Covered(d, p) == p \in reported \cup raced \cup undone \/ \E e \in Rows : ByFinal(d, p, e)

Present(w) == Mine(w).ids \cap active[Mine(w).debt]
Reverted(w) == ~(Mine(w).settlement \subseteq active[Mine(w).debt])

\* What a process has read stays true of the payments that are still active: payments that
\* were reversed do not come back.
Remembers(w) ==
  Working(w) =>
    /\ Known(Mine(w))
    /\ pc[w] # "debt" /\ job[w].paid => \A p \in Present(w) : Covered(Mine(w).debt, p)
    /\ pc[w] # "debt" /\ ~job[w].paid /\ Settles(Mine(w)) => Reverted(w)
    /\ pc[w] = "smtp" => Present(w) \subseteq job[w].mentions
    /\ pc[w] = "finish" /\ job[w].result = "sent" => Present(w) \subseteq reported
    /\ pc[w] = "finish" /\ job[w].result = "cancelled" =>
         IF Settles(Mine(w)) THEN Reverted(w) ELSE Present(w) = {} \/ job[w].paid

FactsInv ==
  /\ \A d \in Debts : /\ \A p \in active[d] : p.op <= ops
                      /\ \A p, q \in active[d] : p.number = q.number => p = q
  /\ \A e \in Rows : Known(queue[e])
  /\ \A w \in Workers : Remembers(w)
  /\ \A d \in Debts : Open(d) = {} => \A p \in active[d] : Covered(d, p)

AccountInv == FactsInv /\ ReceiptsAccounted

\* What a payment, or a reversal, does to the active payments.
LEMMA Paying ==
  ASSUME ClaimInv, NEW d \in Debts, RecordPayment(d)
  PROVE  \E S \in SUBSET Open(d), new \in SUBSET PaymentRecord :
           /\ S # {} /\ new = {[op |-> ops + 1, number |-> n] : n \in S}
           /\ active' = [active EXCEPT ![d] = active[d] \cup new] /\ ops' = ops + 1
           /\ IF S = Open(d)
              THEN /\ queue' = queue \o <<Receipt(d, new), SettlementEmail(d, new)>>
                   /\ raced' = raced \cup SendingIds(d)
              ELSE queue' = Append(queue, Receipt(d, new)) /\ raced' = raced
<1> USE DEF ClaimInv, EmailTypeOK
<1>1. PICK S \in Choices(d) :
        LET new == {[op |-> ops + 1, number |-> n] : n \in S}
        IN /\ active' = [active EXCEPT ![d] = @ \cup new]
           /\ IF S = Open(d)
              THEN /\ queue' = queue \o <<Receipt(d, new), SettlementEmail(d, new)>>
                   /\ raced' = raced \cup SendingIds(d)
              ELSE /\ queue' = Append(queue, Receipt(d, new))
                   /\ UNCHANGED raced
  BY DEF RecordPayment
<1>2. S \subseteq Open(d) /\ S # {} /\ S \subseteq Numbers
  <2>1. \A n \in Open(d) : n \in Numbers /\ n <= n
    BY LoansAssumption DEF Open, Numbers
  <2> QED
    BY <2>1 DEF Choices
<1>3. {[op |-> ops + 1, number |-> n] : n \in S} \in SUBSET PaymentRecord
  BY <1>2 DEF PaymentRecord
<1>4. ops' = ops + 1
  BY DEF RecordPayment
<1> DEFINE new == {[op |-> ops + 1, number |-> n] : n \in S}
<1>5. new \in SUBSET PaymentRecord /\ active' = [active EXCEPT ![d] = active[d] \cup new]
  BY <1>1, <1>3
<1>6. IF S = Open(d)
      THEN /\ queue' = queue \o <<Receipt(d, new), SettlementEmail(d, new)>>
           /\ raced' = raced \cup SendingIds(d)
      ELSE queue' = Append(queue, Receipt(d, new)) /\ raced' = raced
  BY <1>1
<1>7. S \in SUBSET Open(d)
  BY <1>2
<1> QED
  BY ONLY <1>2, <1>4, <1>5, <1>6, <1>7

\* Every step: the rows keep what they say, and no payment comes back.
LEMMA NothingReturns ==
  ASSUME ClaimInv, [Next]_vars
  PROVE  /\ \A e \in Rows : e \in Rows' /\ Same(queue'[e], queue[e])
         /\ ops' \in Nat /\ ops <= ops' /\ DOMAIN active' = Debts
         /\ \A d \in Debts : \A p \in active'[d] : p \in PaymentRecord /\ (p.op <= ops => p \in active[d])
         /\ reported \subseteq reported' /\ raced \subseteq raced' /\ undone \subseteq undone'
<1> DEFINE Goal == /\ \A e \in Rows : e \in Rows' /\ Same(queue'[e], queue[e])
                   /\ ops' \in Nat /\ ops <= ops' /\ DOMAIN active' = Debts
                   /\ \A d \in Debts : \A p \in active'[d] :
                        p \in PaymentRecord /\ (p.op <= ops => p \in active[d])
                   /\ reported \subseteq reported' /\ raced \subseteq raced' /\ undone \subseteq undone'
<1> USE DEF ClaimInv, EmailTypeOK, ledger, workers, outcome
<1>1. CASE UNCHANGED <<queue, active, ops>> /\ reported \subseteq reported' /\ UNCHANGED <<raced, undone>>
  BY <1>1 DEF Same, Rows
<1>2. ASSUME NEW d \in Debts, RecordPayment(d) PROVE Goal
  <2>1. PICK s \in Seq(Email) : queue' = queue \o s
    BY <1>2, Queued
  <2>2. \A e \in Rows : e \in Rows' /\ queue'[e] = queue[e]
    BY <2>1, Appended DEF Rows
  <2>3. PICK S \in SUBSET Open(d), new \in SUBSET PaymentRecord :
          /\ new = {[op |-> ops + 1, number |-> n] : n \in S}
          /\ active' = [active EXCEPT ![d] = active[d] \cup new] /\ ops' = ops + 1
          /\ raced \subseteq raced'
    BY <1>2, Paying
  <2>4. \A p \in new : p.op = ops + 1
    BY <2>3
  <2>5. \A c \in Debts : \A p \in active'[c] : p \in PaymentRecord /\ (p.op <= ops => p \in active[c])
    BY <2>3, <2>4
  <2> QED
    BY <1>2, <2>2, <2>3, <2>5 DEF RecordPayment, Same
<1>3. ASSUME NEW d \in Debts, NEW n \in Numbers, RevertInstallment(d, n) PROVE Goal
  BY <1>3 DEF RevertInstallment, Same, Rows
<1>4. ASSUME NEW w \in Workers, Claim(w) PROVE Goal
  <2>1. PICK x \in todo[w], claimed \in Email :
          /\ x.id \in Rows /\ queue[x.id] = x.seen /\ Same(claimed, x.seen)
          /\ queue' = [queue EXCEPT ![x.id] = claimed]
    BY <1>4, Claiming DEF Same
  <2>2. \A e \in Rows : e \in Rows' /\ Same(queue'[e], queue[e])
    BY <2>1, Replaced DEF Same, Rows
  <2> QED
    BY <1>4, <2>2 DEF Claim
<1>5. ASSUME NEW w \in Workers, Finish(w) PROVE Goal
  BY <1>5, Finishing DEF Finish, Same, Rows
<1>6. ASSUME NEW w \in Workers, Send(w) \/ SendFails(w) PROVE Goal
  BY <1>1, <1>6 DEF Send, SendFails, Delivered
<1> QED
  BY <1>1, <1>2, <1>3, <1>4, <1>5, <1>6
     DEF Next, Work, vars, Begin, Skip, ReadDebt, ReadFacts, Crash, Tick

\* An email that is still to report an active payment does so, keeps waiting, or leaves the
\* payment to the full-payment email.
LEMMA EmailKept ==
  ASSUME ClaimInv, FactsInv, [Next]_vars, NEW d \in Debts, NEW p \in active[d], p \in active'[d],
         NEW e \in Waiting, queue[e].debt = d, p \in queue[e].ids,
         Settles(queue[e]) => queue[e].settlement = active[d]
  PROVE  \/ p \in reported' \cup raced' \cup undone'
         \/ e \in Waiting' /\ (Settles(queue[e]) => queue[e].settlement = active'[d])
         \/ ~Settles(queue[e]) /\ Covered(d, p)
<1> DEFINE Goal == \/ p \in reported' \cup raced' \cup undone'
                   \/ e \in Waiting' /\ (Settles(queue[e]) => queue[e].settlement = active'[d])
                   \/ ~Settles(queue[e]) /\ Covered(d, p)
<1> USE DEF EmailTypeOK, ledger, workers, outcome
<1>1. e \in Rows /\ queue[e].status \in {"pending", "sending"} /\ Known(queue[e])
  BY DEF Waiting, FactsInv
<1>2. \A f \in Rows : f \in Rows'
  BY NothingReturns
<1>3. CASE UNCHANGED <<queue, active>>
  BY <1>1, <1>3 DEF Waiting, Rows
<1>4. ASSUME NEW c \in Debts, RecordPayment(c) PROVE Goal
  <2>1. PICK s \in Seq(Email) : queue' = queue \o s
    BY <1>4, Queued
  <2>2. queue'[e] = queue[e]
    BY <1>1, <2>1, Appended DEF Rows, ClaimInv
  <2>3. e \in Waiting'
    BY <1>1, <1>2, <2>2 DEF Waiting
  <2>4. PICK S \in SUBSET Open(c) : S # {} /\ \A b \in Debts : b # c => active'[b] = active[b]
    BY <1>4, Paying DEF ClaimInv
  <2>5. Settles(queue[e]) => c # d
    BY <1>1, <2>4 DEF Known, Open
  <2> QED
    BY <2>3, <2>4, <2>5
<1>5. ASSUME NEW c \in Debts, NEW n \in Numbers, RevertInstallment(c, n) PROVE Goal
  <2>1. queue' = queue /\ e \in Waiting'
    BY <1>1, <1>5 DEF RevertInstallment, Waiting, Rows
  <2>2. CASE c = d /\ Settles(queue[e])
    <3>1. queue[e].kind = "debt_paid" /\ queue[e].status # "sent"
      BY <1>1, <2>2 DEF Settles
    <3>2. p \in undone'
      BY <1>1, <1>5, <2>2, <3>1 DEF RevertInstallment
    <3> QED
      BY <3>2
  <2>3. CASE c # d
    BY <1>5, <2>1, <2>3 DEF RevertInstallment, ClaimInv
  <2> QED
    BY <2>1, <2>2, <2>3
<1>6. ASSUME NEW w \in Workers, Claim(w) PROVE Goal
  <2>1. PICK x \in todo[w], claimed \in Email :
          /\ x.id \in Rows /\ claimed.status = "sending"
          /\ queue' = [queue EXCEPT ![x.id] = claimed]
    <3> HIDE DEF EmailTypeOK
    <3> QED
      BY <1>6, Claiming
  <2>2. e \in Waiting'
    BY <1>1, <1>2, <2>1, Replaced DEF Waiting, Rows, ClaimInv
  <2> QED
    BY <1>6, <2>2 DEF Claim
<1>7. ASSUME NEW w \in Workers, Finish(w) PROVE Goal
  <2>1. /\ active' = active /\ Working(w) /\ pc[w] = "finish" /\ job[w] \in Job /\ job[w].result # "none"
        /\ reported' = reported
    BY <1>7 DEF Finish, Working, ClaimInv, Claimed
  <2>2. /\ \A f \in Rows : ~(f = job[w].id /\ queue[f] = Mine(w)) => queue'[f] = queue[f]
        /\ queue[job[w].id] = Mine(w) => queue'[job[w].id].status = job[w].result
    BY <1>7, Finishing
  <2>3. CASE ~(e = job[w].id /\ queue[e] = Mine(w))
    BY <1>1, <1>2, <2>1, <2>2, <2>3 DEF Waiting
  <2>4. CASE e = job[w].id /\ queue[e] = Mine(w)
    <3>1. Remembers(w) /\ p \in Present(w)
      BY <2>4 DEF FactsInv, Present
    <3>2. CASE job[w].result = "pending"
      BY <1>1, <1>2, <2>1, <2>2, <2>4, <3>2 DEF Waiting
    <3>3. CASE job[w].result = "sent"
      BY <2>1, <3>1, <3>3 DEF Remembers
    <3>4. CASE job[w].result = "cancelled"
      BY <2>1, <2>4, <3>1, <3>4 DEF Remembers, Reverted
    <3> QED
      BY <2>1, <3>2, <3>3, <3>4 DEF Job
  <2> QED
    BY <2>3, <2>4
<1> QED
  BY <1>3, <1>4, <1>5, <1>6, <1>7
     DEF Next, Work, vars, Begin, Skip, ReadDebt, ReadFacts, Send, SendFails, Crash, Tick

LEMMA CoveredKept ==
  ASSUME ClaimInv, FactsInv, [Next]_vars, NEW d \in Debts, NEW p \in active[d], p \in active'[d],
         Covered(d, p)
  PROVE  Covered(d, p)'
<1>1. /\ \A e \in Rows : e \in Rows' /\ Same(queue'[e], queue[e])
      /\ reported \subseteq reported' /\ raced \subseteq raced' /\ undone \subseteq undone'
  BY NothingReturns
<1>2. CASE p \in reported \cup raced \cup undone
  BY <1>1, <1>2 DEF Covered
<1>3. ASSUME NEW e \in Rows, ByFinal(d, p, e) PROVE Covered(d, p)'
  <2>1. \/ p \in reported' \cup raced' \cup undone'
        \/ e \in Waiting' /\ queue[e].settlement = active'[d]
    BY <1>3, EmailKept DEF ByFinal
  <2> QED
    BY <1>1, <1>3, <2>1 DEF Covered, ByFinal, Same, Settles
<1> QED
  BY <1>2, <1>3 DEF Covered

LEMMA AwaitsKept ==
  ASSUME ClaimInv, FactsInv, [Next]_vars, NEW d \in Debts, NEW p \in active[d], p \in active'[d],
         p \in reported \cup raced \cup undone \/ Awaits(d, p)
  PROVE  p \in reported' \cup raced' \cup undone' \/ Awaits(d, p)'
<1>1. /\ \A e \in Rows : e \in Rows' /\ Same(queue'[e], queue[e])
      /\ reported \subseteq reported' /\ raced \subseteq raced' /\ undone \subseteq undone'
  BY NothingReturns
<1>2. Covered(d, p) => p \in reported' \cup raced' \cup undone' \/ Awaits(d, p)'
  <2> SUFFICES ASSUME Covered(d, p)' PROVE p \in reported' \cup raced' \cup undone' \/ Awaits(d, p)'
    BY CoveredKept
  <2> QED
    BY DEF Covered, ByFinal, Awaits
<1>3. ASSUME NEW e \in Waiting, queue[e].debt = d, p \in queue[e].ids,
             Settles(queue[e]) => queue[e].settlement = active[d]
      PROVE  p \in reported' \cup raced' \cup undone' \/ Awaits(d, p)'
  <2>1. \/ p \in reported' \cup raced' \cup undone'
        \/ e \in Waiting' /\ (Settles(queue[e]) => queue[e].settlement = active'[d])
        \/ Covered(d, p)
    BY <1>3, EmailKept
  <2>2. e \in Rows
    BY DEF Waiting
  <2> QED
    BY <1>1, <1>2, <1>3, <2>1, <2>2 DEF Awaits, Same, Settles
<1> QED
  BY <1>1, <1>3 DEF Awaits, Settles

\* Only a payment on the loan brings new payments.
LEMMA OnlyPaid ==
  ASSUME ClaimInv, [Next]_vars, NEW d \in Debts
  PROVE  RecordPayment(d) \/ active'[d] \subseteq active[d]
<1> DEFINE Goal == RecordPayment(d) \/ active'[d] \subseteq active[d]
<1> USE DEF ClaimInv, EmailTypeOK, ledger
<1>1. CASE active' = active
  BY <1>1
<1>2. ASSUME NEW c \in Debts, RecordPayment(c) PROVE Goal
  BY <1>2 DEF RecordPayment
<1>3. ASSUME NEW c \in Debts, NEW n \in Numbers, RevertInstallment(c, n) PROVE Goal
  BY <1>3 DEF RevertInstallment
<1> QED
  BY <1>1, <1>2, <1>3
     DEF Next, Work, vars, Begin, Skip, Claim, ReadDebt, ReadFacts, Send, SendFails, Finish, Crash, Tick

LEMMA TwoAppended ==
  ASSUME NEW q \in Seq(Email), NEW a \in Email, NEW b \in Email
  PROVE  /\ Len(q \o <<a, b>>) = Len(q) + 2 /\ \A e \in 1..Len(q) : (q \o <<a, b>>)[e] = q[e]
         /\ (q \o <<a, b>>)[Len(q) + 1] = a /\ (q \o <<a, b>>)[Len(q) + 2] = b
  OBVIOUS

\* The rows that a payment adds.
LEMMA NewRows ==
  ASSUME ClaimInv, NEW d \in Debts, RecordPayment(d)
  PROVE  \E S \in SUBSET Open(d), new \in SUBSET PaymentRecord :
           /\ S # {} /\ new = {[op |-> ops + 1, number |-> n] : n \in S} /\ ops' = ops + 1
           /\ active' = [active EXCEPT ![d] = active[d] \cup new]
           /\ Len(queue) + 1 \in Rows' /\ queue'[Len(queue) + 1] = Receipt(d, new)
           /\ S = Open(d) => /\ Len(queue) + 2 \in Rows'
                             /\ queue'[Len(queue) + 2] = SettlementEmail(d, new)
                             /\ raced' = raced \cup SendingIds(d)
           /\ \A e \in Rows' : \/ e \in Rows /\ queue'[e] = queue[e]
                               \/ queue'[e] = Receipt(d, new)
                               \/ S = Open(d) /\ queue'[e] = SettlementEmail(d, new)
<1> USE DEF ClaimInv, EmailTypeOK
<1>1. PICK S \in SUBSET Open(d), new \in SUBSET PaymentRecord :
        /\ S # {} /\ new = {[op |-> ops + 1, number |-> n] : n \in S}
        /\ active' = [active EXCEPT ![d] = active[d] \cup new] /\ ops' = ops + 1
        /\ IF S = Open(d)
           THEN /\ queue' = queue \o <<Receipt(d, new), SettlementEmail(d, new)>>
                /\ raced' = raced \cup SendingIds(d)
           ELSE queue' = Append(queue, Receipt(d, new)) /\ raced' = raced
  BY Paying
<1>2. CASE S = Open(d)
  <2>0. Receipt(d, new) \in Email /\ SettlementEmail(d, new) \in Email
    BY Emails
  <2>1. /\ Len(queue') = Len(queue) + 2 /\ \A e \in Rows : queue'[e] = queue[e]
        /\ queue'[Len(queue) + 1] = Receipt(d, new) /\ queue'[Len(queue) + 2] = SettlementEmail(d, new)
    <3>1. queue' = queue \o <<Receipt(d, new), SettlementEmail(d, new)>> /\ queue \in Seq(Email)
      BY <1>1, <1>2
    <3> QED
      BY ONLY <2>0, <3>1, TwoAppended DEF Rows
  <2>2. \A e \in Rows' : e \in Rows \/ e = Len(queue) + 1 \/ e = Len(queue) + 2
    <3>1. Len(queue) \in Nat /\ Len(queue') = Len(queue) + 2
      BY <2>1
    <3> QED
      BY ONLY <3>1 DEF Rows
  <2>3. Len(queue) + 1 \in Rows' /\ Len(queue) + 2 \in Rows'
    BY <2>1 DEF Rows
  <2>4. \A e \in Rows' : \/ e \in Rows /\ queue'[e] = queue[e]
                         \/ queue'[e] = Receipt(d, new)
                         \/ queue'[e] = SettlementEmail(d, new)
    BY <2>1, <2>2
  <2> QED
    BY ONLY <1>1, <1>2, <2>1, <2>3, <2>4
<1>3. CASE S # Open(d)
  <2>1. /\ Len(queue') = Len(queue) + 1 /\ \A e \in Rows : queue'[e] = queue[e]
        /\ queue'[Len(queue) + 1] = Receipt(d, new)
    BY <1>1, <1>3 DEF Rows
  <2>2. \A e \in Rows' : e \in Rows \/ e = Len(queue) + 1
    BY <2>1 DEF Rows
  <2>3. Len(queue) + 1 \in Rows'
    BY <2>1 DEF Rows
  <2>4. \A e \in Rows' : \/ e \in Rows /\ queue'[e] = queue[e]
                         \/ queue'[e] = Receipt(d, new)
    BY <2>1, <2>2
  <2> QED
    BY ONLY <1>1, <1>3, <2>1, <2>3, <2>4
<1> QED
  BY <1>2, <1>3

\* A new payment is in its receipt, and an older one is where it was.
LEMMA AccountedStep == ClaimInv /\ AccountInv /\ [Next]_vars => ReceiptsAccounted'
<1> SUFFICES ASSUME ClaimInv, AccountInv, [Next]_vars, NEW d \in Debts, NEW p \in active'[d]
             PROVE  p \in reported' \cup raced' \cup undone' \/ Awaits(d, p)'
  BY DEF ReceiptsAccounted
<1>1. CASE p \in active[d]
  <2>1. p \in reported \cup raced \cup undone \/ Awaits(d, p)
    BY <1>1 DEF AccountInv, ReceiptsAccounted
  <2> QED
    BY <1>1, <2>1, AwaitsKept DEF AccountInv
<1>2. CASE p \notin active[d]
  <2>1. RecordPayment(d)
    BY <1>2, OnlyPaid
  <2>2. PICK new \in SUBSET PaymentRecord :
          /\ active' = [active EXCEPT ![d] = active[d] \cup new]
          /\ Len(queue) + 1 \in Rows' /\ queue'[Len(queue) + 1] = Receipt(d, new)
    BY <2>1, NewRows
  <2>3. p \in new
    BY <1>2, <2>2 DEF ClaimInv, EmailTypeOK
  <2> DEFINE e == Len(queue) + 1
  <2>4. e \in Waiting' /\ queue'[e].debt = d /\ p \in queue'[e].ids /\ queue'[e].kind # "debt_paid"
    BY <2>2, <2>3 DEF Receipt, Waiting
  <2> QED
    BY <2>4 DEF Awaits
<1> QED
  BY <1>1, <1>2

\* The payment that settles a loan leaves all the others to its full-payment email.
LEMMA SettledStep ==
  ASSUME ClaimInv, AccountInv, [Next]_vars, NEW d \in Debts, Open(d)' = {}, NEW p \in active'[d]
  PROVE  Covered(d, p)'
<1> USE DEF ClaimInv, EmailTypeOK
<1>1. CASE active'[d] \subseteq active[d]
  <2>1. Open(d) = {}
    BY <1>1 DEF Open
  <2> QED
    BY <1>1, <2>1, CoveredKept DEF AccountInv, FactsInv
<1>2. CASE RecordPayment(d)
  <2>1. PICK S \in SUBSET Open(d), new \in SUBSET PaymentRecord :
          /\ S # {} /\ new = {[op |-> ops + 1, number |-> n] : n \in S}
          /\ active' = [active EXCEPT ![d] = active[d] \cup new]
          /\ S = Open(d) => /\ Len(queue) + 2 \in Rows'
                            /\ queue'[Len(queue) + 2] = SettlementEmail(d, new)
                            /\ raced' = raced \cup SendingIds(d)
    BY <1>2, NewRows
  <2>2. active'[d] = active[d] \cup new
    BY <2>1
  <2>3. S = Open(d)
    <3>1. ASSUME NEW n \in Open(d), n \notin S PROVE n \in Open(d)'
      BY <2>1, <2>2, <3>1 DEF Open
    <3> QED
      BY <2>1, <3>1
  <2> DEFINE e == Len(queue) + 2
  <2>4. /\ e \in Waiting' /\ e \in Rows' /\ queue'[e].debt = d /\ Settles(queue'[e])
        /\ queue'[e].settlement = active'[d] /\ queue'[e].ids = new \cup PendingIds(d)
    BY <2>1, <2>2, <2>3 DEF SettlementEmail, Waiting, Settles
  <2>5. CASE p \in new \cup PendingIds(d)
    BY <2>4, <2>5 DEF Covered, ByFinal
  <2>6. CASE p \in active[d] /\ p \notin PendingIds(d)
    <3>1. CASE p \in reported \cup raced \cup undone
      BY <3>1, NothingReturns DEF Covered
    <3>2. ASSUME NEW f \in Waiting, queue[f].debt = d, p \in queue[f].ids,
                 queue[f].kind = "debt_paid" => queue[f].settlement = active[d]
          PROVE  p \in SendingIds(d)
      <4>1. f \in Rows /\ queue[f].status \in {"pending", "sending"} /\ Known(queue[f]) /\ queue[f] \in Email
        BY DEF Waiting, AccountInv, FactsInv, Rows
      <4>2. queue[f].kind # "debt_paid"
        <5>1. PICK n \in S : TRUE
          BY <2>1
        <5>2. n \in Numbers /\ \A q \in active[d] : q.number # n
          BY DEF Open
        <5> QED
          BY <3>2, <4>1, <5>2 DEF Known, Settles
      <4>3. queue[f].kind = "payment_received"
        BY <4>1, <4>2 DEF Email
      <4>4. queue[f].status = "sending"
        BY <2>6, <3>2, <4>1, <4>3 DEF PendingIds
      <4> QED
        BY <3>2, <4>1, <4>3, <4>4 DEF SendingIds
    <3> QED
      BY <2>1, <2>3, <2>6, <3>1, <3>2 DEF AccountInv, ReceiptsAccounted, Awaits, Covered
  <2> QED
    BY <2>2, <2>5, <2>6
<1> QED
  BY <1>1, <1>2, OnlyPaid

\* What every step leaves of the memory of a process.
LEMMA MemoryKept ==
  ASSUME ClaimInv, FactsInv, [Next]_vars, NEW w \in Workers, Working(w)
  PROVE  LET m == Mine(w)
         IN /\ m \in Email
            /\ (\A p \in m.ids \cup m.settlement : p.op <= ops')
            /\ Settles(m) => \A n \in Numbers : \E p \in m.settlement : p.number = n
            /\ m.ids \cap active'[m.debt] \subseteq Present(w)
            /\ Reverted(w) => ~(m.settlement \subseteq active'[m.debt])
            /\ \A d \in Debts : d = m.debt /\ (\A p \in Present(w) : Covered(d, p)) =>
                 \A p \in m.ids \cap active'[d] : Covered(d, p)'
<1> DEFINE m == Mine(w)
<1>1. m \in Email /\ Known(m) /\ m.debt \in Debts
  BY DEF ClaimInv, Claimed, Working, FactsInv, Remembers, Job, Email, Mine
<1>2. \A p \in m.ids \cup m.settlement : p.op <= ops /\ p.op \in Nat
  BY <1>1 DEF Known, Email, PaymentRecord
<1>3. ops \in Nat /\ ops' \in Nat /\ ops <= ops'
  BY NothingReturns DEF ClaimInv, EmailTypeOK
<1>4. \A p \in active'[m.debt] : p.op <= ops => p \in active[m.debt]
  BY <1>1, NothingReturns
<1>5. m.ids \cap active'[m.debt] \subseteq Present(w)
  BY <1>2, <1>4 DEF Present
<1>6. Reverted(w) => ~(m.settlement \subseteq active'[m.debt])
  BY <1>2, <1>4 DEF Reverted
<1>7. ASSUME NEW d \in Debts, d = m.debt, \A p \in Present(w) : Covered(d, p),
             NEW p \in m.ids \cap active'[d]
      PROVE  Covered(d, p)'
  <2>1. p \in active[d] /\ p \in active'[d] /\ Covered(d, p)
    BY <1>5, <1>7 DEF Present
  <2> QED
    BY <2>1, CoveredKept
<1> QED
  BY <1>1, <1>2, <1>3, <1>5, <1>6, <1>7 DEF Known

\* What a process takes with it into the next state.
LEMMA Remembering ==
  ASSUME ClaimInv, FactsInv, [Next]_vars, NEW w \in Workers, Working(w),
         job'[w].claimed = job[w].claimed,
         pc'[w] # "debt" /\ job'[w].paid => \A p \in Present(w) : Covered(Mine(w).debt, p),
         pc'[w] # "debt" /\ ~job'[w].paid /\ Settles(Mine(w)) => Reverted(w),
         pc'[w] = "smtp" => Present(w) \subseteq job'[w].mentions,
         pc'[w] = "finish" /\ job'[w].result = "sent" => Present(w) \subseteq reported',
         pc'[w] = "finish" /\ job'[w].result = "cancelled" =>
           IF Settles(Mine(w)) THEN Reverted(w) ELSE Present(w) = {} \/ job'[w].paid
  PROVE  Remembers(w)'
<1> DEFINE d == Mine(w).debt
<1>1. Mine(w)' = Mine(w) /\ d \in Debts
  BY MemoryKept DEF Mine, Email
<1>2. Known(Mine(w))'
  BY <1>1, MemoryKept DEF Known, Settles
<1>3. Present(w)' \subseteq Present(w) /\ (Reverted(w) => Reverted(w)')
  BY <1>1, MemoryKept DEF Present, Reverted
<1>4. (\A p \in Present(w) : Covered(d, p)) => \A p \in Present(w)' : Covered(Mine(w).debt, p)'
  <2>1. PICK c \in Debts : c = d
    BY <1>1
  <2>2. \A p : Covered(Mine(w).debt, p)' <=> Covered(c, p)'
    BY <1>1, <2>1 DEF Covered, ByFinal
  <2>3. (\A p \in Present(w) : Covered(c, p)) => \A p \in Mine(w).ids \cap active'[c] : Covered(c, p)'
    BY <2>1, MemoryKept
  <2>4. Present(w)' = Mine(w).ids \cap active'[c]
    BY <1>1, <2>1 DEF Present
  <2> QED
    BY <2>1, <2>2, <2>3, <2>4
<1>5. Settles(Mine(w))' <=> Settles(Mine(w))
  BY <1>1 DEF Settles
<1> HIDE DEF d
<1>6. pc'[w] # "debt" /\ job'[w].paid => \A p \in Present(w)' : Covered(Mine(w).debt, p)'
  BY <1>4 DEF d
<1> QED
  BY <1>2, <1>3, <1>5, <1>6 DEF Remembers

\* A process that does not move remembers.
LEMMA RemembersKept ==
  ASSUME ClaimInv, FactsInv, [Next]_vars, NEW w \in Workers, pc'[w] = pc[w], job'[w] = job[w]
  PROVE  Remembers(w)'
<1> SUFFICES ASSUME Working(w) PROVE Remembers(w)'
  BY DEF Remembers, Working
<1>1. Remembers(w) /\ reported \subseteq reported'
  BY NothingReturns DEF FactsInv
<1> QED
  BY <1>1, Remembering DEF Remembers, Working, Mine

LEMMA RemembersClaim ==
  ASSUME ClaimInv, FactsInv, [Next]_vars, NEW w \in Workers, Claim(w)
  PROVE  Remembers(w)'
<1>1. PICK x \in todo[w], claimed \in Email :
        /\ x.id \in Rows /\ queue[x.id] = x.seen /\ Same(claimed, x.seen)
        /\ job'[w].claimed = claimed /\ pc'[w] = "debt"
  BY Claiming
<1>2. Known(claimed)
  BY <1>1 DEF FactsInv, Known, Same, Settles
<1>3. ops' = ops
  BY DEF Claim, ledger
<1> QED
  BY <1>1, <1>2, <1>3 DEF Remembers, Known, Mine, Settles

\* A settled loan has left its payments to the full-payment email; an open one has lost a
\* payment of every settlement.
LEMMA RemembersDebt ==
  ASSUME ClaimInv, FactsInv, [Next]_vars, NEW w \in Workers, ReadDebt(w)
  PROVE  Remembers(w)'
<1> DEFINE m == Mine(w)
<1>1. job'[w] = [job[w] EXCEPT !.paid = (Open(m.debt) = {})] /\ job[w] \in Job /\ Working(w)
  BY DEF ReadDebt, ClaimInv, EmailTypeOK, Claimed, Working
<1>2. job'[w].claimed = m /\ job'[w].paid = (Open(m.debt) = {})
  BY <1>1 DEF Job, Mine
<1>3. pc'[w] = "facts" /\ UNCHANGED <<active, ops>>
  BY DEF ReadDebt, ClaimInv, EmailTypeOK, ledger
<1>4. m \in Email /\ m.debt \in Debts /\ Known(m)
  BY <1>1 DEF FactsInv, Remembers, Job, Mine, Email
<1>5. CASE Open(m.debt) = {}
  <2>1. \A p \in Present(w) : Covered(m.debt, p)
    BY <1>4, <1>5 DEF FactsInv, Present
  <2> QED
    BY <1>1, <1>2, <1>3, <1>5, <2>1, Remembering DEF Mine, Remembers
<1>6. CASE Open(m.debt) # {}
  <2>1. Settles(m) => Reverted(w)
    BY <1>4, <1>6 DEF Known, Open, Reverted
  <2> QED
    BY <1>1, <1>2, <1>3, <1>6, <2>1, Remembering DEF Mine
<1> QED
  BY <1>5, <1>6

LEMMA RemembersFacts ==
  ASSUME ClaimInv, FactsInv, [Next]_vars, NEW w \in Workers, ReadFacts(w)
  PROVE  Remembers(w)'
<1> DEFINE m == Mine(w)
<1>1. /\ job[w] \in Job /\ Working(w) /\ pc[w] = "facts" /\ UNCHANGED <<active, ops>>
      /\ IF Obsolete(w)
         THEN pc'[w] = "finish" /\ job'[w] = [job[w] EXCEPT !.result = "cancelled"]
         ELSE pc'[w] = "smtp" /\ job'[w] = [job[w] EXCEPT !.mentions = Mentioned(w)]
  BY DEF ReadFacts, ClaimInv, EmailTypeOK, Claimed, Working, ledger
<1>2. /\ job'[w].claimed = m /\ job'[w].paid = job[w].paid
      /\ IF Obsolete(w) THEN job'[w].result = "cancelled" ELSE job'[w].mentions = Present(w)
  BY <1>1 DEF Job, Mine, Mentioned, Present
<1>3. m \in Email /\ m.debt \in Debts /\ Known(m) /\ Remembers(w)
  BY <1>1 DEF FactsInv, Remembers, Job, Mine, Email
<1>4. CASE ~Obsolete(w)
  BY <1>1, <1>2, <1>3, <1>4, Remembering DEF Remembers, Mine
<1>5. CASE Obsolete(w)
  <2>1. IF Settles(m) THEN Reverted(w) ELSE Present(w) = {} \/ job[w].paid
    <3>1. CASE ~Settles(m)
      BY <1>3, <1>5, <3>1 DEF Obsolete, Settles, Email, Mentioned, Present
    <3>2. CASE Settles(m) /\ ~job[w].paid
      BY <1>1, <1>3, <3>2 DEF Remembers
    <3>3. CASE Settles(m) /\ job[w].paid
      <4>1. m.settlement # active[m.debt]
        BY <1>5, <3>3 DEF Obsolete, Settles
      <4>2. \A p \in active[m.debt] : \E q \in m.settlement : q.number = p.number
        BY <1>3, <3>3 DEF Known, ClaimInv, EmailTypeOK, PaymentRecord
      <4>3. m.settlement \subseteq active[m.debt] => active[m.debt] \subseteq m.settlement
        BY <1>3, <4>2 DEF FactsInv
      <4> QED
        BY <3>3, <4>1, <4>3 DEF Reverted
    <3> QED
      BY <3>1, <3>2, <3>3
  <2> QED
    BY <1>1, <1>2, <1>3, <1>5, <2>1, Remembering DEF Mine, Remembers
<1> QED
  BY <1>4, <1>5

LEMMA RemembersSend ==
  ASSUME ClaimInv, FactsInv, [Next]_vars, NEW w \in Workers, Send(w) \/ SendFails(w)
  PROVE  Remembers(w)'
<1> DEFINE m == Mine(w)
<1>1. /\ job[w] \in Job /\ Working(w) /\ pc[w] = "smtp" /\ pc'[w] = "finish" /\ UNCHANGED <<active, ops>>
      /\ \/ job'[w] = [job[w] EXCEPT !.result = "sent"] /\ job[w].mentions \subseteq reported'
         \/ job'[w] = [job[w] EXCEPT !.result = "pending"]
  BY DEF Send, SendFails, Delivered, ClaimInv, EmailTypeOK, Claimed, Working, ledger
<1>2. /\ job'[w].claimed = m /\ job'[w].paid = job[w].paid
      /\ \/ job'[w].result = "sent" /\ job[w].mentions \subseteq reported'
         \/ job'[w].result = "pending"
  BY <1>1 DEF Job, Mine
<1>3. m \in Email /\ Known(m) /\ Remembers(w) /\ Present(w) \subseteq job[w].mentions
  BY <1>1 DEF FactsInv, Remembers, Job, Mine
<1> QED
  BY <1>1, <1>2, <1>3, Remembering DEF Remembers, Mine

LEMMA RemembersStep ==
  ASSUME ClaimInv, FactsInv, [Next]_vars, NEW w \in Workers
  PROVE  Remembers(w)'
<1> USE DEF ClaimInv, EmailTypeOK, workers
<1>1. CASE pc'[w] = pc[w] /\ job'[w] = job[w]
  <2> HIDE DEF ClaimInv, EmailTypeOK
  <2> QED
    BY <1>1, RemembersKept
<1>2. CASE pc'[w] = "idle"
  BY <1>2 DEF Remembers, Working
<1>3. CASE Claim(w) \/ ReadDebt(w) \/ ReadFacts(w) \/ Send(w) \/ SendFails(w)
  <2> HIDE DEF ClaimInv, EmailTypeOK
  <2> QED
    BY <1>3, RemembersClaim, RemembersDebt, RemembersFacts, RemembersSend
<1>4. ASSUME NEW v \in Workers, v # w, Work(v) \/ Crash(v)
      PROVE  pc'[w] = pc[w] /\ job'[w] = job[w]
  BY <1>4 DEF Work, Begin, Skip, Claim, ReadDebt, ReadFacts, Send, SendFails, Finish, Crash
<1>5. Begin(w) \/ Skip(w) => pc'[w] = pc[w] /\ job'[w] = job[w]
  BY DEF Begin, Skip
<1>6. Finish(w) \/ Crash(w) => pc'[w] = "idle"
  BY DEF Finish, Crash
<1>7. (\E d \in Debts : RecordPayment(d) \/ \E n \in Numbers : RevertInstallment(d, n)) \/ Tick \/ UNCHANGED vars
        => pc'[w] = pc[w] /\ job'[w] = job[w]
  BY DEF RecordPayment, RevertInstallment, Tick, vars
<1> QED
  BY <1>1, <1>2, <1>3, <1>4, <1>5, <1>6, <1>7 DEF Next, Work

\* Payments and rows that are added are in order.
LEMMA RowsStep ==
  ASSUME ClaimInv, FactsInv, [Next]_vars
  PROVE  /\ \A d \in Debts : /\ \A p \in active'[d] : p.op <= ops'
                             /\ \A p, q \in active'[d] : p.number = q.number => p = q
         /\ \A e \in Rows' : Known(queue[e])'
<1> USE DEF ClaimInv, EmailTypeOK, ledger
<1>1. ops \in Nat /\ ops' \in Nat /\ ops <= ops'
  BY NothingReturns
<1>2. \A e \in Rows : queue[e] \in Email /\ Known(queue[e])
  BY DEF Rows, FactsInv
<1>3. ASSUME NEW e \in Rows', e \in Rows PROVE Known(queue[e])'
  <2>1. Same(queue'[e], queue[e])
    BY <1>3, NothingReturns
  <2>2. \A p \in queue[e].ids \cup queue[e].settlement : p.op <= ops /\ p.op \in Nat
    BY <1>2, <1>3 DEF Known, Email, PaymentRecord
  <2>3. \A p \in queue[e].ids \cup queue[e].settlement : p.op <= ops'
    BY <1>1, <2>2
  <2> QED
    BY <1>2, <1>3, <2>1, <2>3 DEF Known, Same, Settles
<1>4. ASSUME NEW d \in Debts, RecordPayment(d)
      PROVE  /\ \A p \in active'[d] : p.op <= ops'
             /\ \A p, q \in active'[d] : p.number = q.number => p = q
             /\ \A e \in Rows' : Known(queue[e])'
  <2>1. PICK S \in SUBSET Open(d), new \in SUBSET PaymentRecord :
          /\ new = {[op |-> ops + 1, number |-> n] : n \in S} /\ ops' = ops + 1
          /\ active' = [active EXCEPT ![d] = active[d] \cup new]
          /\ \A e \in Rows' : \/ e \in Rows /\ queue'[e] = queue[e]
                              \/ queue'[e] = Receipt(d, new)
                              \/ S = Open(d) /\ queue'[e] = SettlementEmail(d, new)
    <3> HIDE DEF ClaimInv, EmailTypeOK, ledger
    <3> QED
      BY <1>4, NewRows
  <2>2. active'[d] = active[d] \cup new
    BY <2>1
  <2>3. \A p \in new : p.op = ops + 1 /\ p.number \in S /\ p = [op |-> ops + 1, number |-> p.number]
    BY <2>1
  <2>4. \A p \in active[d] : p.op \in Nat /\ p.op <= ops /\ p.number \notin S
    BY DEF FactsInv, PaymentRecord, Open
  <2>5. \A p \in active'[d] : p.op <= ops'
    BY <1>1, <2>1, <2>2, <2>3, <2>4
  <2>6. \A p, q \in active'[d] : p.number = q.number => p = q
    BY <2>2, <2>3, <2>4 DEF FactsInv
  <2>7. \A p \in PendingIds(d) : p.op <= ops'
    <3>1. \A e \in Rows : \A p \in queue[e].ids : p.op <= ops /\ p.op \in Nat
      BY <1>2 DEF Known, Email, PaymentRecord
    <3>2. \A e \in Rows : \A p \in queue[e].ids : p.op <= ops'
      BY <1>1, <3>1
    <3> QED
      BY ONLY <3>2 DEF PendingIds
  <2>8. ASSUME NEW e \in Rows', queue'[e] = Receipt(d, new) PROVE Known(queue[e])'
    BY <1>1, <2>1, <2>3, <2>8 DEF Known, Receipt, Settles
  <2>9. ASSUME NEW e \in Rows', S = Open(d), queue'[e] = SettlementEmail(d, new) PROVE Known(queue[e])'
    <3>1. /\ queue'[e].ids = new \cup PendingIds(d) /\ queue'[e].settlement = active'[d]
      BY <2>2, <2>9 DEF SettlementEmail
    <3>2. \A n \in Numbers : \E p \in active'[d] : p.number = n
      <4> SUFFICES ASSUME NEW n \in Numbers PROVE \E p \in active'[d] : p.number = n
        OBVIOUS
      <4>1. CASE n \in S
        <5>1. [op |-> ops + 1, number |-> n] \in new
          BY <2>1, <4>1
        <5> QED
          BY <2>2, <5>1
      <4>2. CASE n \notin S
        BY <2>2, <2>9, <4>2 DEF Open
      <4> QED
        BY <4>1, <4>2
    <3> QED
      BY <1>1, <2>1, <2>3, <2>5, <2>7, <3>1, <3>2 DEF Known
  <2> QED
    BY <1>3, <2>1, <2>5, <2>6, <2>8, <2>9
<1>5. ASSUME \A d \in Debts : ~RecordPayment(d) PROVE Rows' = Rows
  <2>1. ASSUME NEW w \in Workers, Claim(w) PROVE Rows' = Rows
    <3>1. PICK x \in todo[w], claimed \in Email :
            x.id \in Rows /\ queue' = [queue EXCEPT ![x.id] = claimed]
      <4> HIDE DEF ClaimInv, EmailTypeOK, ledger
      <4> QED
        BY <2>1, Claiming
    <3> QED
      BY <3>1, Replaced DEF Rows
  <2>2. ASSUME NEW w \in Workers, Finish(w) PROVE Rows' = Rows
    BY <2>2, Finishing DEF Rows
  <2>3. queue' = queue => Rows' = Rows
    BY DEF Rows
  <2> QED
    BY <1>5, <2>1, <2>2, <2>3
       DEF Next, Work, vars, workers, RevertInstallment, Begin, Skip, ReadDebt, ReadFacts, Send, SendFails, Crash, Tick
<1>6. ASSUME NEW d \in Debts, active'[d] \subseteq active[d]
      PROVE  /\ \A p \in active'[d] : p.op <= ops'
             /\ \A p, q \in active'[d] : p.number = q.number => p = q
  <2>1. \A p \in active[d] : p.op \in Nat /\ p.op <= ops
    BY DEF FactsInv, PaymentRecord
  <2> QED
    BY <1>1, <1>6, <2>1 DEF FactsInv
<1>7. \A d \in Debts : RecordPayment(d) \/ active'[d] \subseteq active[d]
  BY OnlyPaid
<1> QED
  BY <1>3, <1>4, <1>5, <1>6, <1>7

LEMMA AccountStep == ClaimInv /\ AccountInv /\ [Next]_vars => AccountInv'
<1> SUFFICES ASSUME ClaimInv, AccountInv, [Next]_vars PROVE AccountInv'
  OBVIOUS
<1>1. ReceiptsAccounted'
  BY AccountedStep
<1>2. \A w \in Workers : Remembers(w)'
  BY RemembersStep DEF AccountInv
<1>3. \A d \in Debts : Open(d)' = {} => \A p \in active'[d] : Covered(d, p)'
  BY SettledStep
<1> QED
  BY <1>1, <1>2, <1>3, RowsStep DEF AccountInv, FactsInv

\* No active payment drops out of the emails: it was reported, or an email is still to
\* report it, unless its receipt was being sent when the loan was settled or the
\* settlement that took it over was reverted.
THEOREM NoPaymentUnreported == Spec => []ReceiptsAccounted
<1>1. Init => AccountInv
  <2> SUFFICES ASSUME Init PROVE AccountInv
    OBVIOUS
  <2>1. \A d \in Debts : active[d] = {} /\ Open(d) = Numbers
    BY DEF Init, Open
  <2>2. Rows = {} /\ \A w \in Workers : ~Working(w)
    BY DEF Init, Rows, Working
  <2> QED
    BY <2>1, <2>2 DEF AccountInv, FactsInv, ReceiptsAccounted, Remembers
<1>2. AccountInv => ReceiptsAccounted
  BY DEF AccountInv
<1> QED
  BY <1>1, <1>2, ClaimAlways, AccountStep, PTL DEF Spec
=============================================================================
