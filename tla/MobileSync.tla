----------------------------- MODULE MobileSync -----------------------------
(***************************************************************************)
(* Mobile sync v1: ledger/mobile_sync.py and mobile_sync_view.  Phones     *)
(* keep a copy of the ledger, change it offline, upload all of it with     *)
(* what they deleted, and import the snapshot that is answered.  The web   *)
(* writes the same ledger.                                                 *)
(*                                                                         *)
(* One user.  sync_snapshot is one transaction and one step.  A phone's    *)
(* clock may be wrong, so which side of a row is newer is left open.       *)
(* Columns that are merely copied are left out; a row has its place in the *)
(* tree of client, debt, period and payment, and its amounts.              *)
(***************************************************************************)
EXTENDS Integers, FiniteSets, FiniteSetsExt, Functions

CONSTANTS
  Phones,
  Web,         \* the maker of a row that no phone made
  BaseAmount, PenaltyAmount, \* of a period, and once it is overdue
  Amounts,     \* what a user may pay
  MaxId,       \* bound: rows the server ever has
  MaxEdits,    \* bound: what users do, on phones and on the web
  MaxUploads   \* bound: uploads per phone

ASSUME MobileAssumption ==
  /\ BaseAmount \in Nat \ {0} /\ PenaltyAmount \in Nat \ {0} /\ Amounts \subseteq Nat \ {0}
  /\ Web \notin Phones

VARIABLES
  rows,     \* the server's rows, by public_id
  dead,     \* public_ids whose newest change is a delete
  nextId,
  overdue,  \* the periods have fallen due
  batches,  \* MobileSyncBatch: the uploads that were processed
  local,    \* per phone: its rows, by serverId, or by a negative local id while the phone
            \* knows no serverId
  own,      \* per phone: how many rows it has made
  removed,  \* per phone: sync_deletions, the serverIds it has deleted
  edits,    \* what users have done
  sent,     \* uploads that were ever sent; each may arrive late and more than once
  waiting   \* per phone: the number of the upload it waits for, or 0

server == <<rows, dead, nextId, overdue, batches>>
phones == <<local, own, removed, sent, waiting>>

vars == <<server, phones, edits>>

NoPeriod == 0 \* Payment.installment is NULL

Of(kind, table) == {i \in DOMAIN table : table[i].kind = kind}
Children(i, table) == {j \in DOMAIN table : table[j].parent = i}
Tree(i, table) == {i} \cup Children(i, table) \cup UNION {Children(j, table) : j \in Children(i, table)}
Without(table, S) == [i \in DOMAIN table \ S |-> table[i]]
With(table, i, row) == [j \in DOMAIN table \cup {i} |-> IF j = i THEN row ELSE table[j]]

-----------------------------------------------------------------------------
(* reconcile_debt, for debts repaid in periods.                            *)

Active(table) == {i \in Of("payment", table) : table[i].active}
Total(S, table) == SumFunction([i \in S |-> table[i].amount])
PaidOn(p, table) == Total({i \in Active(table) : table[i].period = p}, table)

Penalty(p, paid) ==
  IF paid >= p.amount /\ p.amount > 0 THEN p.penalty
  ELSE IF overdue /\ paid < p.amount THEN PenaltyAmount
  ELSE 0

ReconciledPeriod(p, table) ==
  LET paid == PaidOn(p, table)
      penalty == Penalty(table[p], paid)
  IN [table[p] EXCEPT !.penalty = penalty, !.amount = table[p].base + penalty, !.paid = paid]

Outstanding(d, table) ==
  SumFunction([p \in {p \in Of("period", table) : table[p].parent = d} |->
                 Max({table[p].amount - table[p].paid, 0})])
Collected(d, table) == Total({i \in Active(table) : table[i].parent = d}, table)

Reconciled(debts, table) ==
  LET after == [i \in DOMAIN table |->
                  IF table[i].kind = "period" /\ table[i].parent \in debts
                  THEN ReconciledPeriod(i, table) ELSE table[i]]
  IN [i \in DOMAIN after |->
        IF i \in debts
        THEN [after[i] EXCEPT !.outstanding = Outstanding(i, after), !.collected = Collected(i, after)]
        ELSE after[i]]

-----------------------------------------------------------------------------
(* The rows.  A row with an origin was made by a phone under a local id.   *)

Client(origin) == [kind |-> "client", parent |-> 0, origin |-> origin]
Debt(client, origin) ==
  [kind |-> "debt", parent |-> client, origin |-> origin, outstanding |-> BaseAmount, collected |-> 0]
Period(debt, number, origin) ==
  [kind |-> "period", parent |-> debt, origin |-> origin, number |-> number,
   base |-> BaseAmount, penalty |-> 0, amount |-> BaseAmount, paid |-> 0]
Payment(debt, period, amount, origin) ==
  [kind |-> "payment", parent |-> debt, origin |-> origin, period |-> period, amount |-> amount,
   active |-> TRUE]

\* What a phone knows of a row.
Copy(kind, parent, period, number, amount) ==
  [kind |-> kind, parent |-> parent, period |-> period, number |-> number, amount |-> amount]
CopyOf(row) ==
  CASE row.kind = "period" -> Copy("period", row.parent, NoPeriod, row.number, row.amount)
    [] row.kind = "payment" -> Copy("payment", row.parent, row.period, 0, row.amount)
    [] OTHER -> Copy(row.kind, row.parent, NoPeriod, 0, 0)

FirstLoan ==
  LET loan == <<Copy("client", 0, NoPeriod, 0, 0), Copy("debt", -1, NoPeriod, 0, 0),
                Copy("period", -2, NoPeriod, 1, BaseAmount)>>
  IN [k \in -3 .. -1 |-> loan[-k]]

\* A client with a loan of one period, made on the web or by a phone that was offline.
Init ==
  /\ dead = {} /\ overdue = FALSE /\ batches = {} /\ sent = {} /\ edits = 0
  /\ own = [p \in Phones |-> 3]
  /\ removed = [p \in Phones |-> {}] /\ waiting = [p \in Phones |-> 0]
  /\ \/ /\ rows = <<Client(<<Web, 0>>), Debt(1, <<Web, 0>>), Period(2, 1, <<Web, 0>>)>>
        /\ nextId = 4
        /\ local = [p \in Phones |-> <<>>]
     \/ /\ rows = <<>> /\ nextId = 1
        /\ \E maker \in Phones : local = [p \in Phones |-> IF p = maker THEN FirstLoan ELSE <<>>]

-----------------------------------------------------------------------------
(* sync_snapshot.  An upload m holds all rows of a phone and what it has   *)
(* deleted.                                                                *)

\* _existing_for_row: by serverId, else by the device and its local id.
Existing(m, k, table) ==
  IF k > 0 THEN {k} \cap DOMAIN table
  ELSE {i \in DOMAIN table : table[i].origin = <<m.phone, k>>}

\* Mutant: rows under a deleted one are passed over instead of refused.
TakenIfLinked(m) ==
  {k \in DOMAIN m.rows : /\ k \notin dead /\ m.rows[k].parent \notin dead
                         /\ m.rows[k].kind \in {"period", "payment"} =>
                              m.rows[m.rows[k].parent].parent \notin dead}

\* _deleted_on_server: rows that were deleted on the server are acknowledged and left.
Taken(m) == DOMAIN m.rows \ dead

\* The rows that are new get the next ids.
IdOf(m, k, table) ==
  IF k = 0 THEN 0
  ELSE IF Existing(m, k, table) # {} THEN Min(Existing(m, k, table))
  ELSE nextId + Cardinality({j \in Taken(m) : j > k /\ Existing(m, j, table) = {}})

Linked(m, k, table) == IF k \in Taken(m) THEN IdOf(m, k, table) ELSE NoPeriod

\* A payment under a period that was deleted keeps its debt only.
Imported(m, k, table) ==
  LET r == m.rows[k]
      parent == IdOf(m, r.parent, table)
      old == Existing(m, k, table)
      origin == IF old = {} THEN <<m.phone, k>> ELSE table[Min(old)].origin
  IN CASE r.kind = "client" -> Client(origin)
       [] r.kind = "debt" -> Debt(parent, origin)
       [] r.kind = "period" -> Period(parent, r.number, origin)
       [] OTHER -> [Payment(parent, Linked(m, r.period, table), r.amount, origin)
                      EXCEPT !.active = IF old = {} THEN TRUE ELSE table[Min(old)].active]

\* _upsert: a row known by its serverId is overwritten only when the phone's is newer.
KeyOf(m, i, table) == CHOOSE k \in Taken(m) : IdOf(m, k, table) = i
Upserted(m, newer, table) ==
  LET ids == {IdOf(m, k, table) : k \in Taken(m)}
      Kept(k) == k > 0 /\ k \notin newer
  IN [i \in DOMAIN table \cup ids |->
        IF i \in ids /\ ~Kept(KeyOf(m, i, table)) THEN Imported(m, KeyOf(m, i, table), table)
        ELSE table[i]]

\* References to rows that are missing, and period numbers taken by another period of
\* the server or of the upload, refuse the upload; so does a client deleted on the
\* server that still has debts.
Sound(m, table) ==
  /\ \A k \in Taken(m) : k > 0 => k \in DOMAIN table
  /\ \A k \in Taken(m) : m.rows[k].kind # "client" => m.rows[k].parent \in Taken(m)
  /\ \A k \in Taken(m), i \in Of("period", table) :
       /\ m.rows[k].kind = "period" /\ table[i].parent = IdOf(m, m.rows[k].parent, table)
       /\ table[i].number = m.rows[k].number
       => i \in Existing(m, k, table)
  /\ \A j, k \in Taken(m) :
       /\ m.rows[j].kind = "period" /\ m.rows[k].kind = "period"
       /\ m.rows[j].parent = m.rows[k].parent /\ m.rows[j].number = m.rows[k].number
       => j = k

Deletable(m, table) == {i \in m.removed \cap DOMAIN table : table[i].kind # "payment"}

\* Mutant: a period's payments go with it.
DroppedWithPayments(m, table) ==
  LET trees == UNION {Tree(i, table) : i \in Deletable(m, table) \ Of("client", table)}
  IN (Deletable(m, table) \cap Of("client", table)) \cup trees
       \cup {i \in Of("payment", table) : table[i].period \in trees}

\* Deleting a debt takes its periods and payments along; a client goes alone.
Dropped(m, table) ==
  LET trees == UNION {Tree(i, table) : i \in Deletable(m, table) \ Of("client", table)}
  IN (Deletable(m, table) \cap Of("client", table)) \cup trees

Protected(m, table) ==
  \E i \in Dropped(m, table) \cap Of("client", table) :
    \E d \in Of("debt", table) : table[d].parent = i /\ d \notin Dropped(m, table)

\* _apply_deletions: a deleted payment is reversed, and payments lose a deleted period.
AfterDeletions(m, table) ==
  [i \in DOMAIN table \ Dropped(m, table) |->
     IF table[i].kind # "payment" THEN table[i]
     ELSE [table[i] EXCEPT !.active = @ /\ i \notin m.removed,
                           !.period = IF @ \in Dropped(m, table) THEN NoPeriod ELSE @]]

\* assess_overdue_penalties, before every sync.
Assessed == Reconciled({d \in Of("debt", rows) : overdue /\ rows[d].outstanding > 0}, rows)

\* Mutant: balances are derived before the deletions are applied.
ResultEarly(m, newer, table) ==
  LET upserted == Upserted(m, newer, table)
      debts == {IdOf(m, k, table) : k \in {j \in Taken(m) : m.rows[j].kind = "debt"}}
  IN AfterDeletions(m, Reconciled(debts, upserted))

Result(m, newer, table) ==
  LET upserted == Upserted(m, newer, table)
      debts == {IdOf(m, k, table) : k \in {j \in Taken(m) : m.rows[j].kind = "debt"}}
  IN Reconciled(debts \ Dropped(m, upserted), AfterDeletions(m, upserted))

Batch(m) == <<m.phone, m.number>>

\* An upload that was processed is only answered again; one that fails leaves nothing
\* but the penalties that were due.
Process(m) ==
  /\ Batch(m) \notin batches
  /\ \E newer \in SUBSET {k \in Taken(m) : k > 0} :
       LET upserted == Upserted(m, newer, Assessed)
       IN IF Sound(m, Assessed) /\ ~Protected(m, upserted)
          THEN /\ rows' = Result(m, newer, Assessed)
               /\ dead' = dead \cup Dropped(m, upserted)
               /\ nextId' = Max({nextId} \cup {i + 1 : i \in DOMAIN upserted})
               /\ nextId' <= MaxId + 1
               /\ batches' = batches \cup {Batch(m)}
          ELSE rows' = Assessed /\ UNCHANGED <<dead, nextId, batches>>
  /\ UNCHANGED <<overdue, phones, edits>>

-----------------------------------------------------------------------------
(* The web.                                                                *)

Edit == edits < MaxEdits /\ edits' = edits + 1

WebPay(i, amount) ==
  /\ Edit /\ nextId <= MaxId
  /\ Assessed[i].paid < Assessed[i].amount
  /\ LET d == rows[i].parent
         paid == Min({amount, Assessed[i].amount - Assessed[i].paid})
     IN rows' = Reconciled({d}, With(Assessed, nextId, Payment(d, i, paid, <<Web, 0>>)))
  /\ nextId' = nextId + 1
  /\ UNCHANGED <<dead, overdue, batches, phones>>

WebRevert(i) ==
  LET paid == {j \in Active(rows) : rows[j].period = i}
  IN /\ Edit /\ paid # {}
     /\ rows' = Reconciled({rows[i].parent},
                           [j \in DOMAIN rows |-> IF j \in paid THEN [rows[j] EXCEPT !.active = FALSE]
                                                  ELSE rows[j]])
     /\ UNCHANGED <<dead, nextId, overdue, batches, phones>>

\* delete_client
WebDelete(i) ==
  /\ Edit
  /\ rows' = Without(rows, Tree(i, rows))
  /\ dead' = dead \cup Tree(i, rows)
  /\ UNCHANGED <<nextId, overdue, batches, phones>>

DueDatePasses ==
  /\ ~overdue
  /\ overdue' = TRUE
  /\ UNCHANGED <<rows, dead, nextId, batches, phones, edits>>

-----------------------------------------------------------------------------
(* The phones.                                                             *)

\* A payment is made offline.
PhonePay(p, k, amount) ==
  /\ Edit /\ local[p][k].kind = "period"
  /\ own' = [own EXCEPT ![p] = @ + 1]
  /\ local' = [local EXCEPT ![p] = With(@, -own'[p], Copy("payment", local[p][k].parent, k, 0, amount))]
  /\ UNCHANGED <<server, removed, sent, waiting>>

\* A period is added offline, as after interest is paid.
PhonePeriod(p, k) ==
  /\ Edit /\ local[p][k].kind = "debt"
  /\ own' = [own EXCEPT ![p] = @ + 1]
  /\ LET number == Cardinality(Of("period", local[p]) \cap Children(k, local[p])) + 1
     IN local' = [local EXCEPT ![p] = With(@, -own'[p], Copy("period", k, NoPeriod, number, BaseAmount))]
  /\ UNCHANGED <<server, removed, sent, waiting>>

\* A row is deleted offline with all under it; a tombstone is kept of those the server has.
PhoneDelete(p, k) ==
  LET gone == Tree(k, local[p])
  IN /\ Edit
     /\ local' = [local EXCEPT ![p] =
                     [j \in DOMAIN @ \ gone |->
                        IF @[j].period \in gone THEN [@[j] EXCEPT !.period = NoPeriod] ELSE @[j]]]
     /\ removed' = [removed EXCEPT ![p] = @ \cup {j \in gone : j > 0}]
     /\ UNCHANGED <<server, own, sent, waiting>>

Upload(p) ==
  LET number == 1 + Cardinality({m \in sent : m.phone = p})
  IN /\ waiting[p] = 0 /\ number <= MaxUploads
     /\ sent' = sent \cup {[phone |-> p, number |-> number, rows |-> local[p], removed |-> removed[p]]}
     /\ waiting' = [waiting EXCEPT ![p] = number]
     /\ UNCHANGED <<server, local, own, removed, edits>>

\* snapshot_for_user, imported: rows the server no longer has go, rows it does not know
\* stay, with the rows above them.
ImportSnapshot(p) ==
  LET shown == {i \in DOMAIN rows : rows[i].kind = "payment" => rows[i].active} \ removed[p]
      Found(k) == {i \in shown : rows[i].origin = <<p, k>>}
      Named(k) == IF k < 0 /\ Found(k) # {} THEN Min(Found(k)) ELSE k
      unsynced == {k \in DOMAIN local[p] : k < 0 /\ Found(k) = {}}
      above == {k \in DOMAIN local[p] : Tree(k, local[p]) \cap unsynced # {}}
  IN local' = [local EXCEPT ![p] =
       [k \in shown \cup unsynced \cup {Named(k) : k \in above} |->
          IF k \in shown THEN CopyOf(rows[k])
          ELSE [local[p][k] EXCEPT !.parent = Named(@), !.period = Named(@)]]]

\* A reply arrives, and the tombstones it answers are dropped.
Reply(p) ==
  /\ <<p, waiting[p]>> \in batches
  /\ ImportSnapshot(p)
  /\ waiting' = [waiting EXCEPT ![p] = 0]
  /\ LET m == CHOOSE m \in sent : m.phone = p /\ m.number = waiting[p]
     IN removed' = [removed EXCEPT ![p] = @ \ m.removed]
  /\ UNCHANGED <<server, own, sent, edits>>

Pull(p) ==
  /\ waiting[p] = 0
  /\ ImportSnapshot(p)
  /\ UNCHANGED <<server, own, removed, sent, waiting, edits>>

\* A reply or the upload is lost, or refused; what was sent may still arrive.
GiveUp(p) ==
  /\ waiting[p] # 0
  /\ waiting' = [waiting EXCEPT ![p] = 0]
  /\ UNCHANGED <<server, local, own, removed, sent, edits>>

Next ==
  \/ \E m \in sent : Process(m)
  \/ \E i \in Of("period", rows) : WebRevert(i) \/ \E a \in Amounts : WebPay(i, a)
  \/ \E i \in Of("client", rows) : WebDelete(i)
  \/ DueDatePasses
  \/ \E p \in Phones :
       \/ Upload(p) \/ Reply(p) \/ Pull(p) \/ GiveUp(p)
       \/ \E k \in DOMAIN local[p] :
            PhoneDelete(p, k) \/ PhonePeriod(p, k) \/ \E a \in Amounts : PhonePay(p, k, a)

Spec == Init /\ [][Next]_vars

-----------------------------------------------------------------------------
(* Properties.                                                             *)

Processed(m) == Batch(m) \notin batches /\ Batch(m) \in batches'

\* An upload, however old its copy of the ledger, takes no payment from it that the
\* phone did not delete with its debt or by itself, brings none back that was
\* reversed, and changes no amount that was paid.
FactsSurvive ==
  [][\A m \in sent : Processed(m) =>
       \A i \in Of("payment", rows) :
         IF i \in DOMAIN rows'
         THEN /\ rows'[i].active => rows[i].active
              /\ rows[i].active /\ i \notin m.removed => rows'[i].active
              /\ rows'[i].amount = rows[i].amount
         ELSE rows[i].parent \in m.removed]_vars

\* What the server takes from an upload it has: each of its rows is a row of the
\* server under the same parent, or one the server has deleted.  None is passed over.
NothingDropped ==
  [][\A m \in sent : Processed(m) =>
       \A k \in DOMAIN m.rows :
         IF k > 0 THEN k \in DOMAIN rows' \cup dead'
         ELSE \E i \in DOMAIN rows' : /\ rows'[i].origin = <<m.phone, k>>
                                      /\ rows'[i].kind = m.rows[k].kind
                                      /\ m.rows[k].parent > 0 => rows'[i].parent = m.rows[k].parent]_vars

\* Uploads, payments, reversals and deletions in any order leave every balance derived
\* from the payments that are not reversed.
BooksFollow ==
  /\ \A p \in Of("period", rows) : rows[p].paid = PaidOn(p, rows)
  /\ \A d \in Of("debt", rows) : /\ rows[d].collected = Collected(d, rows)
                                 /\ rows[d].outstanding = Outstanding(d, rows)
=============================================================================
