------------------------------ MODULE SyncPush ------------------------------
(***************************************************************************)
(* Pushes of protocol v2: apply_mutation of ledger/sync_v2.py, with the    *)
(* outboxes of the phones, retries and late copies of a push, browser      *)
(* writers, and compaction of the change log the conflict tests read.      *)
(*                                                                         *)
(* One account with one single-period loan.  apply_mutation is one write   *)
(* transaction and therefore one step.  Amounts are small integers: a unit *)
(* of capital bears one of interest per period, and nothing is overdue.    *)
(***************************************************************************)
EXTENDS Integers, FiniteSets, Sequences, SequencesExt, FiniteSetsExt, Functions

CONSTANTS
  Phones, Web,           \* the writers
  Loan, Periods, Payments, \* public ids
  WebPeriods, WebPayments, \* those the browser creates
  NoPeriod,              \* Payment.installment is NULL
  Principal,             \* the capital of the loan
  Existing,              \* may the loan have been made in the browser before the start?
  FirstPeriod,           \* its period
  Actions,               \* what the phones may queue: sets of row changes
  MaxQueue,              \* bound: mutations ever queued, by all phones together
  MaxPk                  \* bound: changes logged when the last browser write begins

Row == {Loan} \cup Periods \cup Payments

ASSUME RowsAssumption ==
  /\ Loan \notin Periods \cup Payments
  /\ Periods \cap Payments = {}
  /\ NoPeriod \notin Row
  /\ FirstPeriod \in Periods
  /\ WebPeriods \subseteq Periods
  /\ WebPayments \subseteq Payments
  /\ Web \notin Phones
  /\ Existing \subseteq BOOLEAN
  /\ IsFiniteSet(Periods) /\ IsFiniteSet(Payments)
  /\ Principal \in Nat

\* A push holds at most 100 changes; the number of a period is a positive
\* integer column, and an insert of a period brings it with the base amount.
WellFormed(c) ==
  /\ c.row \in Row
  /\ c.row \in Periods => /\ "number" \in DOMAIN c.fields => c.fields.number \in Nat
                          /\ c.op = "insert" => {"number", "baseAmount"} \subseteq DOMAIN c.fields

ASSUME ActionsAssumption ==
  \A changes \in Actions : IsFiniteSet(changes) /\ \A c \in changes : WellFormed(c)

VARIABLES
  db,       \* the rows, the loan's revision, SyncChange and SyncCursorFloor
  record,   \* SyncMutation: the result stored for a phone's mutation
  outbox,   \* the mutations of a phone, in order
  next,     \* the one it is pushing
  answers,  \* push results on their way to the phone
  known,    \* the phone's cursor and the revision of the loan it holds
  past,     \* every change ever logged (never compacted)
  accepted, \* how mutations were accepted
  refused   \* and which were refused as stale

server == <<db, record, past, accepted, refused>>
phones == <<outbox, next, known>>
vars == <<server, phones, answers>>

-----------------------------------------------------------------------------
(* Row writes and the change log.                                          *)

Live(r, base) == r \in DOMAIN base.rows
Over(new, old) == [k \in DOMAIN new \cup DOMAIN old |-> IF k \in DOMAIN new THEN new[k] ELSE old[k]]

\* The revision column of the loan after a save of r.
NewRevision(base, r) == IF r = Loan THEN base.lastPk + 1 ELSE base.rev

\* A save logs the wire fields it changes, all of them for a new row.
Saved(base, r, fields, by) ==
  [base EXCEPT
     !.rows = Over([q \in {r} |-> fields], @),
     !.rev = NewRevision(base, r),
     !.lastPk = @ + 1,
     !.log = @ \cup {[pk |-> base.lastPk + 1, row |-> r, op |-> "upsert", by |-> by,
                      changed |-> {k \in DOMAIN fields : Live(r, base) => fields[k] # base.rows[r][k]}]}]

Deleted(base, r, by) ==
  [base EXCEPT
     !.rows = Restrict(@, DOMAIN @ \ {r}),
     !.lastPk = @ + 1,
     !.log = @ \cup {[pk |-> base.lastPk + 1, row |-> r, op |-> "delete", by |-> by, changed |-> {}]}]

\* Several rows but not the loan, saved or deleted one after the other.
SavedEach(base, new, by) ==
  LET order == SetToSeq(DOMAIN new)
      Changed(r) == {k \in DOMAIN new[r] : Live(r, base) => new[r][k] # base.rows[r][k]}
  IN [base EXCEPT
        !.rows = Over(new, @),
        !.lastPk = @ + Len(order),
        !.log = @ \cup {[pk |-> base.lastPk + k, row |-> order[k], op |-> "upsert", by |-> by,
                         changed |-> Changed(order[k])] : k \in 1..Len(order)}]

DeletedEach(base, S, by) ==
  LET order == SetToSeq(S)
  IN [base EXCEPT
        !.rows = Restrict(@, DOMAIN @ \ S),
        !.lastPk = @ + Len(order),
        !.log = @ \cup {[pk |-> base.lastPk + k, row |-> order[k], op |-> "delete", by |-> by,
                         changed |-> {}] : k \in 1..Len(order)}]

-----------------------------------------------------------------------------
(* reconcile_debt for a loan of one period at a time without penalties.    *)

Active(base) == {p \in Payments : Live(p, base) /\ ~base.rows[p].reversedAt}
Sum(base, S) == SumFunction([p \in S |-> base.rows[p].amount])
PaidOn(base, i) == Sum(base, {p \in Active(base) : base.rows[p].installmentId = i})
Collected(base) == Sum(base, Active(base))
CapitalRemaining(base) ==
  Max({0, Principal - Sum(base, {p \in Active(base) : /\ base.rows[p].type = "principal"
                                                      /\ base.rows[p].installmentId = NoPeriod})})
Outstanding(base) ==
  CapitalRemaining(base) + SumFunction([i \in {i \in Periods : Live(i, base)} |->
                                          Max({0, base.rows[i].baseAmount - PaidOn(base, i)})])

InBooks(base) ==
  [base.rows[Loan] EXCEPT !.collected = Collected(base), !.capitalRemaining = CapitalRemaining(base),
                          !.outstanding = Outstanding(base)]

Reconciled(base, by) ==
  LET changed == {i \in Periods : Live(i, base) /\ base.rows[i].paidAmount # PaidOn(base, i)}
      periods == SavedEach(base, [i \in changed |-> [base.rows[i] EXCEPT !.paidAmount = PaidOn(base, i)]], by)
  IN IF base.rows[Loan] = InBooks(base) THEN periods ELSE Saved(periods, Loan, InBooks(base), by)

-----------------------------------------------------------------------------
(* One row change of a mutation.  w is the unfinished mutation.            *)

DebtFields == {"penaltyRate", "dueDate"}

\* Mutant: balances count as well, which change with every payment.
StructuralWithBooks(c) ==
  \/ c.row = Loan /\ (c.op = "delete" \/ c.changed \cap {"dueDate", "capitalRemaining", "outstanding"} # {})
  \/ c.row \in Periods /\ (c.op = "delete" \/ c.changed \cap {"number", "dueDate", "baseAmount"} # {})

Structural(c) ==
  \/ c.row = Loan /\ (c.op = "delete" \/ c.changed \cap {"dueDate", "capitalRemaining"} # {})
  \/ c.row \in Periods /\ (c.op = "delete" \/ c.changed \cap {"number", "dueDate", "baseAmount"} # {})

\* Mutant: tombstones have no changed fields and are passed over.
StructureEdited(w) ==
  \E c \in w.db.log : c.pk > w.base /\ c.by.device # w.by.device /\ c.op # "delete" /\ Structural(c)

\* Mutant: only the changes of the mutation itself are left out.
StructureChangedByOthers(w) ==
  \E c \in w.db.log : c.pk > w.base /\ c.by # w.by /\ Structural(c)

\* _structure_changed_since
StructureChanged(w) ==
  \E c \in w.db.log : c.pk > w.base /\ c.by.device # w.by.device /\ Structural(c)

\* Mutant: only the newest change of the loan is compared.
ConflictingNewest(w, fields) ==
  fields \cap UNION {c.changed : c \in {e \in w.db.log : e.pk = w.db.rev /\ e.pk > w.base}}

\* _conflicting_fields
Conflicting(w, fields) ==
  fields \cap UNION {c.changed : c \in {e \in w.db.log : e.row = Loan /\ e.pk > w.base}}

Conflicts == {"stale_base_revision", "already_exists"}
Failed(w, reason) == [w EXCEPT !.error = reason]
Done(w, base) == [w EXCEPT !.db = base, !.applied = TRUE]
Touching(w, base) == [Done(w, base) EXCEPT !.touched = TRUE]

\* Mutant: deleting a period leaves the balances of the loan alone.
AfterDeleteUntouched(w, base) == Done(w, base)
AfterDelete(w, base) == Touching(w, base)

\* _parent_revision: a structural edit needs the revision it was made on.
Parent(w, edited) ==
  IF StructureChanged(w) THEN Failed(w, "stale_base_revision") ELSE [edited EXCEPT !.structural = TRUE]

Insert(w, c) ==
  LET base == w.db
      New(v, fields) == Touching(v, Saved(base, c.row, Over(c.fields, fields), v.by))
      NewPeriod(v) == IF \E i \in Periods : Live(i, base) /\ base.rows[i].number = c.fields.number
                      THEN Failed(v, "invalid_change") ELSE New(v, [paidAmount |-> 0])
  IN CASE Live(c.row, base) ->
            IF \A k \in DOMAIN c.fields : base.rows[c.row][k] = c.fields[k]
            THEN w ELSE Failed(w, "already_exists")
       [] c.row = Loan /\ ~Live(c.row, base) ->
            [New(w, [collected |-> 0, capitalRemaining |-> Principal, outstanding |-> 2 * Principal])
               EXCEPT !.created = TRUE]
       [] c.row # Loan /\ ~Live(Loan, base) -> Failed(w, "not_found")
       [] c.row \in Periods /\ Live(Loan, base) /\ ~Live(c.row, base) ->
            IF w.created THEN NewPeriod(w) ELSE Parent(w, NewPeriod(w))
       [] OTHER ->
            IF c.fields.installmentId = NoPeriod \/ Live(c.fields.installmentId, base)
            THEN New(w, [reversedAt |-> FALSE]) ELSE Failed(w, "not_found")

UpdateLoan(w, c) ==
  LET fields == Restrict(c.fields, DebtFields \cap DOMAIN c.fields)
      Save(v) ==
        LET noted == [v EXCEPT !.sets = @ \cup DOMAIN fields,
                               !.notices = @ \cup Conflicting(v, DOMAIN fields)]
        IN Touching(noted, IF DOMAIN fields = {} THEN v.db
                           ELSE Saved(v.db, Loan, Over(fields, v.db.rows[Loan]), v.by))
  IN IF "capitalRemaining" \in DOMAIN c.fields THEN Parent(w, Save(w)) ELSE Save(w)

Update(w, c) ==
  LET Save(v) == Touching(v, Saved(v.db, c.row, Over(c.fields, v.db.rows[c.row]), v.by))
  IN CASE ~Live(c.row, w.db) -> Failed(w, "not_found")
       [] c.row = Loan /\ Live(c.row, w.db) -> UpdateLoan(w, c)
       [] c.row \in Periods /\ Live(c.row, w.db) -> Parent(w, Save(w))
       [] OTHER -> Save(w)

\* A payment is reversed, a period is detached from its payments, a loan goes
\* with everything under it.
Delete(w, c) ==
  LET Reversed(b, p) == Saved(b, p, [b.rows[p] EXCEPT !.reversedAt = TRUE], w.by)
      Linked == {p \in Payments : Live(p, w.db) /\ w.db.rows[p].installmentId = c.row}
      Detached == SavedEach(w.db, [p \in Linked |-> [w.db.rows[p] EXCEPT !.installmentId = NoPeriod]], w.by)
      DropPeriod(v) == AfterDelete(v, Deleted(Detached, c.row, v.by))
      DropLoan(v) == Done(v, Deleted(DeletedEach(v.db, DOMAIN v.db.rows \ {Loan}, v.by), Loan, v.by))
  IN CASE ~Live(c.row, w.db) -> Failed(w, "not_found")
       [] c.row = Loan /\ Live(c.row, w.db) -> Parent(w, DropLoan(w))
       [] c.row \in Periods /\ Live(c.row, w.db) -> Parent(w, DropPeriod(w))
       [] OTHER -> Touching(w, IF w.db.rows[c.row].reversedAt THEN w.db ELSE Reversed(w.db, c.row))

-----------------------------------------------------------------------------
(* apply_mutation.                                                         *)

\* Deletions come last, children before parents; the rest in parent order.
Rank(c) ==
  LET order == CASE c.row = Loan -> 1 [] c.row \in Periods -> 2 [] OTHER -> 3
  IN IF c.op = "delete" THEN 10 - order ELSE order
LastOf(changes) == CHOOSE c \in changes : \A e \in changes : Rank(e) <= Rank(c)

ApplyOne(w, c) ==
  IF w.error # "none" THEN w
  ELSE CASE c.op = "insert" -> Insert(w, c) [] c.op = "update" -> Update(w, c) [] OTHER -> Delete(w, c)

\* A new loan needs a period; a loan that was touched is reconciled.
Finished(w) ==
  CASE w.error # "none" -> w
    [] w.error = "none" /\ w.created /\ ~\E i \in Periods : Live(i, w.db) -> Failed(w, "missing_installments")
    [] OTHER -> IF w.touched /\ Live(Loan, w.db) THEN [w EXCEPT !.db = Reconciled(@, w.by)] ELSE w

Begun(d, i) ==
  [db |-> db, base |-> outbox[d][i].base, by |-> [device |-> d, id |-> i], error |-> "none",
   applied |-> FALSE, created |-> FALSE, touched |-> FALSE, structural |-> FALSE,
   sets |-> {}, notices |-> {}]

\* The changes are applied in turn: the last to all the others.
Work(d, i) ==
  Finished(MapThenFoldSet(LAMBDA c, w : ApplyOne(w, c), Begun(d, i), LAMBDA c : c, LastOf, outbox[d][i].changes))

Status(w) ==
  CASE w.error = "none" -> IF w.applied THEN "applied" ELSE "duplicate"
    [] w.error \in Conflicts -> "conflict"
    [] OTHER -> "rejected"

\* Mutant: what was saved before the failing change stays.
CommittedAlways(w) == w.db

\* The inner transaction of a mutation that fails is rolled back.
Committed(w) == IF w.error = "none" THEN w.db ELSE db

\* Mutant: only a mutation that was applied is remembered.
IsRetryApplied(d, i) == record[d][i] = "applied"
IsRetry(d, i) == record[d][i] # "none"

Answer(d, i, status) == answers' = [answers EXCEPT ![d] = @ \cup {<<i, status>>}]

\* A retry, or a late copy of a push the phone is done with.
Retry(d, i) ==
  /\ IsRetry(d, i) /\ i = next[d]
  /\ Answer(d, i, "duplicate")
  /\ UNCHANGED <<server, phones>>

About(d, i) ==
  [device |-> d, id |-> i, seen |-> outbox[d][i].seen, at |-> db.lastPk, floor |-> db.floor]

\* The record, the rows and the loan's books are one transaction.  accepted
\* and refused only note what the decision was about.
Apply(d, i) ==
  /\ ~IsRetry(d, i)
  /\ \E w \in {Work(d, i)} :
       /\ record' = [record EXCEPT ![d][i] = Status(w)]
       /\ Answer(d, i, Status(w))
       /\ db' = Committed(w)
       /\ past' = past \cup db'.log
       /\ accepted' = IF w.error # "none" THEN accepted
                      ELSE accepted \cup {[about |-> About(d, i), structural |-> w.structural,
                                           silent |-> w.sets \ w.notices]}
       /\ refused' = IF w.error = "stale_base_revision" THEN refused \cup {About(d, i)} ELSE refused
  /\ UNCHANGED phones

\* A push reaches the server: the one the phone is waiting for or an older one.
Deliver(d) ==
  \E i \in 1..Len(outbox[d]) : i <= next[d] /\ (Retry(d, i) \/ Apply(d, i))

-----------------------------------------------------------------------------
(* The phones.                                                             *)

MayQueue == Cardinality(UNION {{d} \X DOMAIN outbox[d] : d \in Phones}) < MaxQueue

\* The phone follows the feed, or its cursor has expired and it bootstraps.
Pull(d) ==
  /\ known[d].cursor < db.lastPk /\ MayQueue
  /\ known' = [known EXCEPT ![d] = [cursor |-> db.lastPk, rev |-> IF Live(Loan, db) THEN db.rev ELSE 0]]
  /\ UNCHANGED <<server, outbox, next, answers>>

\* A local action is queued with the revision of the loan it was made on.
Queue(d) ==
  /\ MayQueue
  /\ \E changes \in Actions :
       /\ known[d].rev > 0 \/ \E c \in changes : c.row = Loan /\ c.op = "insert"
       /\ outbox' = [outbox EXCEPT ![d] =
            Append(@, [changes |-> changes, base |-> known[d].rev, seen |-> known[d].cursor])]
  /\ UNCHANGED <<server, next, known, answers>>

\* An answer arrives; the next mutation may go.
Receive(d) ==
  /\ \E a \in answers[d] : a[1] = next[d]
  /\ next' = [next EXCEPT ![d] = @ + 1]
  /\ UNCHANGED <<server, outbox, known, answers>>

-----------------------------------------------------------------------------
(* The browser, and compaction.                                            *)

WebId == [device |-> Web, id |-> 0]
Browser(base) ==
  /\ db' = base
  /\ past' = past \cup base.log
  /\ UNCHANGED <<record, accepted, refused, phones, answers>>

MayWrite == Live(Loan, db) /\ db.lastPk < MaxPk
OpenPeriods == {i \in Periods : Live(i, db) /\ db.rows[i].paidAmount < db.rows[i].baseAmount}
First(S) == CHOOSE i \in S : \A j \in S : db.rows[i].number <= db.rows[j].number
WebSaved(base, r, fields) == Saved(base, r, Over(fields, base.rows[r]), WebId)

\* record_payment "interest": the open period is paid and the next one made.
WebInterest(p, n) ==
  LET open == First(OpenPeriods)
      due == db.rows[open].baseAmount - db.rows[open].paidAmount
      top == Max({db.rows[i].number : i \in {j \in Periods : Live(j, db)}})
      later == db.rows[open].dueDate + 1
      paid == WebSaved(db, open, [paidAmount |-> db.rows[open].baseAmount])
      fact == Saved(paid, p, [amount |-> due, installmentId |-> open, type |-> "interest", reversedAt |-> FALSE], WebId)
      made == Saved(fact, n, [number |-> top + 1, dueDate |-> later,
                              baseAmount |-> db.rows[Loan].capitalRemaining, paidAmount |-> 0], WebId)
  IN /\ MayWrite /\ OpenPeriods # {} /\ ~Live(p, db) /\ ~Live(n, db)
     /\ Browser(Reconciled(WebSaved(made, Loan, Over([dueDate |-> later], InBooks(made))), WebId))

\* record_payment "principal": one unit of capital, and the interest with it.
WebPrincipal(p) ==
  LET left == db.rows[Loan].capitalRemaining - 1
      lower == IF OpenPeriods = {} THEN db
               ELSE LET open == First(OpenPeriods)
                    IN WebSaved(db, open, [baseAmount |-> left,
                                           paidAmount |-> Min({db.rows[open].paidAmount, left})])
      fact == Saved(lower, p, [amount |-> 1, installmentId |-> NoPeriod, type |-> "principal", reversedAt |-> FALSE], WebId)
  IN /\ MayWrite /\ left >= 0 /\ ~Live(p, db)
     /\ Browser(Reconciled(WebSaved(fact, Loan, InBooks(fact)), WebId))

\* The first save of a PATCH of the penalty rate.
WebRate ==
  /\ MayWrite
  /\ Browser(WebSaved(db, Loan, [penaltyRate |-> 1 - db.rows[Loan].penaltyRate]))

\* A save of the loan that changes no field here: the last save of a PATCH,
\* or the status when the due date passes.
WebTouch ==
  /\ MayWrite
  /\ Browser(WebSaved(db, Loan, <<>>))

\* compact_sync_log, as in ChangeFeed.
Outdated(cutoff) ==
  {c \in db.log : c.pk <= cutoff /\ \E e \in db.log : e.row = c.row /\ e.pk > c.pk}
Compact(cutoff) ==
  /\ Outdated(cutoff) # {}
  /\ db' = [db EXCEPT !.log = @ \ Outdated(cutoff),
                      !.floor = Max({@} \cup {c.pk : c \in Outdated(cutoff)})]
  /\ UNCHANGED <<record, past, accepted, refused, phones, answers>>

-----------------------------------------------------------------------------
\* create_debt saves the loan after its period.
NewRows ==
  [r \in {Loan, FirstPeriod} |->
     IF r = Loan THEN [dueDate |-> 1, penaltyRate |-> 0, collected |-> 0, capitalRemaining |-> Principal,
                       outstanding |-> 2 * Principal]
     ELSE [number |-> 1, dueDate |-> 1, baseAmount |-> Principal, paidAmount |-> 0]]
Empty == [rows |-> <<>>, rev |-> 0, log |-> {}, lastPk |-> 0, floor |-> 0]
WithLoan ==
  LET saved(b, r) == Saved(b, r, NewRows[r], WebId)
  IN saved(saved(saved(Empty, Loan), FirstPeriod), Loan)

Init ==
  /\ \E existing \in Existing : db = IF existing THEN WithLoan ELSE Empty
  /\ record = [d \in Phones |-> [i \in 1..MaxQueue |-> "none"]]
  /\ outbox = [d \in Phones |-> <<>>]
  /\ next = [d \in Phones |-> 1]
  /\ answers = [d \in Phones |-> {}]
  /\ known = [d \in Phones |-> [cursor |-> 0, rev |-> 0]]
  /\ past = db.log
  /\ accepted = {}
  /\ refused = {}

BrowserNext ==
  \/ \E p \in WebPayments, n \in WebPeriods : WebInterest(p, n)
  \/ \E p \in WebPayments : WebPrincipal(p)
  \/ WebRate \/ WebTouch

Next ==
  \/ \E d \in Phones : Deliver(d) \/ Pull(d) \/ Queue(d) \/ Receive(d)
  \/ BrowserNext
  \/ \E cutoff \in 1..db.lastPk : Compact(cutoff)

Spec == Init /\ [][Next]_vars

-----------------------------------------------------------------------------
(* Properties.                                                             *)

Acceptances(d, i) == {a \in accepted : a.about.device = d /\ a.about.id = i}

\* However often a push is sent, and however late a copy arrives, it is carried
\* out at most once, and what a phone is told of it stays true: a push that was
\* answered as applied has been carried out, one that was refused never is.
AnswersTrue ==
  \A d \in Phones : \A i \in 1..MaxQueue :
    /\ Cardinality(Acceptances(d, i)) <= 1
    /\ <<i, "applied">> \in answers[d] => Acceptances(d, i) # {}
    /\ {<<i, "conflict">>, <<i, "rejected">>} \cap answers[d] # {} => Acceptances(d, i) = {}

\* A group of changes is carried out as a whole: a push that is refused at its
\* last change has left no change of a row behind.
RefusedLeavesNothing ==
  \A c \in past : c.by.device \in Phones => Acceptances(c.by.device, c.by.id) # {}

\* Whatever mix of payments, reversals, periods and detached payments pushes
\* bring, the columns of the loan and of its periods agree with the payments.
BooksFollowFacts ==
  Live(Loan, db) =>
    /\ db.rows[Loan] = InBooks(db)
    /\ \A i \in Periods : Live(i, db) => db.rows[i].paidAmount = PaidOn(db, i)

\* A structural edit is accepted only if its phone had seen every structural
\* change of the other writers when it was made.  Only changes that compaction
\* has removed can slip through.
StructureSeen ==
  \A a \in accepted : a.structural =>
    \A c \in past : /\ c.by.device # a.about.device /\ Structural(c)
                    /\ a.about.seen < c.pk /\ c.pk <= a.about.at
                    => c.pk <= a.about.floor

\* A term of the loan that somebody else has changed since is overwritten only
\* with a notice in the answer, again unless compaction removed the change.
OverwriteReported ==
  \A a \in accepted : \A c \in past :
    /\ c.row = Loan /\ c.changed \cap a.silent # {}
    /\ a.about.seen < c.pk /\ c.pk <= a.about.at
    => c.pk <= a.about.floor

\* What a group sets out to do: edit the periods or the terms they follow from, or move
\* capital, by paying it back or by changing a payment that may have.
PrincipalPayments ==
  WebPayments \cup
    {c.row : c \in {e \in UNION Actions : e.row \in Payments /\ e.op = "insert" /\ e.fields.type = "principal"}}
Restructures(changes) ==
  \E c \in changes :
    \/ c.row = Loan /\ (c.op = "update" => DOMAIN c.fields \cap {"dueDate", "capitalRemaining"} # {})
    \/ c.row \in Periods \cup PrincipalPayments

\* A group is refused as stale only after another writer set out to change the structure
\* past its base: another phone did, or the browser recorded a payment or made a period.
\* Neither what reconciliation derives from the payments and rates of others nor the
\* phone's own work, earlier groups that share the base included, makes a group stale.
RefusalsHaveCause ==
  \A b \in refused : \E c \in past :
    /\ c.by.device # b.device /\ outbox[b.device][b.id].base < c.pk
    /\ IF c.by.device = Web THEN c.row # Loan
       ELSE Restructures(outbox[c.by.device][c.by.id].changes)
=============================================================================
