----------------------------- MODULE DebtLedger -----------------------------
(***************************************************************************)
(* One debt, its periods and payments: loan creation, reconcile_debt,      *)
(* assess_overdue_penalties, record_payment and revert_installment of      *)
(* ledger/services.py, the web's PATCH of a debt (ledger/views.py and      *)
(* DebtUpdateSerializer), a phone's edit of a period (ledger/sync_v2.py),  *)
(* and the commands repair_installment_rounding and reconcile_report; with *)
(* what schedules, share links, invoices and receipts show of the debt.    *)
(*                                                                         *)
(* Amounts are integers in cents, rates whole percentages, and a date is a *)
(* number of months.  A transaction is one step; PATCH is not wrapped in   *)
(* one and takes four.  Reversed payments are dropped: nothing in these    *)
(* functions reads them again.                                             *)
(***************************************************************************)
EXTENDS Schedules

CONSTANTS
  LoanTypes,    \* "multi" loans are repaid in equal periods, "single" ones at once
  Principals, InterestRates, PenaltyRates, Durations, \* the terms a loan may have
  Roundings,    \* "whole": as loans are made now; "cents": made before the rule of
                \* whole units, every period rounded by itself
  Amounts,      \* what a user may enter as the amount of a payment
  Clerks,       \* browser sessions that PATCH the debt
  PatchDues, PatchRates,  \* the due dates and penalty rates they may enter
  PhoneBases, PhoneDues,  \* the base amounts and due dates a phone may enter
  NoView,       \* a session has not read the debt
  MaxToday,     \* bound: the date
  MaxOps        \* bound: payment operations, PATCHes and edits of periods

ASSUME TermsAssumption ==
  /\ LoanTypes \subseteq {"multi", "single"}
  /\ Principals \subseteq Nat \ {0} /\ Amounts \subseteq Nat \ {0}
  /\ InterestRates \subseteq Nat /\ PenaltyRates \subseteq Nat /\ PatchRates \subseteq Nat
  /\ PhoneBases \subseteq Nat /\ PatchDues \subseteq Int /\ PhoneDues \subseteq Int
  /\ Durations \subseteq Nat \ {0}
  /\ Roundings \subseteq {"whole", "cents"}
  /\ MaxToday \in Nat /\ MaxOps \in Nat

VARIABLES
  terms,    \* loanType, principal, interestRate and rounding: as created
  debt,     \* the columns of the debt row that are
  periods,  \* the installments, by number
  payments, \* the payments that are not reversed
  today,
  ops,      \* payment operations, PATCHes and period edits so far
  view,     \* the debt row as a PATCH request read it, with its edits
  stage,    \* how far the PATCH has come
  repair,   \* the bases a rounding repair has worked out and not saved yet
  edited    \* history: a PATCH or a phone has changed terms, or a repair a period that has
            \* been paid or penalized since it read it, or more of which is paid than its new base

vars == <<terms, debt, periods, payments, today, ops, view, stage, repair, edited>>

NoRepair == <<>>
Multi == terms.loanType = "multi"

-----------------------------------------------------------------------------
(* reconcile_debt.                                                         *)

Sum(S) == Total([p \in S |-> p.amount])
PaidOn(n, pays) == Sum({p \in pays : p.number = n})
Principal(pays) == Sum({p \in pays : p.kind = "principal" /\ p.number = 0})

\* Mutant: a penalty is assessed anew whether or not the period is paid.
PenaltyByDate(p, paid, rate, day) == IF p.due < day THEN Percent(Base(p), rate) ELSE 0

\* A period that is paid keeps its penalty; an open one follows the due date
\* and the rate of the day.
Penalty(p, paid, rate, day) ==
  IF paid >= p.amount /\ p.amount > 0 THEN p.penalty
  ELSE IF p.due < day /\ paid < p.amount THEN Percent(Base(p), rate)
  ELSE 0

ReconciledPeriods(ps, pays, rate, day) ==
  [n \in DOMAIN ps |->
     LET paid == PaidOn(n, pays)
         penalty == Penalty(ps[n], paid, rate, day)
     IN [base |-> Base(ps[n]), penalty |-> penalty, amount |-> Base(ps[n]) + penalty,
         paid |-> paid, due |-> ps[n].due]]

\* Debt.current_status.
CurrentStatus(outstanding, due, day) ==
  IF outstanding <= 0 THEN "paid" ELSE IF due < day THEN "overdue" ELSE "unpaid"

ReconciledDebt(d, ps, pays, day) ==
  LET capital == IF Multi THEN d.capital ELSE Positive(terms.principal - Principal(pays))
      open == SumOver(ps, Open)
      outstanding == IF Multi THEN open ELSE capital + open
  IN [d EXCEPT !.capital = capital,
               !.total = IF Multi THEN SumOver(ps, LAMBDA p : p.amount) ELSE outstanding,
               !.collected = Sum(pays),
               !.outstanding = outstanding,
               !.status = CurrentStatus(outstanding, d.due, day)]

\* The transaction leaves the rows d, ps and pays, reconciled.
Reconcile(d, ps, pays) ==
  LET rows == ReconciledPeriods(ps, pays, d.penaltyRate, today)
  IN /\ periods' = rows
     /\ debt' = ReconciledDebt(d, rows, pays, today)
     /\ payments' = pays

-----------------------------------------------------------------------------
(* create_debt and loan_installment_terms.                                 *)

\* Loans made before the rule of whole units have every share rounded by itself.
NewPeriods(loanType, principal, rate, n, due, rounding) ==
  LET amounts == IF rounding = "whole"
                 THEN LoanInstallmentTerms(loanType, principal, rate, n)
                 ELSE [i \in 1..n |-> Rounded(principal + Percent(principal, rate), n)]
  IN [i \in 1..n |-> [base |-> amounts[i], penalty |-> 0, amount |-> amounts[i],
                      paid |-> 0, due |-> due + i - n]]

NewDebt(principal, total, penaltyRate, due) ==
  [penaltyRate |-> penaltyRate, due |-> due, capital |-> principal, total |-> total,
   collected |-> 0, outstanding |-> total, status |-> CurrentStatus(total, due, 0)]

\* A loan has just been created at date 0; its last period is due after the
\* others.  A single loan has no penalty rate and one period.
Init ==
  \E loanType \in LoanTypes, principal \in Principals, rate \in InterestRates, penaltyRate \in PenaltyRates,
     n \in Durations, rounding \in Roundings :
    /\ loanType = "single" => penaltyRate = 0 /\ n = 1 /\ rounding = "whole"
    /\ terms = [loanType |-> loanType, principal |-> principal, interestRate |-> rate, rounding |-> rounding]
    /\ periods = NewPeriods(loanType, principal, rate, n, n, rounding)
    /\ debt = NewDebt(principal, SumOver(periods, LAMBDA p : p.amount) + (IF loanType = "single" THEN principal ELSE 0),
                      penaltyRate, n)
    /\ payments = {} /\ today = 0 /\ ops = 0
    /\ view = [c \in Clerks |-> NoView]
    /\ stage = [c \in Clerks |-> "idle"]
    /\ repair = NoRepair
    /\ edited = FALSE

-----------------------------------------------------------------------------
(* record_payment.  It reconciles first and last.                          *)

ReconciledNow == ReconciledPeriods(periods, payments, debt.penaltyRate, today)
DebtNow == ReconciledDebt(debt, ReconciledNow, payments, today)

Pay(kind, number, amount) == [op |-> ops + 1, kind |-> kind, number |-> number, amount |-> amount]

\* Mutant: an empty share is recorded too.
SomeOrNone(pay) == {pay}

Some(pay) == {p \in {pay} : p.amount > 0}

\* The share of a payment that reaches period n when the periods in chosen are
\* served in order.
Share(ps, amount, chosen, n) ==
  LET before == Total([m \in {m \in chosen : m < n} |-> Open(ps[m])])
  IN Lesser(Open(ps[n]), Positive(amount - before))

PayBalance(amount, chosen) ==
  LET new == UNION {Some(Pay("principal", n, Share(ReconciledNow, amount, chosen, n))) : n \in chosen}
  IN /\ Multi /\ new # {}
     /\ Reconcile(DebtNow, ReconciledNow, payments \cup new)

\* The first period that is not paid, as a set with at most one member.
OpenPeriod(ps) == {n \in DOMAIN ps : /\ ps[n].paid < ps[n].amount
                                     /\ \A m \in 1..(n - 1) : ps[m].paid >= ps[m].amount}
Interest(capital) == Percent(capital, terms.interestRate)
InterestDue(ps) ==
  IF OpenPeriod(ps) = {} THEN Interest(DebtNow.capital)
  ELSE LET n == Min(OpenPeriod(ps)) IN ps[n].amount - ps[n].paid
Period(amount, due) == [base |-> amount, penalty |-> 0, amount |-> amount, paid |-> 0, due |-> due]

\* Paying the interest of the open period, or of one made for the purpose,
\* starts the next period.
PayInterest ==
  LET due == InterestDue(ReconciledNow)
      ps == IF OpenPeriod(ReconciledNow) = {}
            THEN Append(ReconciledNow, Period(due, debt.due)) ELSE ReconciledNow
      n == IF OpenPeriod(ReconciledNow) = {} THEN Len(ps) ELSE Min(OpenPeriod(ReconciledNow))
      next == ps[n].due + 1
  IN /\ ~Multi /\ due > 0
     /\ Reconcile([DebtNow EXCEPT !.due = next],
                  Append(ps, Period(Interest(DebtNow.capital), next)),
                  payments \cup {Pay("interest", n, due)})

\* Repaying capital recomputes the open period's interest.
PayPrincipal(amount) ==
  LET applied == Lesser(amount, DebtNow.capital)
      interest == Interest(DebtNow.capital - applied)
  IN /\ ~Multi /\ applied > 0
     /\ Reconcile(DebtNow,
                  [n \in DOMAIN ReconciledNow |->
                     IF n \in OpenPeriod(ReconciledNow)
                     THEN [ReconciledNow[n] EXCEPT !.amount = interest, !.base = interest]
                     ELSE ReconciledNow[n]],
                  payments \cup {Pay("principal", 0, applied)})

Settle ==
  LET n == IF OpenPeriod(ReconciledNow) = {} THEN 0 ELSE Min(OpenPeriod(ReconciledNow))
  IN /\ ~Multi
     /\ Reconcile(DebtNow, ReconciledNow,
                  payments \cup Some(Pay("interest", n, InterestDue(ReconciledNow)))
                           \cup Some(Pay("principal", 0, DebtNow.capital)))

RecordPayment ==
  /\ ops < MaxOps /\ DebtNow.status # "paid"
  /\ \/ \E a \in Amounts :
          \/ PayBalance(a, DOMAIN periods)
          \/ \E n \in DOMAIN periods : PayBalance(a, {n})
          \/ PayPrincipal(a)
     \/ PayInterest
     \/ Settle
  /\ ops' = ops + 1
  /\ UNCHANGED <<terms, today, view, stage, repair, edited>>

\* Mutant: the periods after the reverted one are left.
RevertKeepsPeriods(n) ==
  /\ \E p \in payments : p.number = n
  /\ Multi \/ \A m \in DOMAIN periods : m > n => periods[m].paid <= 0
  /\ Reconcile(IF Multi THEN debt ELSE [debt EXCEPT !.due = periods[n].due], periods,
               {p \in payments : p.number # n})
  /\ UNCHANGED <<terms, today, ops, view, stage, repair, edited>>

\* A single loan's later periods must be unpaid and are removed, and the debt
\* falls due with the reverted period again.
RevertInstallment(n) ==
  /\ \E p \in payments : p.number = n
  /\ Multi \/ \A m \in DOMAIN periods : m > n => periods[m].paid <= 0
  /\ LET left == {p \in payments : p.number # n}
     IN IF Multi
        THEN Reconcile(debt, periods, left)
        ELSE Reconcile([debt EXCEPT !.due = periods[n].due], SubSeq(periods, 1, n), left)
  /\ UNCHANGED <<terms, today, ops, view, stage, repair, edited>>

\* Mutant: periods that await their penalty are not looked for.
StaleByDebt == debt.outstanding > 0 /\ debt.due < today /\ debt.status # "overdue"

\* Reads reconcile a debt only when the day may have made it stale.
Stale ==
  /\ debt.outstanding > 0
  /\ \/ debt.due < today /\ debt.status # "overdue"
     \/ /\ debt.penaltyRate > 0
        /\ \E n \in DOMAIN periods : /\ periods[n].due < today
                                     /\ periods[n].paid < periods[n].amount
                                     /\ periods[n].penalty = 0

AssessOverduePenalties ==
  /\ Stale
  /\ Reconcile(debt, periods, payments)
  /\ UNCHANGED <<terms, today, ops, view, stage, repair, edited>>

-----------------------------------------------------------------------------
(* The other writers.                                                      *)

\* debt_detail_view reads the row and applies the submitted fields to it.
PatchRead(c) ==
  /\ stage[c] = "idle" /\ ops < MaxOps
  /\ ops' = ops + 1
  /\ \E rate \in PatchRates \cup {debt.penaltyRate} :
       \/ /\ view' = [view EXCEPT ![c] = [debt EXCEPT !.penaltyRate = rate]]
          /\ stage' = [stage EXCEPT ![c] = "save"]
       \/ \E due \in PatchDues :
            /\ view' = [view EXCEPT ![c] = [debt EXCEPT !.penaltyRate = rate, !.due = due]]
            /\ stage' = [stage EXCEPT ![c] = "save due"]
  /\ edited' = TRUE
  /\ UNCHANGED <<terms, debt, periods, payments, today, repair>>

\* ModelSerializer.update saves every column of the row that was read.
PatchSave(c) ==
  /\ stage[c] \in {"save", "save due"}
  /\ debt' = view[c]
  /\ stage' = [stage EXCEPT ![c] = IF @ = "save" THEN "status" ELSE "period"]
  /\ UNCHANGED <<terms, periods, payments, today, ops, view, repair, edited>>

\* A new due date is the last period's too.
PatchPeriod(c) ==
  /\ stage[c] = "period"
  /\ periods' = [periods EXCEPT ![Len(periods)].due = view[c].due]
  /\ stage' = [stage EXCEPT ![c] = "status"]
  /\ UNCHANGED <<terms, debt, payments, today, ops, view, repair, edited>>

\* set_status works on the row that was read.  Bound: one PATCH per session.
PatchStatus(c) ==
  /\ stage[c] = "status"
  /\ debt' = [debt EXCEPT !.status = CurrentStatus(view[c].outstanding, view[c].due, today)]
  /\ stage' = [stage EXCEPT ![c] = "done"]
  /\ view' = [view EXCEPT ![c] = NoView]
  /\ UNCHANGED <<terms, periods, payments, today, ops, repair, edited>>

\* A phone's update of a period's base amount and due date.
EditPeriod(n, base, due) ==
  /\ ops < MaxOps
  /\ ops' = ops + 1
  /\ Reconcile(debt, [periods EXCEPT ![n].base = base, ![n].amount = base, ![n].due = due], payments)
  /\ edited' = TRUE
  /\ UNCHANGED <<terms, today, view, stage, repair>>

-----------------------------------------------------------------------------
(* The operators' commands.                                                *)

Expected == terms.principal + Percent(terms.principal, terms.interestRate)
Gap(ps) == Expected - Total(Bases(ps))

\* Mutant: penalties count as if they were part of the schedule.
RepairedAmounts(ps) ==
  LET n == Len(ps)
      gap == Expected - SumOver(ps, LAMBDA p : p.amount)
  IN IF \A i \in 1..n : ps[i].paid = 0 THEN EqualPeriodAmounts(Expected, n)
     ELSE IF gap > n \/ -gap > n \/ ps[n].paid >= ps[n].amount THEN Bases(ps)
     ELSE [Bases(ps) EXCEPT ![n] = @ + gap]

\* The bases a repair aims at: a new loan's while nothing is paid, else the last
\* unpaid period takes a gap that rounding explains, at most a cent per period.
Repaired(ps) ==
  LET n == Len(ps)
  IN IF \A i \in 1..n : ps[i].paid = 0 THEN EqualPeriodAmounts(Expected, n)
     ELSE IF Gap(ps) > n \/ -Gap(ps) > n \/ ps[n].paid >= ps[n].amount THEN Bases(ps)
     ELSE [Bases(ps) EXCEPT ![n] = @ + Gap(ps)]

\* The command reads the periods before its transaction begins.
RepairRead ==
  /\ Multi /\ repair = NoRepair /\ Repaired(periods) # Bases(periods)
  /\ LET changed == {n \in DOMAIN periods : Repaired(periods)[n] # Base(periods[n])}
     IN repair' = [n \in changed |-> [base |-> Repaired(periods)[n], penalty |-> periods[n].penalty,
                                      paid |-> periods[n].paid]]
  /\ UNCHANGED <<terms, debt, periods, payments, today, ops, view, stage, edited>>

\* It saves only base and amount, of the periods that change, and reconciles.  Nothing
\* tells it that a period has been paid or penalized since, nor that the last period may
\* shrink below what is paid of it.
RepairSave ==
  /\ repair # NoRepair
  /\ edited' = (edited \/ \E n \in DOMAIN repair : \/ periods[n].paid # repair[n].paid
                                                  \/ periods[n].penalty # repair[n].penalty
                                                  \/ periods[n].paid > repair[n].base)
  /\ Reconcile(debt, [n \in DOMAIN periods |->
                        IF n \in DOMAIN repair
                        THEN [periods[n] EXCEPT !.base = repair[n].base,
                                                !.amount = repair[n].base + repair[n].penalty]
                        ELSE periods[n]],
               payments)
  /\ repair' = NoRepair
  /\ UNCHANGED <<terms, today, ops, view, stage>>

\* reconcile_report --apply asks for no sign of staleness.
ReconcileReport ==
  /\ Reconcile(debt, periods, payments)
  /\ UNCHANGED <<terms, today, ops, view, stage, repair, edited>>

NextDay ==
  /\ today < MaxToday
  /\ today' = today + 1
  /\ UNCHANGED <<terms, debt, periods, payments, ops, view, stage, repair, edited>>

Patch(c) == PatchRead(c) \/ PatchSave(c) \/ PatchPeriod(c) \/ PatchStatus(c)

Next ==
  \/ RecordPayment
  \/ \E n \in DOMAIN periods : RevertInstallment(n)
  \/ AssessOverduePenalties
  \/ \E c \in Clerks : Patch(c)
  \/ \E n \in DOMAIN periods, base \in PhoneBases, due \in PhoneDues : EditPeriod(n, base, due)
  \/ RepairRead \/ RepairSave
  \/ ReconcileReport
  \/ NextDay

Spec == Init /\ [][Next]_vars

-----------------------------------------------------------------------------
(* Properties.                                                             *)

DebtRow == [penaltyRate : Nat, due : Int, capital : Nat, total : Int, collected : Nat,
            outstanding : Nat, status : {"unpaid", "overdue", "paid"}]

\* A loan of a few cents: rounding up leaves nothing for its last period, or less.
Tiny == LET n == Len(periods)
        IN /\ Multi /\ Rounded(Expected, n) * (n - 1) >= Expected
           /\ terms.rounding = "whole" => Expected < n * Unit

\* The terms are those of a new loan, and no period has to be below zero.
Regular == ~edited /\ ~Tiny

TypeOK ==
  /\ terms \in [loanType : {"multi", "single"}, principal : Nat \ {0}, interestRate : Nat,
               rounding : {"whole", "cents"}]
  /\ debt \in DebtRow
  /\ periods \in Seq([base : Int, penalty : Int, amount : Int, paid : Nat, due : Int])
  /\ Regular => \A n \in DOMAIN periods : periods[n].base >= 0 /\ periods[n].penalty >= 0
  /\ Multi => Len(periods) \in Durations
  /\ \A p \in payments :
       /\ p.op \in 1..MaxOps /\ p.number \in 0..Len(periods)
       /\ p.kind \in {"principal", "interest"} /\ p.amount > 0
  /\ today \in 0..MaxToday /\ ops \in 0..MaxOps
  /\ \A c \in Clerks :
       /\ view[c] \in DebtRow \cup {NoView}
       /\ stage[c] \in {"idle", "save", "save due", "period", "status", "done"}
  /\ \A n \in DOMAIN repair :
       n \in 1..Len(periods) /\ repair[n] \in [base : Int, penalty : Int, paid : Nat]
  /\ edited \in BOOLEAN

Quiet == \A c \in Clerks : stage[c] \in {"idle", "done"}

\* What the columns would be if the debt were reconciled now.
AsReconciled == periods = ReconciledNow /\ debt = DebtNow

\* assess_overdue_penalties picks every debt whose stored balances a reconciliation
\* would change: all others are up to date already, however payments, reversals,
\* repairs and passing due dates have followed each other.
AssessmentMissesNothing == Regular /\ ~Stale => AsReconciled

WithinRounding(x) == x # 0 => /\ terms.rounding = "cents"
                              /\ -Len(periods) <= x /\ x <= Len(periods)

\* The books balance.  Equal periods: what was collected and what is outstanding
\* are the principal, its interest and the penalties that were assessed, but for the
\* rounding of an old loan, at most a cent per period.  Single loans: the capital
\* remaining and the capital repaid are the principal.
BooksBalance ==
  Regular =>
  IF Multi
  THEN LET drift == debt.total - (Expected + SumOver(periods, LAMBDA p : p.penalty))
       IN /\ debt.collected + debt.outstanding = debt.total
          /\ WithinRounding(drift)
  ELSE /\ debt.capital + Principal(payments) = terms.principal
       /\ debt.collected = Sum(payments)

\* A single loan has one open position: all periods but the last are paid, none
\* is paid twice, and the loan falls due with the last.
OnePosition ==
  ~Multi /\ ~edited =>
  /\ \A n \in 1..(Len(periods) - 1) : periods[n].paid = periods[n].amount
  /\ periods[Len(periods)].paid <= periods[Len(periods)].amount
  /\ debt.due = periods[Len(periods)].due

\* A period that is paid keeps its amount, penalty included, as long as its payments
\* are not reversed and it gets no other base amount, whatever due dates and rates
\* are set, however late it is looked at and whatever a PATCH has overwritten.  (A repair
\* in flight may save the penalty it read, and one that has saved a base of its own, below
\* what a phone enters next, may leave a penalty below zero.)
PaidPeriodsKeepAmount ==
  [][\A n \in DOMAIN periods \cap DOMAIN periods' :
       /\ periods[n].amount > 0 /\ periods[n].penalty >= 0 /\ n \notin DOMAIN repair
       /\ periods[n].paid >= periods[n].amount
       /\ periods'[n].paid >= periods[n].paid /\ periods'[n].base = periods[n].base
       => periods'[n].amount = periods[n].amount]_vars

\* A repair makes the schedule add up to the principal and its interest, whatever
\* is paid or reversed between its reading and its saving.
RepairAddsUp == [][Regular /\ repair # NoRepair /\ repair' = NoRepair => Gap(periods') = 0]_vars

Schedule == ScheduleForDebt(terms.loanType, terms.principal, debt.capital, periods)
Preview == ProjectedSchedule(terms.loanType, terms.principal, terms.interestRate, Len(periods))

AsPreviewed(rows, previewed, totals) ==
  /\ WithinRounding(totals.principal - terms.principal)
  /\ totals.principal + totals.interest + totals.penalty = totals.schedule
  /\ SumOver(rows, LAMBDA r : r.remaining) = debt.outstanding
  /\ \A i \in DOMAIN rows : rows[i].capital >= 0 /\ rows[i].interest >= 0
  /\ rows[Len(rows)].balance = terms.principal - totals.principal
  /\ Multi /\ terms.rounding = "whole" =>
       \A i \in DOMAIN periods : /\ rows[i].capital = previewed[i].capital
                                /\ rows[i].interest = previewed[i].interest

\* The schedule of a loan stays what its preview promised, however the loan is paid
\* and reverted and whatever penalties come and go: capital and interest of each
\* period are the previewed ones, never negative, they add up to the principal (but for
\* the rounding of an old loan) and to the schedule, and what remains to be paid is what
\* the debt row says.
ScheduleKept == Regular => AsPreviewed(Schedule, Preview, AmortizationTotals(Schedule))

\* A share link shows the stored rows; an invoice and a receipt assess penalties
\* first, as every read of the ledger does.
LinkFigures == Statement(terms.loanType, terms.principal, debt.capital, periods)
InvoiceFigures == IF Stale THEN Statement(terms.loanType, terms.principal, DebtNow.capital, ReconciledNow)
                  ELSE Statement(terms.loanType, terms.principal, debt.capital, periods)
ReceiptTotal == Sum(payments)
PeriodReceipt(n) == IF Stale THEN ReconciledNow[n].paid ELSE periods[n].paid

PapersAgree(rows, invoice, link) ==
  /\ invoice.total = DebtNow.outstanding
  /\ ~Stale => link = invoice
  /\ Total([n \in DOMAIN periods |-> PeriodReceipt(n)]) + Principal(payments) = ReceiptTotal
  /\ IF Multi
     THEN /\ invoice.total + ReceiptTotal = SumOver(ReconciledNow, LAMBDA p : p.base + p.penalty)
          /\ invoice.capital <= terms.principal
          /\ (\A n \in DOMAIN periods : periods[n].paid \in {0, periods[n].amount}) =>
               invoice.capital = Total([n \in {n \in DOMAIN periods : Open(periods[n]) > 0} |-> rows[n].capital])
     ELSE invoice.capital + Principal(payments) = terms.principal

\* What the papers say of a loan agrees: an invoice and what was received make up the
\* loan with its interest and penalties, the invoice's capital is what the schedule
\* puts into the open periods, penalties count as interest, the receipts of the periods are
\* the payments, and a share link shows the same unless the day has made it stale.
DocumentsAgree == Regular => PapersAgree(Schedule, InvoiceFigures, LinkFigures)

\* What MASTER_CONTEXT says of the server: no balance is altered outside a
\* transaction, so what the debt row has collected is what its payments add up to.
CollectedIsPaid == Quiet => debt.collected = Sum(payments)
=============================================================================
