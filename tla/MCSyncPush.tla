----------------------------- MODULE MCSyncPush -----------------------------
(***************************************************************************)
(* A loan with a capital of two, and the groups of row changes that the    *)
(* actions of the phone application push.                                  *)
(***************************************************************************)
EXTENDS SyncPush

CONSTANTS loan, i1, i2, i3, p1, p2, p3, a, b, web

Put(r, fields) == [row |-> r, op |-> "insert", fields |-> fields]
Set(r, fields) == [row |-> r, op |-> "update", fields |-> fields]
Drop(r) == [row |-> r, op |-> "delete", fields |-> <<>>]

Interest(p, i, amount) ==
  Put(p, [amount |-> amount, installmentId |-> i, type |-> "interest"])

\* A new loan with its period; one without is refused.
Lend == {Put(loan, [dueDate |-> 1, penaltyRate |-> 0]),
         Put(i1, [number |-> 1, dueDate |-> 1, baseAmount |-> 2])}
LendBare == {Put(loan, [dueDate |-> 1, penaltyRate |-> 0])}
\* paySingleLoanInterest: the due date moves, the period is paid, the next made.
PayInterest == {Set(loan, [dueDate |-> 2]), Interest(p1, i1, 2),
                Put(i2, [number |-> 2, dueDate |-> 2, baseAmount |-> 2])}
\* paySingleLoanPrincipal: less capital, less interest.
PayPrincipal == {Set(loan, [capitalRemaining |-> 1]), Set(i1, [baseAmount |-> 1]),
                 Put(p2, [amount |-> 1, installmentId |-> NoPeriod, type |-> "principal"])}
\* A payment alone, its reversal in two ways.
PayPart == {Interest(p1, i1, 2)}
Void == {Set(loan, [penaltyRate |-> 1]), Set(p1, [reversedAt |-> TRUE])}
Withdraw == {Drop(p1)}
\* Terms, a period's date, a period and the loan removed.
SetRate == {Set(loan, [penaltyRate |-> 1])}
Postpone == {Set(i1, [dueDate |-> 2])}
DropFirst == {Drop(i1)}
DropLoan == {Drop(loan)}

MCActions == {Lend, LendBare,
              PayInterest, PayPrincipal, PayPart, Void, Withdraw, SetRate, Postpone, DropFirst, DropLoan}
MCPhones == Permutations({a, b})

\* What the phones know serves only to queue: once nothing more may be queued, states
\* that differ in it alone have the same future.
MCView == <<server, outbox, next, answers, IF MayQueue THEN known ELSE <<>>>>
=============================================================================
