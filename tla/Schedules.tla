----------------------------- MODULE Schedules ------------------------------
(***************************************************************************)
(* The pure arithmetic of loans (ledger/services.py) and what a client's   *)
(* share link shows of one (ledger/serializers.py): rounding, the periods  *)
(* a loan starts with, capital and interest inside each period, the        *)
(* amortization schedule, and the statement.                               *)
(*                                                                         *)
(* Amounts are integers in cents and are not negative; a period is a       *)
(* record with base, penalty, amount and paid.  Columns that no property   *)
(* compares (names, reference, dates) are left out.                        *)
(***************************************************************************)
EXTENDS Integers, Sequences, FiniteSetsExt, Functions

CONSTANT Unit    \* cents in a whole currency unit

ASSUME UnitAssumption == Unit \in Nat \ {0}

\* money(x / y): to whole cents, halves up.
Rounded(x, y) == (2 * x + y) \div (2 * y)
Percent(x, rate) == Rounded(x * rate, 100)
Positive(x) == IF x > 0 THEN x ELSE 0
Lesser(x, y) == IF x < y THEN x ELSE y
Total(amounts) == SumFunction(amounts)
SumOver(s, f(_)) == Total([i \in DOMAIN s |-> f(s[i])])

-----------------------------------------------------------------------------
(* The periods of a new loan.                                              *)

\* Mutant: the last share does not take up what rounding left over.
EqualPeriodAmountsRounded(total, n) ==
  LET whole == (total \div (n * Unit)) * Unit
  IN [i \in 1..n |-> IF whole > 0 THEN whole ELSE Rounded(total, n)]

\* Whole units, or cents when the share is below a unit; the last share takes the rest.
EqualPeriodAmounts(total, n) ==
  LET whole == (total \div (n * Unit)) * Unit
      base == IF whole > 0 THEN whole ELSE Rounded(total, n)
  IN [i \in 1..n |-> IF i < n THEN base ELSE total - base * (n - 1)]

LoanInstallmentTerms(loanType, principal, rate, n) ==
  LET interest == Percent(principal, rate)
  IN IF loanType = "multi" THEN EqualPeriodAmounts(principal + interest, n)
     ELSE [i \in 1..n |-> interest]

-----------------------------------------------------------------------------
(* Capital and interest inside the periods of a multi-period loan.         *)

WholeShare(interest, base, total) == ((interest * base) \div (total * Unit)) * Unit
CentShare(interest, base, total) == Rounded(interest * base, total)

\* Interest in proportion to the bases, each share kept between 0 and what is
\* left, and the rest on the last.
ShareOut(principal, bases, share(_, _, _)) ==
  LET total == Total(bases)
      interest == total - principal
      n == Len(bases)
      Part(i, left) == IF i = n THEN left
                       ELSE Positive(Lesser(share(interest, bases[i], total), left))
      left[i \in 0..n] == IF i = 0 THEN interest ELSE left[i - 1] - Part(i, left[i - 1])
  IN [i \in 1..n |-> Part(i, left[i - 1])]

Fits(interest, bases) == \A i \in DOMAIN bases : 0 <= interest[i] /\ interest[i] <= bases[i]

\* Each period holds as much of the principal as it can.
Filled(principal, bases) ==
  LET left[i \in 0..Len(bases)] ==
        IF i = 0 THEN principal ELSE left[i - 1] - Lesser(bases[i], left[i - 1])
  IN [i \in DOMAIN bases |-> Lesser(bases[i], left[i - 1])]

\* Mutant: a share larger than its period is let pass.
CapitalPortionsWhole(principal, bases) ==
  LET whole == ShareOut(principal, bases, WholeShare)
  IN [i \in DOMAIN bases |-> bases[i] - whole[i]]

FirstFit(principal, bases, whole, cents) ==
  IF Total(bases) <= 0 THEN [i \in DOMAIN bases |-> 0]
  ELSE IF Fits(whole, bases) THEN [i \in DOMAIN bases |-> bases[i] - whole[i]]
  ELSE IF Fits(cents, bases) THEN [i \in DOMAIN bases |-> bases[i] - cents[i]]
  ELSE Filled(principal, bases)

CapitalPortions(principal, bases) ==
  FirstFit(principal, bases, ShareOut(principal, bases, WholeShare), ShareOut(principal, bases, CentShare))

-----------------------------------------------------------------------------
(* The amortization schedule.                                              *)

Base(p) == IF p.base # 0 THEN p.base ELSE p.amount - p.penalty
Bases(ps) == [i \in DOMAIN ps |-> Base(ps[i])]
Open(p) == Positive(p.amount - p.paid)

\* A single loan's capital is a row of its own after its interest periods.
CapitalRow(principal, repaid) ==
  [capital |-> principal, interest |-> 0, penalty |-> 0, amount |-> principal,
   remaining |-> Positive(principal - repaid), balance |-> 0]

PeriodRow(p, portion, balance) ==
  [capital |-> portion, interest |-> Base(p) - portion, penalty |-> p.penalty, amount |-> p.amount,
   remaining |-> Open(p), balance |-> balance]

\* The capital left after each period of a multi-period loan.
MultiRows(principal, ps, portions) ==
  [i \in DOMAIN ps |->
     PeriodRow(ps[i], portions[i], principal - Total([j \in 1..i |-> portions[j]]))]

AmortizationRows(loanType, principal, ps, repaid) ==
  IF loanType = "multi" THEN MultiRows(principal, ps, CapitalPortions(principal, Bases(ps)))
  ELSE Append([i \in DOMAIN ps |-> PeriodRow(ps[i], 0, principal - repaid)], CapitalRow(principal, repaid))

AmortizationTotals(rows) ==
  [principal |-> SumOver(rows, LAMBDA r : r.capital),
   interest |-> SumOver(rows, LAMBDA r : r.interest),
   penalty |-> SumOver(rows, LAMBDA r : r.penalty),
   schedule |-> SumOver(rows, LAMBDA r : r.amount)]

ScheduleForDebt(loanType, principal, capital, ps) ==
  AmortizationRows(loanType, principal, ps,
                   IF loanType = "single" THEN Positive(principal - capital) ELSE 0)

\* Previews and simulations: the terms of a loan that is not there yet.
ProjectedSchedule(loanType, principal, rate, n) ==
  LET amounts == LoanInstallmentTerms(loanType, principal, rate, n)
  IN AmortizationRows(loanType, principal,
       [i \in 1..n |-> [base |-> amounts[i], penalty |-> 0, amount |-> amounts[i], paid |-> 0]], 0)

-----------------------------------------------------------------------------
(* What a share link shows.                                                *)

Product(S) == FoldSet(LAMBDA x, y : x * y, 1, S)

\* The capital in the open part of each period, by the period's own split.  Fractions
\* are added over a common denominator.
OpenShares(ps, bases, portions, owing) ==
  LET common == Product({bases[i] : i \in owing})
      Part(i) == Lesser(Open(ps[i]), bases[i]) * portions[i] * (common \div bases[i])
  IN Rounded(Total([i \in owing |-> Part(i)]), common)

OpenCapital(principal, ps) ==
  OpenShares(ps, Bases(ps), CapitalPortions(principal, Bases(ps)),
             {i \in DOMAIN ps : Open(ps[i]) > 0 /\ Base(ps[i]) > 0})

Owed(capital, total) ==
  [capital |-> Lesser(capital, total), interest |-> total - Lesser(capital, total), total |-> total]

\* Mutant: penalties and repaid periods' shares are not kept out of the capital.
StatementByPrincipal(loanType, principal, capital, ps) ==
  Owed(principal, IF loanType = "multi" THEN SumOver(ps, Open) ELSE Positive(capital) + SumOver(ps, Open))

Statement(loanType, principal, capital, ps) ==
  IF loanType = "multi" THEN Owed(OpenCapital(principal, ps), SumOver(ps, Open))
  ELSE Owed(Positive(capital), Positive(capital) + SumOver(ps, Open))
=============================================================================
