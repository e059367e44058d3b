-------------------------- MODULE MobileSyncProofs --------------------------
(***************************************************************************)
(* Theorems about MobileSync, for any phones, amounts and bounds.          *)
(*                                                                         *)
(* MobileInv says what the rows of a phone, and every upload that was not  *)
(* processed, have to do with the rows of the server (ViewOk): each copy   *)
(* that means a row agrees with it, the row above a copy is another copy,  *)
(* a row with a tombstone or one that is gone, and a row that a phone made *)
(* is known to it by the local id alone until an answer names it.  Two     *)
(* copies of one row in two uploads of a phone agree (Agree), so either of *)
(* them may arrive first.                                                  *)
(***************************************************************************)
EXTENDS MobileSync, FiniteSetTheorems, WellFoundedInduction, TLAPS

-----------------------------------------------------------------------------
(* The tree of rows.                                                       *)

Kinds == {"client", "debt", "period", "payment"}
Above(kind) == IF kind = "debt" THEN "client" ELSE "debt"

ClientFields == {"kind", "parent", "origin"}
DebtFields == {"kind", "parent", "origin", "outstanding", "collected"}
PeriodFields == {"kind", "parent", "origin", "number", "base", "penalty", "amount", "paid"}
PaymentFields == {"kind", "parent", "origin", "period", "amount", "active"}
CopyFields == {"kind", "parent", "period", "number", "amount"}

RowOk(r) ==
  /\ r.kind \in Kinds
  /\ r.kind = "client" => DOMAIN r = ClientFields /\ r.parent = 0
  /\ r.kind = "debt" => DOMAIN r = DebtFields
  /\ r.kind = "period" => DOMAIN r = PeriodFields
  /\ r.kind = "payment" => DOMAIN r = PaymentFields

\* A row's parent is there, and is what it should be.
Under(i, t) ==
  t[i].kind # "client" => /\ t[i].parent \in DOMAIN t
                          /\ t[t[i].parent].kind = Above(t[i].kind)

\* A payment's period is one of its debt.
Paying(i, t) ==
  t[i].kind = "payment" /\ t[i].period # NoPeriod =>
    /\ t[i].period \in DOMAIN t
    /\ t[t[i].period].kind = "period" /\ t[t[i].period].parent = t[i].parent

\* Rows have ids below n.
TreeOk(t, n) ==
  \A i \in DOMAIN t : i \in Nat /\ 0 < i /\ i < n /\ RowOk(t[i]) /\ Under(i, t) /\ Paying(i, t)

\* A row that a phone made is known by the phone's key for it.
Made(t, made) ==
  /\ \A i \in DOMAIN t, p \in Phones : \A k : t[i].origin = <<p, k>> => k \in Int /\ k < 0 /\ -made[p] <= k
  /\ \A i, j \in DOMAIN t : t[i].origin = t[j].origin /\ t[i].origin # <<Web, 0>> => i = j

-----------------------------------------------------------------------------
(* What a phone has, or an upload: copies V and tombstones R.              *)

Keys(V, R, n, made) ==
  /\ IsFiniteSet(DOMAIN V)
  /\ \A k \in DOMAIN V : k \in Int /\ k # 0 /\ k < n /\ -made <= k
  /\ \A j \in R : j \in Nat /\ 0 < j /\ j < n /\ j \notin DOMAIN V

CopyOk(c) ==
  /\ DOMAIN c = CopyFields /\ c.kind \in Kinds /\ c.parent \in Int /\ c.period \in Int
  /\ (c.parent = 0 <=> c.kind = "client") /\ (c.kind # "payment" => c.period = NoPeriod)

\* The row above a copy.
Linking(k, V, R, t, n) ==
  LET q == V[k].parent
  IN V[k].kind # "client" =>
       /\ q < n /\ (k > 0 => q > 0)
       /\ q < 0 => q \in DOMAIN V
       /\ q \in DOMAIN V => V[q].kind = Above(V[k].kind)
       /\ q \in DOMAIN t => t[q].kind = Above(V[k].kind) /\ q \in DOMAIN V \cup R

\* The period of a copy of a payment.
Covering(k, V, t, n) ==
  LET s == V[k].period
  IN s # NoPeriod =>
       /\ s < n
       /\ s < 0 => s \in DOMAIN V /\ V[s].kind = "period" /\ V[s].parent = V[k].parent
       /\ s > 0 => V[k].parent > 0
       /\ s \in DOMAIN t => /\ t[s].kind = "period"
                            /\ V[k].parent \in DOMAIN t => t[s].parent = V[k].parent

\* Row i is the one that phone p calls k.
Means(p, k, i, t) == IF k > 0 THEN i = k ELSE t[i].origin = <<p, k>>

\* A copy agrees with its row.
Faithful(p, k, i, V, t) ==
  LET q == V[k].parent
  IN /\ t[i].kind = V[k].kind
     /\ t[i].kind = "payment" => t[i].amount = V[k].amount
     /\ k > 0 => t[i].parent = q
     /\ q > 0 /\ q \in DOMAIN t => t[i].parent = q
     /\ q < 0 => t[t[i].parent].origin = <<p, q>>

ViewOk(p, V, R, t, n, made) ==
  /\ Keys(V, R, n, made)
  /\ \A k \in DOMAIN V : CopyOk(V[k]) /\ Linking(k, V, R, t, n) /\ Covering(k, V, t, n)
  /\ \A k \in DOMAIN V, i \in DOMAIN t : Means(p, k, i, t) => Faithful(p, k, i, V, t)
  /\ \A i \in DOMAIN t \cap (DOMAIN V \cup R), k \in DOMAIN V : t[i].origin # <<p, k>>
  /\ \A j \in R \cap DOMAIN t : t[j].kind \in {"period", "payment"} => t[j].parent \in DOMAIN V \cup R

\* Two keys for one row.
Same(p, q, r, t) ==
  /\ q < 0 /\ r < 0 => q = r
  /\ q < 0 /\ r \in DOMAIN t => t[r].origin = <<p, q>>
  /\ r < 0 /\ q \in DOMAIN t => t[q].origin = <<p, r>>
  /\ q \in DOMAIN t /\ r \in DOMAIN t => q = r

\* Two copies of what the phone made agree.
Agree(p, V, W, t) ==
  \A k \in DOMAIN V \cap DOMAIN W :
    k < 0 => /\ V[k].kind = W[k].kind /\ V[k].amount = W[k].amount
             /\ Same(p, V[k].parent, W[k].parent, t)

Open == {m \in sent : Batch(m) \notin batches}

ServerInv ==
  /\ nextId \in Nat \ {0} /\ TreeOk(rows, nextId) /\ Made(rows, own)
  /\ \A i \in dead : i \in Nat /\ 0 < i /\ i < nextId /\ i \notin DOMAIN rows

Numbered(m) == Cardinality({x \in sent : x.phone = m.phone})

SentInv ==
  /\ IsFiniteSet(sent)
  /\ \A m \in sent : /\ DOMAIN m = {"phone", "number", "rows", "removed"} /\ m.phone \in Phones
                     /\ m.number \in Nat /\ 0 < m.number /\ m.number <= Numbered(m)
  /\ \A m, x \in sent : Batch(m) = Batch(x) => m = x
  /\ \A b \in batches : \E m \in sent : b = Batch(m)
  /\ \A m \in sent : Batch(m) \in batches =>
       \A i \in m.removed : i \in Nat /\ i < nextId /\ (i \in DOMAIN rows => rows[i].kind = "payment")

ViewsInv ==
  /\ \A p \in Phones : ViewOk(p, local[p], removed[p], rows, nextId, own[p])
  /\ \A m \in Open : ViewOk(m.phone, m.rows, m.removed, rows, nextId, own[m.phone])
  /\ \A m \in Open : Agree(m.phone, local[m.phone], m.rows, rows)
  /\ \A m, x \in Open : m.phone = x.phone => Agree(m.phone, m.rows, x.rows, rows)

PhonesInv ==
  /\ DOMAIN own = Phones /\ DOMAIN local = Phones /\ DOMAIN removed = Phones /\ DOMAIN waiting = Phones
  /\ \A p \in Phones : own[p] \in Nat

MobileInv == ServerInv /\ SentInv /\ PhonesInv /\ ViewsInv

-----------------------------------------------------------------------------
(* The tree and the views, when rows change.                               *)

\* Rows with an id below n are those they were.
Kept(t, e, n) ==
  \A i \in DOMAIN e : i < n =>
    /\ i \in DOMAIN t
    /\ e[i].kind = t[i].kind /\ e[i].parent = t[i].parent /\ e[i].origin = t[i].origin
    /\ e[i].kind = "payment" => e[i].amount = t[i].amount

\* What a view says of its rows stays true.
LEMMA FaithfulKept ==
  ASSUME NEW p, NEW V, NEW R, NEW t, NEW e, NEW n \in Nat \ {0}, NEW n2 \in Nat, NEW made \in Nat,
         ViewOk(p, V, R, t, n, made), TreeOk(t, n), TreeOk(e, n2), Kept(t, e, n),
         NEW k \in DOMAIN V, NEW i \in DOMAIN e, i < n, Means(p, k, i, e)
  PROVE  Faithful(p, k, i, V, e)
<1>1. i \in DOMAIN t /\ e[i].kind = t[i].kind /\ e[i].parent = t[i].parent /\ e[i].origin = t[i].origin
      /\ (e[i].kind = "payment" => e[i].amount = t[i].amount)
  BY DEF Kept
<1>2. Means(p, k, i, t) /\ i \in Nat
  BY <1>1 DEF Means, TreeOk
<1>3. Faithful(p, k, i, V, t)
  BY <1>1, <1>2 DEF ViewOk
<1>4. ASSUME V[k].parent < 0 PROVE e[e[i].parent].origin = <<p, V[k].parent>>
  <2>1. V[k].kind # "client"
    <3>1. CopyOk(V[k])
      BY DEF ViewOk
    <3> QED
      BY <1>4, <3>1 DEF CopyOk
  <2>2. t[i].kind # "client"
    BY <1>3, <2>1 DEF Faithful
  <2>3. t[i].parent \in DOMAIN t /\ e[i].parent \in DOMAIN e
    BY <1>1, <2>2 DEF TreeOk, Under
  <2>4. t[i].parent < n
    BY <2>3 DEF TreeOk
  <2>5. e[e[i].parent].origin = t[t[i].parent].origin
    BY <1>1, <2>3, <2>4 DEF Kept
  <2> QED
    BY <1>3, <1>4, <2>5 DEF Faithful
<1>5. V[k].parent > 0 /\ V[k].parent \in DOMAIN e => e[i].parent = V[k].parent
  <2>1. V[k].parent < n
    <3>1. CopyOk(V[k]) /\ Linking(k, V, R, t, n)
      BY DEF ViewOk
    <3> QED
      BY <3>1 DEF CopyOk, Linking
  <2>2. V[k].parent \in DOMAIN e => V[k].parent \in DOMAIN t
    BY <2>1 DEF Kept
  <2> QED
    BY <1>1, <1>3, <2>2 DEF Faithful
<1>6. e[i].kind = V[k].kind /\ (k > 0 => e[i].parent = V[k].parent)
  BY <1>1, <1>3 DEF Faithful
<1>7. e[i].kind = "payment" => e[i].amount = V[k].amount
  BY <1>1, <1>3 DEF Faithful
<1> QED
  BY <1>4, <1>5, <1>6, <1>7 DEF Faithful

\* What is a view of the rows stays one when rows are kept and new ones are faithful.
LEMMA ViewKept ==
  ASSUME NEW p, NEW V, NEW R, NEW t, NEW e, NEW n \in Nat \ {0}, NEW n2 \in Nat, n <= n2,
         NEW made \in Nat, NEW made2 \in Nat, made <= made2,
         ViewOk(p, V, R, t, n, made), TreeOk(t, n), TreeOk(e, n2), Kept(t, e, n),
         \A i \in DOMAIN e, k \in DOMAIN V : i >= n /\ e[i].origin = <<p, k>> => Faithful(p, k, i, V, e)
  PROVE  ViewOk(p, V, R, e, n2, made2)
<1>1. \A k \in DOMAIN V : k \in Int /\ k < n /\ V[k].parent \in Int /\ V[k].period \in Int
  BY DEF ViewOk, Keys, CopyOk
<1>2. \A k \in DOMAIN V : V[k].parent < n /\ V[k].period < n
  <2> SUFFICES ASSUME NEW k \in DOMAIN V PROVE V[k].parent < n /\ V[k].period < n
    OBVIOUS
  <2>1. CopyOk(V[k]) /\ Linking(k, V, R, t, n) /\ Covering(k, V, t, n) /\ k < n
    BY <1>1 DEF ViewOk
  <2> QED
    BY <2>1 DEF CopyOk, Linking, Covering, NoPeriod
<1>3. \A i \in DOMAIN e : i \in Nat /\ (i < n => i \in DOMAIN t /\ e[i].kind = t[i].kind /\ e[i].parent = t[i].parent
                                               /\ e[i].origin = t[i].origin)
  BY DEF Kept, TreeOk
<1>4. Keys(V, R, n2, made2)
  BY DEF ViewOk, Keys
<1>5. ASSUME NEW k \in DOMAIN V PROVE Linking(k, V, R, e, n2)
  BY <1>1, <1>2, <1>3, <1>5 DEF ViewOk, Linking
<1>6. ASSUME NEW k \in DOMAIN V PROVE Covering(k, V, e, n2)
  BY <1>1, <1>2, <1>3, <1>6 DEF ViewOk, Covering
<1>7. ASSUME NEW k \in DOMAIN V, NEW i \in DOMAIN e, Means(p, k, i, e) PROVE Faithful(p, k, i, V, e)
  <2>1. CASE i < n
    BY <1>7, <2>1, FaithfulKept
  <2>2. CASE i >= n
    BY <1>1, <1>7, <2>2 DEF Means
  <2> QED
    BY <1>3, <2>1, <2>2
<1>8. ASSUME NEW i \in DOMAIN e \cap (DOMAIN V \cup R), NEW k \in DOMAIN V PROVE e[i].origin # <<p, k>>
  BY <1>1, <1>3, <1>8 DEF ViewOk, Keys
<1>9. ASSUME NEW j \in R \cap DOMAIN e, e[j].kind \in {"period", "payment"} PROVE e[j].parent \in DOMAIN V \cup R
  BY <1>3, <1>9 DEF ViewOk, Keys
<1>10. \A k \in DOMAIN V : CopyOk(V[k])
  BY DEF ViewOk
<1> QED
  BY <1>4, <1>5, <1>6, <1>7, <1>8, <1>9, <1>10 DEF ViewOk

\* Copies that agree still do when rows are kept.
LEMMA AgreeKept ==
  ASSUME NEW p, NEW V, NEW W, NEW t, NEW e, NEW n \in Nat \ {0}, Agree(p, V, W, t), Kept(t, e, n),
         \A k \in DOMAIN V : V[k].parent \in Int /\ V[k].parent < n,
         \A k \in DOMAIN W : W[k].parent \in Int /\ W[k].parent < n
  PROVE  Agree(p, V, W, e)
<1>1. \A q \in DOMAIN e : q < n => q \in DOMAIN t /\ e[q].origin = t[q].origin
  BY DEF Kept
<1> QED
  BY <1>1 DEF Agree, Same

\* Parents are ids or keys that are in use.
LEMMA ParentsKnown ==
  ASSUME NEW p, NEW V, NEW R, NEW t, NEW n \in Nat \ {0}, NEW made \in Nat, ViewOk(p, V, R, t, n, made),
         NEW k \in DOMAIN V
  PROVE  V[k].parent \in Int /\ V[k].parent < n /\ V[k].period \in Int /\ V[k].period < n
<1>1. CopyOk(V[k]) /\ Linking(k, V, R, t, n) /\ Covering(k, V, t, n) /\ k \in Int /\ k # 0 /\ k < n
  BY DEF ViewOk, Keys
<1> QED
  BY <1>1 DEF CopyOk, Linking, Covering, NoPeriod

-----------------------------------------------------------------------------
(* Reconciliation.                                                         *)

\* The same rows at the same places, with the same facts.
Alike(t, e) ==
  /\ DOMAIN e = DOMAIN t
  /\ \A i \in DOMAIN t :
       /\ RowOk(e[i]) /\ e[i].kind = t[i].kind /\ e[i].parent = t[i].parent /\ e[i].origin = t[i].origin
       /\ t[i].kind = "payment" => e[i] = t[i]

PeriodBooked(i, t) == t[i].kind = "period" => t[i].paid = PaidOn(i, t)
DebtBooked(i, t) ==
  t[i].kind = "debt" => t[i].collected = Collected(i, t) /\ t[i].outstanding = Outstanding(i, t)
Booked(t) == \A i \in DOMAIN t : PeriodBooked(i, t) /\ DebtBooked(i, t)

\* D are debts of t, and only debts.
Debts(D, t) == \A d \in D : d \in DOMAIN t => t[d].kind = "debt"

\* Rows that are alike make the same tree.
LEMMA AlikeTree ==
  ASSUME NEW t, NEW e, NEW n \in Nat \ {0}, TreeOk(t, n), Alike(t, e)
  PROVE  TreeOk(e, n) /\ Kept(t, e, n) /\ \A made : Made(t, made) => Made(e, made)
<1>1. ASSUME NEW i \in DOMAIN e PROVE i \in Nat /\ 0 < i /\ i < n /\ RowOk(e[i])
  BY DEF TreeOk, Alike
<1>2. ASSUME NEW i \in DOMAIN e PROVE Under(i, e)
  BY DEF TreeOk, Alike, Under
<1>3. ASSUME NEW i \in DOMAIN e PROVE Paying(i, e)
  BY DEF TreeOk, Alike, Paying
<1>4. Kept(t, e, n)
  BY DEF Kept, Alike
<1>5. ASSUME NEW made, Made(t, made) PROVE Made(e, made)
  BY <1>5 DEF Made, Alike
<1> QED
  BY <1>1, <1>2, <1>3, <1>4, <1>5 DEF TreeOk

\* Payments count as before.
LEMMA AlikeSums ==
  ASSUME NEW t, NEW e, Alike(t, e)
  PROVE  \A i : PaidOn(i, e) = PaidOn(i, t) /\ Collected(i, e) = Collected(i, t)
<1>1. Active(e) = Active(t) /\ \A i \in Active(t) : e[i] = t[i]
  BY DEF Active, Of, Alike
<1>2. ASSUME NEW i PROVE PaidOn(i, e) = PaidOn(i, t)
  <2>1. {j \in Active(e) : e[j].period = i} = {j \in Active(t) : t[j].period = i}
    BY <1>1
  <2>2. [j \in {j \in Active(e) : e[j].period = i} |-> e[j].amount] = [j \in {j \in Active(t) : t[j].period = i} |-> t[j].amount]
    BY <1>1, <2>1
  <2> QED
    BY <2>2 DEF PaidOn, Total
<1>3. ASSUME NEW i PROVE Collected(i, e) = Collected(i, t)
  <2>1. {j \in Active(e) : e[j].parent = i} = {j \in Active(t) : t[j].parent = i}
    BY <1>1
  <2>2. [j \in {j \in Active(e) : e[j].parent = i} |-> e[j].amount] = [j \in {j \in Active(t) : t[j].parent = i} |-> t[j].amount]
    BY <1>1, <2>1
  <2> QED
    BY <2>2 DEF Collected, Total
<1> QED
  BY <1>2, <1>3

\* Periods that stay owe what they owed.
LEMMA SameOutstanding ==
  ASSUME NEW t, NEW e, NEW d,
         \A i : i \in DOMAIN e /\ e[i].kind = "period" /\ e[i].parent = d <=> i \in DOMAIN t /\ t[i].kind = "period" /\ t[i].parent = d,
         \A i \in DOMAIN e : e[i].kind = "period" /\ e[i].parent = d => e[i] = t[i]
  PROVE  Outstanding(d, e) = Outstanding(d, t)
<1>1. {i \in Of("period", e) : e[i].parent = d} = {i \in Of("period", t) : t[i].parent = d}
  BY DEF Of
<1>2. \A i \in {i \in Of("period", e) : e[i].parent = d} : e[i] = t[i]
  BY DEF Of
<1>3. [i \in {i \in Of("period", e) : e[i].parent = d} |-> Max({e[i].amount - e[i].paid, 0})]
        = [i \in {i \in Of("period", t) : t[i].parent = d} |-> Max({t[i].amount - t[i].paid, 0})]
  BY <1>1, <1>2
<1> QED
  BY <1>3 DEF Outstanding

\* Reconciling changes no more than what is derived, and derives it from the payments.
LEMMA ReconciledRows ==
  ASSUME NEW t, NEW n, TreeOk(t, n), NEW D, Debts(D, t), NEW e, e = Reconciled(D, t)
  PROVE  /\ Alike(t, e)
         /\ \A i \in DOMAIN t : t[i].kind = "period" /\ t[i].parent \in D => e[i].paid = PaidOn(i, t)
         /\ \A i \in DOMAIN t : t[i].kind = "debt" /\ i \in D =>
              e[i].collected = Collected(i, e) /\ e[i].outstanding = Outstanding(i, e)
         /\ \A i \in DOMAIN t : t[i].kind = "debt" /\ i \notin D => e[i] = t[i]
         /\ \A i \in DOMAIN t : t[i].kind = "period" /\ t[i].parent \notin D => e[i] = t[i]
<1>1. PICK after : after = [i \in DOMAIN t |-> IF t[i].kind = "period" /\ t[i].parent \in D
                                              THEN ReconciledPeriod(i, t) ELSE t[i]]
  OBVIOUS
<1>2. e = [i \in DOMAIN after |->
             IF i \in D
             THEN [after[i] EXCEPT !.outstanding = Outstanding(i, after), !.collected = Collected(i, after)]
             ELSE after[i]]
  BY <1>1 DEF Reconciled
<1>3. DOMAIN after = DOMAIN t /\ DOMAIN e = DOMAIN t
  BY <1>1, <1>2
<1>4. ASSUME NEW i \in DOMAIN t, t[i].kind = "period", t[i].parent \in D
      PROVE  /\ RowOk(after[i]) /\ after[i].kind = "period" /\ after[i].parent = t[i].parent
             /\ after[i].origin = t[i].origin /\ after[i].paid = PaidOn(i, t)
  <2>1. PICK x, y : ReconciledPeriod(i, t) = [t[i] EXCEPT !.penalty = x, !.amount = y, !.paid = PaidOn(i, t)]
    BY DEF ReconciledPeriod
  <2>2. after[i] = [t[i] EXCEPT !.penalty = x, !.amount = y, !.paid = PaidOn(i, t)]
    BY <1>1, <1>4, <2>1
  <2>3. DOMAIN t[i] = PeriodFields
    BY <1>4 DEF TreeOk, RowOk
  <2> HIDE DEF PaidOn
  <2> QED
    BY <1>4, <2>2, <2>3 DEF PeriodFields, RowOk, Kinds
<1>5. \A i \in DOMAIN t : ~(t[i].kind = "period" /\ t[i].parent \in D) => after[i] = t[i]
  BY <1>1
<1>6. Alike(t, after)
  <2>1. \A i \in DOMAIN t : RowOk(t[i])
    BY DEF TreeOk
  <2> QED
    BY <1>3, <1>4, <1>5, <2>1 DEF Alike
<1>7. \A i \in DOMAIN t : i \notin D => e[i] = after[i]
  BY <1>2, <1>3
<1>8. ASSUME NEW i \in DOMAIN t, i \in D
      PROVE  /\ RowOk(e[i]) /\ e[i].kind = t[i].kind /\ e[i].parent = t[i].parent /\ e[i].origin = t[i].origin
             /\ e[i].outstanding = Outstanding(i, after) /\ e[i].collected = Collected(i, after)
  <2>1. t[i].kind = "debt" /\ DOMAIN t[i] = DebtFields
    BY <1>8 DEF Debts, TreeOk, RowOk
  <2>2. PICK x, y : x = Outstanding(i, after) /\ y = Collected(i, after)
    OBVIOUS
  <2>3. e[i] = [after[i] EXCEPT !.outstanding = x, !.collected = y]
    BY <1>2, <1>3, <1>8, <2>2
  <2>4. after[i] = t[i]
    BY <1>5, <2>1
  <2>5. e[i].outstanding = x /\ e[i].collected = y
    BY <2>1, <2>3, <2>4 DEF DebtFields
  <2>6. RowOk(e[i]) /\ e[i].kind = t[i].kind /\ e[i].parent = t[i].parent /\ e[i].origin = t[i].origin
    BY <2>1, <2>3, <2>4 DEF DebtFields, RowOk, Kinds
  <2> QED
    BY <2>2, <2>5, <2>6
<1>9. Alike(t, e)
  <2>1. \A i \in D : i \in DOMAIN t => t[i].kind = "debt"
    BY DEF Debts
  <2> QED
    BY <1>3, <1>6, <1>7, <1>8, <2>1 DEF Alike
<1>10. \A i \in DOMAIN t : t[i].kind = "period" => i \notin D /\ e[i] = after[i]
  BY <1>7 DEF Debts
<1>11. \A i : Collected(i, e) = Collected(i, after)
  BY <1>6, <1>9, AlikeSums
<1>12. ASSUME NEW d PROVE Outstanding(d, e) = Outstanding(d, after)
  <2>1. DOMAIN e = DOMAIN after
    BY <1>3
  <2>2. \A i \in DOMAIN e : e[i].kind = t[i].kind /\ after[i].kind = t[i].kind
    BY <1>3, <1>6, <1>9 DEF Alike
  <2>3. \A i \in DOMAIN e : t[i].kind = "period" => e[i] = after[i]
    BY <1>3, <1>10
  <2> QED
    BY <2>1, <2>2, <2>3, SameOutstanding
<1>13. \A i \in DOMAIN t : t[i].kind = "debt" /\ i \in D =>
         e[i].collected = Collected(i, e) /\ e[i].outstanding = Outstanding(i, e)
  BY <1>8, <1>11, <1>12
<1>14. \A i \in DOMAIN t : t[i].kind = "debt" /\ i \notin D => e[i] = t[i]
  BY <1>5, <1>7
<1>15. \A i \in DOMAIN t : t[i].kind = "period" /\ t[i].parent \in D => e[i].paid = PaidOn(i, t)
  BY <1>4, <1>10
<1>16. \A i \in DOMAIN t : t[i].kind = "period" /\ t[i].parent \notin D => e[i] = t[i]
  BY <1>5, <1>10
<1> QED
  BY <1>9, <1>13, <1>14, <1>15, <1>16

\* What was in order and is not reconciled, or is, is in order.
LEMMA ReconciledBooks ==
  ASSUME NEW t, NEW n, TreeOk(t, n), NEW D, Debts(D, t), NEW e, e = Reconciled(D, t),
         \A i \in DOMAIN t : t[i].kind = "debt" /\ i \notin D => DebtBooked(i, t),
         \A i \in DOMAIN t : t[i].kind = "period" /\ t[i].parent \notin D => PeriodBooked(i, t)
  PROVE  Booked(e)
<1>1. /\ Alike(t, e)
      /\ \A i \in DOMAIN t : t[i].kind = "period" /\ t[i].parent \in D => e[i].paid = PaidOn(i, t)
      /\ \A i \in DOMAIN t : t[i].kind = "debt" /\ i \in D =>
           e[i].collected = Collected(i, e) /\ e[i].outstanding = Outstanding(i, e)
      /\ \A i \in DOMAIN t : t[i].kind = "debt" /\ i \notin D => e[i] = t[i]
      /\ \A i \in DOMAIN t : t[i].kind = "period" /\ t[i].parent \notin D => e[i] = t[i]
  BY ReconciledRows
<1>2. DOMAIN e = DOMAIN t /\ \A i \in DOMAIN t : e[i].kind = t[i].kind /\ e[i].parent = t[i].parent
  BY <1>1 DEF Alike
<1>3. \A i : PaidOn(i, e) = PaidOn(i, t) /\ Collected(i, e) = Collected(i, t)
  BY <1>1, AlikeSums
<1>4. ASSUME NEW d \in DOMAIN t, d \notin D PROVE Outstanding(d, e) = Outstanding(d, t)
  BY <1>1, <1>2, <1>4, SameOutstanding
<1>5. ASSUME NEW i \in DOMAIN t PROVE PeriodBooked(i, e)
  BY <1>1, <1>2, <1>3 DEF PeriodBooked
<1>6. ASSUME NEW i \in DOMAIN t PROVE DebtBooked(i, e)
  BY <1>1, <1>2, <1>3, <1>4 DEF DebtBooked
<1> QED
  BY <1>2, <1>5, <1>6 DEF Booked

\* The property that the run checks, row by row.
LEMMA BooksAre == BooksFollow <=> Booked(rows)
  BY DEF BooksFollow, Booked, PeriodBooked, DebtBooked, Of

\* The books of a debt are a matter of its own rows.
LEMMA SameBooks ==
  ASSUME NEW t, NEW e, NEW n, NEW n2, TreeOk(t, n), TreeOk(e, n2), NEW d, d \in DOMAIN t, d \in DOMAIN e,
         e[d] = t[d], t[d].kind = "debt",
         \A i : i \in DOMAIN e /\ e[i].parent = d <=> i \in DOMAIN t /\ t[i].parent = d,
         \A i \in DOMAIN e : e[i].parent = d => e[i].kind = t[i].kind,
         \A i \in DOMAIN e : e[i].parent = d /\ e[i].kind = "period" => e[i] = t[i],
         \A i \in DOMAIN e : e[i].parent = d /\ e[i].kind = "payment" =>
           e[i].period = t[i].period /\ e[i].amount = t[i].amount /\ (e[i].active <=> t[i].active)
  PROVE  /\ DebtBooked(d, t) => DebtBooked(d, e)
         /\ \A i \in DOMAIN e : e[i].parent = d /\ PeriodBooked(i, t) => PeriodBooked(i, e)
<1>1. \A i : i \in Active(e) /\ e[i].parent = d <=> i \in Active(t) /\ t[i].parent = d
  BY DEF Active, Of
<1>2. Collected(d, e) = Collected(d, t)
  <2>1. {i \in Active(e) : e[i].parent = d} = {i \in Active(t) : t[i].parent = d}
    BY <1>1
  <2>2. \A i \in {i \in Active(e) : e[i].parent = d} : e[i].amount = t[i].amount
    BY DEF Active, Of
  <2>3. [i \in {i \in Active(e) : e[i].parent = d} |-> e[i].amount] = [i \in {i \in Active(t) : t[i].parent = d} |-> t[i].amount]
    BY <2>1, <2>2
  <2> QED
    BY <2>3 DEF Collected, Total
<1>3. Outstanding(d, e) = Outstanding(d, t)
  BY SameOutstanding
<1>4. ASSUME NEW p \in DOMAIN e, e[p].parent = d, e[p].kind = "period" PROVE PaidOn(p, e) = PaidOn(p, t)
  <2>1. p \in DOMAIN t /\ t[p].parent = d /\ p # NoPeriod
    BY <1>4 DEF TreeOk, NoPeriod
  <2>2. \A i \in Active(e) : e[i].period = p => e[i].parent = d
    BY <1>4, <2>1 DEF Active, Of, TreeOk, Paying
  <2>3. \A i \in Active(t) : t[i].period = p => t[i].parent = d
    BY <1>4, <2>1 DEF Active, Of, TreeOk, Paying
  <2>4. {i \in Active(e) : e[i].period = p} = {i \in Active(t) : t[i].period = p}
    BY <1>1, <2>2, <2>3 DEF Active, Of
  <2>5. \A i \in {i \in Active(e) : e[i].period = p} : e[i].amount = t[i].amount
    BY <2>2 DEF Active, Of
  <2>6. [i \in {i \in Active(e) : e[i].period = p} |-> e[i].amount] = [i \in {i \in Active(t) : t[i].period = p} |-> t[i].amount]
    BY <2>4, <2>5
  <2> QED
    BY <2>6 DEF PaidOn, Total
<1> QED
  BY <1>2, <1>3, <1>4 DEF DebtBooked, PeriodBooked

-----------------------------------------------------------------------------
(* The rows an upload is about.                                            *)

\* An upload, and the table it is to be merged into.
Meets(m, t) ==
  /\ nextId \in Nat \ {0} /\ TreeOk(t, nextId) /\ Made(t, own)
  /\ m.phone \in Phones /\ own[m.phone] \in Nat
  /\ ViewOk(m.phone, m.rows, m.removed, t, nextId, own[m.phone])
  /\ \A i \in dead : i \in Nat /\ 0 < i /\ i < nextId /\ i \notin DOMAIN t
Merges(m, t) == Meets(m, t) /\ Sound(m, t)

\* What an upload that is sound may hold.
LEMMA TakenKeys ==
  ASSUME NEW m, NEW t, Merges(m, t)
  PROVE  /\ IsFiniteSet(Taken(m))
         /\ \A k \in Taken(m) : k \in DOMAIN m.rows /\ k \in Int /\ k # 0 /\ k < nextId
         /\ \A k \in Taken(m) : k > 0 => k \in DOMAIN t
         /\ \A k \in Taken(m) : m.rows[k].kind # "client" => m.rows[k].parent \in Taken(m)
         /\ \A k \in DOMAIN m.rows : k < 0 \/ k \in DOMAIN t => k \in Taken(m)
<1>1. IsFiniteSet(DOMAIN m.rows) /\ \A k \in DOMAIN m.rows : k \in Int /\ k # 0 /\ k < nextId
  BY DEF Merges, Meets, ViewOk, Keys
<1>2. IsFiniteSet(Taken(m))
  BY <1>1, FS_Subset DEF Taken
<1>3. \A k \in Taken(m) : k > 0 => k \in DOMAIN t
  BY DEF Merges, Sound
<1>4. \A k \in Taken(m) : m.rows[k].kind # "client" => m.rows[k].parent \in Taken(m)
  BY DEF Merges, Sound
<1>5. \A k \in DOMAIN m.rows : k < 0 \/ k \in DOMAIN t => k \in Taken(m)
  BY <1>1 DEF Merges, Meets, Taken
<1> QED
  BY <1>1, <1>2, <1>3, <1>4, <1>5 DEF Taken

\* A key names one row at most.
LEMMA OneExisting ==
  ASSUME NEW m, NEW t, Merges(m, t), NEW k \in Taken(m), NEW i \in Existing(m, k, t)
  PROVE  Existing(m, k, t) = {i} /\ i \in DOMAIN t /\ Means(m.phone, k, i, t) /\ IdOf(m, k, t) = i
<1>1. k \in Int /\ k # 0
  BY TakenKeys
<1>2. i \in DOMAIN t /\ Means(m.phone, k, i, t)
  BY <1>1 DEF Existing, Means
<1>3. Existing(m, k, t) = {i}
  <2>1. CASE k > 0
    BY <2>1 DEF Existing
  <2>2. CASE ~(k > 0)
    <3>1. m.phone \in Phones /\ \A x, y \in DOMAIN t : t[x].origin = t[y].origin /\ t[x].origin # <<Web, 0>> => x = y
      BY DEF Merges, Meets, Made
    <3>2. <<m.phone, k>> # <<Web, 0>>
      BY <3>1, MobileAssumption
    <3>3. Existing(m, k, t) = {x \in DOMAIN t : t[x].origin = <<m.phone, k>>}
      BY <2>2 DEF Existing
    <3> QED
      BY <3>1, <3>2, <3>3
  <2> QED
    BY <2>1, <2>2
<1>4. i \in Int
  BY <1>2 DEF Merges, Meets, TreeOk
<1>5. Min({i}) = i
  BY <1>4 DEF Min
<1> QED
  BY <1>1, <1>2, <1>3, <1>5 DEF IdOf

NewAbove(m, k, t) == {j \in Taken(m) : j > k /\ Existing(m, j, t) = {}}

\* A row that is new gets an id that no row had.
LEMMA NewId ==
  ASSUME NEW m, NEW t, Merges(m, t), NEW k \in Taken(m), Existing(m, k, t) = {}
  PROVE  /\ IsFiniteSet(NewAbove(m, k, t)) /\ Cardinality(NewAbove(m, k, t)) \in Nat
         /\ IdOf(m, k, t) = nextId + Cardinality(NewAbove(m, k, t)) /\ IdOf(m, k, t) >= nextId
         /\ IdOf(m, k, t) \in Nat /\ k < 0
<1>1. k \in Int /\ k # 0 /\ IsFiniteSet(Taken(m)) /\ (k > 0 => k \in DOMAIN t) /\ nextId \in Nat
  BY TakenKeys DEF Merges, Meets
<1>2. IsFiniteSet(NewAbove(m, k, t))
  BY <1>1, FS_Subset DEF NewAbove
<1>3. Cardinality(NewAbove(m, k, t)) \in Nat
  BY <1>2, FS_CardinalityType
<1>4. IdOf(m, k, t) = nextId + Cardinality(NewAbove(m, k, t))
  BY <1>1 DEF IdOf, NewAbove
<1>5. k < 0
  BY <1>1 DEF Existing
<1> QED
  BY <1>1, <1>2, <1>3, <1>4, <1>5

\* Different keys name different rows.
LEMMA IdsDiffer ==
  ASSUME NEW m, NEW t, Merges(m, t), NEW k \in Taken(m), NEW l \in Taken(m),
         IdOf(m, k, t) = IdOf(m, l, t)
  PROVE  k = l
<1>1. /\ k \in Int /\ k # 0 /\ l \in Int /\ l # 0 /\ k \in DOMAIN m.rows /\ l \in DOMAIN m.rows
  BY TakenKeys
<1>2. \A i \in DOMAIN t : i \in Nat /\ i < nextId
  BY DEF Merges, Meets, TreeOk
<1>3. CASE Existing(m, k, t) # {} /\ Existing(m, l, t) # {}
  <2>1. PICK i \in Existing(m, k, t) : TRUE
    BY <1>3
  <2>2. PICK j \in Existing(m, l, t) : TRUE
    BY <1>3
  <2>3. i \in DOMAIN t /\ Means(m.phone, k, i, t) /\ IdOf(m, k, t) = i
    BY OneExisting
  <2>4. j \in DOMAIN t /\ Means(m.phone, l, j, t) /\ IdOf(m, l, t) = j
    BY OneExisting
  <2>5. i = j
    BY <2>3, <2>4
  <2>6. ASSUME NEW x \in DOMAIN m.rows, NEW y \in DOMAIN m.rows, x \in DOMAIN t, t[x].origin = <<m.phone, y>>
        PROVE FALSE
    BY <2>6 DEF Merges, Meets, ViewOk
  <2>7. CASE k > 0 /\ l > 0
    BY <2>3, <2>4, <2>5, <2>7 DEF Means
  <2>8. CASE k > 0 /\ l < 0
    BY <1>1, <2>3, <2>4, <2>5, <2>6, <2>8 DEF Means
  <2>9. CASE k < 0 /\ l > 0
    BY <1>1, <2>3, <2>4, <2>5, <2>6, <2>9 DEF Means
  <2>10. CASE k < 0 /\ l < 0
    <3>1. ~(k > 0) /\ ~(l > 0)
      BY <1>1, <2>10
    <3>2. t[i].origin = <<m.phone, k>> /\ t[i].origin = <<m.phone, l>>
      BY <2>3, <2>4, <2>5, <3>1 DEF Means
    <3> QED
      BY <3>2
  <2> QED
    BY <1>1, <2>7, <2>8, <2>9, <2>10
<1>4. CASE Existing(m, k, t) # {} /\ Existing(m, l, t) = {}
  <2>1. PICK i \in Existing(m, k, t) : TRUE
    BY <1>4
  <2>2. i \in DOMAIN t /\ IdOf(m, k, t) = i
    BY OneExisting
  <2>3. IdOf(m, l, t) >= nextId /\ nextId \in Nat
    BY <1>4, NewId DEF Merges, Meets
  <2> QED
    BY <1>2, <2>2, <2>3
<1>5. CASE Existing(m, k, t) = {} /\ Existing(m, l, t) # {}
  <2>1. PICK i \in Existing(m, l, t) : TRUE
    BY <1>5
  <2>2. i \in DOMAIN t /\ IdOf(m, l, t) = i
    BY OneExisting
  <2>3. IdOf(m, k, t) >= nextId /\ nextId \in Nat
    BY <1>5, NewId DEF Merges, Meets
  <2> QED
    BY <1>2, <2>2, <2>3
<1>6. CASE Existing(m, k, t) = {} /\ Existing(m, l, t) = {}
  <2>1. ASSUME NEW x \in Taken(m), NEW y \in Taken(m), Existing(m, x, t) = {}, Existing(m, y, t) = {}, x < y
        PROVE  Cardinality(NewAbove(m, y, t)) < Cardinality(NewAbove(m, x, t))
    <3>1. IsFiniteSet(NewAbove(m, y, t)) /\ IsFiniteSet(NewAbove(m, x, t))
      BY <2>1, NewId
    <3>2. \A z \in Taken(m) : z \in Int
      BY TakenKeys
    <3>3. NewAbove(m, y, t) \subseteq NewAbove(m, x, t) /\ y \in NewAbove(m, x, t) /\ y \notin NewAbove(m, y, t)
      BY <2>1, <3>2 DEF NewAbove
    <3>4. NewAbove(m, y, t) # NewAbove(m, x, t)
      BY <3>3
    <3>5. PICK A, B : A = NewAbove(m, y, t) /\ B = NewAbove(m, x, t)
      OBVIOUS
    <3>6. IsFiniteSet(A) /\ IsFiniteSet(B) /\ A \subseteq B /\ A # B
      BY <3>1, <3>3, <3>4, <3>5
    <3>7. Cardinality(A) \in Nat /\ Cardinality(B) \in Nat /\ Cardinality(A) <= Cardinality(B) /\ Cardinality(A) # Cardinality(B)
      BY <3>6, FS_Subset, FS_CardinalityType
    <3> QED
      BY <3>5, <3>7
  <2>2. /\ IdOf(m, k, t) = nextId + Cardinality(NewAbove(m, k, t)) /\ Cardinality(NewAbove(m, k, t)) \in Nat
        /\ IdOf(m, l, t) = nextId + Cardinality(NewAbove(m, l, t)) /\ Cardinality(NewAbove(m, l, t)) \in Nat
    BY <1>6, NewId
  <2>3. Cardinality(NewAbove(m, k, t)) = Cardinality(NewAbove(m, l, t))
    <3>1. PICK a, b : a = Cardinality(NewAbove(m, k, t)) /\ b = Cardinality(NewAbove(m, l, t))
      OBVIOUS
    <3>2. nextId \in Nat
      BY DEF Merges, Meets
    <3>3. a \in Nat /\ b \in Nat /\ nextId + a = nextId + b
      BY <2>2, <3>1
    <3> QED
      BY <3>1, <3>2, <3>3
  <2>4. ~(k < l) /\ ~(l < k)
    BY <1>6, <2>1, <2>2, <2>3
  <2> QED
    BY <1>1, <2>4
<1> QED
  BY <1>3, <1>4, <1>5, <1>6

\* The key that an upload has for a row is found again.
LEMMA KeyOfId ==
  ASSUME NEW m, NEW t, Merges(m, t), NEW k \in Taken(m)
  PROVE  KeyOf(m, IdOf(m, k, t), t) = k
<1>1. \E l \in Taken(m) : IdOf(m, l, t) = IdOf(m, k, t)
  OBVIOUS
<1>2. KeyOf(m, IdOf(m, k, t), t) \in Taken(m) /\ IdOf(m, KeyOf(m, IdOf(m, k, t), t), t) = IdOf(m, k, t)
  BY <1>1 DEF KeyOf
<1> QED
  BY <1>2, IdsDiffer

\* The id of a row above, and of any row.
LEMMA IdsAre ==
  ASSUME NEW m, NEW t, Merges(m, t), NEW k \in Taken(m)
  PROVE  /\ IdOf(m, k, t) \in Nat /\ IdOf(m, k, t) > 0
         /\ k > 0 => IdOf(m, k, t) = k
         /\ IdOf(m, k, t) \in DOMAIN t => Means(m.phone, k, IdOf(m, k, t), t)
         /\ IdOf(m, k, t) \in DOMAIN t <=> Existing(m, k, t) # {}
         /\ IdOf(m, k, t) \notin DOMAIN t => k < 0 /\ IdOf(m, k, t) >= nextId
<1>1. \A i \in DOMAIN t : i \in Nat /\ 0 < i /\ i < nextId
  BY DEF Merges, Meets, TreeOk
<1>2. nextId \in Nat \ {0}
  BY DEF Merges, Meets
<1>3. CASE Existing(m, k, t) = {}
  <2>1. IdOf(m, k, t) \in Nat /\ IdOf(m, k, t) >= nextId /\ k < 0
    BY <1>3, NewId
  <2>2. IdOf(m, k, t) > 0 /\ IdOf(m, k, t) \notin DOMAIN t /\ ~(k > 0)
    <3>1. k \in Int
      BY TakenKeys
    <3> QED
      BY <1>1, <1>2, <2>1, <3>1
  <2> QED
    BY <1>3, <2>1, <2>2
<1>4. CASE Existing(m, k, t) # {}
  <2>1. PICK i \in Existing(m, k, t) : TRUE
    BY <1>4
  <2>2. i \in DOMAIN t /\ IdOf(m, k, t) = i /\ Means(m.phone, k, i, t)
    BY OneExisting
  <2> QED
    BY <1>1, <1>4, <2>2 DEF Means
<1> QED
  BY <1>3, <1>4

-----------------------------------------------------------------------------
(* What an upload makes of the rows.                                       *)

OriginOf(m, k, t) ==
  IF Existing(m, k, t) = {} THEN <<m.phone, k>> ELSE t[Min(Existing(m, k, t))].origin
ActiveOf(m, k, t) == IF Existing(m, k, t) = {} THEN TRUE ELSE t[Min(Existing(m, k, t))].active

\* The row that a copy is imported as.
LEMMA ImportedIs ==
  ASSUME NEW m, NEW k, NEW t, m.rows[k].kind \in Kinds, NEW x, x = Imported(m, k, t)
  PROVE  /\ RowOk(x) /\ x.kind = m.rows[k].kind /\ x.origin = OriginOf(m, k, t)
         /\ x.kind # "client" => x.parent = IdOf(m, m.rows[k].parent, t)
         /\ x.kind = "payment" => /\ x.amount = m.rows[k].amount
                                  /\ x.period = Linked(m, m.rows[k].period, t)
                                  /\ x.active = ActiveOf(m, k, t)
<1>1. PICK r : r = m.rows[k]
  OBVIOUS
<1>2. PICK parent, origin, period, active :
        /\ parent = IdOf(m, m.rows[k].parent, t) /\ origin = OriginOf(m, k, t)
        /\ period = Linked(m, m.rows[k].period, t) /\ active = ActiveOf(m, k, t)
  OBVIOUS
<1>3. x = CASE r.kind = "client" -> Client(origin)
            [] r.kind = "debt" -> Debt(parent, origin)
            [] r.kind = "period" -> Period(parent, r.number, origin)
            [] OTHER -> [Payment(parent, period, r.amount, origin) EXCEPT !.active = active]
  BY <1>1, <1>2 DEF Imported, OriginOf, ActiveOf
<1>4. CASE r.kind = "client"
  <2>1. x = Client(origin)
    BY <1>3, <1>4
  <2> QED
    BY <1>1, <1>2, <1>4, <2>1 DEF Client, RowOk, Kinds, ClientFields
<1>5. CASE r.kind = "debt"
  <2>1. x = Debt(parent, origin)
    BY <1>3, <1>5
  <2> QED
    BY <1>1, <1>2, <1>5, <2>1 DEF Debt, RowOk, Kinds, DebtFields
<1>6. CASE r.kind = "period"
  <2>1. x = Period(parent, r.number, origin)
    BY <1>3, <1>6
  <2> QED
    BY <1>1, <1>2, <1>6, <2>1 DEF Period, RowOk, Kinds, PeriodFields
<1>7. CASE r.kind = "payment"
  <2>1. x = [Payment(parent, period, r.amount, origin) EXCEPT !.active = active]
    BY <1>3, <1>7
  <2> QED
    BY <1>1, <1>2, <1>7, <2>1 DEF Payment, RowOk, Kinds, PaymentFields
<1> QED
  BY <1>1, <1>4, <1>5, <1>6, <1>7 DEF Kinds

\* The upload says what its row is.
States(newer, k) == ~(k > 0 /\ k \notin newer)

\* A row is imported, or left as it was.
LEMMA UpsertedRows ==
  ASSUME NEW m, NEW newer, NEW t, Merges(m, t), NEW e, e = Upserted(m, newer, t)
  PROVE  /\ DOMAIN t \subseteq DOMAIN e
         /\ \A k \in Taken(m) : /\ IdOf(m, k, t) \in DOMAIN e
                                /\ States(newer, k) => e[IdOf(m, k, t)] = Imported(m, k, t)
                                /\ ~States(newer, k) => e[IdOf(m, k, t)] = t[IdOf(m, k, t)]
         /\ \A i \in DOMAIN e : \/ i \in DOMAIN t /\ e[i] = t[i]
                                \/ \E k \in Taken(m) : i = IdOf(m, k, t) /\ States(newer, k) /\ e[i] = Imported(m, k, t)
<1>1. PICK ids : ids = {IdOf(m, k, t) : k \in Taken(m)}
  OBVIOUS
<1>2. e = [i \in DOMAIN t \cup ids |-> IF i \in ids /\ States(newer, KeyOf(m, i, t))
                                       THEN Imported(m, KeyOf(m, i, t), t) ELSE t[i]]
  BY <1>1 DEF Upserted, States
<1>3. \A k \in Taken(m) : IdOf(m, k, t) \in ids /\ KeyOf(m, IdOf(m, k, t), t) = k
  BY <1>1, KeyOfId
<1>4. \A i \in ids : \E k \in Taken(m) : i = IdOf(m, k, t)
  BY <1>1
<1>5. \A k \in Taken(m) : ~States(newer, k) => IdOf(m, k, t) \in DOMAIN t
  <2> SUFFICES ASSUME NEW k \in Taken(m), ~States(newer, k) PROVE IdOf(m, k, t) \in DOMAIN t
    OBVIOUS
  <2>1. k > 0
    BY DEF States
  <2> QED
    BY <2>1, TakenKeys, IdsAre
<1>6. DOMAIN e = DOMAIN t \cup ids
  BY <1>2
<1>7. ASSUME NEW k \in Taken(m)
      PROVE  /\ IdOf(m, k, t) \in DOMAIN e
             /\ States(newer, k) => e[IdOf(m, k, t)] = Imported(m, k, t)
             /\ ~States(newer, k) => e[IdOf(m, k, t)] = t[IdOf(m, k, t)]
  BY <1>2, <1>3, <1>5, <1>6
<1>8. ASSUME NEW i \in DOMAIN e
      PROVE  \/ i \in DOMAIN t /\ e[i] = t[i]
             \/ \E k \in Taken(m) : i = IdOf(m, k, t) /\ States(newer, k) /\ e[i] = Imported(m, k, t)
  <2>1. CASE i \in ids
    <3>1. PICK k \in Taken(m) : i = IdOf(m, k, t)
      BY <1>4, <2>1
    <3> QED
      BY <1>5, <1>7, <3>1
  <2>2. CASE i \notin ids
    BY <1>2, <1>6, <2>2
  <2> QED
    BY <2>1, <2>2
<1> QED
  BY <1>6, <1>7, <1>8

\* A row the server has is that of the upload, as far as it goes.
LEMMA ExistingRow ==
  ASSUME NEW m, NEW t, Merges(m, t), NEW k \in Taken(m), NEW i, i = IdOf(m, k, t), i \in DOMAIN t
  PROVE  /\ t[i].kind = m.rows[k].kind
         /\ t[i].kind # "client" => t[i].parent = IdOf(m, m.rows[k].parent, t)
         /\ t[i].kind = "payment" => t[i].amount = m.rows[k].amount
         /\ OriginOf(m, k, t) = t[i].origin /\ ActiveOf(m, k, t) = t[i].active
         /\ k < 0 => t[i].origin = <<m.phone, k>>
<1>1. Existing(m, k, t) # {} /\ Means(m.phone, k, i, t)
  BY IdsAre
<1>2. Existing(m, k, t) = {i}
  <2>1. PICK j \in Existing(m, k, t) : TRUE
    BY <1>1
  <2> QED
    BY <2>1, OneExisting
<1>3. Min({i}) = i
  <2>1. i \in Int
    BY DEF Merges, Meets, TreeOk
  <2> QED
    BY <2>1 DEF Min
<1>4. OriginOf(m, k, t) = t[i].origin /\ ActiveOf(m, k, t) = t[i].active
  BY <1>2, <1>3 DEF OriginOf, ActiveOf
<1>5. k \in DOMAIN m.rows /\ k \in Int /\ (m.rows[k].kind # "client" => m.rows[k].parent \in Taken(m))
  BY TakenKeys
<1>6. Faithful(m.phone, k, i, m.rows, t)
  BY <1>1, <1>5 DEF Merges, Meets, ViewOk
<1>7. k < 0 => t[i].origin = <<m.phone, k>>
  BY <1>1, <1>5 DEF Means
<1>8. ASSUME t[i].kind # "client" PROVE t[i].parent = IdOf(m, m.rows[k].parent, t)
  <2>1. PICK q : q = m.rows[k].parent
    OBVIOUS
  <2>2. q \in Taken(m)
    BY <1>5, <1>6, <1>8, <2>1 DEF Faithful
  <2>3. q \in Int /\ q # 0 /\ (q > 0 => q \in DOMAIN t)
    BY <2>2, TakenKeys
  <2>4. CASE q > 0
    <3>1. t[i].parent = q
      BY <1>6, <2>1, <2>3, <2>4 DEF Faithful
    <3> QED
      BY <2>1, <2>2, <2>4, <3>1, IdsAre
  <2>5. CASE q < 0
    <3>1. t[t[i].parent].origin = <<m.phone, q>> /\ t[i].parent \in DOMAIN t
      BY <1>6, <1>8, <2>1, <2>5 DEF Faithful, Merges, Meets, TreeOk, Under
    <3>2. t[i].parent \in Existing(m, q, t)
      BY <2>3, <2>5, <3>1 DEF Existing
    <3> QED
      BY <2>1, <2>2, <3>2, OneExisting
  <2> QED
    BY <2>3, <2>4, <2>5
<1>9. t[i].kind = m.rows[k].kind /\ (t[i].kind = "payment" => t[i].amount = m.rows[k].amount)
  BY <1>6 DEF Faithful
<1> QED
  BY <1>4, <1>7, <1>8, <1>9

\* A row of the upload is there, under the row that the upload has above it.
LEMMA UpsertedRow ==
  ASSUME NEW m, NEW newer, NEW t, Merges(m, t), NEW e, e = Upserted(m, newer, t),
         NEW k \in Taken(m), NEW i, i = IdOf(m, k, t)
  PROVE  /\ i \in DOMAIN e /\ e[i].kind = m.rows[k].kind /\ e[i].origin = OriginOf(m, k, t)
         /\ e[i].kind # "client" => m.rows[k].parent \in Taken(m) /\ e[i].parent = IdOf(m, m.rows[k].parent, t)
         /\ e[i].kind = "payment" => e[i].amount = m.rows[k].amount /\ (e[i].active <=> ActiveOf(m, k, t))
         /\ RowOk(e[i])
         /\ k < 0 => e[i].origin = <<m.phone, k>>
<1>1. k \in DOMAIN m.rows /\ k \in Int /\ k # 0 /\ (m.rows[k].kind # "client" => m.rows[k].parent \in Taken(m))
  BY TakenKeys
<1>2. m.rows[k].kind \in Kinds
  BY <1>1 DEF Merges, Meets, ViewOk, CopyOk
<1>3. k < 0 => OriginOf(m, k, t) = <<m.phone, k>>
  <2>1. CASE Existing(m, k, t) = {}
    BY <2>1 DEF OriginOf
  <2>2. CASE Existing(m, k, t) # {}
    BY <2>2, IdsAre, ExistingRow
  <2> QED
    BY <2>1, <2>2
<1>4. i \in DOMAIN e /\ (States(newer, k) => e[i] = Imported(m, k, t)) /\ (~States(newer, k) => e[i] = t[i])
  BY UpsertedRows
<1>5. CASE States(newer, k)
  <2>1. PICK x : x = Imported(m, k, t)
    OBVIOUS
  <2> QED
    BY <1>1, <1>2, <1>3, <1>4, <1>5, <2>1, ImportedIs
<1>6. CASE ~States(newer, k)
  <2>1. k > 0 /\ i \in DOMAIN t
    BY <1>6, TakenKeys, IdsAre DEF States
  <2>2. RowOk(t[i])
    BY <2>1 DEF Merges, Meets, TreeOk
  <2> QED
    BY <1>1, <1>3, <1>4, <1>6, <2>1, <2>2, ExistingRow
<1> QED
  BY <1>5, <1>6

\* A row that was there is the same row.
LEMMA UpsertedOld ==
  ASSUME NEW m, NEW newer, NEW t, Merges(m, t), NEW e, e = Upserted(m, newer, t), NEW i \in DOMAIN t
  PROVE  /\ i \in DOMAIN e /\ e[i].kind = t[i].kind /\ e[i].parent = t[i].parent /\ e[i].origin = t[i].origin
         /\ e[i].kind = "payment" => e[i].amount = t[i].amount /\ (e[i].active <=> t[i].active)
         /\ RowOk(e[i])
<1>1. i \in DOMAIN e /\ RowOk(t[i])
  BY UpsertedRows DEF Merges, Meets, TreeOk
<1>2. CASE e[i] = t[i]
  BY <1>1, <1>2
<1>3. ASSUME NEW k \in Taken(m), i = IdOf(m, k, t)
      PROVE  /\ e[i].kind = t[i].kind /\ e[i].parent = t[i].parent /\ e[i].origin = t[i].origin
             /\ e[i].kind = "payment" => e[i].amount = t[i].amount /\ (e[i].active <=> t[i].active)
             /\ RowOk(e[i])
  <2>1. /\ e[i].kind = m.rows[k].kind /\ e[i].origin = OriginOf(m, k, t) /\ RowOk(e[i])
        /\ e[i].kind # "client" => e[i].parent = IdOf(m, m.rows[k].parent, t)
        /\ e[i].kind = "payment" => e[i].amount = m.rows[k].amount /\ (e[i].active <=> ActiveOf(m, k, t))
    BY <1>3, UpsertedRow
  <2>2. /\ t[i].kind = m.rows[k].kind
        /\ t[i].kind # "client" => t[i].parent = IdOf(m, m.rows[k].parent, t)
        /\ t[i].kind = "payment" => t[i].amount = m.rows[k].amount
        /\ OriginOf(m, k, t) = t[i].origin /\ ActiveOf(m, k, t) = t[i].active
    BY <1>3, ExistingRow
  <2>3. e[i].parent = t[i].parent
    BY <1>1, <2>1, <2>2 DEF RowOk
  <2> QED
    BY <2>1, <2>2, <2>3
<1>4. e[i] = t[i] \/ \E k \in Taken(m) : i = IdOf(m, k, t)
  BY <1>1, UpsertedRows
<1> QED
  BY <1>1, <1>2, <1>3, <1>4

\* Every other row was made by the phone.
LEMMA UpsertedNew ==
  ASSUME NEW m, NEW newer, NEW t, Merges(m, t), NEW e, e = Upserted(m, newer, t), NEW i \in DOMAIN e, i \notin DOMAIN t
  PROVE  i \in Nat /\ i >= nextId /\ \E k \in Taken(m) : i = IdOf(m, k, t) /\ k < 0 /\ e[i].origin = <<m.phone, k>>
<1>1. PICK k \in Taken(m) : i = IdOf(m, k, t)
  BY UpsertedRows
<1>2. i \in Nat /\ i >= nextId /\ k < 0
  BY <1>1, IdsAre
<1> QED
  BY <1>1, <1>2, UpsertedRow

\* The upload makes a tree of the rows again.
LEMMA UpsertedTree ==
  ASSUME NEW m, NEW newer, NEW t, Merges(m, t), NEW e, e = Upserted(m, newer, t),
         NEW n, \A i \in DOMAIN e : i < n
  PROVE  TreeOk(e, n) /\ Made(e, own) /\ Kept(t, e, nextId)
<1>1. \A i \in DOMAIN t : i \in Nat /\ 0 < i /\ i < nextId /\ RowOk(t[i]) /\ Under(i, t) /\ Paying(i, t)
  BY DEF Merges, Meets, TreeOk
<1>2. nextId \in Nat \ {0} /\ m.phone \in Phones /\ m.phone # Web
  BY MobileAssumption DEF Merges, Meets
<1>3. ASSUME NEW i \in DOMAIN e PROVE i \in Nat /\ 0 < i
  BY <1>1, <1>2, UpsertedNew
<1>4. ASSUME NEW i \in DOMAIN e PROVE RowOk(e[i])
  <2>1. i \in DOMAIN t \/ \E k \in Taken(m) : i = IdOf(m, k, t)
    BY UpsertedRows
  <2> QED
    BY <2>1, UpsertedOld, UpsertedRow
<1>5. ASSUME NEW k \in Taken(m) PROVE Under(IdOf(m, k, t), e)
  <2>1. PICK i : i = IdOf(m, k, t)
    OBVIOUS
  <2> SUFFICES ASSUME e[i].kind # "client" PROVE e[i].parent \in DOMAIN e /\ e[e[i].parent].kind = Above(e[i].kind)
    BY <2>1 DEF Under
  <2>2. PICK q : q = m.rows[k].parent
    OBVIOUS
  <2>3. e[i].kind = m.rows[k].kind /\ q \in Taken(m) /\ e[i].parent = IdOf(m, q, t)
    BY <2>1, <2>2, UpsertedRow
  <2>4. e[i].parent \in DOMAIN e /\ e[e[i].parent].kind = m.rows[q].kind
    BY <2>3, UpsertedRow
  <2>5. k \in DOMAIN m.rows /\ q \in DOMAIN m.rows
    BY <2>3, TakenKeys
  <2>6. Linking(k, m.rows, m.removed, t, nextId)
    BY <2>5 DEF Merges, Meets, ViewOk
  <2> QED
    BY <2>2, <2>3, <2>4, <2>5, <2>6 DEF Linking
<1>6. ASSUME NEW i \in DOMAIN t, e[i] = t[i] PROVE Under(i, e) /\ Paying(i, e)
  <2>1. Under(i, e)
    BY <1>1, <1>6, UpsertedOld DEF Under
  <2>2. Paying(i, e)
    BY <1>1, <1>6, UpsertedOld DEF Paying
  <2> QED
    BY <2>1, <2>2
<1>7. ASSUME NEW k \in Taken(m), e[IdOf(m, k, t)] = Imported(m, k, t) PROVE Paying(IdOf(m, k, t), e)
  <2>1. PICK i : i = IdOf(m, k, t)
    OBVIOUS
  <2> SUFFICES ASSUME e[i].kind = "payment", e[i].period # NoPeriod
               PROVE  /\ e[i].period \in DOMAIN e /\ e[e[i].period].kind = "period"
                      /\ e[e[i].period].parent = e[i].parent
    BY <2>1 DEF Paying
  <2>2. PICK q, s : q = m.rows[k].parent /\ s = m.rows[k].period
    OBVIOUS
  <2>3. e[i].kind = m.rows[k].kind /\ q \in Taken(m) /\ e[i].parent = IdOf(m, q, t)
    BY <2>1, <2>2, UpsertedRow
  <2>4. k \in DOMAIN m.rows /\ q \in DOMAIN m.rows /\ q \in Int /\ (q > 0 => q \in DOMAIN t /\ IdOf(m, q, t) = q)
    BY <2>3, TakenKeys, IdsAre
  <2>5. CopyOk(m.rows[k]) /\ Linking(k, m.rows, m.removed, t, nextId) /\ Covering(k, m.rows, t, nextId)
    BY <2>4 DEF Merges, Meets, ViewOk
  <2>6. e[i].period = Linked(m, s, t)
    <3>1. PICK x : x = Imported(m, k, t)
      OBVIOUS
    <3>2. e[i] = x /\ m.rows[k].kind \in Kinds
      BY <1>7, <2>1, <2>5, <3>1 DEF CopyOk
    <3> QED
      BY <2>2, <3>1, <3>2, ImportedIs
  <2>7. s \in Taken(m) /\ e[i].period = IdOf(m, s, t)
    BY <2>6 DEF Linked
  <2>8. s \in DOMAIN m.rows /\ s \in Int /\ s # 0 /\ (s > 0 => s \in DOMAIN t /\ IdOf(m, s, t) = s)
    BY <2>7, TakenKeys, IdsAre
  <2>9. CASE s < 0
    <3>1. m.rows[s].kind = "period" /\ m.rows[s].parent = q
      BY <2>2, <2>5, <2>8, <2>9 DEF Covering, NoPeriod
    <3>2. e[i].period \in DOMAIN e /\ e[e[i].period].kind = "period" /\ e[e[i].period].parent = IdOf(m, q, t)
      BY <2>7, <3>1, UpsertedRow
    <3> QED
      BY <2>3, <3>2
  <2>10. CASE s > 0
    <3>1. q > 0 /\ t[s].kind = "period" /\ (q \in DOMAIN t => t[s].parent = q)
      BY <2>2, <2>5, <2>8, <2>10 DEF Covering, NoPeriod
    <3>2. e[i].period = s /\ e[i].parent = q /\ t[s].parent = q
      BY <2>3, <2>4, <2>7, <2>8, <2>10, <3>1
    <3>3. s \in DOMAIN e /\ e[s].kind = t[s].kind /\ e[s].parent = t[s].parent
      BY <2>8, <2>10, UpsertedOld
    <3> QED
      BY <3>1, <3>2, <3>3
  <2> QED
    BY <2>8, <2>9, <2>10
<1>8. ASSUME NEW i \in DOMAIN e PROVE Under(i, e) /\ Paying(i, e)
  <2>1. \/ i \in DOMAIN t /\ e[i] = t[i]
        \/ \E k \in Taken(m) : i = IdOf(m, k, t) /\ e[i] = Imported(m, k, t)
    BY UpsertedRows
  <2> QED
    BY <1>5, <1>6, <1>7, <2>1
<1>9. TreeOk(e, n)
  BY <1>3, <1>4, <1>8 DEF TreeOk
<1>10. Kept(t, e, nextId)
  <2> SUFFICES ASSUME NEW i \in DOMAIN e, i < nextId
               PROVE  /\ i \in DOMAIN t
                      /\ e[i].kind = t[i].kind /\ e[i].parent = t[i].parent /\ e[i].origin = t[i].origin
                      /\ e[i].kind = "payment" => e[i].amount = t[i].amount
    BY DEF Kept
  <2>1. i \in DOMAIN t
    BY <1>2, UpsertedNew
  <2> QED
    BY <2>1, UpsertedOld
<1>11. ASSUME NEW i \in DOMAIN e, NEW p \in Phones, NEW k, e[i].origin = <<p, k>>
       PROVE  k \in Int /\ k < 0 /\ -own[p] <= k
  <2>1. CASE i \in DOMAIN t
    BY <1>11, <2>1, UpsertedOld DEF Merges, Meets, Made
  <2>2. CASE i \notin DOMAIN t
    <3>1. PICK l \in Taken(m) : l < 0 /\ e[i].origin = <<m.phone, l>>
      BY <2>2, UpsertedNew
    <3>2. p = m.phone /\ k = l
      BY <1>11, <3>1
    <3>3. l \in DOMAIN m.rows
      BY TakenKeys
    <3> QED
      BY <3>1, <3>2, <3>3 DEF Merges, Meets, ViewOk, Keys
  <2> QED
    BY <2>1, <2>2
<1>12. ASSUME NEW i \in DOMAIN e, NEW j \in DOMAIN e, i \notin DOMAIN t, e[i].origin = e[j].origin PROVE i = j
  <2>1. PICK k \in Taken(m) : i = IdOf(m, k, t) /\ k < 0 /\ e[i].origin = <<m.phone, k>> /\ k \in Int
    BY <1>12, UpsertedNew, TakenKeys
  <2>2. CASE j \in DOMAIN t
    <3>1. j \in Existing(m, k, t)
      BY <1>12, <2>1, <2>2, UpsertedOld DEF Existing
    <3> QED
      BY <2>1, <3>1, OneExisting
  <2>3. CASE j \notin DOMAIN t
    <3>1. PICK l \in Taken(m) : j = IdOf(m, l, t) /\ e[j].origin = <<m.phone, l>>
      BY <2>3, UpsertedNew
    <3> QED
      BY <1>12, <2>1, <3>1
  <2> QED
    BY <2>2, <2>3
<1>13. Made(e, own)
  <2>1. \A i, j \in DOMAIN e : e[i].origin = e[j].origin /\ e[i].origin # <<Web, 0>> => i = j
    <3> SUFFICES ASSUME NEW i \in DOMAIN e, NEW j \in DOMAIN e, e[i].origin = e[j].origin, e[i].origin # <<Web, 0>>
                 PROVE  i = j
      OBVIOUS
    <3>1. CASE i \in DOMAIN t /\ j \in DOMAIN t
      BY <3>1, UpsertedOld DEF Merges, Meets, Made
    <3>2. CASE ~(i \in DOMAIN t /\ j \in DOMAIN t)
      BY <1>12, <3>2
    <3> QED
      BY <3>1, <3>2
  <2> QED
    BY <1>11, <2>1 DEF Made
<1> QED
  BY <1>9, <1>10, <1>13

\* The rows of an upload are those its phone knows by the same keys.
LEMMA NewRowsFaithful ==
  ASSUME NEW m, NEW newer, NEW t, Merges(m, t), NEW e, e = Upserted(m, newer, t),
         NEW V, NEW R, NEW made \in Nat, ViewOk(m.phone, V, R, t, nextId, made), Agree(m.phone, m.rows, V, t),
         NEW i \in DOMAIN e, NEW k \in DOMAIN V, i >= nextId, e[i].origin = <<m.phone, k>>
  PROVE  Faithful(m.phone, k, i, V, e)
<1>1. i \notin DOMAIN t /\ nextId \in Nat \ {0}
  BY DEF Merges, Meets, TreeOk
<1>2. k \in Taken(m) /\ i = IdOf(m, k, t) /\ k < 0
  BY <1>1, UpsertedNew
<1>3. k \in DOMAIN m.rows /\ k \in Int
  BY <1>2, TakenKeys
<1>4. PICK q, r : q = m.rows[k].parent /\ r = V[k].parent
  OBVIOUS
<1>5. m.rows[k].kind = V[k].kind /\ m.rows[k].amount = V[k].amount /\ Same(m.phone, q, r, t)
  BY <1>2, <1>3, <1>4 DEF Agree
<1>6. /\ e[i].kind = m.rows[k].kind
      /\ e[i].kind # "client" => q \in Taken(m) /\ e[i].parent = IdOf(m, q, t)
      /\ e[i].kind = "payment" => e[i].amount = m.rows[k].amount
  BY <1>2, <1>4, UpsertedRow
<1>7. CopyOk(V[k]) /\ r \in Int /\ r < nextId
  BY <1>1, <1>4, ParentsKnown DEF ViewOk
<1>8. ASSUME r # 0 PROVE q \in Taken(m) /\ e[i].parent = IdOf(m, q, t) /\ q \in Int /\ q # 0
  <2>1. V[k].kind # "client"
    BY <1>4, <1>7, <1>8 DEF CopyOk
  <2>2. q \in Taken(m) /\ e[i].parent = IdOf(m, q, t)
    BY <1>5, <1>6, <2>1
  <2> QED
    BY <2>2, TakenKeys
<1>9. ASSUME r > 0, r \in DOMAIN e PROVE e[i].parent = r
  <2>1. r \in DOMAIN t
    BY <1>1, <1>7, <1>9, UpsertedNew
  <2>2. CASE q > 0
    <3>1. q \in DOMAIN t /\ IdOf(m, q, t) = q
      BY <1>7, <1>8, <1>9, <2>2, TakenKeys, IdsAre
    <3> QED
      BY <1>5, <1>7, <1>8, <1>9, <2>1, <3>1 DEF Same
  <2>3. CASE q < 0
    <3>1. ~(q > 0) /\ t[r].origin = <<m.phone, q>>
      BY <1>5, <1>7, <1>8, <1>9, <2>1, <2>3 DEF Same
    <3>2. r \in Existing(m, q, t)
      BY <2>1, <3>1 DEF Existing
    <3> QED
      BY <1>7, <1>8, <1>9, <3>2, OneExisting
  <2> QED
    BY <1>7, <1>8, <1>9, <2>2, <2>3
<1>10. ASSUME r < 0 PROVE e[e[i].parent].origin = <<m.phone, r>>
  <2>1. CASE q > 0
    <3>1. q \in DOMAIN t /\ IdOf(m, q, t) = q
      BY <1>7, <1>8, <1>10, <2>1, TakenKeys, IdsAre
    <3>2. t[q].origin = <<m.phone, r>>
      BY <1>5, <1>10, <3>1 DEF Same
    <3> QED
      BY <1>7, <1>8, <1>10, <3>1, <3>2, UpsertedOld
  <2>2. CASE q < 0
    <3>1. q = r
      BY <1>5, <1>10, <2>2 DEF Same
    <3> QED
      BY <1>7, <1>8, <1>10, <2>2, <3>1, UpsertedRow
  <2> QED
    BY <1>7, <1>8, <1>10, <2>1, <2>2
<1>11. ~(k > 0)
  BY <1>2, <1>3
<1> QED
  BY <1>4, <1>5, <1>6, <1>9, <1>10, <1>11 DEF Faithful

-----------------------------------------------------------------------------
(* Deletions.                                                              *)

\* What is dropped: a row that the phone deleted, or one under a debt that it deleted.
LEMMA DroppedAre ==
  ASSUME NEW m, NEW t, NEW n, TreeOk(t, n), NEW i
  PROVE  i \in Dropped(m, t) <=> /\ i \in DOMAIN t
                                 /\ \/ i \in m.removed /\ t[i].kind # "payment"
                                    \/ t[i].kind \in {"period", "payment"} /\ t[i].parent \in m.removed
<1>1. \A x \in DOMAIN t : t[x].kind \in Kinds /\ Under(x, t)
  BY DEF TreeOk, RowOk
<1>2. \A x \in DOMAIN t : t[x].kind \in {"period", "payment"} => t[x].parent \in DOMAIN t /\ t[t[x].parent].kind = "debt"
  BY <1>1 DEF Under, Above
<1>3. \A x \in DOMAIN t : t[x].kind = "debt" => t[t[x].parent].kind = "client"
  BY <1>1 DEF Under, Above
<1>4. \A x \in DOMAIN t : t[x].kind = "client" => x \in DOMAIN t
  OBVIOUS
<1>5. ASSUME i \in Dropped(m, t)
      PROVE  /\ i \in DOMAIN t
             /\ \/ i \in m.removed /\ t[i].kind # "payment"
                \/ t[i].kind \in {"period", "payment"} /\ t[i].parent \in m.removed
  <2>1. CASE i \in Deletable(m, t) \cap Of("client", t)
    BY <2>1 DEF Deletable
  <2>2. ASSUME NEW d \in Deletable(m, t) \ Of("client", t), i \in Tree(d, t)
        PROVE  /\ i \in DOMAIN t
               /\ \/ i \in m.removed /\ t[i].kind # "payment"
                  \/ t[i].kind \in {"period", "payment"} /\ t[i].parent \in m.removed
    <3>1. d \in m.removed /\ d \in DOMAIN t /\ t[d].kind \in {"debt", "period"}
      BY <1>1 DEF Deletable, Of, Kinds
    <3>2. CASE i = d
      BY <3>1, <3>2
    <3>3. CASE i \in Children(d, t)
      <4>1. i \in DOMAIN t /\ t[i].parent = d
        BY <3>3 DEF Children
      <4>2. t[i].kind \in {"period", "payment"}
        <5>1. t[i].kind # "client"
          <6>1. t[i].kind = "client" => d = 0
            BY <4>1 DEF TreeOk, RowOk
          <6>2. d # 0
            BY <3>1 DEF TreeOk
          <6> QED
            BY <6>1, <6>2
        <5>2. t[i].kind # "debt"
          BY <1>3, <3>1, <4>1
        <5> QED
          BY <1>1, <4>1, <5>1, <5>2 DEF Kinds
      <4> QED
        BY <3>1, <4>1, <4>2
    <3>4. ASSUME NEW j \in Children(d, t), i \in Children(j, t) PROVE FALSE
      <4>1. i \in DOMAIN t /\ t[i].parent = j /\ j \in DOMAIN t /\ t[j].parent = d
        BY <3>4 DEF Children
      <4>2. t[i].kind # "client"
        <5>1. t[i].kind = "client" => j = 0
          BY <4>1 DEF TreeOk, RowOk
        <5>2. j # 0
          BY <4>1 DEF TreeOk
        <5> QED
          BY <5>1, <5>2
      <4>3. t[j].kind # "client"
        <5>1. t[j].kind = "client" => d = 0
          BY <4>1 DEF TreeOk, RowOk
        <5>2. d # 0
          BY <3>1 DEF TreeOk
        <5> QED
          BY <5>1, <5>2
      <4>4. t[i].kind # "debt"
        BY <1>3, <4>1, <4>3
      <4>5. t[j].kind = "debt"
        BY <1>1, <1>2, <4>1, <4>2, <4>4 DEF Kinds
      <4> QED
        BY <1>3, <3>1, <4>1, <4>5
    <3> QED
      BY <2>2, <3>2, <3>3, <3>4 DEF Tree
  <2> QED
    BY <1>5, <2>1, <2>2 DEF Dropped
<1>6. ASSUME i \in DOMAIN t, i \in m.removed, t[i].kind # "payment" PROVE i \in Dropped(m, t)
  <2>1. i \in Deletable(m, t)
    BY <1>6 DEF Deletable
  <2>2. i \in Tree(i, t)
    BY DEF Tree
  <2> QED
    BY <2>1, <2>2 DEF Dropped
<1>7. ASSUME i \in DOMAIN t, t[i].kind \in {"period", "payment"}, t[i].parent \in m.removed PROVE i \in Dropped(m, t)
  <2>1. PICK d : d = t[i].parent
    OBVIOUS
  <2>2. d \in DOMAIN t /\ t[d].kind = "debt"
    BY <1>2, <1>7, <2>1
  <2>3. d \in Deletable(m, t) \ Of("client", t)
    BY <1>7, <2>1, <2>2 DEF Deletable, Of
  <2>4. i \in Tree(d, t)
    BY <1>7, <2>1 DEF Tree, Children
  <2> QED
    BY <2>3, <2>4 DEF Dropped
<1> QED
  BY <1>5, <1>6, <1>7

\* A row that is left.
LeftAs(i, e, t, m) ==
  /\ e[i].kind = t[i].kind /\ e[i].parent = t[i].parent /\ e[i].origin = t[i].origin
  /\ e[i].kind # "payment" => e[i] = t[i]
  /\ e[i].kind = "payment" => e[i].amount = t[i].amount /\ (e[i].active <=> t[i].active /\ i \notin m.removed)
  /\ e[i].kind = "payment" => e[i].period = IF t[i].period \in Dropped(m, t) THEN NoPeriod ELSE t[i].period

\* What deletions leave, row by row.
LEMMA LeftRows ==
  ASSUME NEW m, NEW t, NEW e, e = AfterDeletions(m, t), \A i \in DOMAIN t : RowOk(t[i])
  PROVE  /\ DOMAIN e = DOMAIN t \ Dropped(m, t)
         /\ \A i \in DOMAIN e : RowOk(e[i]) /\ LeftAs(i, e, t, m)
<1>1. PICK D : D = Dropped(m, t)
  OBVIOUS
<1>2. e = [i \in DOMAIN t \ D |->
             IF t[i].kind # "payment" THEN t[i]
             ELSE [t[i] EXCEPT !.active = @ /\ i \notin m.removed, !.period = IF @ \in D THEN NoPeriod ELSE @]]
  BY <1>1 DEF AfterDeletions
<1>3. DOMAIN e = DOMAIN t \ D
  BY <1>2
<1>4. ASSUME NEW i \in DOMAIN e, t[i].kind = "payment" PROVE RowOk(e[i]) /\ LeftAs(i, e, t, m)
  <2>1. PICK b, s : b = (t[i].active /\ i \notin m.removed) /\ s = IF t[i].period \in D THEN NoPeriod ELSE t[i].period
    OBVIOUS
  <2>2. e[i] = [t[i] EXCEPT !.active = t[i].active /\ i \notin m.removed, !.period = IF t[i].period \in D THEN NoPeriod ELSE t[i].period]
    BY <1>2, <1>3, <1>4
  <2>3. e[i] = [t[i] EXCEPT !.active = b, !.period = s]
    BY <2>1, <2>2
  <2>4. PICK r : r = t[i]
    OBVIOUS
  <2>5. r.kind = "payment" /\ DOMAIN r = PaymentFields
    BY <1>3, <1>4, <2>4 DEF RowOk
  <2>6. DOMAIN e[i] = PaymentFields /\ e[i].kind = r.kind /\ e[i].parent = r.parent /\ e[i].origin = r.origin
        /\ e[i].amount = r.amount /\ e[i].period = s /\ e[i].active = b
    BY ONLY <2>3, <2>4, <2>5 DEF PaymentFields
  <2>7. RowOk(e[i])
    BY <2>5, <2>6 DEF RowOk, Kinds
  <2>8. e[i].active <=> t[i].active /\ i \notin m.removed
    BY ONLY <2>1, <2>6
  <2>9. e[i].period = IF t[i].period \in Dropped(m, t) THEN NoPeriod ELSE t[i].period
    BY ONLY <1>1, <2>1, <2>6
  <2> QED
    BY <2>4, <2>5, <2>6, <2>7, <2>8, <2>9 DEF LeftAs
<1>5. ASSUME NEW i \in DOMAIN e, t[i].kind # "payment" PROVE RowOk(e[i]) /\ LeftAs(i, e, t, m)
  BY <1>2, <1>3, <1>5 DEF LeftAs
<1> QED
  BY <1>1, <1>3, <1>4, <1>5

\* What deletions leave is a tree.
LEMMA LeftTree ==
  ASSUME NEW m, NEW t, NEW n, TreeOk(t, n), ~Protected(m, t), NEW e, e = AfterDeletions(m, t)
  PROVE  /\ TreeOk(e, n) /\ \A made : Made(t, made) => Made(e, made)
         /\ DOMAIN e = DOMAIN t \ Dropped(m, t)
         /\ \A i \in DOMAIN e : LeftAs(i, e, t, m)
<1>1. \A i \in DOMAIN t : RowOk(t[i]) /\ t[i].kind \in Kinds
  BY DEF TreeOk, RowOk
<1>2. DOMAIN e = DOMAIN t \ Dropped(m, t) /\ \A i \in DOMAIN e : RowOk(e[i]) /\ LeftAs(i, e, t, m)
  BY <1>1, LeftRows
<1>3. ASSUME NEW i \in DOMAIN e
      PROVE  e[i].kind = t[i].kind /\ e[i].parent = t[i].parent /\ e[i].origin = t[i].origin
  BY <1>2 DEF LeftAs
<1>4. \A i : i \in Dropped(m, t) <=> /\ i \in DOMAIN t
                                     /\ \/ i \in m.removed /\ t[i].kind # "payment"
                                        \/ t[i].kind \in {"period", "payment"} /\ t[i].parent \in m.removed
  BY DroppedAre
<1>5. ASSUME NEW i \in DOMAIN e, t[i].kind # "client"
      PROVE  t[i].parent \in DOMAIN e /\ t[t[i].parent].kind = Above(t[i].kind)
  <2>1. t[i].parent \in DOMAIN t /\ t[t[i].parent].kind = Above(t[i].kind)
    BY <1>2, <1>5 DEF TreeOk, Under
  <2>2. CASE t[i].kind = "debt"
    <3>1. PICK c : c = t[i].parent
      OBVIOUS
    <3>2. c \in DOMAIN t /\ t[c].kind = "client" /\ i \in Of("debt", t) /\ i \notin Dropped(m, t)
      BY <1>2, <2>1, <2>2, <3>1 DEF Above, Of
    <3>3. c \notin Dropped(m, t)
      BY <3>1, <3>2 DEF Protected, Of
    <3> QED
      BY <1>2, <2>1, <3>1, <3>3
  <2>3. CASE t[i].kind \in {"period", "payment"}
    <3>1. t[t[i].parent].kind = "debt"
      BY <2>1, <2>3 DEF Above
    <3>2. t[i].parent \notin m.removed
      BY <1>2, <1>4, <2>3
    <3>3. t[i].parent \notin Dropped(m, t)
      BY <1>4, <3>1, <3>2
    <3> QED
      BY <1>2, <2>1, <3>3
  <2> QED
    BY <1>1, <1>2, <1>5, <2>2, <2>3 DEF Kinds
<1>6. ASSUME NEW i \in DOMAIN e PROVE Under(i, e)
  BY <1>3, <1>5 DEF Under
<1>7. ASSUME NEW i \in DOMAIN e PROVE Paying(i, e)
  <2> SUFFICES ASSUME e[i].kind = "payment", e[i].period # NoPeriod
               PROVE  /\ e[i].period \in DOMAIN e
                      /\ e[e[i].period].kind = "period" /\ e[e[i].period].parent = e[i].parent
    BY DEF Paying
  <2>1. e[i].period = t[i].period /\ t[i].period \notin Dropped(m, t) /\ t[i].kind = "payment"
    BY <1>2 DEF LeftAs
  <2>2. /\ t[i].period \in DOMAIN t
        /\ t[t[i].period].kind = "period" /\ t[t[i].period].parent = t[i].parent
    BY <1>2, <2>1 DEF TreeOk, Paying
  <2> QED
    BY <1>2, <1>3, <2>1, <2>2
<1>8. TreeOk(e, n)
  BY <1>2, <1>3, <1>6, <1>7 DEF TreeOk
<1>9. ASSUME NEW made, Made(t, made) PROVE Made(e, made)
  BY <1>2, <1>3, <1>9 DEF Made
<1> QED
  BY <1>2, <1>3, <1>8, <1>9

\* The debts an upload states.
DebtsOf(m, t) == {IdOf(m, k, t) : k \in {j \in Taken(m) : m.rows[j].kind = "debt"}}

\* What a debt has, when the upload does not state it, is left alone.
LEMMA UnstatedDebt ==
  ASSUME NEW m, NEW newer, NEW t, Merges(m, t), NEW u, u = Upserted(m, newer, t), NEW n, TreeOk(u, n),
         ~Protected(m, u), NEW e, e = AfterDeletions(m, u),
         NEW d \in DOMAIN e, e[d].kind = "debt", d \notin DebtsOf(m, t)
  PROVE  /\ d \in DOMAIN t /\ e[d] = t[d]
         /\ \A i : i \in DOMAIN e /\ e[i].parent = d <=> i \in DOMAIN t /\ t[i].parent = d
         /\ \A i \in DOMAIN e : e[i].parent = d => e[i].kind = t[i].kind
         /\ \A i \in DOMAIN e : e[i].parent = d /\ e[i].kind = "period" => e[i] = t[i]
         /\ \A i \in DOMAIN e : e[i].parent = d /\ e[i].kind = "payment" =>
              e[i].period = t[i].period /\ e[i].amount = t[i].amount /\ (e[i].active <=> t[i].active)
<1>1. DOMAIN e = DOMAIN u \ Dropped(m, u) /\ \A i \in DOMAIN e : LeftAs(i, e, u, m)
  BY LeftTree
<1>2. \A i : i \in Dropped(m, u) <=> /\ i \in DOMAIN u
                                     /\ \/ i \in m.removed /\ u[i].kind # "payment"
                                        \/ u[i].kind \in {"period", "payment"} /\ u[i].parent \in m.removed
  BY DroppedAre
<1>3. ASSUME NEW i \in DOMAIN u, u[i].kind = "debt", i \notin DebtsOf(m, t) PROVE i \in DOMAIN t /\ u[i] = t[i]
  <2>1. \A k \in Taken(m) : i = IdOf(m, k, t) => m.rows[k].kind = "debt"
    BY <1>3, UpsertedRow
  <2>2. \A k \in Taken(m) : i # IdOf(m, k, t)
    BY <1>3, <2>1 DEF DebtsOf
  <2> QED
    BY <2>2, UpsertedRows
<1>4. u[d].kind = "debt" /\ d \in DOMAIN u /\ d \in DOMAIN t /\ u[d] = t[d] /\ e[d] = t[d]
  BY <1>1, <1>3 DEF LeftAs
<1>5. d \notin m.removed
  BY <1>1, <1>2, <1>4
<1>6. d # 0
  BY <1>4 DEF TreeOk
<1>7. ASSUME NEW i \in DOMAIN u, u[i].parent = d
      PROVE  i \in DOMAIN t /\ u[i] = t[i] /\ u[i].kind \in {"period", "payment"}
  <2>1. u[i].kind # "client" /\ u[i].kind \in Kinds /\ Under(i, u)
    BY <1>6, <1>7 DEF TreeOk, RowOk
  <2>2. u[i].kind \in {"period", "payment"}
    BY <1>4, <1>7, <2>1 DEF Under, Above, Kinds
  <2>3. ASSUME NEW k \in Taken(m), i = IdOf(m, k, t) PROVE FALSE
    <3>1. PICK q : q = m.rows[k].parent
      OBVIOUS
    <3>2. q \in Taken(m) /\ d = IdOf(m, q, t)
      BY <1>7, <2>1, <2>3, <3>1, UpsertedRow
    <3>3. m.rows[q].kind = "debt"
      BY <1>4, <3>2, UpsertedRow
    <3> QED
      BY <3>2, <3>3 DEF DebtsOf
  <2> QED
    BY <2>2, <2>3, UpsertedRows
<1>8. ASSUME NEW i \in DOMAIN t, t[i].parent = d PROVE i \in DOMAIN u /\ u[i].parent = d /\ i \notin m.removed
  <2>1. i \in DOMAIN u /\ u[i].parent = d /\ u[i].kind = t[i].kind
    BY <1>8, UpsertedOld
  <2>2. t[i].kind \in {"period", "payment"}
    BY <1>7, <2>1
  <2>3. ASSUME i \in m.removed PROVE FALSE
    <3>1. d \in DOMAIN m.rows
      BY <1>5, <1>8, <2>2, <2>3 DEF Merges, Meets, ViewOk
    <3>2. d \in Taken(m) /\ d > 0
      <4>1. d \in Nat /\ 0 < d
        BY <1>4 DEF TreeOk
      <4> QED
        BY <1>4, <3>1, <4>1, TakenKeys
    <3>3. d = IdOf(m, d, t)
      BY <3>2, IdsAre
    <3>4. m.rows[d].kind = "debt"
      BY <1>4, <3>2, <3>3, UpsertedRow
    <3> QED
      BY <3>2, <3>3, <3>4 DEF DebtsOf
  <2> QED
    BY <2>1, <2>3
<1>9. ASSUME NEW i \in DOMAIN t, t[i].parent = d PROVE i \in DOMAIN e /\ e[i].parent = d
  <2>1. i \in DOMAIN u /\ u[i].parent = d /\ i \notin m.removed
    BY <1>8, <1>9
  <2>2. i \in DOMAIN e
    BY <1>1, <1>2, <1>5, <2>1
  <2> QED
    BY <1>1, <2>1, <2>2 DEF LeftAs
<1>10. ASSUME NEW i \in DOMAIN e, e[i].parent = d PROVE i \in DOMAIN t /\ t[i].parent = d /\ u[i] = t[i] /\ u[i].parent = d
  BY <1>1, <1>7, <1>10 DEF LeftAs
<1>11. ASSUME NEW i \in DOMAIN e, e[i].parent = d, e[i].kind = "payment"
       PROVE  e[i].period = t[i].period /\ e[i].amount = t[i].amount /\ (e[i].active <=> t[i].active)
  <2>1. u[i] = t[i] /\ i \notin m.removed /\ i \in DOMAIN u /\ u[i].kind = "payment" /\ u[i].parent = d
    BY <1>1, <1>8, <1>10, <1>11 DEF LeftAs
  <2>2. ASSUME u[i].period \in Dropped(m, u) PROVE FALSE
    <3>1. PICK s : s = u[i].period
      OBVIOUS
    <3>2. s \in DOMAIN u
      BY <1>2, <2>2, <3>1
    <3>3. s # NoPeriod
      BY <3>2 DEF TreeOk, NoPeriod
    <3>4. u[s].kind = "period" /\ u[s].parent = d
      BY <2>1, <3>1, <3>3 DEF TreeOk, Paying
    <3>5. s \notin m.removed
      BY <1>7, <1>8, <3>2, <3>4
    <3> QED
      BY <1>2, <1>5, <2>2, <3>1, <3>4, <3>5
  <2>3. e[i].period = u[i].period
    BY <1>1, <1>11, <2>2 DEF LeftAs
  <2> QED
    BY <1>1, <1>11, <2>1, <2>3 DEF LeftAs
<1>12. \A i : i \in DOMAIN e /\ e[i].parent = d <=> i \in DOMAIN t /\ t[i].parent = d
  BY <1>9, <1>10
<1>13. \A i \in DOMAIN e : e[i].parent = d => e[i].kind = t[i].kind
  BY <1>1, <1>10 DEF LeftAs
<1>14. \A i \in DOMAIN e : e[i].parent = d /\ e[i].kind = "period" => e[i] = t[i]
  BY <1>1, <1>10 DEF LeftAs
<1> QED
  BY <1>4, <1>11, <1>12, <1>13, <1>14

\* An upload that is taken in.
Merged(m, t, u, n, e) ==
  /\ TreeOk(u, n) /\ TreeOk(e, n) /\ Made(e, own) /\ Kept(t, e, nextId)
  /\ DOMAIN e = DOMAIN u \ Dropped(m, u)
  /\ \A i \in DOMAIN e : e[i].kind = u[i].kind /\ e[i].parent = u[i].parent /\ e[i].origin = u[i].origin
  /\ \A i \in DOMAIN e : e[i].kind = "payment" =>
       e[i].amount = u[i].amount /\ (e[i].active <=> u[i].active /\ i \notin m.removed)
  /\ Booked(t) => Booked(e)

\* The rows after an upload that is taken.
LEMMA MergedRows ==
  ASSUME NEW m, NEW newer, NEW t, Merges(m, t), NEW u, u = Upserted(m, newer, t),
         NEW n, \A i \in DOMAIN u : i < n, ~Protected(m, u), NEW e, e = Result(m, newer, t)
  PROVE  Merged(m, t, u, n, e)
<1>1. TreeOk(u, n) /\ Made(u, own) /\ Kept(t, u, nextId)
  BY UpsertedTree
<1>2. PICK a, D : a = AfterDeletions(m, u) /\ D = DebtsOf(m, t) \ Dropped(m, u)
  OBVIOUS
<1>3. e = Reconciled(D, a)
  BY <1>2 DEF Result, DebtsOf
<1>4. TreeOk(a, n) /\ Made(a, own) /\ DOMAIN a = DOMAIN u \ Dropped(m, u) /\ \A i \in DOMAIN a : LeftAs(i, a, u, m)
  BY <1>1, <1>2, LeftTree
<1>5. Debts(D, a)
  <2> SUFFICES ASSUME NEW d \in D, d \in DOMAIN a PROVE a[d].kind = "debt"
    BY DEF Debts
  <2>1. PICK k \in Taken(m) : d = IdOf(m, k, t) /\ m.rows[k].kind = "debt"
    BY <1>2 DEF DebtsOf
  <2>2. u[d].kind = "debt"
    BY <2>1, UpsertedRow
  <2> QED
    BY <1>4, <2>2 DEF LeftAs
<1>6. Alike(a, e)
  BY <1>3, <1>4, <1>5, ReconciledRows
<1>7. TreeOk(e, n) /\ Made(e, own)
  <2>1. \A i \in DOMAIN e : i \in Nat /\ 0 < i /\ i < n /\ RowOk(e[i]) /\ Under(i, e) /\ Paying(i, e)
    BY <1>4, <1>6 DEF TreeOk, Alike, Under, Paying
  <2> QED
    BY <1>4, <1>6, <2>1 DEF TreeOk, Alike, Made
<1>8. DOMAIN e = DOMAIN u \ Dropped(m, u)
  BY <1>4, <1>6 DEF Alike
<1>9. ASSUME NEW i \in DOMAIN e
      PROVE  /\ e[i].kind = u[i].kind /\ e[i].parent = u[i].parent /\ e[i].origin = u[i].origin
             /\ e[i].kind = "payment" => e[i].amount = u[i].amount /\ (e[i].active <=> u[i].active /\ i \notin m.removed)
  <2>1. i \in DOMAIN a /\ LeftAs(i, a, u, m)
    BY <1>4, <1>8
  <2>2. /\ e[i].kind = a[i].kind /\ e[i].parent = a[i].parent /\ e[i].origin = a[i].origin
        /\ a[i].kind = "payment" => e[i] = a[i]
    BY <1>6, <2>1 DEF Alike
  <2> QED
    BY <2>1, <2>2 DEF LeftAs
<1>10. Kept(t, e, nextId)
  BY <1>1, <1>8, <1>9 DEF Kept
<1>11. ASSUME Booked(t) PROVE Booked(e)
  <2>1. TreeOk(t, nextId)
    BY DEF Merges, Meets
  <2>2. ASSUME NEW d \in DOMAIN a, a[d].kind = "debt", d \notin D
        PROVE  /\ DebtBooked(d, a)
               /\ \A i \in DOMAIN a : a[i].parent = d => PeriodBooked(i, a)
    <3>1. d \notin DebtsOf(m, t)
      BY <1>2, <1>4, <2>2
    <3>2. /\ d \in DOMAIN t /\ a[d] = t[d]
          /\ \A i : i \in DOMAIN a /\ a[i].parent = d <=> i \in DOMAIN t /\ t[i].parent = d
          /\ \A i \in DOMAIN a : a[i].parent = d => a[i].kind = t[i].kind
          /\ \A i \in DOMAIN a : a[i].parent = d /\ a[i].kind = "period" => a[i] = t[i]
          /\ \A i \in DOMAIN a : a[i].parent = d /\ a[i].kind = "payment" =>
               a[i].period = t[i].period /\ a[i].amount = t[i].amount /\ (a[i].active <=> t[i].active)
      BY <1>1, <1>2, <2>2, <3>1, UnstatedDebt
    <3>3. t[d].kind = "debt"
      BY <2>2, <3>2
    <3>4. /\ DebtBooked(d, t) => DebtBooked(d, a)
          /\ \A i \in DOMAIN a : a[i].parent = d /\ PeriodBooked(i, t) => PeriodBooked(i, a)
      BY <1>4, <2>1, <2>2, <3>2, <3>3, SameBooks
    <3> QED
      BY <1>11, <3>2, <3>4 DEF Booked
  <2>3. ASSUME NEW i \in DOMAIN a, a[i].kind = "period", a[i].parent \notin D PROVE PeriodBooked(i, a)
    <3>1. a[i].parent \in DOMAIN a /\ a[a[i].parent].kind = "debt"
      BY <1>4, <2>3 DEF TreeOk, Under, Above
    <3> QED
      BY <2>2, <2>3, <3>1
  <2>4. \A i \in DOMAIN a : a[i].kind = "debt" /\ i \notin D => DebtBooked(i, a)
    BY <2>2
  <2>5. \A i \in DOMAIN a : a[i].kind = "period" /\ a[i].parent \notin D => PeriodBooked(i, a)
    BY <2>3
  <2> QED
    BY <1>3, <1>4, <1>5, <2>4, <2>5, ReconciledBooks
<1> QED
  BY <1>1, <1>7, <1>8, <1>9, <1>10, <1>11 DEF Merged

\* The views of the phone that uploads, and of others, see the rows it made.
LEMMA MergedFaithful ==
  ASSUME NEW m, NEW newer, NEW t, Merges(m, t), NEW u, u = Upserted(m, newer, t),
         NEW n, \A i \in DOMAIN u : i < n, ~Protected(m, u), NEW e, e = Result(m, newer, t),
         NEW p, NEW V, NEW R, NEW made \in Nat, ViewOk(p, V, R, t, nextId, made),
         p = m.phone => Agree(p, m.rows, V, t),
         NEW i \in DOMAIN e, NEW k \in DOMAIN V, i >= nextId, e[i].origin = <<p, k>>
  PROVE  Faithful(p, k, i, V, e)
<1>1. /\ TreeOk(e, n) /\ DOMAIN e = DOMAIN u \ Dropped(m, u)
      /\ \A j \in DOMAIN e : e[j].kind = u[j].kind /\ e[j].parent = u[j].parent /\ e[j].origin = u[j].origin
      /\ \A j \in DOMAIN e : e[j].kind = "payment" => e[j].amount = u[j].amount
  BY MergedRows DEF Merged
<1>2. i \in DOMAIN u /\ u[i].origin = <<p, k>>
  BY <1>1
<1>3. p = m.phone
  <2>1. i \notin DOMAIN t
    BY DEF Merges, Meets, TreeOk
  <2> QED
    BY <1>2, <2>1, UpsertedNew
<1>4. Faithful(p, k, i, V, u)
  BY <1>2, <1>3, NewRowsFaithful
<1>5. V[k].parent < 0 => e[i].kind # "client"
  <2>1. CopyOk(V[k])
    BY DEF ViewOk
  <2>2. V[k].parent # 0 => u[i].kind # "client"
    BY <1>4, <2>1 DEF Faithful, CopyOk
  <2>3. V[k].parent < 0 => V[k].parent # 0
    BY <2>1 DEF CopyOk
  <2> QED
    BY <1>1, <2>2, <2>3
<1>6. e[i].kind # "client" => e[i].parent \in DOMAIN e
  BY <1>1 DEF TreeOk, Under
<1> QED
  BY <1>1, <1>4, <1>5, <1>6 DEF Faithful

\* The rows that penalties leave.
LEMMA AssessedRows ==
  ASSUME ServerInv, NEW t, t = Assessed
  PROVE  Alike(rows, t) /\ TreeOk(t, nextId) /\ Kept(rows, t, nextId) /\ Made(t, own) /\ (Booked(rows) => Booked(t))
<1>1. PICK D : D = {d \in Of("debt", rows) : overdue /\ rows[d].outstanding > 0}
  OBVIOUS
<1>2. t = Reconciled(D, rows) /\ Debts(D, rows)
  BY <1>1 DEF Assessed, Debts, Of
<1>3. nextId \in Nat \ {0} /\ TreeOk(rows, nextId) /\ Made(rows, own)
  BY DEF ServerInv
<1>4. Alike(rows, t)
  BY <1>2, <1>3, ReconciledRows
<1>5. TreeOk(t, nextId) /\ Kept(rows, t, nextId) /\ Made(t, own)
  BY <1>3, <1>4, AlikeTree
<1>6. Booked(rows) => Booked(t)
  <2> SUFFICES ASSUME Booked(rows) PROVE Booked(t)
    OBVIOUS
  <2>1. \A i \in DOMAIN rows : rows[i].kind = "debt" /\ i \notin D => DebtBooked(i, rows)
    BY DEF Booked
  <2>2. \A i \in DOMAIN rows : rows[i].kind = "period" /\ rows[i].parent \notin D => PeriodBooked(i, rows)
    BY DEF Booked
  <2>3. PICK r : r = rows
    OBVIOUS
  <2> QED
    BY <1>2, <1>3, <2>1, <2>2, ReconciledBooks
<1> QED
  BY <1>4, <1>5, <1>6

-----------------------------------------------------------------------------
(* The next id.                                                            *)

\* A set of natural numbers has a least member.
LEMMA LeastNat ==
  ASSUME NEW B, B \subseteq Nat, B # {}
  PROVE  \E b \in B : \A c \in B : b <= c
<1>1. OpToRel(<, Nat) = {pair \in Nat \X Nat : pair[1] < pair[2]}
  BY ZenonT(30) DEF OpToRel
<1>2. IsWellFoundedOn({pair \in Nat \X Nat : pair[1] < pair[2]}, Nat)
  BY <1>1, NatLessThanWellFounded, Zenon
<1>3. PICK b \in B : \A c \in B : ~(<<c, b>> \in {pair \in Nat \X Nat : pair[1] < pair[2]})
  BY <1>2, WFMin
<1>4. ASSUME NEW c \in B PROVE b <= c
  <2>1. c \in Nat /\ b \in Nat
    OBVIOUS
  <2>2. ~(<<c, b>> \in {pair \in Nat \X Nat : pair[1] < pair[2]})
    BY <1>3
  <2>3. ~(c < b)
    BY <2>1, <2>2
  <2> QED
    BY <2>1, <2>3
<1> QED
  BY <1>4

\* A set of natural numbers with a bound has a greatest member.
LEMMA Greatest ==
  ASSUME NEW S, S \subseteq Nat, S # {}, NEW n \in Nat, \A x \in S : x <= n
  PROVE  Max(S) \in S /\ \A x \in S : x <= Max(S)
<1>1. PICK B : B = {b \in Nat : \A x \in S : x <= b}
  OBVIOUS
<1>2. B \subseteq Nat /\ n \in B
  BY <1>1
<1>3. PICK b \in B : \A c \in B : b <= c
  BY <1>2, LeastNat
<1>4. b \in Nat /\ \A x \in S : x \in Nat /\ x <= b
  BY <1>1, <1>3
<1>5. b \in S
  <2> SUFFICES ASSUME b \notin S PROVE FALSE
    OBVIOUS
  <2>1. \A x \in S : x <= b - 1
    BY <1>4
  <2>2. b - 1 \in Nat
    <3>1. PICK x \in S : TRUE
      OBVIOUS
    <3> QED
      BY <1>4, <2>1, <3>1
  <2>3. b - 1 \in B
    BY <1>1, <2>1, <2>2
  <2> QED
    BY <1>3, <1>4, <2>3
<1>6. \E m \in S : \A x \in S : m >= x
  BY <1>4, <1>5
<1>7. Max(S) \in S /\ \A x \in S : Max(S) >= x
  BY <1>6 DEF Max
<1> QED
  BY <1>4, <1>7

\* The next id is above every row.
LEMMA NextIdAbove ==
  ASSUME NEW m, NEW newer, NEW t, Merges(m, t), NEW u, u = Upserted(m, newer, t),
         NEW n, n = Max({nextId} \cup {i + 1 : i \in DOMAIN u})
  PROVE  n \in Nat \ {0} /\ nextId <= n /\ \A i \in DOMAIN u : i < n
<1>1. nextId \in Nat \ {0} /\ \A i \in DOMAIN t : i \in Nat /\ i < nextId
  BY DEF Merges, Meets, TreeOk
<1>2. IsFiniteSet(Taken(m))
  BY TakenKeys
<1>3. PICK all : all = Cardinality(Taken(m))
  OBVIOUS
<1>4. all \in Nat
  BY <1>2, <1>3, FS_CardinalityType
<1>5. ASSUME NEW i \in DOMAIN u PROVE i \in Nat /\ i <= nextId + all
  <2>1. CASE i \in DOMAIN t
    BY <1>1, <1>4, <2>1
  <2>2. CASE i \notin DOMAIN t
    <3>1. PICK k \in Taken(m) : i = IdOf(m, k, t)
      BY <2>2, UpsertedNew
    <3>2. Existing(m, k, t) = {}
      BY <2>2, <3>1, IdsAre
    <3>3. PICK A : A = NewAbove(m, k, t)
      OBVIOUS
    <3>4. i = nextId + Cardinality(A) /\ A \subseteq Taken(m)
      BY <3>1, <3>2, <3>3, NewId DEF NewAbove
    <3>5. Cardinality(A) \in Nat /\ Cardinality(A) <= all
      BY <1>2, <1>3, <3>4, FS_Subset, FS_CardinalityType
    <3> QED
      BY <1>1, <1>4, <3>4, <3>5
  <2> QED
    BY <2>1, <2>2
<1>6. PICK S : S = {nextId} \cup {i + 1 : i \in DOMAIN u}
  OBVIOUS
<1>7. S \subseteq Nat /\ S # {} /\ \A x \in S : x <= nextId + all + 1
  BY <1>1, <1>4, <1>5, <1>6
<1>8. nextId + all + 1 \in Nat
  BY <1>1, <1>4
<1>9. Max(S) \in S /\ \A x \in S : x <= Max(S)
  BY <1>7, <1>8, Greatest
<1>10. n \in S /\ \A x \in S : x <= n
  BY <1>6, <1>9
<1>11. nextId \in S /\ \A i \in DOMAIN u : i + 1 \in S
  BY <1>6
<1>12. n \in Nat /\ nextId <= n
  BY <1>7, <1>10, <1>11
<1>13. ASSUME NEW i \in DOMAIN u PROVE i < n
  <2>1. i + 1 <= n /\ i \in Nat
    BY <1>5, <1>10, <1>11
  <2> QED
    BY <1>12, <2>1
<1> QED
  BY <1>1, <1>12, <1>13

-----------------------------------------------------------------------------
(* Steps of the server.                                                    *)

\* A phone sees the rows that it made.
Seen(p, V, n, t) ==
  \A i \in DOMAIN t : \A k \in DOMAIN V : i >= n /\ t[i].origin = <<p, k>> => Faithful(p, k, i, V, t)

\* Copies agree both ways.
LEMMA SymmetricAgree ==
  ASSUME NEW p, NEW V, NEW W, NEW t, Agree(p, V, W, t)
  PROVE  Agree(p, W, V, t)
  BY DEF Agree, Same

\* A step of the server that keeps its rows keeps the invariant.
LEMMA ServerMoves ==
  ASSUME MobileInv, UNCHANGED phones, NEW e, e = rows', NEW n \in Nat, n = nextId', nextId <= n,
         TreeOk(e, n), Made(e, own), Kept(rows, e, nextId),
         \A i \in dead' : i \in Nat /\ 0 < i /\ i < n /\ i \notin DOMAIN e,
         batches \subseteq batches', \A b \in batches' : \E m \in sent : b = Batch(m),
         \A m \in sent : Batch(m) \in batches' \ batches =>
           \A i \in m.removed : i \in Nat /\ i < n /\ (i \in DOMAIN e => e[i].kind = "payment"),
         \A p \in Phones : Seen(p, local[p], nextId, e),
         \A m \in Open : Seen(m.phone, m.rows, nextId, e)
  PROVE  MobileInv'
<1>1. nextId \in Nat \ {0} /\ TreeOk(rows, nextId)
  BY DEF MobileInv, ServerInv
<1>2. sent' = sent /\ local' = local /\ own' = own /\ removed' = removed /\ waiting' = waiting
  BY DEF phones
<1>3. ServerInv'
  <2>1. n \in Nat \ {0}
    BY <1>1
  <2>2. Made(e, own')
    BY <1>2
  <2> QED
    BY <2>1, <2>2 DEF ServerInv
<1>4. SentInv'
  <2>1. \A m : Numbered(m)' = Numbered(m)
    BY <1>2 DEF Numbered
  <2>2. ASSUME NEW m \in sent, Batch(m) \in batches', NEW i \in m.removed
        PROVE  i \in Nat /\ i < n /\ (i \in DOMAIN e => e[i].kind = "payment")
    <3>1. CASE Batch(m) \in batches
      <4>1. i \in Nat /\ i < nextId /\ (i \in DOMAIN rows => rows[i].kind = "payment")
        BY <3>1 DEF MobileInv, SentInv
      <4>2. i \in DOMAIN e => i \in DOMAIN rows /\ e[i].kind = rows[i].kind
        BY <4>1 DEF Kept
      <4> QED
        BY <1>1, <4>1, <4>2
    <3>2. CASE Batch(m) \notin batches
      BY <2>2, <3>2
    <3> QED
      BY <3>1, <3>2
  <2> QED
    BY <1>2, <2>1, <2>2 DEF MobileInv, SentInv, Batch
<1>5. PhonesInv'
  BY <1>2 DEF MobileInv, PhonesInv
<1>6. Open' \subseteq Open
  BY <1>2 DEF Open, Batch
<1>7. \A p \in Phones : own[p] \in Nat
  BY DEF MobileInv, PhonesInv
<1>8. \A m \in Open : m \in sent /\ m.phone \in Phones
  BY DEF Open, MobileInv, SentInv
<1>9. ASSUME NEW p \in Phones PROVE ViewOk(p, local[p], removed[p], e, n, own[p])
  <2>1. PICK V, R, made : V = local[p] /\ R = removed[p] /\ made = own[p]
    OBVIOUS
  <2>2. ViewOk(p, V, R, rows, nextId, made) /\ made \in Nat /\ made <= made
    BY <1>7, <2>1 DEF MobileInv, ViewsInv
  <2>3. PICK t : t = rows
    OBVIOUS
  <2>4. \A i \in DOMAIN e, k \in DOMAIN V : i >= nextId /\ e[i].origin = <<p, k>> => Faithful(p, k, i, V, e)
    BY <2>1 DEF Seen
  <2>5. ViewOk(p, V, R, e, n, made)
    BY <1>1, <2>2, <2>4, ViewKept
  <2> QED
    BY <2>1, <2>5
<1>10. ASSUME NEW m \in Open PROVE ViewOk(m.phone, m.rows, m.removed, e, n, own[m.phone])
  <2>1. PICK p, V, R, made : p = m.phone /\ V = m.rows /\ R = m.removed /\ made = own[m.phone]
    OBVIOUS
  <2>2. ViewOk(p, V, R, rows, nextId, made) /\ made \in Nat /\ made <= made
    BY <1>7, <1>8, <2>1 DEF MobileInv, ViewsInv
  <2>4. \A i \in DOMAIN e, k \in DOMAIN V : i >= nextId /\ e[i].origin = <<p, k>> => Faithful(p, k, i, V, e)
    BY <2>1 DEF Seen
  <2>5. ViewOk(p, V, R, e, n, made)
    BY <1>1, <2>2, <2>4, ViewKept
  <2> QED
    BY <2>1, <2>5
<1>11. ASSUME NEW p \in Phones, NEW k \in DOMAIN local[p]
       PROVE  local[p][k].parent \in Int /\ local[p][k].parent < nextId
  <2>1. PICK V, R, made : V = local[p] /\ R = removed[p] /\ made = own[p]
    OBVIOUS
  <2>2. ViewOk(p, V, R, rows, nextId, made) /\ made \in Nat
    BY <1>7, <2>1 DEF MobileInv, ViewsInv
  <2> QED
    BY <1>1, <2>1, <2>2, ParentsKnown
<1>12. ASSUME NEW m \in Open, NEW k \in DOMAIN m.rows
       PROVE  m.rows[k].parent \in Int /\ m.rows[k].parent < nextId
  <2>1. PICK p, V, R, made : p = m.phone /\ V = m.rows /\ R = m.removed /\ made = own[m.phone]
    OBVIOUS
  <2>2. ViewOk(p, V, R, rows, nextId, made) /\ made \in Nat
    BY <1>7, <1>8, <2>1 DEF MobileInv, ViewsInv
  <2> QED
    BY <1>1, <2>1, <2>2, ParentsKnown
<1>13. ASSUME NEW m \in Open PROVE Agree(m.phone, local[m.phone], m.rows, e)
  <2>1. PICK p, V, W : p = m.phone /\ V = local[p] /\ W = m.rows
    OBVIOUS
  <2>2. Agree(p, V, W, rows) /\ p \in Phones
    BY <1>8, <2>1 DEF MobileInv, ViewsInv
  <2>3. Agree(p, V, W, e)
    BY <1>1, <1>11, <1>12, <2>1, <2>2, AgreeKept
  <2> QED
    BY <2>1, <2>3
<1>14. ASSUME NEW m \in Open, NEW x \in Open, m.phone = x.phone PROVE Agree(m.phone, m.rows, x.rows, e)
  <2>1. PICK p, V, W : p = m.phone /\ V = m.rows /\ W = x.rows
    OBVIOUS
  <2>2. Agree(p, V, W, rows)
    BY <1>14, <2>1 DEF MobileInv, ViewsInv
  <2>3. Agree(p, V, W, e)
    BY <1>1, <1>12, <2>1, <2>2, AgreeKept
  <2> QED
    BY <2>1, <2>3
<1>15. ViewsInv'
  BY <1>2, <1>6, <1>9, <1>10, <1>13, <1>14 DEF ViewsInv
<1> QED
  BY <1>3, <1>4, <1>5, <1>15 DEF MobileInv

Refused(t) == rows' = t /\ UNCHANGED <<dead, nextId, batches>>
Accepted(m, newer, t, u) ==
  /\ Merges(m, t) /\ u = Upserted(m, newer, t) /\ ~Protected(m, u)
  /\ rows' = Result(m, newer, t)
  /\ dead' = dead \cup Dropped(m, u)
  /\ nextId' = Max({nextId} \cup {i + 1 : i \in DOMAIN u})
  /\ batches' = batches \cup {Batch(m)}

\* What was seen of the rows is seen of the assessed rows.
LEMMA ViewOfAssessed ==
  ASSUME ServerInv, NEW t, t = Assessed, NEW p, NEW V, NEW R, NEW made \in Nat,
         ViewOk(p, V, R, rows, nextId, made)
  PROVE  ViewOk(p, V, R, t, nextId, made)
<1>1. PICK n, r : n = nextId /\ r = rows
  OBVIOUS
<1>2. n \in Nat \ {0} /\ TreeOk(r, n)
  BY <1>1 DEF ServerInv
<1>3. TreeOk(t, n) /\ Kept(r, t, n)
  BY <1>1, AssessedRows
<1>4. \A i \in DOMAIN t, k \in DOMAIN V : i >= n /\ t[i].origin = <<p, k>> => Faithful(p, k, i, V, t)
  BY <1>2, <1>3 DEF TreeOk
<1>5. ViewOk(p, V, R, r, n, made) /\ n <= n /\ made <= made /\ n \in Nat
  BY <1>1, <1>2
<1>6. ViewOk(p, V, R, t, n, made)
  BY <1>2, <1>3, <1>4, <1>5, ViewKept
<1> QED
  BY <1>1, <1>6

\* Copies that agree still do after penalties.
LEMMA AgreeAssessed ==
  ASSUME ServerInv, NEW t, t = Assessed, NEW p, NEW V, NEW R, NEW W, NEW Q, NEW made \in Nat,
         ViewOk(p, V, R, rows, nextId, made), ViewOk(p, W, Q, rows, nextId, made), Agree(p, V, W, rows)
  PROVE  Agree(p, V, W, t)
<1>1. PICK n, r : n = nextId /\ r = rows
  OBVIOUS
<1>2. n \in Nat \ {0} /\ ViewOk(p, V, R, r, n, made) /\ ViewOk(p, W, Q, r, n, made) /\ Agree(p, V, W, r)
  BY <1>1 DEF ServerInv
<1>3. Kept(r, t, n)
  BY <1>1, AssessedRows
<1>4. \A k \in DOMAIN V : V[k].parent \in Int /\ V[k].parent < n
  BY <1>2, ParentsKnown
<1>5. \A k \in DOMAIN W : W[k].parent \in Int /\ W[k].parent < n
  BY <1>2, ParentsKnown
<1> QED
  BY <1>2, <1>3, <1>4, <1>5, AgreeKept

\* An upload is refused or taken.
LEMMA ProcessCases ==
  ASSUME MobileInv, NEW m \in sent, Process(m), NEW t, t = Assessed
  PROVE  /\ m \in Open /\ UNCHANGED <<overdue, phones>>
         /\ \/ Refused(t)
            \/ \E newer : \E u : Accepted(m, newer, t, u)
<1>1. m \in Open /\ UNCHANGED <<overdue, phones>>
  BY DEF Process, Open
<1>2. PICK newer : LET upserted == Upserted(m, newer, t)
                   IN IF Sound(m, t) /\ ~Protected(m, upserted)
                      THEN /\ rows' = Result(m, newer, t)
                           /\ dead' = dead \cup Dropped(m, upserted)
                           /\ nextId' = Max({nextId} \cup {i + 1 : i \in DOMAIN upserted})
                           /\ nextId' <= MaxId + 1
                           /\ batches' = batches \cup {Batch(m)}
                      ELSE rows' = t /\ UNCHANGED <<dead, nextId, batches>>
  BY DEF Process
<1>3. PICK u : u = Upserted(m, newer, t)
  OBVIOUS
<1>4. CASE Sound(m, t) /\ ~Protected(m, u)
  <2>1. m.phone \in Phones /\ own[m.phone] \in Nat
    BY DEF MobileInv, SentInv, PhonesInv
  <2>2. nextId \in Nat \ {0} /\ TreeOk(t, nextId) /\ Made(t, own) /\ DOMAIN t = DOMAIN rows
    <3>1. nextId \in Nat \ {0}
      BY DEF MobileInv, ServerInv
    <3>2. TreeOk(t, nextId) /\ Made(t, own) /\ Alike(rows, t)
      BY AssessedRows DEF MobileInv
    <3> QED
      BY <3>1, <3>2 DEF Alike
  <2>3. ViewOk(m.phone, m.rows, m.removed, t, nextId, own[m.phone])
    <3>1. ViewOk(m.phone, m.rows, m.removed, rows, nextId, own[m.phone])
      BY <1>1 DEF MobileInv, ViewsInv
    <3>2. PICK p, V, R, made : p = m.phone /\ V = m.rows /\ R = m.removed /\ made = own[m.phone]
      OBVIOUS
    <3>3. ViewOk(p, V, R, t, nextId, made)
      BY <2>1, <3>1, <3>2, ViewOfAssessed DEF MobileInv
    <3> QED
      BY <3>2, <3>3
  <2>4. \A i \in dead : i \in Nat /\ 0 < i /\ i < nextId /\ i \notin DOMAIN t
    BY <2>2 DEF MobileInv, ServerInv
  <2>5. Merges(m, t)
    BY <1>4, <2>1, <2>2, <2>3, <2>4 DEF Merges, Meets
  <2>6. Accepted(m, newer, t, u)
    BY <1>2, <1>3, <1>4, <2>5 DEF Accepted
  <2> QED
    BY <1>1, <2>6
<1>5. CASE ~(Sound(m, t) /\ ~Protected(m, u))
  <2>1. Refused(t)
    BY <1>2, <1>3, <1>5 DEF Refused
  <2> QED
    BY <1>1, <2>1
<1> QED
  BY <1>4, <1>5

\* An upload that is refused leaves no more than penalties.
LEMMA RefusedStep ==
  ASSUME MobileInv, NEW t, t = Assessed, Refused(t), UNCHANGED phones
  PROVE  MobileInv'
<1>1. PICK n : n = nextId
  OBVIOUS
<1>2. n \in Nat /\ n = nextId' /\ nextId <= n
  BY <1>1 DEF MobileInv, ServerInv, Refused
<1>3. TreeOk(t, n) /\ Made(t, own) /\ Kept(rows, t, nextId) /\ DOMAIN t = DOMAIN rows
  <2>1. TreeOk(t, nextId) /\ Made(t, own) /\ Kept(rows, t, nextId) /\ Alike(rows, t)
    BY AssessedRows DEF MobileInv
  <2> QED
    BY <1>1, <2>1 DEF Alike
<1>4. \A i \in dead' : i \in Nat /\ 0 < i /\ i < n /\ i \notin DOMAIN t
  BY <1>1, <1>3 DEF MobileInv, ServerInv, Refused
<1>5. batches' = batches /\ \A b \in batches' : \E m \in sent : b = Batch(m)
  BY DEF MobileInv, SentInv, Refused
<1>6. \A p : \A V : Seen(p, V, nextId, t)
  BY <1>2, <1>3, <1>1 DEF Seen, TreeOk
<1>7. t = rows'
  BY DEF Refused
<1> QED
  BY <1>2, <1>3, <1>4, <1>5, <1>6, <1>7, ServerMoves

\* An upload that is taken keeps the invariant.
LEMMA AcceptedStep ==
  ASSUME MobileInv, NEW m \in Open, NEW t, t = Assessed, NEW newer, NEW u, Accepted(m, newer, t, u),
         UNCHANGED phones
  PROVE  MobileInv'
<1>1. PICK e, n : e = rows' /\ n = nextId'
  OBVIOUS
<1>2. /\ Merges(m, t) /\ u = Upserted(m, newer, t) /\ ~Protected(m, u) /\ e = Result(m, newer, t)
      /\ n = Max({nextId} \cup {i + 1 : i \in DOMAIN u})
      /\ dead' = dead \cup Dropped(m, u) /\ batches' = batches \cup {Batch(m)}
  BY <1>1 DEF Accepted
<1>3. n \in Nat /\ nextId <= n /\ nextId \in Nat \ {0} /\ \A i \in DOMAIN u : i < n
  BY <1>2, NextIdAbove DEF Merges, Meets
<1>4. /\ TreeOk(u, n) /\ TreeOk(e, n) /\ Made(e, own) /\ Kept(t, e, nextId)
      /\ DOMAIN e = DOMAIN u \ Dropped(m, u)
      /\ \A i \in DOMAIN e : e[i].kind = u[i].kind /\ e[i].parent = u[i].parent /\ e[i].origin = u[i].origin
  <2>1. /\ Merges(m, t) /\ u = Upserted(m, newer, t) /\ (\A i \in DOMAIN u : i < n) /\ ~Protected(m, u)
        /\ e = Result(m, newer, t)
    BY <1>2, <1>3
  <2>2. Merged(m, t, u, n, e)
    BY ONLY <2>1, MergedRows
  <2> QED
    BY <2>2 DEF Merged
<1>5. Kept(rows, t, nextId) /\ TreeOk(t, nextId)
  BY AssessedRows DEF MobileInv
<1>6. Kept(rows, e, nextId)
  BY <1>4, <1>5 DEF Kept
<1>7. \A i \in dead' : i \in Nat /\ 0 < i /\ i < n /\ i \notin DOMAIN e
  <2> SUFFICES ASSUME NEW i \in dead' PROVE i \in Nat /\ 0 < i /\ i < n /\ i \notin DOMAIN e
    OBVIOUS
  <2>1. CASE i \in dead
    <3>1. i \in Nat /\ 0 < i /\ i < nextId /\ i \notin DOMAIN t
      BY <1>2, <2>1 DEF Merges, Meets
    <3>2. i \notin DOMAIN e
      BY <1>4, <3>1 DEF Kept
    <3> QED
      BY <1>3, <3>1, <3>2
  <2>2. CASE i \in Dropped(m, u)
    <3>1. i \in DOMAIN u
      BY <1>4, <2>2, DroppedAre
    <3> QED
      BY <1>4, <2>2, <3>1 DEF TreeOk
  <2> QED
    BY <1>2, <2>1, <2>2
<1>8. batches \subseteq batches' /\ \A b \in batches' : \E x \in sent : b = Batch(x)
  BY <1>2 DEF MobileInv, SentInv, Open
<1>9. \A x \in sent : Batch(x) \in batches' \ batches =>
        \A i \in x.removed : i \in Nat /\ i < n /\ (i \in DOMAIN e => e[i].kind = "payment")
  <2> SUFFICES ASSUME NEW i \in m.removed PROVE i \in Nat /\ i < n /\ (i \in DOMAIN e => e[i].kind = "payment")
    BY <1>2 DEF MobileInv, SentInv, Open
  <2>1. i \in Nat /\ i < nextId
    BY <1>2 DEF Merges, Meets, ViewOk, Keys
  <2>2. i \in DOMAIN e => e[i].kind = "payment"
    BY <1>4, DroppedAre
  <2> QED
    BY <1>3, <2>1, <2>2
<1>10. \A p \in Phones : own[p] \in Nat
  BY DEF MobileInv, PhonesInv
<1>11. \A x \in Open : x.phone \in Phones
  BY DEF MobileInv, SentInv, Open
<1>12. ASSUME NEW p \in Phones, NEW V, NEW R, ViewOk(p, V, R, rows, nextId, own[p]),
              p = m.phone => Agree(p, m.rows, V, rows)
       PROVE  Seen(p, V, nextId, e)
  <2>1. PICK made : made = own[p]
    OBVIOUS
  <2>2. made \in Nat /\ ViewOk(p, V, R, rows, nextId, made)
    BY <1>10, <1>12, <2>1
  <2>3. ViewOk(p, V, R, t, nextId, made)
    BY <2>2, ViewOfAssessed DEF MobileInv
  <2>4. p = m.phone => Agree(p, m.rows, V, t)
    <3> SUFFICES ASSUME p = m.phone PROVE Agree(p, m.rows, V, t)
      OBVIOUS
    <3>1. PICK W, Q : W = m.rows /\ Q = m.removed
      OBVIOUS
    <3>2. ViewOk(p, W, Q, rows, nextId, made)
      BY <2>1, <3>1 DEF MobileInv, ViewsInv
    <3>3. Agree(p, W, V, t)
      BY <1>12, <2>2, <3>1, <3>2, AgreeAssessed DEF MobileInv
    <3> QED
      BY <3>1, <3>3
  <2>5. \A i \in DOMAIN e : \A k \in DOMAIN V : i >= nextId /\ e[i].origin = <<p, k>> => Faithful(p, k, i, V, e)
    BY <1>2, <1>3, <2>2, <2>3, <2>4, MergedFaithful
  <2> QED
    BY <2>5 DEF Seen
<1>13. ASSUME NEW p \in Phones PROVE Seen(p, local[p], nextId, e)
  <2>1. ViewOk(p, local[p], removed[p], rows, nextId, own[p])
    BY DEF MobileInv, ViewsInv
  <2>2. p = m.phone => Agree(p, m.rows, local[p], rows)
    BY SymmetricAgree DEF MobileInv, ViewsInv
  <2> QED
    BY <1>12, <2>1, <2>2
<1>14. ASSUME NEW x \in Open PROVE Seen(x.phone, x.rows, nextId, e)
  <2>1. ViewOk(x.phone, x.rows, x.removed, rows, nextId, own[x.phone])
    BY DEF MobileInv, ViewsInv
  <2>2. x.phone = m.phone => Agree(x.phone, m.rows, x.rows, rows)
    BY DEF MobileInv, ViewsInv
  <2> QED
    BY <1>11, <1>12, <2>1, <2>2
<1> QED
  BY <1>1, <1>3, <1>4, <1>6, <1>7, <1>8, <1>9, <1>13, <1>14, ServerMoves

\* The same after a step.
LEMMA BooksWillBe == BooksFollow' <=> Booked(rows')
  BY DEF BooksFollow, Booked, PeriodBooked, DebtBooked, Of

\* The rows after the step that takes an upload.
LEMMA AcceptedMerged ==
  ASSUME MobileInv, NEW m, NEW t, NEW newer, NEW u, Accepted(m, newer, t, u), NEW e, e = rows'
  PROVE  \E n : Merged(m, t, u, n, e)
<1>1. PICK n : n = Max({nextId} \cup {i + 1 : i \in DOMAIN u})
  OBVIOUS
<1>2. Merges(m, t) /\ u = Upserted(m, newer, t) /\ ~Protected(m, u) /\ e = Result(m, newer, t)
  BY DEF Accepted
<1>3. \A i \in DOMAIN u : i < n
  BY <1>1, <1>2, NextIdAbove
<1>4. Merged(m, t, u, n, e)
  BY ONLY <1>2, <1>3, MergedRows
<1> QED
  BY <1>4

\* sync_snapshot keeps the invariant and the books.
LEMMA ProcessStep ==
  ASSUME MobileInv, NEW m \in sent, Process(m)
  PROVE  MobileInv' /\ (BooksFollow => BooksFollow')
<1>1. PICK t : t = Assessed
  OBVIOUS
<1>2. m \in Open /\ UNCHANGED phones
  BY <1>1, ProcessCases
<1>3. Booked(rows) => Booked(t)
  BY <1>1, AssessedRows DEF MobileInv
<1>4. CASE Refused(t)
  <2>1. MobileInv'
    BY <1>1, <1>2, <1>4, RefusedStep
  <2>2. rows' = t
    BY <1>4 DEF Refused
  <2> QED
    BY <1>3, <2>1, <2>2, BooksAre, BooksWillBe
<1>5. ASSUME NEW newer, NEW u, Accepted(m, newer, t, u) PROVE MobileInv' /\ (BooksFollow => BooksFollow')
  <2>1. MobileInv'
    BY <1>1, <1>2, <1>5, AcceptedStep
  <2>2. PICK e : e = rows'
    OBVIOUS
  <2>3. PICK n : Merged(m, t, u, n, e)
    BY <1>5, <2>2, AcceptedMerged
  <2>4. Booked(t) => Booked(e)
    BY <2>3 DEF Merged
  <2> QED
    BY <1>3, <2>1, <2>2, <2>4, BooksAre, BooksWillBe
<1> QED
  BY <1>1, <1>4, <1>5, ProcessCases

-----------------------------------------------------------------------------
(* What an upload may not do.                                              *)

\* sync_snapshot keeps the facts.
LEMMA FactsStep ==
  ASSUME MobileInv, NEW m \in sent, Process(m), Processed(m), NEW i \in Of("payment", rows)
  PROVE  IF i \in DOMAIN rows'
         THEN /\ rows'[i].active => rows[i].active
              /\ rows[i].active /\ i \notin m.removed => rows'[i].active
              /\ rows'[i].amount = rows[i].amount
         ELSE rows[i].parent \in m.removed
<1>1. PICK t, r, e : t = Assessed /\ r = rows /\ e = rows'
  OBVIOUS
<1>2. PICK newer, u : Accepted(m, newer, t, u)
  BY <1>1, ProcessCases DEF Refused, Processed
<1>3. PICK n : Merged(m, t, u, n, e)
  BY <1>1, <1>2, AcceptedMerged
<1>4. Merges(m, t) /\ u = Upserted(m, newer, t)
  BY <1>2 DEF Accepted
<1>5. i \in DOMAIN t /\ t[i] = r[i] /\ t[i].kind = "payment"
  BY <1>1, AssessedRows DEF MobileInv, Alike, Of
<1>6. /\ i \in DOMAIN u /\ u[i].kind = t[i].kind /\ u[i].parent = t[i].parent
      /\ u[i].kind = "payment" => u[i].amount = t[i].amount /\ (u[i].active <=> t[i].active)
  BY <1>4, <1>5, UpsertedOld
<1>7. CASE i \in DOMAIN e
  <2>1. e[i].kind = "payment"
    BY <1>3, <1>5, <1>6, <1>7 DEF Merged
  <2>2. e[i].amount = u[i].amount /\ (e[i].active <=> u[i].active /\ i \notin m.removed)
    BY <1>3, <1>7, <2>1 DEF Merged
  <2>3. /\ e[i].active => r[i].active
        /\ r[i].active /\ i \notin m.removed => e[i].active
        /\ e[i].amount = r[i].amount
    BY <1>5, <1>6, <2>2
  <2> QED
    BY <1>1, <1>7, <2>3
<1>8. CASE i \notin DOMAIN e
  <2>1. i \in Dropped(m, u) /\ TreeOk(u, n)
    BY <1>3, <1>6, <1>8 DEF Merged
  <2>2. u[i].parent \in m.removed
    BY <1>5, <1>6, <2>1, DroppedAre
  <2>3. r[i].parent \in m.removed
    BY <1>5, <1>6, <2>2
  <2> QED
    BY <1>1, <1>8, <2>3
<1> QED
  BY <1>7, <1>8

\* Batches tell uploads apart.
LEMMA OneProcessed ==
  ASSUME MobileInv, NEW m \in sent, NEW x \in sent, Process(x), Processed(m)
  PROVE  m = x
<1>1. PICK t : t = Assessed
  OBVIOUS
<1>2. batches' \subseteq batches \cup {Batch(x)}
  BY <1>1, ProcessCases DEF Refused, Accepted
<1>3. Batch(m) = Batch(x)
  BY <1>2 DEF Processed
<1> QED
  BY <1>3 DEF MobileInv, SentInv

\* sync_snapshot passes no row over.
LEMMA NoneDroppedStep ==
  ASSUME MobileInv, NEW m \in sent, Process(m), Processed(m), NEW k \in DOMAIN m.rows
  PROVE  IF k > 0 THEN k \in DOMAIN rows' \cup dead'
         ELSE \E i \in DOMAIN rows' : /\ rows'[i].origin = <<m.phone, k>>
                                      /\ rows'[i].kind = m.rows[k].kind
                                      /\ m.rows[k].parent > 0 => rows'[i].parent = m.rows[k].parent
<1>1. PICK t, e : t = Assessed /\ e = rows'
  OBVIOUS
<1>2. PICK newer, u : Accepted(m, newer, t, u)
  BY <1>1, ProcessCases DEF Refused, Processed
<1>3. PICK n : Merged(m, t, u, n, e)
  BY <1>1, <1>2, AcceptedMerged
<1>4. Merges(m, t) /\ u = Upserted(m, newer, t) /\ dead' = dead \cup Dropped(m, u)
  BY <1>2 DEF Accepted
<1>5. TreeOk(u, n) /\ DOMAIN e = DOMAIN u \ Dropped(m, u)
  BY <1>3 DEF Merged
<1>6. k \in Int /\ k # 0
  BY <1>4 DEF Merges, Meets, ViewOk, Keys
<1>7. CASE k > 0
  <2>1. CASE k \in dead
    BY <1>4, <1>7, <2>1
  <2>2. CASE k \notin dead
    <3>1. k \in Taken(m)
      BY <2>2 DEF Taken
    <3>2. IdOf(m, k, t) = k
      BY <1>4, <1>7, <3>1, IdsAre
    <3>3. k \in DOMAIN u
      BY <1>4, <3>1, <3>2, UpsertedRow
    <3> QED
      BY <1>1, <1>4, <1>5, <1>7, <3>3
  <2> QED
    BY <2>1, <2>2
<1>8. CASE k < 0
  <2>1. k \in Taken(m)
    BY <1>4, <1>8, TakenKeys
  <2>2. PICK i, q : i = IdOf(m, k, t) /\ q = m.rows[k].parent
    OBVIOUS
  <2>3. /\ i \in DOMAIN u /\ u[i].kind = m.rows[k].kind /\ u[i].origin = <<m.phone, k>>
        /\ u[i].kind # "client" => q \in Taken(m) /\ u[i].parent = IdOf(m, q, t)
    BY <1>4, <1>8, <2>1, <2>2, UpsertedRow
  <2>4. ASSUME NEW l \in Taken(m), IdOf(m, l, t) \in m.removed PROVE FALSE
    <3>1. PICK j : j = IdOf(m, l, t)
      OBVIOUS
    <3>2. j \in m.removed /\ j \notin DOMAIN m.rows /\ l \in DOMAIN m.rows /\ l \in Int /\ l # 0
      BY <1>4, <2>4, <3>1, TakenKeys DEF Merges, Meets, ViewOk, Keys
    <3>3. l < 0
      <4>1. l > 0 => j = l
        BY <1>4, <3>1, IdsAre
      <4> QED
        BY <3>2, <4>1
    <3>4. j \in DOMAIN t
      <4>1. j < nextId /\ j \in Nat /\ nextId \in Nat
        BY <1>4, <3>2 DEF Merges, Meets, ViewOk, Keys
      <4>2. j \notin DOMAIN t => j >= nextId
        BY <1>4, <3>1, IdsAre
      <4> QED
        BY <4>1, <4>2
    <3>5. t[j].origin = <<m.phone, l>>
      BY <1>4, <3>1, <3>3, <3>4, ExistingRow
    <3> QED
      BY <1>4, <3>2, <3>4, <3>5 DEF Merges, Meets, ViewOk
  <2>5. i \notin Dropped(m, u)
    <3>1. i \notin m.removed
      BY <2>1, <2>2, <2>4
    <3>2. u[i].kind \in {"period", "payment"} => u[i].parent \notin m.removed
      BY <2>3, <2>4
    <3> QED
      BY <1>5, <3>1, <3>2, DroppedAre
  <2>6. i \in DOMAIN e /\ e[i].kind = u[i].kind /\ e[i].parent = u[i].parent /\ e[i].origin = u[i].origin
    BY <1>3, <1>5, <2>3, <2>5 DEF Merged
  <2>7. q > 0 => e[i].parent = q
    <3> SUFFICES ASSUME q > 0 PROVE e[i].parent = q
      OBVIOUS
    <3>1. CopyOk(m.rows[k])
      BY <1>4 DEF Merges, Meets, ViewOk
    <3>2. q # 0
      BY <2>2, <3>1 DEF CopyOk
    <3>3. u[i].kind # "client"
      BY <2>2, <2>3, <3>1, <3>2 DEF CopyOk
    <3>4. IdOf(m, q, t) = q
      BY <1>4, <2>3, <3>3, IdsAre
    <3> QED
      BY <2>3, <2>6, <3>3, <3>4
  <2>8. /\ e[i].origin = <<m.phone, k>> /\ e[i].kind = m.rows[k].kind
        /\ m.rows[k].parent > 0 => e[i].parent = m.rows[k].parent
    BY <2>2, <2>3, <2>6, <2>7
  <2>9. ~(k > 0)
    BY <1>6, <1>8
  <2> QED
    BY <1>1, <2>6, <2>8, <2>9
<1> QED
  BY <1>6, <1>7, <1>8

-----------------------------------------------------------------------------
(* The web.                                                                *)

\* The rows that are not of debt d are the same.
OnlyOf(d, t, b) ==
  /\ \A i : i \in DOMAIN b /\ b[i].parent # d <=> i \in DOMAIN t /\ t[i].parent # d
  /\ \A i \in DOMAIN b : b[i].parent # d => b[i] = t[i]

\* Reconciling the one debt whose payments changed brings its books back.
LEMMA OneDebt ==
  ASSUME NEW t, NEW n, TreeOk(t, n), Booked(t), NEW b, NEW n2, TreeOk(b, n2), NEW d, OnlyOf(d, t, b),
         NEW D, D = {d}, Debts(D, b), NEW e, e = Reconciled(D, b)
  PROVE  Booked(e)
<1>1. ASSUME NEW x \in DOMAIN b, b[x].kind = "debt", x # d
      PROVE  DebtBooked(x, b) /\ \A i \in DOMAIN b : b[i].parent = x => PeriodBooked(i, b)
  <2>1. b[x].parent # d
    <3>1. b[x].parent \in DOMAIN b /\ b[b[x].parent].kind = "client"
      BY <1>1 DEF TreeOk, Under, Above
    <3> QED
      BY <3>1 DEF Debts
  <2>2. x \in DOMAIN t /\ b[x] = t[x] /\ t[x].kind = "debt"
    BY <1>1, <2>1 DEF OnlyOf
  <2>3. \A i : i \in DOMAIN b /\ b[i].parent = x <=> i \in DOMAIN t /\ t[i].parent = x
    BY <1>1 DEF OnlyOf
  <2>4. \A i \in DOMAIN b : b[i].parent = x => b[i] = t[i]
    BY <1>1 DEF OnlyOf
  <2>5. /\ DebtBooked(x, t) => DebtBooked(x, b)
        /\ \A i \in DOMAIN b : b[i].parent = x /\ PeriodBooked(i, t) => PeriodBooked(i, b)
    BY <2>2, <2>3, <2>4, SameBooks
  <2> QED
    BY <2>2, <2>3, <2>5 DEF Booked
<1>2. \A i \in DOMAIN b : b[i].kind = "debt" /\ i \notin D => DebtBooked(i, b)
  BY <1>1
<1>3. ASSUME NEW i \in DOMAIN b, b[i].kind = "period", b[i].parent \notin D PROVE PeriodBooked(i, b)
  <2>1. b[i].parent \in DOMAIN b /\ b[b[i].parent].kind = "debt"
    BY <1>3 DEF TreeOk, Under, Above
  <2> QED
    BY <1>1, <1>3, <2>1
<1> QED
  BY <1>2, <1>3, ReconciledBooks

\* Rows that were reconciled move as the rows they were before.
LEMMA ReconciledMoves ==
  ASSUME MobileInv, UNCHANGED <<phones, dead, batches>>, NEW n \in Nat, n = nextId', nextId <= n,
         NEW b, TreeOk(b, n), Made(b, own), Kept(rows, b, nextId), \A i \in DOMAIN b : i \notin dead,
         \A i \in DOMAIN b : i >= nextId => b[i].origin = <<Web, 0>>,
         NEW D, Debts(D, b), NEW e, e = Reconciled(D, b), e = rows'
  PROVE  MobileInv'
<1>1. Alike(b, e)
  BY ReconciledRows
<1>2. nextId \in Nat \ {0} /\ n \in Nat \ {0}
  BY DEF MobileInv, ServerInv
<1>3. TreeOk(e, n) /\ Made(e, own)
  BY <1>1, <1>2, AlikeTree
<1>4. Kept(rows, e, nextId)
  BY <1>1 DEF Kept, Alike
<1>5. \A i \in dead' : i \in Nat /\ 0 < i /\ i < n /\ i \notin DOMAIN e
  BY <1>1, <1>2 DEF MobileInv, ServerInv, Alike
<1>6. batches' = batches /\ \A x \in batches' : \E m \in sent : x = Batch(m)
  BY DEF MobileInv, SentInv
<1>7. ASSUME NEW p \in Phones, NEW V PROVE Seen(p, V, nextId, e)
  <2>1. \A i \in DOMAIN e : i >= nextId => e[i].origin = <<Web, 0>>
    BY <1>1 DEF Alike
  <2>2. \A k : <<p, k>> # <<Web, 0>>
    BY MobileAssumption
  <2> QED
    BY <2>1, <2>2 DEF Seen
<1>8. \A m \in Open : m.phone \in Phones
  BY DEF MobileInv, SentInv, Open
<1>9. \A p \in Phones : Seen(p, local[p], nextId, e)
  BY <1>7
<1>10. \A m \in Open : Seen(m.phone, m.rows, nextId, e)
  BY <1>7, <1>8
<1> QED
  BY <1>3, <1>4, <1>5, <1>6, <1>9, <1>10, ServerMoves

\* A payment on the web keeps the invariant and the books.
LEMMA WebPayStep ==
  ASSUME MobileInv, NEW i \in Of("period", rows), NEW amount, WebPay(i, amount)
  PROVE  MobileInv' /\ (BooksFollow => BooksFollow')
<1>1. PICK t, d, paid, row, b, n, D, e :
        /\ t = Assessed /\ d = rows[i].parent /\ paid = Min({amount, Assessed[i].amount - Assessed[i].paid})
        /\ row = Payment(d, i, paid, <<Web, 0>>) /\ b = With(t, nextId, row) /\ n = nextId + 1 /\ D = {d}
        /\ e = Reconciled(D, b)
  OBVIOUS
<1>2. e = rows' /\ nextId' = n /\ UNCHANGED <<phones, dead, batches>>
  BY <1>1 DEF WebPay
<1>3. nextId \in Nat \ {0} /\ n \in Nat /\ nextId <= n
  BY <1>1 DEF MobileInv, ServerInv
<1>4. /\ Alike(rows, t) /\ TreeOk(t, nextId) /\ Kept(rows, t, nextId) /\ Made(t, own)
      /\ Booked(rows) => Booked(t)
  BY <1>1, AssessedRows DEF MobileInv
<1>5. i \in DOMAIN t /\ t[i].kind = "period" /\ t[i].parent = d
  BY <1>1, <1>4 DEF Alike, Of
<1>6. d \in DOMAIN t /\ t[d].kind = "debt"
  BY <1>4, <1>5 DEF TreeOk, Under, Above
<1>7. /\ row.kind = "payment" /\ row.parent = d /\ row.period = i /\ row.origin = <<Web, 0>> /\ RowOk(row)
  BY <1>1 DEF Payment, RowOk, Kinds, PaymentFields
<1>8. nextId \notin DOMAIN t
  BY <1>3, <1>4 DEF TreeOk
<1>9. DOMAIN b = DOMAIN t \cup {nextId} /\ b[nextId] = row /\ \A j \in DOMAIN t : b[j] = t[j]
  BY <1>1, <1>8 DEF With
<1>10. TreeOk(b, n)
  <2>1. ASSUME NEW j \in DOMAIN t PROVE j \in Nat /\ 0 < j /\ j < n /\ RowOk(b[j]) /\ Under(j, b) /\ Paying(j, b)
    <3>1. j \in Nat /\ 0 < j /\ j < nextId /\ RowOk(t[j]) /\ Under(j, t) /\ Paying(j, t)
      BY <1>4 DEF TreeOk
    <3>2. j < n
      BY <1>1, <1>3, <3>1
    <3>3. Under(j, b)
      BY <1>9, <3>1 DEF Under
    <3>4. Paying(j, b)
      BY <1>9, <3>1 DEF Paying
    <3> QED
      BY <1>9, <3>1, <3>2, <3>3, <3>4
  <2>2. nextId \in Nat /\ 0 < nextId /\ nextId < n
    BY <1>1, <1>3
  <2>3. Under(nextId, b)
    BY <1>6, <1>7, <1>9 DEF Under, Above
  <2>4. Paying(nextId, b)
    BY <1>5, <1>7, <1>9 DEF Paying
  <2> QED
    BY <1>7, <1>9, <2>1, <2>2, <2>3, <2>4 DEF TreeOk
<1>11. Made(b, own)
  <2>1. \A p \in Phones : \A k : <<p, k>> # <<Web, 0>>
    BY MobileAssumption
  <2>2. ASSUME NEW j \in DOMAIN b, NEW p \in Phones, NEW k, b[j].origin = <<p, k>>
        PROVE  k \in Int /\ k < 0 /\ -own[p] <= k
    <3>1. j \in DOMAIN t
      BY <1>7, <1>9, <2>1, <2>2
    <3> QED
      BY <1>4, <1>9, <2>2, <3>1 DEF Made
  <2>3. ASSUME NEW j \in DOMAIN b, NEW x \in DOMAIN b, b[j].origin = b[x].origin, b[j].origin # <<Web, 0>>
        PROVE  j = x
    BY <1>4, <1>7, <1>9, <2>3 DEF Made
  <2> QED
    BY <2>2, <2>3 DEF Made
<1>12. Kept(rows, b, nextId)
  BY <1>3, <1>4, <1>9 DEF Kept
<1>13. \A j \in DOMAIN b : j \notin dead
  <2>1. \A j \in dead : j \in Nat /\ j < nextId /\ j \notin DOMAIN rows
    BY DEF MobileInv, ServerInv
  <2>2. DOMAIN t = DOMAIN rows
    BY <1>4 DEF Alike
  <2> QED
    BY <1>3, <1>9, <2>1, <2>2
<1>14. \A j \in DOMAIN b : j >= nextId => b[j].origin = <<Web, 0>>
  BY <1>3, <1>4, <1>7, <1>9 DEF TreeOk
<1>15. Debts(D, b)
  BY <1>1, <1>6, <1>9 DEF Debts
<1>16. MobileInv'
  BY <1>1, <1>2, <1>3, <1>10, <1>11, <1>12, <1>13, <1>14, <1>15, ReconciledMoves
<1>17. OnlyOf(d, t, b)
  BY <1>7, <1>8, <1>9 DEF OnlyOf
<1>18. Booked(t) => Booked(e)
  BY <1>1, <1>4, <1>10, <1>15, <1>17, OneDebt
<1> QED
  BY <1>2, <1>4, <1>16, <1>18, BooksAre, BooksWillBe

\* A reversal on the web keeps the invariant and the books.
LEMMA WebRevertStep ==
  ASSUME MobileInv, NEW i \in Of("period", rows), WebRevert(i)
  PROVE  MobileInv' /\ (BooksFollow => BooksFollow')
<1>1. PICK t, d, paid, b, n, D, e :
        /\ t = rows /\ d = rows[i].parent /\ paid = {j \in Active(rows) : rows[j].period = i}
        /\ b = [j \in DOMAIN rows |-> IF j \in paid THEN [rows[j] EXCEPT !.active = FALSE] ELSE rows[j]]
        /\ n = nextId /\ D = {d} /\ e = Reconciled(D, b)
  OBVIOUS
<1>2. e = rows' /\ nextId' = n /\ UNCHANGED <<phones, dead, batches>>
  BY <1>1 DEF WebRevert
<1>3. nextId \in Nat \ {0} /\ n \in Nat /\ nextId <= n /\ TreeOk(t, n) /\ Made(t, own)
  BY <1>1 DEF MobileInv, ServerInv
<1>4. i \in DOMAIN t /\ t[i].kind = "period" /\ t[i].parent = d /\ i # NoPeriod
  BY <1>1, <1>3 DEF Of, TreeOk, NoPeriod
<1>5. d \in DOMAIN t /\ t[d].kind = "debt"
  BY <1>3, <1>4 DEF TreeOk, Under, Above
<1>6. DOMAIN b = DOMAIN t /\ \A j \in DOMAIN t : j \notin paid => b[j] = t[j]
  BY <1>1
<1>7. ASSUME NEW j \in DOMAIN t, j \in paid
      PROVE  /\ t[j].kind = "payment" /\ t[j].parent = d
             /\ RowOk(b[j]) /\ b[j].kind = "payment" /\ b[j].parent = d /\ b[j].period = t[j].period
             /\ b[j].origin = t[j].origin /\ b[j].amount = t[j].amount
  <2>1. t[j].kind = "payment" /\ t[j].period = i
    BY <1>1, <1>7 DEF Active, Of
  <2>2. t[j].parent = d /\ DOMAIN t[j] = PaymentFields
    BY <1>3, <1>4, <2>1 DEF TreeOk, Paying, RowOk
  <2>3. b[j] = [t[j] EXCEPT !.active = FALSE]
    BY <1>1, <1>7
  <2> QED
    BY <2>1, <2>2, <2>3 DEF PaymentFields, RowOk, Kinds
<1>8. \A j \in DOMAIN t : /\ RowOk(b[j]) /\ b[j].kind = t[j].kind /\ b[j].parent = t[j].parent
                          /\ b[j].origin = t[j].origin
                          /\ t[j].kind = "payment" => b[j].period = t[j].period /\ b[j].amount = t[j].amount
  BY <1>3, <1>6, <1>7 DEF TreeOk
<1>9. TreeOk(b, n)
  <2>1. ASSUME NEW j \in DOMAIN b PROVE j \in Nat /\ 0 < j /\ j < n /\ RowOk(b[j]) /\ Under(j, b) /\ Paying(j, b)
    <3>1. j \in Nat /\ 0 < j /\ j < n /\ Under(j, t) /\ Paying(j, t)
      BY <1>3, <1>6 DEF TreeOk
    <3>2. Under(j, b)
      BY <1>6, <1>8, <3>1 DEF Under
    <3>3. Paying(j, b)
      BY <1>6, <1>8, <3>1 DEF Paying
    <3> QED
      BY <1>6, <1>8, <3>1, <3>2, <3>3
  <2> QED
    BY <2>1 DEF TreeOk
<1>10. Made(b, own)
  BY <1>3, <1>6, <1>8 DEF Made
<1>11. Kept(rows, b, nextId)
  BY <1>1, <1>6, <1>8 DEF Kept
<1>12. \A j \in DOMAIN b : j \notin dead
  BY <1>1, <1>6 DEF MobileInv, ServerInv
<1>13. \A j \in DOMAIN b : j >= nextId => b[j].origin = <<Web, 0>>
  BY <1>1, <1>3, <1>6 DEF TreeOk
<1>14. Debts(D, b)
  BY <1>1, <1>5, <1>8 DEF Debts
<1>15. MobileInv'
  BY <1>1, <1>2, <1>3, <1>9, <1>10, <1>11, <1>12, <1>13, <1>14, ReconciledMoves
<1>16. OnlyOf(d, t, b)
  BY <1>6, <1>7, <1>8 DEF OnlyOf
<1>17. Booked(t) => Booked(e)
  BY <1>1, <1>3, <1>9, <1>14, <1>16, OneDebt
<1> QED
  BY <1>1, <1>2, <1>15, <1>17, BooksAre, BooksWillBe

\* A table in which rows lie under rows of the right kind, if they are there.
Layered(t) ==
  \A x \in DOMAIN t : /\ x # 0 /\ t[x].kind \in Kinds /\ (t[x].kind = "client" <=> t[x].parent = 0)
                      /\ t[x].kind # "client" /\ t[x].parent \in DOMAIN t => t[t[x].parent].kind = Above(t[x].kind)

\* What lies under a row of a tree is of the tree.
LEMMA TreeClosed ==
  ASSUME NEW t, Layered(t), NEW i \in DOMAIN t
  PROVE  /\ i \in Tree(i, t) /\ Tree(i, t) \subseteq DOMAIN t
         /\ \A x \in DOMAIN t : t[x].parent \in Tree(i, t) => x \in Tree(i, t)
<1>1. i \in Tree(i, t) /\ Tree(i, t) \subseteq DOMAIN t
  BY DEF Tree, Children
<1>2. ASSUME NEW x \in DOMAIN t, t[x].parent \in Tree(i, t) PROVE x \in Tree(i, t)
  <2>1. PICK q : q = t[x].parent
    OBVIOUS
  <2>2. CASE q = i
    BY <2>1, <2>2 DEF Tree, Children
  <2>3. CASE q \in Children(i, t)
    BY <2>1, <2>3 DEF Tree, Children
  <2>4. ASSUME NEW j \in Children(i, t), q \in Children(j, t) PROVE FALSE
    <3>1. j \in DOMAIN t /\ t[j].parent = i /\ q \in DOMAIN t /\ t[q].parent = j /\ i # 0 /\ j # 0 /\ q # 0
      BY <2>4 DEF Children, Layered
    <3>2. t[j].kind # "client" /\ t[q].kind # "client" /\ t[x].kind # "client"
      BY <2>1, <3>1 DEF Layered
    <3>3. t[q].kind = Above(t[x].kind) /\ t[j].kind = Above(t[q].kind) /\ t[i].kind = Above(t[j].kind)
      BY <2>1, <3>1, <3>2 DEF Layered
    <3> QED
      BY <3>2, <3>3 DEF Above
  <2> QED
    BY <1>2, <2>1, <2>2, <2>3, <2>4 DEF Tree
<1> QED
  BY <1>1, <1>2

\* The tree of rows has three levels.
LEMMA TreeLayered ==
  ASSUME NEW t, NEW n, TreeOk(t, n)
  PROVE  Layered(t)
<1> SUFFICES ASSUME NEW x \in DOMAIN t
             PROVE  /\ x # 0 /\ t[x].kind \in Kinds /\ (t[x].kind = "client" <=> t[x].parent = 0)
                    /\ t[x].kind # "client" /\ t[x].parent \in DOMAIN t => t[t[x].parent].kind = Above(t[x].kind)
  BY DEF Layered
<1>1. RowOk(t[x]) /\ Under(x, t) /\ x # 0 /\ 0 \notin DOMAIN t
  BY DEF TreeOk
<1> QED
  BY <1>1 DEF RowOk, Under

\* delete_client keeps the invariant and the books.
LEMMA WebDeleteStep ==
  ASSUME MobileInv, NEW i \in Of("client", rows), WebDelete(i)
  PROVE  MobileInv' /\ (BooksFollow => BooksFollow')
<1>1. PICK t, T, e, n : t = rows /\ T = Tree(i, rows) /\ e = Without(rows, T) /\ n = nextId
  OBVIOUS
<1>2. e = rows' /\ n = nextId' /\ dead' = dead \cup T /\ UNCHANGED <<batches, phones>>
  BY <1>1 DEF WebDelete
<1>3. nextId \in Nat \ {0} /\ n \in Nat /\ nextId <= n /\ TreeOk(t, n) /\ Made(t, own) /\ Layered(t)
  BY <1>1, TreeLayered DEF MobileInv, ServerInv
<1>4. i \in DOMAIN t /\ t[i].kind = "client"
  BY <1>1 DEF Of
<1>5. i \in T /\ T \subseteq DOMAIN t /\ \A x \in DOMAIN t : t[x].parent \in T => x \in T
  BY <1>1, <1>3, <1>4, TreeClosed
<1>6. DOMAIN e = DOMAIN t \ T /\ \A j \in DOMAIN e : e[j] = t[j]
  BY <1>1 DEF Without
<1>7. ASSUME NEW j \in DOMAIN e PROVE j \in Nat /\ 0 < j /\ j < n /\ RowOk(e[j]) /\ Under(j, e) /\ Paying(j, e)
  <2>1. j \in Nat /\ 0 < j /\ j < n /\ RowOk(t[j]) /\ Under(j, t) /\ Paying(j, t)
    BY <1>3, <1>6 DEF TreeOk
  <2>2. Under(j, e)
    BY <1>5, <1>6, <2>1 DEF Under
  <2>3. Paying(j, e)
    <3> SUFFICES ASSUME e[j].kind = "payment", e[j].period # NoPeriod
                 PROVE  /\ e[j].period \in DOMAIN e
                        /\ e[e[j].period].kind = "period" /\ e[e[j].period].parent = e[j].parent
      BY DEF Paying
    <3>1. PICK s : s = t[j].period
      OBVIOUS
    <3>2. s \in DOMAIN t /\ t[s].kind = "period" /\ t[s].parent = t[j].parent
      BY <1>6, <2>1, <3>1 DEF Paying
    <3>3. s \notin T
      <4>1. t[j].parent \notin T
        BY <1>5, <1>6
      <4>2. \A x \in T : x = i \/ t[x].parent \in T
        BY <1>1 DEF Tree, Children
      <4> QED
        BY <1>4, <3>2, <4>1, <4>2
    <3> QED
      BY <1>6, <3>1, <3>2, <3>3
  <2> QED
    BY <1>6, <2>1, <2>2, <2>3
<1>8. TreeOk(e, n)
  BY <1>7 DEF TreeOk
<1>9. Made(e, own)
  BY <1>3, <1>6 DEF Made
<1>10. Kept(rows, e, nextId)
  BY <1>1, <1>6 DEF Kept
<1>11. \A j \in dead' : j \in Nat /\ 0 < j /\ j < n /\ j \notin DOMAIN e
  <2>1. \A j \in dead : j \in Nat /\ 0 < j /\ j < n /\ j \notin DOMAIN e
    BY <1>1, <1>6 DEF MobileInv, ServerInv
  <2>2. \A j \in T : j \in Nat /\ 0 < j /\ j < n /\ j \notin DOMAIN e
    BY <1>3, <1>5, <1>6 DEF TreeOk
  <2> QED
    BY <1>2, <2>1, <2>2
<1>12. batches' = batches /\ \A b \in batches' : \E m \in sent : b = Batch(m)
  BY <1>2 DEF MobileInv, SentInv
<1>13. \A p : \A V : Seen(p, V, nextId, e)
  BY <1>1, <1>3, <1>6 DEF Seen, TreeOk
<1>14. MobileInv'
  BY <1>2, <1>3, <1>8, <1>9, <1>10, <1>11, <1>12, <1>13, ServerMoves
<1>15. ASSUME Booked(t) PROVE Booked(e)
  <2>1. ASSUME NEW d \in DOMAIN e, e[d].kind = "debt"
        PROVE  DebtBooked(d, e) /\ \A j \in DOMAIN e : e[j].parent = d => PeriodBooked(j, e)
    <3>1. d \in DOMAIN t /\ e[d] = t[d] /\ t[d].kind = "debt" /\ d \notin T /\ d # 0
      BY <1>6, <2>1, <1>3 DEF TreeOk
    <3>2. \A j : j \in DOMAIN e /\ e[j].parent = d <=> j \in DOMAIN t /\ t[j].parent = d
      <4>1. \A x \in T : x = i \/ t[x].parent \in T
        BY <1>1 DEF Tree, Children
      <4>2. t[i].parent = 0
        BY <1>3, <1>4 DEF Layered
      <4>3. \A j \in DOMAIN t : t[j].parent = d => j \notin T
        BY <3>1, <4>1, <4>2
      <4> QED
        BY <1>6, <4>3
    <3>3. \A j \in DOMAIN e : e[j].parent = d => e[j] = t[j]
      BY <1>6
    <3>4. /\ DebtBooked(d, t) => DebtBooked(d, e)
          /\ \A j \in DOMAIN e : e[j].parent = d /\ PeriodBooked(j, t) => PeriodBooked(j, e)
      BY <1>3, <1>8, <2>1, <3>1, <3>2, <3>3, SameBooks
    <3> QED
      BY <1>6, <1>15, <3>1, <3>4 DEF Booked
  <2>2. ASSUME NEW j \in DOMAIN e PROVE PeriodBooked(j, e)
    <3>1. CASE e[j].kind = "period"
      <4>1. e[j].parent \in DOMAIN e /\ e[e[j].parent].kind = "debt"
        BY <1>8, <3>1 DEF TreeOk, Under, Above
      <4> QED
        BY <2>1, <4>1
    <3>2. CASE e[j].kind # "period"
      BY <3>2 DEF PeriodBooked
    <3> QED
      BY <3>1, <3>2
  <2>3. ASSUME NEW j \in DOMAIN e PROVE DebtBooked(j, e)
    BY <2>1 DEF DebtBooked
  <2> QED
    BY <2>2, <2>3 DEF Booked
<1> QED
  BY <1>1, <1>2, <1>14, <1>15, BooksAre, BooksWillBe

\* That time passes changes no row.
LEMMA DueDateStep ==
  ASSUME MobileInv, DueDatePasses
  PROVE  MobileInv' /\ (BooksFollow => BooksFollow')
<1>1. UNCHANGED <<rows, dead, nextId, batches, local, own, removed, sent, waiting>>
  BY DEF DueDatePasses, phones
<1>2. MobileInv'
  BY <1>1 DEF MobileInv, ServerInv, SentInv, PhonesInv, ViewsInv, Open, Batch, Numbered
<1>3. rows' = rows
  BY <1>1
<1> QED
  BY <1>2, <1>3, BooksAre, BooksWillBe

-----------------------------------------------------------------------------
(* Steps of a phone.                                                       *)

\* A phone may have made more rows than it still holds.
LEMMA ViewOwn ==
  ASSUME NEW p, NEW V, NEW R, NEW t, NEW n, NEW made \in Nat, NEW more \in Nat, made <= more,
         ViewOk(p, V, R, t, n, made)
  PROVE  ViewOk(p, V, R, t, n, more)
<1>1. Keys(V, R, n, more)
  BY DEF ViewOk, Keys
<1> QED
  BY <1>1 DEF ViewOk

\* A step of one phone keeps the invariant when its rows stay a view that agrees with its uploads.
LEMMA LocalMoves ==
  ASSUME MobileInv, UNCHANGED <<rows, dead, nextId, batches, sent>>, NEW p \in Phones,
         NEW V, NEW R, NEW made \in Nat, own[p] <= made,
         DOMAIN local' = Phones, DOMAIN removed' = Phones, DOMAIN own' = Phones, DOMAIN waiting' = Phones,
         local'[p] = V, removed'[p] = R, own'[p] = made,
         \A q \in Phones : q # p => local'[q] = local[q] /\ removed'[q] = removed[q] /\ own'[q] = own[q],
         ViewOk(p, V, R, rows, nextId, made),
         \A m \in Open : m.phone = p => Agree(p, V, m.rows, rows)
  PROVE  MobileInv'
<1>1. /\ DOMAIN local' = Phones /\ DOMAIN removed' = Phones /\ DOMAIN own' = Phones
      /\ local'[p] = V /\ removed'[p] = R /\ own'[p] = made
      /\ \A q \in Phones : q # p => local'[q] = local[q] /\ removed'[q] = removed[q] /\ own'[q] = own[q]
  OBVIOUS
<1>2. \A q \in Phones : own[q] \in Nat /\ own'[q] \in Nat /\ own[q] <= own'[q]
  BY <1>1 DEF MobileInv, PhonesInv
<1>3. Made(rows, own')
  <2>1. ASSUME NEW i \in DOMAIN rows, NEW q \in Phones, NEW k, rows[i].origin = <<q, k>>
        PROVE  k \in Int /\ k < 0 /\ -own'[q] <= k
    <3>1. k \in Int /\ k < 0 /\ -own[q] <= k
      BY <2>1 DEF MobileInv, ServerInv, Made
    <3>2. PICK x, y : x = own[q] /\ y = own'[q]
      OBVIOUS
    <3>3. x \in Nat /\ y \in Nat /\ x <= y
      BY <1>2, <3>2
    <3>4. -y <= k
      BY <3>1, <3>2, <3>3
    <3> QED
      BY <3>1, <3>2, <3>4
  <2> QED
    BY <2>1 DEF MobileInv, ServerInv, Made
<1>4. ServerInv'
  BY <1>3 DEF MobileInv, ServerInv
<1>5. SentInv'
  BY DEF MobileInv, SentInv, Batch, Numbered
<1>6. PhonesInv'
  BY <1>1, <1>2 DEF PhonesInv
<1>7. Open' = Open
  BY DEF Open, Batch
<1>8. \A m \in Open : m.phone \in Phones
  BY DEF MobileInv, SentInv, Open
<1>9. ASSUME NEW q \in Phones PROVE ViewOk(q, local'[q], removed'[q], rows, nextId, own'[q])
  BY <1>1 DEF MobileInv, ViewsInv
<1>10. ASSUME NEW m \in Open PROVE ViewOk(m.phone, m.rows, m.removed, rows, nextId, own'[m.phone])
  <2>1. PICK q, x, y : q = m.phone /\ x = own[q] /\ y = own'[q]
    OBVIOUS
  <2>2. x \in Nat /\ y \in Nat /\ x <= y
    BY <1>2, <1>8, <2>1
  <2>3. ViewOk(q, m.rows, m.removed, rows, nextId, x)
    BY <2>1 DEF MobileInv, ViewsInv
  <2>4. ViewOk(q, m.rows, m.removed, rows, nextId, y)
    BY <2>2, <2>3, ViewOwn
  <2> QED
    BY <2>1, <2>4
<1>11. ASSUME NEW m \in Open PROVE Agree(m.phone, local'[m.phone], m.rows, rows)
  BY <1>1, <1>8 DEF MobileInv, ViewsInv
<1>12. ViewsInv'
  BY <1>7, <1>9, <1>10, <1>11 DEF MobileInv, ViewsInv
<1> QED
  BY <1>4, <1>5, <1>6, <1>12 DEF MobileInv

\* A row is added under the next local id.
LEMMA AddedRow ==
  ASSUME NEW p, NEW V, NEW R, NEW t, NEW n \in Nat \ {0}, NEW made \in Nat, ViewOk(p, V, R, t, n, made),
         NEW n2, TreeOk(t, n2), \A i \in DOMAIN t : \A x : t[i].origin = <<p, x>> => x \in Int /\ -made <= x,
         NEW more, more = made + 1, NEW k, k = -more, NEW c, CopyOk(c), NEW W, W = With(V, k, c),
         c.kind # "client" => /\ c.parent \in DOMAIN V \/ c.parent > 0
                              /\ c.parent < n
                              /\ c.parent \in DOMAIN V => V[c.parent].kind = Above(c.kind)
                              /\ c.parent \in DOMAIN t => /\ t[c.parent].kind = Above(c.kind)
                                                          /\ c.parent \in DOMAIN V \cup R,
         c.period # NoPeriod => /\ c.period \in DOMAIN V /\ V[c.period].kind = "period"
                                /\ V[c.period].parent = c.parent
  PROVE  ViewOk(p, W, R, t, n, more)
<1>1. k \in Int /\ k < 0 /\ more \in Nat /\ -more <= k /\ k < n /\ k # 0 /\ k < -made
  OBVIOUS
<1>2. \A x \in DOMAIN V : x \in Int /\ x # 0 /\ x < n /\ -made <= x /\ -more <= x /\ x # k
  BY <1>1 DEF ViewOk, Keys
<1>3. DOMAIN W = DOMAIN V \cup {k} /\ W[k] = c /\ \A x \in DOMAIN V : W[x] = V[x]
  BY <1>2 DEF With
<1>4. k \notin DOMAIN t /\ \A i \in DOMAIN t : i \in Nat /\ 0 < i /\ t[i].origin # <<p, k>>
  <2>1. \A i \in DOMAIN t : i \in Nat /\ 0 < i
    BY DEF TreeOk
  <2>2. \A i \in DOMAIN t : t[i].origin = <<p, k>> => -made <= k
    OBVIOUS
  <2>3. ~(-made <= k)
    BY <1>1
  <2> QED
    BY <1>1, <2>1, <2>2, <2>3
<1>5. Keys(W, R, n, more)
  <2>1. IsFiniteSet(DOMAIN W)
    BY <1>3, FS_AddElement DEF ViewOk, Keys
  <2>2. \A j \in R : j \in Nat /\ 0 < j /\ j < n /\ j \notin DOMAIN V
    BY DEF ViewOk, Keys
  <2>3. \A j \in R : j \notin DOMAIN W
    BY <1>1, <1>3, <2>2
  <2> QED
    BY <1>1, <1>2, <1>3, <2>1, <2>2, <2>3 DEF Keys
<1>6. ASSUME NEW x \in DOMAIN V PROVE CopyOk(W[x]) /\ Linking(x, W, R, t, n) /\ Covering(x, W, t, n)
  <2>1. CopyOk(V[x]) /\ Linking(x, V, R, t, n) /\ Covering(x, V, t, n) /\ W[x] = V[x]
    BY <1>3 DEF ViewOk
  <2>2. (V[x].parent # k /\ V[x].period # k) \/ V[x].kind = "client"
    <3>1. V[x].kind # "client" => V[x].parent # k
      BY <1>1, <1>2, <2>1 DEF Linking
    <3>2. V[x].period # k
      BY <1>1, <1>2, <2>1 DEF Covering, NoPeriod
    <3> QED
      BY <3>1, <3>2
  <2>3. Linking(x, W, R, t, n)
    BY <1>3, <2>1, <2>2 DEF Linking
  <2>4. Covering(x, W, t, n)
    <3>1. V[x].period < 0 => V[x].period \in DOMAIN V \/ V[x].period = NoPeriod
      BY <2>1 DEF Covering
    <3> QED
      BY <1>3, <2>1, <3>1 DEF Covering
  <2> QED
    BY <2>1, <2>3, <2>4
<1>7. Linking(k, W, R, t, n)
  <2> SUFFICES ASSUME c.kind # "client"
               PROVE  /\ c.parent < n /\ (k > 0 => c.parent > 0)
                      /\ c.parent < 0 => c.parent \in DOMAIN W
                      /\ c.parent \in DOMAIN W => W[c.parent].kind = Above(c.kind)
                      /\ c.parent \in DOMAIN t => t[c.parent].kind = Above(c.kind) /\ c.parent \in DOMAIN W \cup R
    BY <1>3 DEF Linking
  <2>1. PICK q : q = c.parent
    OBVIOUS
  <2>2. q \in Int /\ (q \in DOMAIN V \/ q > 0) /\ q < n
    BY <2>1 DEF CopyOk
  <2>3. ~(k > 0) /\ q # k
    BY <1>1, <1>2, <2>2
  <2>4. q < 0 => q \in DOMAIN V
    BY <2>2
  <2>5. q \in DOMAIN W => q \in DOMAIN V /\ W[q] = V[q]
    BY <1>3, <2>3
  <2> QED
    BY <1>3, <2>1, <2>2, <2>3, <2>4, <2>5
<1>8. Covering(k, W, t, n)
  <2> SUFFICES ASSUME c.period # NoPeriod
               PROVE  /\ c.period < n
                      /\ c.period < 0 => c.period \in DOMAIN W /\ W[c.period].kind = "period" /\ W[c.period].parent = c.parent
                      /\ c.period > 0 => c.parent > 0
                      /\ c.period \in DOMAIN t => /\ t[c.period].kind = "period"
                                                  /\ c.parent \in DOMAIN t => t[c.period].parent = c.parent
    BY <1>3 DEF Covering
  <2>1. PICK s : s = c.period
    OBVIOUS
  <2>2. s \in DOMAIN V /\ V[s].kind = "period" /\ V[s].parent = c.parent /\ s \in Int /\ s < n
    BY <1>2, <2>1
  <2>3. Linking(s, V, R, t, n)
    BY <2>2 DEF ViewOk
  <2>4. s > 0 => c.parent > 0
    BY <2>2, <2>3 DEF Linking
  <2>5. ASSUME s \in DOMAIN t PROVE t[s].kind = "period" /\ t[s].parent = c.parent
    <3>1. s > 0
      BY <1>4, <2>2, <2>5
    <3>2. Means(p, s, s, t)
      BY <3>1 DEF Means
    <3>3. Faithful(p, s, s, V, t)
      BY <2>2, <2>5, <3>2 DEF ViewOk
    <3> QED
      BY <2>2, <3>1, <3>3 DEF Faithful
  <2> QED
    BY <1>3, <2>1, <2>2, <2>4, <2>5
<1>9. ASSUME NEW x \in DOMAIN W, NEW i \in DOMAIN t, Means(p, x, i, t) PROVE Faithful(p, x, i, W, t)
  <2>1. x # k
    <3>1. ~(k > 0)
      BY <1>1
    <3> QED
      BY <1>4, <1>9, <3>1 DEF Means
  <2>2. x \in DOMAIN V /\ W[x] = V[x]
    BY <1>3, <2>1
  <2>3. Faithful(p, x, i, V, t)
    BY <1>9, <2>2 DEF ViewOk
  <2> QED
    BY <2>2, <2>3 DEF Faithful
<1>10. ASSUME NEW i \in DOMAIN t \cap (DOMAIN W \cup R), NEW x \in DOMAIN W PROVE t[i].origin # <<p, x>>
  <2>1. i \in DOMAIN V \cup R
    BY <1>3, <1>4
  <2> QED
    BY <1>3, <1>4, <2>1 DEF ViewOk
<1>11. ASSUME NEW j \in R \cap DOMAIN t, t[j].kind \in {"period", "payment"} PROVE t[j].parent \in DOMAIN W \cup R
  BY <1>3, <1>11 DEF ViewOk
<1>12. \A x \in DOMAIN W : CopyOk(W[x]) /\ Linking(x, W, R, t, n) /\ Covering(x, W, t, n)
  BY <1>3, <1>6, <1>7, <1>8
<1> QED
  BY <1>5, <1>9, <1>10, <1>11, <1>12 DEF ViewOk

\* Uploads know nothing of a row that was added since.
LEMMA AddedAgrees ==
  ASSUME NEW p, NEW V, NEW U, NEW t, Agree(p, V, U, t), NEW k, k \notin DOMAIN U, NEW c, NEW W, W = With(V, k, c)
  PROVE  Agree(p, W, U, t)
  BY DEF Agree, With

\* A phone adds a row.
LEMMA AddStep ==
  ASSUME MobileInv, UNCHANGED <<rows, dead, nextId, batches, sent, removed, waiting>>, NEW p \in Phones,
         own' = [own EXCEPT ![p] = @ + 1],
         NEW k, k = -(own[p] + 1), NEW c, CopyOk(c), c.kind # "client",
         local' = [local EXCEPT ![p] = With(@, k, c)],
         NEW V, V = local[p],
         /\ c.parent \in DOMAIN V \/ c.parent > 0
         /\ c.parent < nextId
         /\ c.parent \in DOMAIN V => V[c.parent].kind = Above(c.kind)
         /\ c.parent \in DOMAIN rows => /\ rows[c.parent].kind = Above(c.kind)
                                        /\ c.parent \in DOMAIN V \cup removed[p],
         c.period # NoPeriod => /\ c.period \in DOMAIN V /\ V[c.period].kind = "period"
                                /\ V[c.period].parent = c.parent
  PROVE  MobileInv'
<1>1. PICK made, more, W, R, n, t :
        made = own[p] /\ more = made + 1 /\ W = With(V, k, c) /\ R = removed[p] /\ n = nextId /\ t = rows
  OBVIOUS
<1>2. made \in Nat /\ more \in Nat /\ made <= more
  BY <1>1 DEF MobileInv, PhonesInv
<1>3. n \in Nat \ {0} /\ TreeOk(t, n) /\ ViewOk(p, V, R, t, n, made)
  BY <1>1 DEF MobileInv, ServerInv, ViewsInv
<1>4. \A i \in DOMAIN t : \A x : t[i].origin = <<p, x>> => x \in Int /\ -made <= x
  BY <1>1 DEF MobileInv, ServerInv, Made
<1>5. k = -more
  BY <1>1
<1>6. ViewOk(p, W, R, t, n, more)
  <2>1. /\ c.parent \in DOMAIN V \/ c.parent > 0
        /\ c.parent < n
        /\ c.parent \in DOMAIN V => V[c.parent].kind = Above(c.kind)
        /\ c.parent \in DOMAIN t => t[c.parent].kind = Above(c.kind) /\ c.parent \in DOMAIN V \cup R
    BY <1>1
  <2> QED
    BY <1>1, <1>3, <1>4, <1>5, <2>1, <1>2, AddedRow
<1>7. ASSUME NEW m \in Open, m.phone = p PROVE Agree(p, W, m.rows, rows)
  <2>1. Agree(p, V, m.rows, rows) /\ ViewOk(p, m.rows, m.removed, t, n, made)
    BY <1>1, <1>7 DEF MobileInv, ViewsInv
  <2>2. k \notin DOMAIN m.rows
    <3>1. \A x \in DOMAIN m.rows : x \in Int /\ -made <= x
      BY <2>1 DEF ViewOk, Keys
    <3> QED
      BY <1>1, <1>2, <3>1
  <2> QED
    BY <1>1, <2>1, <2>2, AddedAgrees
<1>8. /\ DOMAIN local' = Phones /\ DOMAIN removed' = Phones /\ DOMAIN own' = Phones /\ DOMAIN waiting' = Phones
      /\ removed'[p] = R
      /\ \A q \in Phones : q # p => local'[q] = local[q] /\ removed'[q] = removed[q] /\ own'[q] = own[q]
  BY <1>1 DEF MobileInv, PhonesInv
<1>9. local'[p] = W /\ own'[p] = more
  BY <1>1 DEF MobileInv, PhonesInv
<1>10. ViewOk(p, W, R, rows, nextId, more)
  BY <1>1, <1>6
<1> QED
  BY <1>1, <1>2, <1>7, <1>8, <1>9, <1>10, LocalMoves

\* A payment made offline keeps the invariant.
LEMMA PhonePayStep ==
  ASSUME MobileInv, NEW p \in Phones, NEW k \in DOMAIN local[p], NEW amount, PhonePay(p, k, amount)
  PROVE  MobileInv'
<1>1. PICK V, c, l : V = local[p] /\ c = Copy("payment", V[k].parent, k, 0, amount) /\ l = -(own[p] + 1)
  OBVIOUS
<1>2. V[k].kind = "period" /\ own' = [own EXCEPT ![p] = @ + 1] /\ UNCHANGED <<rows, dead, nextId, batches, sent, removed, waiting>>
  BY <1>1 DEF PhonePay, server
<1>3. local' = [local EXCEPT ![p] = With(@, l, c)]
  <2>1. own'[p] = own[p] + 1
    BY <1>2 DEF MobileInv, PhonesInv
  <2>2. local' = [local EXCEPT ![p] = With(@, -own'[p], Copy("payment", local[p][k].parent, k, 0, amount))]
    BY DEF PhonePay
  <2> QED
    BY <1>1, <2>1, <2>2
<1>4. PICK t, n, R : t = rows /\ n = nextId /\ R = removed[p]
  OBVIOUS
<1>5. ViewOk(p, V, R, t, n, own[p])
  BY <1>1, <1>4 DEF MobileInv, ViewsInv
<1>6. CopyOk(V[k]) /\ Linking(k, V, R, t, n) /\ k \in Int /\ k # 0 /\ k \in DOMAIN V
  BY <1>1, <1>5 DEF ViewOk, Keys
<1>7. /\ DOMAIN c = CopyFields /\ c.kind = "payment" /\ c.parent = V[k].parent /\ c.period = k
  BY <1>1 DEF Copy, CopyFields
<1>8. V[k].parent \in Int /\ V[k].parent # 0
  BY <1>2, <1>6 DEF CopyOk
<1>9. CopyOk(c)
  BY <1>6, <1>7, <1>8 DEF CopyOk, Kinds
<1>10. /\ c.parent \in DOMAIN V \/ c.parent > 0
       /\ c.parent < n
       /\ c.parent \in DOMAIN V => V[c.parent].kind = Above(c.kind)
       /\ c.parent \in DOMAIN t => t[c.parent].kind = Above(c.kind) /\ c.parent \in DOMAIN V \cup R
  BY <1>2, <1>6, <1>7, <1>8 DEF Linking, Above
<1>11. c.period # NoPeriod => c.period \in DOMAIN V /\ V[c.period].kind = "period" /\ V[c.period].parent = c.parent
  BY <1>2, <1>6, <1>7
<1> QED
  BY <1>1, <1>2, <1>3, <1>4, <1>7, <1>9, <1>10, <1>11, AddStep

\* A period added offline keeps the invariant.
LEMMA PhonePeriodStep ==
  ASSUME MobileInv, NEW p \in Phones, NEW k \in DOMAIN local[p], PhonePeriod(p, k)
  PROVE  MobileInv'
<1>1. PICK V, number : V = local[p] /\ number = Cardinality(Of("period", local[p]) \cap Children(k, local[p])) + 1
  OBVIOUS
<1>2. PICK c, l : c = Copy("period", k, NoPeriod, number, BaseAmount) /\ l = -(own[p] + 1)
  OBVIOUS
<1>3. V[k].kind = "debt" /\ own' = [own EXCEPT ![p] = @ + 1] /\ UNCHANGED <<rows, dead, nextId, batches, sent, removed, waiting>>
  BY <1>1 DEF PhonePeriod, server
<1>4. local' = [local EXCEPT ![p] = With(@, l, c)]
  <2>1. own'[p] = own[p] + 1
    BY <1>3 DEF MobileInv, PhonesInv
  <2>2. local' = [local EXCEPT ![p] = With(@, -own'[p], Copy("period", k, NoPeriod, number, BaseAmount))]
    BY <1>1 DEF PhonePeriod
  <2> QED
    BY <1>2, <2>1, <2>2
<1>5. PICK t, n, R : t = rows /\ n = nextId /\ R = removed[p]
  OBVIOUS
<1>6. ViewOk(p, V, R, t, n, own[p]) /\ TreeOk(t, n)
  BY <1>1, <1>5 DEF MobileInv, ServerInv, ViewsInv
<1>7. CopyOk(V[k]) /\ k \in Int /\ k # 0 /\ k < n /\ k \in DOMAIN V
  BY <1>1, <1>6 DEF ViewOk, Keys
<1>8. DOMAIN c = CopyFields /\ c.kind = "period" /\ c.parent = k /\ c.period = NoPeriod
  BY <1>2 DEF Copy, CopyFields
<1>9. CopyOk(c)
  BY <1>7, <1>8 DEF CopyOk, Kinds, NoPeriod
<1>10. k \in DOMAIN t => t[k].kind = "debt"
  <2> SUFFICES ASSUME k \in DOMAIN t PROVE t[k].kind = "debt"
    OBVIOUS
  <2>1. k > 0
    BY <1>6 DEF TreeOk
  <2>2. Faithful(p, k, k, V, t)
    BY <1>6, <1>7, <2>1 DEF ViewOk, Means
  <2> QED
    BY <1>3, <2>2 DEF Faithful
<1>11. /\ c.parent \in DOMAIN V \/ c.parent > 0
       /\ c.parent < n
       /\ c.parent \in DOMAIN V => V[c.parent].kind = Above(c.kind)
       /\ c.parent \in DOMAIN t => t[c.parent].kind = Above(c.kind) /\ c.parent \in DOMAIN V \cup R
  BY <1>3, <1>7, <1>8, <1>10 DEF Above
<1>12. c.period # NoPeriod => c.period \in DOMAIN V /\ V[c.period].kind = "period" /\ V[c.period].parent = c.parent
  BY <1>8
<1> QED
  BY <1>1, <1>2, <1>3, <1>4, <1>5, <1>8, <1>9, <1>11, <1>12, AddStep

\* What a phone is left with.
Cut(V, gone) ==
  [j \in DOMAIN V \ gone |-> IF V[j].period \in gone THEN [V[j] EXCEPT !.period = NoPeriod] ELSE V[j]]

Tombstones(R, gone) == R \cup {j \in gone : j > 0}

StillView(p, V, W, Q, t, n, made) ==
  /\ ViewOk(p, W, Q, t, n, made) /\ DOMAIN W \subseteq DOMAIN V
  /\ \A j \in DOMAIN W : W[j].kind = V[j].kind /\ W[j].parent = V[j].parent /\ W[j].amount = V[j].amount

\* A row goes with its tree.
LEMMA DeletedView ==
  ASSUME NEW p, NEW V, NEW R, NEW t, NEW n \in Nat \ {0}, NEW n2, TreeOk(t, n2), NEW made, ViewOk(p, V, R, t, n, made),
         NEW k \in DOMAIN V, NEW gone, gone = Tree(k, V), NEW Q, Q = Tombstones(R, gone),
         NEW W, W = Cut(V, gone)
  PROVE  StillView(p, V, W, Q, t, n, made)
<1> USE DEF Cut, StillView, Tombstones
<1>1. \A j \in DOMAIN V : CopyOk(V[j]) /\ Linking(j, V, R, t, n) /\ Covering(j, V, t, n) /\ j \in Int /\ j # 0
  BY DEF ViewOk, Keys
<1>2. Layered(V)
  BY <1>1 DEF Layered, CopyOk, Linking
<1>3. k \in gone /\ gone \subseteq DOMAIN V /\ \A x \in DOMAIN V : V[x].parent \in gone => x \in gone
  BY <1>2, TreeClosed
<1>4. DOMAIN W = DOMAIN V \ gone
  OBVIOUS
<1>5. ASSUME NEW j \in DOMAIN W
      PROVE  /\ DOMAIN W[j] = CopyFields
             /\ W[j].kind = V[j].kind /\ W[j].parent = V[j].parent /\ W[j].amount = V[j].amount
             /\ W[j].period = NoPeriod \/ (W[j].period = V[j].period /\ V[j].period \notin gone)
  <2>1. DOMAIN V[j] = CopyFields
    BY <1>1, <1>4 DEF CopyOk
  <2>2. CASE V[j].period \in gone
    <3>1. W[j] = [V[j] EXCEPT !.period = NoPeriod]
      BY <1>4, <2>2
    <3> QED
      BY <2>1, <3>1 DEF CopyFields
  <2>3. CASE V[j].period \notin gone
    <3>1. W[j] = V[j]
      BY <1>4, <2>3
    <3> QED
      BY <2>1, <2>3, <3>1
  <2> QED
    BY <2>2, <2>3
<1>6. Keys(W, Q, n, made)
  <2>1. IsFiniteSet(DOMAIN W)
    BY <1>4, FS_Subset DEF ViewOk, Keys
  <2>2. Keys(V, R, n, made)
    BY DEF ViewOk
  <2>3. \A j \in Q : j \in Nat /\ 0 < j /\ j < n /\ j \notin DOMAIN W
    BY <1>3, <1>4, <2>2 DEF Keys
  <2> QED
    BY <1>4, <2>1, <2>2, <2>3 DEF Keys
<1>7. ASSUME NEW x \in DOMAIN V, x \notin gone PROVE V[x].parent \in DOMAIN V => V[x].parent \in DOMAIN W
  BY <1>3, <1>4, <1>7
<1>8. ASSUME NEW x \in DOMAIN W PROVE CopyOk(W[x]) /\ Linking(x, W, Q, t, n) /\ Covering(x, W, t, n)
  <2>1. x \in DOMAIN V /\ x \notin gone /\ CopyOk(V[x]) /\ Linking(x, V, R, t, n) /\ Covering(x, V, t, n)
    BY <1>1, <1>4
  <2>2. CopyOk(W[x])
    BY <1>5, <2>1 DEF CopyOk, NoPeriod
  <2>3. Linking(x, W, Q, t, n)
    <3>1. W[x].kind = V[x].kind /\ W[x].parent = V[x].parent
      BY <1>5
    <3>2. \A q \in DOMAIN W : q \in DOMAIN V /\ W[q].kind = V[q].kind
      BY <1>4, <1>5
    <3>3. V[x].parent \in DOMAIN V => V[x].parent \in DOMAIN W
      BY <1>7, <2>1
    <3> QED
      BY <2>1, <3>1, <3>2, <3>3 DEF Linking
  <2>4. Covering(x, W, t, n)
    <3> SUFFICES ASSUME W[x].period # NoPeriod PROVE Covering(x, W, t, n)
      BY DEF Covering
    <3>1. W[x].period = V[x].period /\ V[x].period \notin gone /\ W[x].parent = V[x].parent
      BY <1>5
    <3>2. V[x].period \in DOMAIN V => V[x].period \in DOMAIN W
      BY <1>4, <3>1
    <3>3. \A s \in DOMAIN W : W[s].kind = V[s].kind /\ W[s].parent = V[s].parent
      BY <1>5
    <3> QED
      BY <2>1, <3>1, <3>2, <3>3 DEF Covering
  <2> QED
    BY <2>2, <2>3, <2>4
<1>9. ASSUME NEW x \in DOMAIN W, NEW i \in DOMAIN t, Means(p, x, i, t) PROVE Faithful(p, x, i, W, t)
  <2>1. Faithful(p, x, i, V, t)
    BY <1>4, <1>9 DEF ViewOk
  <2>2. W[x].kind = V[x].kind /\ W[x].parent = V[x].parent /\ W[x].amount = V[x].amount
    BY <1>5
  <2> QED
    BY <2>1, <2>2 DEF Faithful
<1>10. ASSUME NEW i \in DOMAIN t \cap (DOMAIN W \cup Q), NEW x \in DOMAIN W PROVE t[i].origin # <<p, x>>
  BY <1>3, <1>4 DEF ViewOk
<1>11. ASSUME NEW j \in Q \cap DOMAIN t, t[j].kind \in {"period", "payment"} PROVE t[j].parent \in DOMAIN W \cup Q
  <2>1. PICK d : d = t[j].parent
    OBVIOUS
  <2>2. d \in DOMAIN t /\ d \in Nat /\ d > 0
    BY <1>11, <2>1 DEF TreeOk, Under
  <2>3. d \in DOMAIN V \cup R
    <3>1. CASE j \in R
      BY <1>11, <2>1, <3>1 DEF ViewOk
    <3>2. CASE j \in gone /\ j > 0
      <4>1. j \in DOMAIN V /\ Means(p, j, j, t)
        BY <1>3, <3>2 DEF Means
      <4>2. Faithful(p, j, j, V, t)
        BY <4>1 DEF ViewOk
      <4>3. V[j].kind = t[j].kind /\ V[j].parent = d
        BY <2>1, <3>2, <4>2 DEF Faithful
      <4> QED
        BY <1>1, <1>11, <2>2, <4>1, <4>3 DEF Linking
    <3> QED
      BY <3>1, <3>2
  <2> QED
    BY <1>4, <2>1, <2>2, <2>3
<1> QED
  BY <1>4, <1>5, <1>6, <1>8, <1>9, <1>10, <1>11 DEF ViewOk

\* A deletion made offline keeps the invariant.
LEMMA PhoneDeleteStep ==
  ASSUME MobileInv, NEW p \in Phones, NEW k \in DOMAIN local[p], PhoneDelete(p, k)
  PROVE  MobileInv'
<1>1. PICK V, gone, R, t, n, made :
        V = local[p] /\ gone = Tree(k, local[p]) /\ R = removed[p] /\ t = rows /\ n = nextId /\ made = own[p]
  OBVIOUS
<1>2. PICK Q, W : Q = Tombstones(R, gone) /\ W = Cut(V, gone)
  OBVIOUS
<1>3. /\ local' = [local EXCEPT ![p] = W] /\ removed' = [removed EXCEPT ![p] = Q]
      /\ UNCHANGED <<rows, dead, nextId, batches, sent, own, waiting>>
  BY <1>1, <1>2 DEF PhoneDelete, Cut, Tombstones, server
<1>4. n \in Nat \ {0} /\ TreeOk(t, n) /\ ViewOk(p, V, R, t, n, made) /\ made \in Nat /\ k \in DOMAIN V
  BY <1>1 DEF MobileInv, ServerInv, ViewsInv, PhonesInv
<1>5. /\ ViewOk(p, W, Q, t, n, made) /\ DOMAIN W \subseteq DOMAIN V
      /\ \A j \in DOMAIN W : W[j].kind = V[j].kind /\ W[j].parent = V[j].parent /\ W[j].amount = V[j].amount
  <2>1. gone = Tree(k, V)
    BY <1>1
  <2>2. StillView(p, V, W, Q, t, n, made)
    BY ONLY <1>2, <1>4, <2>1, DeletedView
  <2> QED
    BY <2>2 DEF StillView
<1>6. ASSUME NEW m \in Open, m.phone = p PROVE Agree(p, W, m.rows, rows)
  <2>1. Agree(p, V, m.rows, rows)
    BY <1>1, <1>6 DEF MobileInv, ViewsInv
  <2> QED
    BY <1>5, <2>1 DEF Agree
<1>7. /\ DOMAIN local' = Phones /\ DOMAIN removed' = Phones /\ DOMAIN own' = Phones /\ DOMAIN waiting' = Phones
      /\ local'[p] = W /\ removed'[p] = Q /\ own'[p] = made
      /\ \A q \in Phones : q # p => local'[q] = local[q] /\ removed'[q] = removed[q] /\ own'[q] = own[q]
  BY <1>1, <1>3 DEF MobileInv, PhonesInv
<1>8. ViewOk(p, W, Q, rows, nextId, made) /\ own[p] <= made
  BY <1>1, <1>4, <1>5
<1> QED
  BY <1>3, <1>4, <1>6, <1>7, <1>8, LocalMoves

\* So does a reply that is lost.
LEMMA GiveUpStep ==
  ASSUME MobileInv, NEW p, GiveUp(p)
  PROVE  MobileInv'
<1>1. UNCHANGED <<rows, dead, nextId, batches, local, own, removed, sent>> /\ DOMAIN waiting' = DOMAIN waiting
  BY DEF GiveUp, server
<1> QED
  BY <1>1 DEF MobileInv, ServerInv, SentInv, PhonesInv, ViewsInv, Open, Batch, Numbered

\* Copies agree with themselves.
LEMMA SelfAgree ==
  ASSUME NEW p, NEW V, NEW t, NEW n, TreeOk(t, n), \A k \in DOMAIN V : V[k].parent \in Int
  PROVE  Agree(p, V, V, t)
<1>1. \A i \in DOMAIN t : i \in Nat
  BY DEF TreeOk
<1> QED
  BY <1>1 DEF Agree, Same

\* An upload is a copy of what the phone holds, under a new number.
LEMMA UploadStep ==
  ASSUME MobileInv, NEW p \in Phones, Upload(p)
  PROVE  MobileInv'
<1>1. PICK number, mine, m :
        /\ mine = {x \in sent : x.phone = p} /\ number = 1 + Cardinality(mine)
        /\ m = [phone |-> p, number |-> number, rows |-> local[p], removed |-> removed[p]]
  OBVIOUS
<1>2. /\ sent' = sent \cup {m} /\ DOMAIN waiting' = Phones
      /\ UNCHANGED <<rows, dead, nextId, overdue, batches, local, own, removed>>
  BY <1>1 DEF Upload, server, MobileInv, PhonesInv
<1>3. /\ DOMAIN m = {"phone", "number", "rows", "removed"} /\ m.phone = p /\ m.number = number
      /\ m.rows = local[p] /\ m.removed = removed[p]
  BY <1>1
<1>4. IsFiniteSet(sent) /\ IsFiniteSet(mine) /\ Cardinality(mine) \in Nat
  <2>1. IsFiniteSet(sent)
    BY DEF MobileInv, SentInv
  <2>2. mine \subseteq sent
    BY <1>1
  <2> QED
    BY <2>1, <2>2, FS_Subset, FS_CardinalityType
<1>5. \A x \in sent : x.phone = p => x.number \in Nat /\ x.number < number
  <2> SUFFICES ASSUME NEW x \in sent, x.phone = p PROVE x.number \in Nat /\ x.number < number
    OBVIOUS
  <2>1. x.number \in Nat /\ x.number <= Numbered(x)
    BY DEF MobileInv, SentInv
  <2>2. Numbered(x) = Cardinality(mine)
    BY <1>1 DEF Numbered
  <2>3. PICK c : c = Cardinality(mine)
    OBVIOUS
  <2>4. c \in Nat /\ number = 1 + c /\ x.number <= c
    BY <1>1, <1>4, <2>1, <2>2, <2>3
  <2> QED
    BY <2>1, <2>4
<1>6. number \in Nat /\ 0 < number /\ m \notin sent /\ \A x \in sent : Batch(x) # Batch(m)
  <2>1. number \in Nat /\ 0 < number
    <3>1. PICK c : c = Cardinality(mine)
      OBVIOUS
    <3>2. c \in Nat /\ number = 1 + c
      BY <1>1, <1>4, <3>1
    <3> QED
      BY <3>2
  <2>2. \A x \in sent : Batch(x) # Batch(m)
    <3> SUFFICES ASSUME NEW x \in sent, x.phone = m.phone, x.number = m.number PROVE FALSE
      BY DEF Batch
    <3>1. x.number < number /\ x.number = number /\ x.number \in Nat
      BY <1>3, <1>5
    <3> QED
      BY <3>1
  <2> QED
    BY <2>1, <2>2
<1>7. Batch(m) \notin batches
  BY <1>6 DEF MobileInv, SentInv
<1>8. SentInv'
  <2>1. IsFiniteSet(sent')
    BY <1>2, <1>4, FS_AddElement
  <2>2. ASSUME NEW x \in sent' PROVE x.number <= Numbered(x)'
    <3>1. PICK A, B : A = {y \in sent : y.phone = x.phone} /\ B = {y \in sent' : y.phone = x.phone}
      OBVIOUS
    <3>2. Numbered(x)' = Cardinality(B) /\ Numbered(x) = Cardinality(A)
      BY <3>1 DEF Numbered
    <3>3. CASE x \in sent /\ x.phone # p
      <4>1. A = B
        BY <1>2, <1>3, <3>1, <3>3
      <4>2. x.number <= Numbered(x)
        BY <3>3 DEF MobileInv, SentInv
      <4> QED
        BY <3>2, <4>1, <4>2
    <3>4. CASE x.phone = p
      <4>1. A = mine /\ B = mine \cup {m} /\ m \notin mine
        BY <1>1, <1>2, <1>3, <1>6, <3>1, <3>4
      <4>2. Cardinality(B) = Cardinality(mine) + 1
        BY <1>4, <4>1, FS_AddElement
      <4>3. PICK c, b : c = Cardinality(mine) /\ b = Cardinality(B)
        OBVIOUS
      <4>4. c \in Nat /\ b = c + 1 /\ number = 1 + c
        BY <1>1, <1>4, <4>2, <4>3
      <4>5. x.number \in Nat /\ x.number <= number
        <5>1. CASE x = m
          BY <1>3, <1>6, <5>1
        <5>2. CASE x \in sent
          BY <1>5, <1>6, <3>4, <5>2
        <5> QED
          BY <1>2, <5>1, <5>2
      <4>6. x.number <= b
        BY <4>4, <4>5
      <4> QED
        BY <3>2, <4>3, <4>6
    <3>5. x \in sent \/ x.phone = p
      BY <1>2, <1>3
    <3> QED
      BY <3>3, <3>4, <3>5
  <2>3. ASSUME NEW x \in sent'
        PROVE  /\ DOMAIN x = {"phone", "number", "rows", "removed"} /\ x.phone \in Phones
               /\ x.number \in Nat /\ 0 < x.number /\ x.number <= Numbered(x)'
    <3>1. CASE x = m
      BY <1>3, <1>6, <2>2, <3>1
    <3>2. CASE x \in sent
      BY <2>2, <3>2 DEF MobileInv, SentInv
    <3> QED
      BY <1>2, <3>1, <3>2
  <2>4. \A x, y \in sent' : Batch(x) = Batch(y) => x = y
    BY <1>2, <1>6 DEF MobileInv, SentInv
  <2>5. \A b \in batches' : \E x \in sent' : b = Batch(x)
    BY <1>2 DEF MobileInv, SentInv
  <2>6. \A x \in sent' : Batch(x) \in batches' =>
          \A i \in x.removed : i \in Nat /\ i < nextId' /\ (i \in DOMAIN rows' => rows'[i].kind = "payment")
    BY <1>2, <1>7 DEF MobileInv, SentInv
  <2> QED
    BY <2>1, <2>3, <2>4, <2>5, <2>6 DEF SentInv, Batch
<1>9. Open' = Open \cup {m} /\ m \notin Open
  BY <1>2, <1>6, <1>7 DEF Open, Batch
<1>10. ViewOk(p, m.rows, m.removed, rows, nextId, own[p])
  BY <1>3 DEF MobileInv, ViewsInv
<1>11. TreeOk(rows, nextId) /\ \A k \in DOMAIN local[p] : local[p][k].parent \in Int
  BY <1>3, <1>10 DEF MobileInv, ServerInv, ViewOk, CopyOk
<1>12. Agree(p, local[p], m.rows, rows)
  <2>1. PICK V : V = local[p]
    OBVIOUS
  <2>2. Agree(p, V, V, rows)
    BY <1>11, <2>1, SelfAgree
  <2> QED
    BY <1>3, <2>1, <2>2
<1>13. ASSUME NEW x \in Open, x.phone = p PROVE Agree(p, m.rows, x.rows, rows) /\ Agree(p, x.rows, m.rows, rows)
  <2>1. Agree(p, m.rows, x.rows, rows)
    BY <1>3, <1>13 DEF MobileInv, ViewsInv
  <2> QED
    BY <2>1, SymmetricAgree
<1>14. ViewsInv'
  <2>1. \A q \in Phones : ViewOk(q, local[q], removed[q], rows, nextId, own[q])
    BY DEF MobileInv, ViewsInv
  <2>2. \A x \in Open' : ViewOk(x.phone, x.rows, x.removed, rows, nextId, own[x.phone])
    BY <1>3, <1>9, <1>10 DEF MobileInv, ViewsInv
  <2>3. \A x \in Open' : Agree(x.phone, local[x.phone], x.rows, rows)
    BY <1>3, <1>9, <1>12 DEF MobileInv, ViewsInv
  <2>4. \A x, y \in Open' : x.phone = y.phone => Agree(x.phone, x.rows, y.rows, rows)
    BY <1>3, <1>9, <1>12, <1>13 DEF MobileInv, ViewsInv
  <2> QED
    BY <1>2, <2>1, <2>2, <2>3, <2>4 DEF ViewsInv
<1>15. ServerInv' /\ PhonesInv'
  BY <1>2 DEF MobileInv, ServerInv, PhonesInv
<1> QED
  BY <1>8, <1>14, <1>15 DEF MobileInv

-----------------------------------------------------------------------------
(* Imports.                                                                *)

Shown(R, t) == {i \in DOMAIN t : t[i].kind = "payment" => t[i].active} \ R
FoundIn(p, k, S, t) == {i \in S : t[i].origin = <<p, k>>}
NamedIn(p, k, S, t) == IF k < 0 /\ FoundIn(p, k, S, t) # {} THEN Min(FoundIn(p, k, S, t)) ELSE k

\* A local key is replaced by the id of the row it names, if that is shown.
NameOk(p, k, x, S, t) ==
  /\ k >= 0 \/ FoundIn(p, k, S, t) = {} => x = k
  /\ k < 0 /\ FoundIn(p, k, S, t) # {} =>
       /\ x \in S /\ x \in Nat /\ x > 0
       /\ t[x].origin = <<p, k>> /\ \A i \in DOMAIN t : t[i].origin = <<p, k>> => i = x

\* A local key has the name that NameOk asks for.
LEMMA NamedIs ==
  ASSUME NEW p \in Phones, NEW t, NEW n, TreeOk(t, n), NEW made, Made(t, made), NEW S, S \subseteq DOMAIN t,
         NEW k \in Int, NEW x, x = NamedIn(p, k, S, t)
  PROVE  NameOk(p, k, x, S, t)
<1>1. ASSUME k < 0, FoundIn(p, k, S, t) # {}
      PROVE  /\ x \in S /\ x \in Nat /\ x > 0
             /\ t[x].origin = <<p, k>> /\ \A i \in DOMAIN t : t[i].origin = <<p, k>> => i = x
  <2>1. PICK i \in S : t[i].origin = <<p, k>>
    BY <1>1 DEF FoundIn
  <2>2. <<p, k>> # <<Web, 0>>
    BY MobileAssumption
  <2>3. \A j \in DOMAIN t : t[j].origin = <<p, k>> => j = i
    BY <2>1, <2>2 DEF Made
  <2>4. FoundIn(p, k, S, t) = {i}
    BY <2>1, <2>3 DEF FoundIn
  <2>5. i \in Nat /\ i > 0
    BY <2>1 DEF TreeOk
  <2>6. Min({i}) = i
    BY <2>5 DEF Min
  <2>7. x = i
    BY <1>1, <2>4, <2>6 DEF NamedIn
  <2> QED
    BY <2>1, <2>3, <2>5, <2>7
<1>2. k >= 0 \/ FoundIn(p, k, S, t) = {} => x = k
  BY DEF NamedIn
<1> QED
  BY <1>1, <1>2 DEF NameOk

\* What a phone is shown of a row.
LEMMA CopyOfRow ==
  ASSUME NEW r, NEW c, c = CopyOf(r), r.kind \in Kinds
  PROVE  /\ DOMAIN c = CopyFields /\ c.kind = r.kind
         /\ c.parent = r.parent
         /\ c.kind = "payment" => c.period = r.period /\ c.amount = r.amount
         /\ c.kind # "payment" => c.period = NoPeriod
<1>1. CASE r.kind = "period"
  <2>1. c = Copy("period", r.parent, NoPeriod, r.number, r.amount)
    BY <1>1 DEF CopyOf
  <2> QED
    BY <1>1, <2>1 DEF Copy, CopyFields
<1>2. CASE r.kind = "payment"
  <2>1. c = Copy("payment", r.parent, r.period, 0, r.amount)
    BY <1>2 DEF CopyOf
  <2> QED
    BY <1>2, <2>1 DEF Copy, CopyFields
<1>3. CASE r.kind \in {"client", "debt"}
  <2>1. c = Copy(r.kind, r.parent, NoPeriod, 0, 0)
    BY <1>3 DEF CopyOf
  <2> QED
    BY <1>3, <2>1 DEF Copy, CopyFields
<1> QED
  BY <1>1, <1>2, <1>3 DEF Kinds

\* A phone's rows after an import: what was shown, and what the server does not know.
Brings(p, V, S, t, W) ==
  /\ S \subseteq DOMAIN W
  /\ \A k \in S : W[k] = CopyOf(t[k])
  /\ \A k \in DOMAIN W \ S :
       /\ k \in DOMAIN V /\ (k < 0 => FoundIn(p, k, S, t) = {})
       /\ DOMAIN W[k] = CopyFields /\ W[k].kind = V[k].kind /\ W[k].amount = V[k].amount
       /\ W[k].parent = NamedIn(p, V[k].parent, S, t) /\ W[k].period = NamedIn(p, V[k].period, S, t)
  /\ \A k \in DOMAIN V : k < 0 /\ FoundIn(p, k, S, t) = {} => k \in DOMAIN W

Importing(p, V, R, t, n, made, Q, S, W) ==
  /\ p \in Phones /\ n \in Nat \ {0} /\ made \in Nat /\ TreeOk(t, n) /\ (\E all : Made(t, all))
  /\ ViewOk(p, V, R, t, n, made)
  /\ Q \subseteq R /\ (\A j \in R \ Q : j \in DOMAIN t => t[j].kind = "payment")
  /\ S = Shown(R, t) /\ Brings(p, V, S, t, W)

\* Every row but a payment is shown, or has a tombstone; what is shown is imported.
LEMMA ShownRows ==
  ASSUME NEW p, NEW V, NEW R, NEW t, NEW n, NEW made, NEW Q, NEW S, NEW W,
         Importing(p, V, R, t, n, made, Q, S, W)
  PROVE  /\ S \subseteq DOMAIN t /\ S \cap R = {} /\ S \subseteq DOMAIN W
         /\ \A d \in DOMAIN t : t[d].kind # "payment" => d \in S \cup Q
         /\ \A k \in S : /\ DOMAIN W[k] = CopyFields /\ W[k].kind = t[k].kind /\ W[k].parent = t[k].parent
                         /\ t[k].kind = "payment" => W[k].period = t[k].period /\ W[k].amount = t[k].amount
                         /\ t[k].kind # "payment" => W[k].period = NoPeriod
<1>1. S \subseteq DOMAIN t /\ S \cap R = {} /\ \A d \in DOMAIN t : t[d].kind # "payment" => d \in S \cup R
  BY DEF Importing, Shown
<1>2. \A d \in DOMAIN t : t[d].kind # "payment" => d \in S \cup Q
  BY <1>1 DEF Importing
<1>3. S \subseteq DOMAIN W
  BY DEF Importing, Brings
<1>4. ASSUME NEW k \in S
      PROVE  /\ DOMAIN W[k] = CopyFields /\ W[k].kind = t[k].kind /\ W[k].parent = t[k].parent
             /\ t[k].kind = "payment" => W[k].period = t[k].period /\ W[k].amount = t[k].amount
             /\ t[k].kind # "payment" => W[k].period = NoPeriod
  <2>1. t[k].kind \in Kinds
    BY <1>1 DEF Importing, TreeOk, RowOk
  <2>2. PICK r, c : r = t[k] /\ c = W[k]
    OBVIOUS
  <2>3. c = CopyOf(r)
    BY <2>2 DEF Importing, Brings
  <2> QED
    BY <2>1, <2>2, <2>3, CopyOfRow
<1> QED
  BY <1>1, <1>2, <1>3, <1>4

\* A row that was not shown is the phone's own copy, under names that may be new.
LEMMA KeptRows ==
  ASSUME NEW p, NEW V, NEW R, NEW t, NEW n, NEW made, NEW Q, NEW S, NEW W,
         Importing(p, V, R, t, n, made, Q, S, W), NEW k \in DOMAIN W \ S,
         NEW q, q = V[k].parent, NEW s, s = V[k].period, NEW x, x = W[k].parent, NEW y, y = W[k].period
  PROVE  /\ k \in DOMAIN V /\ (k < 0 => FoundIn(p, k, S, t) = {})
         /\ DOMAIN W[k] = CopyFields /\ W[k].kind = V[k].kind /\ W[k].amount = V[k].amount
         /\ CopyOk(V[k]) /\ Linking(k, V, R, t, n) /\ Covering(k, V, t, n)
         /\ k \in Int /\ k # 0 /\ k < n /\ -made <= k /\ k \notin R
         /\ q \in Int /\ s \in Int /\ NameOk(p, q, x, S, t) /\ NameOk(p, s, y, S, t)
<1>1. /\ k \in DOMAIN V /\ (k < 0 => FoundIn(p, k, S, t) = {})
      /\ DOMAIN W[k] = CopyFields /\ W[k].kind = V[k].kind /\ W[k].amount = V[k].amount
      /\ x = NamedIn(p, q, S, t) /\ y = NamedIn(p, s, S, t)
  BY DEF Importing, Brings
<1>2. /\ CopyOk(V[k]) /\ Linking(k, V, R, t, n) /\ Covering(k, V, t, n)
      /\ k \in Int /\ k # 0 /\ k < n /\ -made <= k /\ k \notin R
  BY <1>1 DEF Importing, ViewOk, Keys
<1>3. q \in Int /\ s \in Int
  BY <1>2 DEF CopyOk
<1>4. S \subseteq DOMAIN t
  BY ShownRows
<1>5. NameOk(p, q, x, S, t) /\ NameOk(p, s, y, S, t)
  BY <1>1, <1>3, <1>4, NamedIs DEF Importing
<1> QED
  BY <1>1, <1>2, <1>3, <1>5

\* The keys after an import.
LEMMA ImportedKeys ==
  ASSUME NEW p, NEW V, NEW R, NEW t, NEW n, NEW made, NEW Q, NEW S, NEW W,
         Importing(p, V, R, t, n, made, Q, S, W)
  PROVE  Keys(W, Q, n, made)
<1>1. n \in Nat /\ made \in Nat /\ Q \subseteq R
  BY DEF Importing
<1>2. \A i \in DOMAIN t : i \in Nat /\ 0 < i /\ i < n
  BY DEF Importing, TreeOk
<1>3. S \subseteq DOMAIN t /\ S \cap R = {} /\ S \subseteq DOMAIN W
  BY ShownRows
<1>4. IsFiniteSet(DOMAIN V) /\ \A j \in R : j \in Nat /\ 0 < j /\ j < n
  BY DEF Importing, ViewOk, Keys
<1>5. ASSUME NEW k \in DOMAIN W PROVE k \in Int /\ k # 0 /\ k < n /\ -made <= k /\ k \notin R /\ k \in DOMAIN V \cup (0..n)
  <2>1. CASE k \in S
    <3>1. k \in Nat /\ 0 < k /\ k < n /\ k \notin R
      BY <1>2, <1>3, <2>1
    <3>2. -made <= k /\ k \in 0..n
      BY <1>1, <3>1
    <3> QED
      BY <3>1, <3>2
  <2>2. CASE k \notin S
    BY <2>2, KeptRows
  <2> QED
    BY <2>1, <2>2
<1>6. IsFiniteSet(DOMAIN W)
  <2>1. IsFiniteSet(0..n)
    BY <1>1, FS_Interval
  <2>2. IsFiniteSet(DOMAIN V \cup (0..n))
    BY <1>4, <2>1, FS_Union
  <2>3. DOMAIN W \subseteq DOMAIN V \cup (0..n)
    BY <1>5
  <2> QED
    BY <2>2, <2>3, FS_Subset
<1> QED
  BY <1>1, <1>4, <1>5, <1>6 DEF Keys

\* The row above one that was not shown, under its name.
LEMMA KeptParent ==
  ASSUME NEW p, NEW V, NEW R, NEW t, NEW n, NEW made, NEW Q, NEW S, NEW W,
         Importing(p, V, R, t, n, made, Q, S, W), NEW k \in DOMAIN W \ S, V[k].kind # "client",
         NEW q, q = V[k].parent, NEW x, x = W[k].parent
  PROVE  /\ x \in Int /\ x # 0 /\ x < n /\ (q > 0 => x = q)
         /\ x < 0 => x = q /\ x \in DOMAIN W
         /\ x \in DOMAIN t => t[x].kind = Above(V[k].kind) /\ x \in S \cup Q
<1>1. /\ k \in DOMAIN V /\ CopyOk(V[k]) /\ Linking(k, V, R, t, n)
      /\ q \in Int /\ NameOk(p, q, x, S, t)
  <2>1. PICK s, y : s = V[k].period /\ y = W[k].period
    OBVIOUS
  <2> QED
    BY <2>1, KeptRows
<1>2. q # 0 /\ n \in Nat
  BY <1>1 DEF CopyOk, Importing
<1>3. S \subseteq DOMAIN t /\ (\A d \in DOMAIN t : t[d].kind # "payment" => d \in S \cup Q)
  BY ShownRows
<1>4. \A i \in DOMAIN t : i \in Nat /\ 0 < i /\ i < n
  BY DEF Importing, TreeOk
<1>5. \/ x = q
      \/ x \in S /\ q < 0 /\ t[x].origin = <<p, q>>
  BY <1>1, <1>2 DEF NameOk
<1>6. q > 0 => x = q
  BY <1>1 DEF NameOk
<1>7. q < n
  BY <1>1 DEF Linking
<1>8. x \in Int /\ x # 0 /\ x < n
  BY <1>1, <1>2, <1>3, <1>4, <1>5, <1>7
<1>9. ASSUME x < 0 PROVE x = q /\ x \in DOMAIN W
  <2>1. x \notin S
    BY <1>3, <1>4, <1>9
  <2>2. x = q /\ FoundIn(p, q, S, t) = {}
    BY <1>1, <1>5, <1>9, <2>1 DEF NameOk
  <2>3. q \in DOMAIN V
    BY <1>1, <1>9, <2>2 DEF Linking
  <2> QED
    BY <1>9, <2>2, <2>3 DEF Importing, Brings
<1>10. ASSUME x \in DOMAIN t PROVE t[x].kind = Above(V[k].kind) /\ x \in S \cup Q
  <2>1. t[x].kind = Above(V[k].kind)
    <3>1. CASE x = q
      BY <1>1, <1>10, <3>1 DEF Linking
    <3>2. CASE q < 0 /\ t[x].origin = <<p, q>>
      <4>1. q \in DOMAIN V /\ V[q].kind = Above(V[k].kind)
        BY <1>1, <3>2 DEF Linking
      <4>2. Means(p, q, x, t)
        BY <1>1, <3>2 DEF Means
      <4>3. Faithful(p, q, x, V, t)
        BY <1>10, <4>1, <4>2 DEF Importing, ViewOk
      <4> QED
        BY <4>1, <4>3 DEF Faithful
    <3> QED
      BY <1>5, <3>1, <3>2
  <2>2. t[x].kind # "payment"
    BY <2>1 DEF Above
  <2> QED
    BY <1>3, <1>10, <2>1, <2>2
<1> QED
  BY <1>6, <1>8, <1>9, <1>10

\* Every row that was imported or kept has its row above it.
LEMMA ImportedLinking ==
  ASSUME NEW p, NEW V, NEW R, NEW t, NEW n, NEW made, NEW Q, NEW S, NEW W,
         Importing(p, V, R, t, n, made, Q, S, W), NEW k \in DOMAIN W
  PROVE  Linking(k, W, Q, t, n)
<1>1. S \subseteq DOMAIN t /\ S \subseteq DOMAIN W /\ (\A d \in DOMAIN t : t[d].kind # "payment" => d \in S \cup Q)
  BY ShownRows
<1>2. \A i \in S : W[i].kind = t[i].kind /\ W[i].parent = t[i].parent
  BY ShownRows
<1>3. \A i \in DOMAIN t : i \in Nat /\ 0 < i /\ i < n /\ Under(i, t)
  BY DEF Importing, TreeOk
<1>4. n \in Nat
  BY DEF Importing
<1> SUFFICES ASSUME W[k].kind # "client"
    PROVE  /\ W[k].parent < n /\ (k > 0 => W[k].parent > 0)
           /\ W[k].parent < 0 => W[k].parent \in DOMAIN W
           /\ W[k].parent \in DOMAIN W => W[W[k].parent].kind = Above(W[k].kind)
           /\ W[k].parent \in DOMAIN t => t[W[k].parent].kind = Above(W[k].kind) /\ W[k].parent \in DOMAIN W \cup Q
  BY DEF Linking
<1>5. PICK x : x = W[k].parent
  OBVIOUS
<1>6. CASE k \in S
  <2>1. x \in DOMAIN t /\ t[x].kind = Above(W[k].kind)
    BY <1>1, <1>2, <1>3, <1>5, <1>6 DEF Under
  <2>2. x \in Nat /\ 0 < x /\ x < n
    BY <1>3, <2>1
  <2>3. x \in S \cup Q
    <3>1. t[x].kind # "payment"
      BY <2>1 DEF Above
    <3> QED
      BY <1>1, <2>1, <3>1
  <2>4. ASSUME x \in DOMAIN W PROVE W[x].kind = t[x].kind
    <3>1. CASE x \in S
      BY <1>2, <3>1
    <3>2. CASE x \notin S
      <4>1. x \in DOMAIN V /\ W[x].kind = V[x].kind
        BY <2>4, <3>2, KeptRows
      <4>2. Means(p, x, x, t)
        BY <2>2 DEF Means
      <4>3. Faithful(p, x, x, V, t)
        BY <2>1, <4>1, <4>2 DEF Importing, ViewOk
      <4> QED
        BY <4>1, <4>3 DEF Faithful
    <3> QED
      BY <3>1, <3>2
  <2> QED
    BY <1>1, <1>5, <2>1, <2>2, <2>3, <2>4
<1>7. CASE k \notin S
  <2>1. PICK q : q = V[k].parent
    OBVIOUS
  <2>2. k \in DOMAIN V /\ W[k].kind = V[k].kind /\ Linking(k, V, R, t, n) /\ k \in Int
    BY <1>7, KeptRows
  <2>3. /\ x \in Int /\ x # 0 /\ x < n /\ (q > 0 => x = q)
        /\ x < 0 => x = q /\ x \in DOMAIN W
        /\ x \in DOMAIN t => t[x].kind = Above(V[k].kind) /\ x \in S \cup Q
    BY <1>5, <1>7, <2>1, <2>2, KeptParent
  <2>4. k > 0 => x > 0
    BY <2>1, <2>2, <2>3 DEF Linking
  <2>5. ASSUME x \in DOMAIN W PROVE W[x].kind = Above(V[k].kind)
    <3>1. CASE x \in S
      BY <1>1, <1>2, <2>3, <3>1
    <3>2. CASE x \notin S
      <4>1. x \in DOMAIN V /\ W[x].kind = V[x].kind
        BY <2>5, <3>2, KeptRows
      <4>2. q \in Int /\ NameOk(p, q, x, S, t)
        <5>1. PICK s, y : s = V[k].period /\ y = W[k].period
          OBVIOUS
        <5> QED
          BY <1>5, <1>7, <2>1, <5>1, KeptRows
      <4>3. x = q
        BY <3>2, <4>2, <2>1, <2>2 DEF NameOk
      <4> QED
        BY <2>1, <2>2, <4>1, <4>3 DEF Linking
    <3> QED
      BY <3>1, <3>2
  <2> QED
    BY <1>1, <1>5, <2>2, <2>3, <2>4, <2>5
<1> QED
  BY <1>6, <1>7

\* The period of a payment that was not shown, under its name.
LEMMA KeptPeriod ==
  ASSUME NEW p, NEW V, NEW R, NEW t, NEW n, NEW made, NEW Q, NEW S, NEW W,
         Importing(p, V, R, t, n, made, Q, S, W), NEW k \in DOMAIN W \ S,
         NEW q, q = V[k].parent, NEW s, s = V[k].period, s # NoPeriod,
         NEW x, x = W[k].parent, NEW y, y = W[k].period, y \in S, s < 0, t[y].origin = <<p, s>>
  PROVE  /\ x > 0 /\ t[y].kind = "period"
         /\ x \in DOMAIN t => t[y].parent = x
<1>1. /\ k \in DOMAIN V /\ CopyOk(V[k]) /\ Linking(k, V, R, t, n) /\ Covering(k, V, t, n)
      /\ q \in Int /\ s \in Int /\ NameOk(p, q, x, S, t)
  BY KeptRows
<1>2. S \subseteq DOMAIN t /\ S \cap R = {} /\ (\A d \in DOMAIN t : t[d].kind # "payment" => d \in S \cup Q)
  BY ShownRows
<1>3. s \in DOMAIN V /\ V[s].kind = "period" /\ V[s].parent = q
  BY <1>1 DEF Covering
<1>4. Means(p, s, y, t)
  BY <1>1 DEF Means
<1>5. Faithful(p, s, y, V, t)
  BY <1>2, <1>3, <1>4 DEF Importing, ViewOk
<1>6. t[y].kind = "period"
  BY <1>3, <1>5 DEF Faithful
<1>7. PICK j : j = t[y].parent
  OBVIOUS
<1>8. j \in DOMAIN t /\ t[j].kind = "debt" /\ j \in Nat /\ 0 < j
  BY <1>2, <1>6, <1>7 DEF Importing, TreeOk, Under, Above
<1>9. V[k].kind = "payment" /\ q # 0
  BY <1>1 DEF CopyOk
<1>10. CASE q > 0
  <2>1. x = q
    BY <1>1, <1>10 DEF NameOk
  <2>2. q \in DOMAIN t => t[y].parent = q
    BY <1>3, <1>5, <1>10 DEF Faithful
  <2> QED
    BY <1>6, <1>10, <2>1, <2>2
<1>11. CASE q < 0
  <2>1. t[j].origin = <<p, q>>
    BY <1>3, <1>5, <1>7, <1>11 DEF Faithful
  <2>2. q \in DOMAIN V
    BY <1>1, <1>9, <1>11 DEF Linking
  <2>3. j \notin R
    BY <1>8, <2>1, <2>2 DEF Importing, ViewOk
  <2>4. j \in S
    BY <1>2, <1>8, <2>3 DEF Importing
  <2>5. FoundIn(p, q, S, t) # {}
    BY <2>1, <2>4 DEF FoundIn
  <2>6. x = j
    BY <1>1, <1>8, <1>11, <2>1, <2>5 DEF NameOk
  <2> QED
    BY <1>6, <1>7, <1>8, <2>6
<1> QED
  BY <1>1, <1>9, <1>10, <1>11

\* And its period.
LEMMA ImportedCovering ==
  ASSUME NEW p, NEW V, NEW R, NEW t, NEW n, NEW made, NEW Q, NEW S, NEW W,
         Importing(p, V, R, t, n, made, Q, S, W), NEW k \in DOMAIN W
  PROVE  Covering(k, W, t, n)
<1>1. S \subseteq DOMAIN t
  BY ShownRows
<1>2. \A i \in S : /\ W[i].kind = t[i].kind /\ W[i].parent = t[i].parent
                   /\ t[i].kind = "payment" => W[i].period = t[i].period
                   /\ t[i].kind # "payment" => W[i].period = NoPeriod
  BY ShownRows
<1>3. \A i \in DOMAIN t : i \in Nat /\ 0 < i /\ i < n /\ Under(i, t) /\ Paying(i, t)
  BY DEF Importing, TreeOk
<1>4. n \in Nat
  BY DEF Importing
<1>5. PICK x, y : x = W[k].parent /\ y = W[k].period
  OBVIOUS
<1> SUFFICES ASSUME y # NoPeriod
    PROVE  /\ y < n
           /\ y < 0 => y \in DOMAIN W /\ W[y].kind = "period" /\ W[y].parent = x
           /\ y > 0 => x > 0
           /\ y \in DOMAIN t => /\ t[y].kind = "period"
                                /\ x \in DOMAIN t => t[y].parent = x
  BY <1>5 DEF Covering
<1>6. CASE k \in S
  <2>1. t[k].kind = "payment" /\ y = t[k].period /\ x = t[k].parent
    BY <1>2, <1>5, <1>6
  <2>2. y \in DOMAIN t /\ t[y].kind = "period" /\ t[y].parent = x
    BY <1>1, <1>3, <1>6, <2>1 DEF Paying
  <2>3. x \in DOMAIN t
    BY <1>1, <1>3, <1>6, <2>1 DEF Under
  <2> QED
    BY <1>3, <2>2, <2>3
<1>7. CASE k \notin S
  <2>1. PICK q, s : q = V[k].parent /\ s = V[k].period
    OBVIOUS
  <2>2. /\ k \in DOMAIN V /\ CopyOk(V[k]) /\ Linking(k, V, R, t, n) /\ Covering(k, V, t, n)
        /\ q \in Int /\ s \in Int /\ NameOk(p, q, x, S, t) /\ NameOk(p, s, y, S, t)
    BY <1>5, <1>7, <2>1, KeptRows
  <2>3. s # NoPeriod
    BY <2>2 DEF NameOk, NoPeriod
  <2>4. CASE y \in S /\ s < 0 /\ t[y].origin = <<p, s>>
    <3>1. /\ x > 0 /\ t[y].kind = "period"
          /\ x \in DOMAIN t => t[y].parent = x
      BY <1>5, <1>7, <2>1, <2>3, <2>4, KeptPeriod
    <3>2. y \in Nat /\ y < n
      BY <1>1, <1>3, <2>4
    <3> QED
      BY <3>1, <3>2
  <2>5. CASE y = s /\ (s < 0 => FoundIn(p, s, S, t) = {})
    <3>1. y < n
      BY <2>1, <2>3, <2>2, <2>5 DEF Covering
    <3>2. ASSUME y < 0 PROVE y \in DOMAIN W /\ W[y].kind = "period" /\ W[y].parent = x
      <4>1. s \in DOMAIN V /\ V[s].kind = "period" /\ V[s].parent = q
        BY <2>1, <2>3, <2>2, <2>5, <3>2 DEF Covering
      <4>2. y \in DOMAIN W /\ y \notin S
        <5>1. y \in DOMAIN W
          BY <2>5, <3>2, <4>1 DEF Importing, Brings
        <5>2. y \notin S
          BY <1>1, <1>3, <3>2
        <5> QED
          BY <5>1, <5>2
      <4>3. W[y].kind = V[y].kind /\ W[y].parent = NamedIn(p, V[y].parent, S, t)
        BY <4>2 DEF Importing, Brings
      <4>4. x = NamedIn(p, q, S, t)
        BY <1>5, <1>7, <2>1 DEF Importing, Brings
      <4> QED
        BY <2>5, <4>1, <4>2, <4>3, <4>4
    <3>3. ASSUME y > 0 PROVE x > 0
      <4>1. q > 0
        BY <2>1, <2>3, <2>2, <2>5, <3>3 DEF Covering
      <4> QED
        BY <2>2, <4>1 DEF NameOk
    <3>4. ASSUME y \in DOMAIN t PROVE t[y].kind = "period" /\ (x \in DOMAIN t => t[y].parent = x)
      <4>1. y > 0
        BY <1>3, <3>4
      <4>2. q > 0
        BY <2>1, <2>3, <2>2, <2>5, <4>1 DEF Covering
      <4>3. x = q
        BY <2>2, <4>2 DEF NameOk
      <4> QED
        BY <2>1, <2>3, <2>2, <2>5, <3>4, <4>3 DEF Covering
    <3> QED
      BY <3>1, <3>2, <3>3, <3>4
  <2>6. (y \in S /\ s < 0 /\ t[y].origin = <<p, s>>) \/ (y = s /\ (s < 0 => FoundIn(p, s, S, t) = {}))
    BY <2>2 DEF NameOk
  <2> QED
    BY <2>4, <2>5, <2>6
<1> QED
  BY <1>6, <1>7

\* And agrees with the row of the server that it means.
LEMMA ImportedFaithful ==
  ASSUME NEW p, NEW V, NEW R, NEW t, NEW n, NEW made, NEW Q, NEW S, NEW W,
         Importing(p, V, R, t, n, made, Q, S, W), NEW k \in DOMAIN W, NEW i \in DOMAIN t, Means(p, k, i, t)
  PROVE  Faithful(p, k, i, W, t)
<1>1. S \subseteq DOMAIN t
  BY ShownRows
<1>2. \A j \in DOMAIN t : j \in Nat /\ 0 < j /\ j < n /\ RowOk(t[j]) /\ Under(j, t)
  BY DEF Importing, TreeOk
<1>3. PICK x : x = W[k].parent
  OBVIOUS
<1>4. CASE k \in S
  <2>1. k = i
    BY <1>1, <1>2, <1>4 DEF Means
  <2>2. /\ W[k].kind = t[k].kind /\ W[k].parent = t[k].parent
        /\ t[k].kind = "payment" => W[k].amount = t[k].amount
    BY <1>4, ShownRows
  <2>3. ~(t[i].parent < 0)
    <3>1. CASE t[i].kind = "client"
      BY <1>2, <3>1 DEF RowOk
    <3>2. CASE t[i].kind # "client"
      BY <1>2, <3>2 DEF Under
    <3> QED
      BY <3>1, <3>2
  <2> QED
    BY <2>1, <2>2, <2>3 DEF Faithful
<1>5. CASE k \notin S
  <2>1. PICK q, s, y : q = V[k].parent /\ s = V[k].period /\ y = W[k].period
    OBVIOUS
  <2>2. /\ k \in DOMAIN V /\ CopyOk(V[k]) /\ Linking(k, V, R, t, n) /\ k \in Int
        /\ W[k].kind = V[k].kind /\ W[k].amount = V[k].amount
        /\ q \in Int /\ NameOk(p, q, x, S, t)
    BY <1>3, <1>5, <2>1, KeptRows
  <2>3. Faithful(p, k, i, V, t)
    BY <2>2 DEF Importing, ViewOk
  <2>4. /\ t[i].kind = V[k].kind /\ (t[i].kind = "payment" => t[i].amount = V[k].amount)
        /\ (k > 0 => t[i].parent = q) /\ (q > 0 /\ q \in DOMAIN t => t[i].parent = q)
        /\ (q < 0 => t[t[i].parent].origin = <<p, q>>)
    BY <2>1, <2>3 DEF Faithful
  <2>5. x = q \/ (q < 0 /\ x \in Nat /\ \A j \in DOMAIN t : t[j].origin = <<p, q>> => j = x)
    BY <2>2 DEF NameOk
  <2>6. CASE x = q
    BY <1>3, <2>1, <2>2, <2>4, <2>6 DEF Faithful
  <2>7. CASE q < 0 /\ x \in Nat /\ \A j \in DOMAIN t : t[j].origin = <<p, q>> => j = x
    <3>1. V[k].kind # "client"
      BY <2>1, <2>2, <2>7 DEF CopyOk
    <3>2. t[i].parent \in DOMAIN t
      BY <1>2, <2>4, <3>1 DEF Under
    <3>3. t[i].parent = x
      BY <2>4, <2>7, <3>2
    <3>4. ~(x < 0)
      BY <2>7
    <3> QED
      BY <1>3, <2>2, <2>4, <3>3, <3>4 DEF Faithful
  <2> QED
    BY <2>5, <2>6, <2>7
<1> QED
  BY <1>4, <1>5

\* What a phone holds after an import is a view of the rows.
LEMMA ImportedView ==
  ASSUME NEW p, NEW V, NEW R, NEW t, NEW n, NEW made, NEW Q, NEW S, NEW W,
         Importing(p, V, R, t, n, made, Q, S, W)
  PROVE  ViewOk(p, W, Q, t, n, made)
<1>1. Keys(W, Q, n, made)
  BY ImportedKeys
<1>2. S \subseteq DOMAIN t /\ S \subseteq DOMAIN W /\ (\A d \in DOMAIN t : t[d].kind # "payment" => d \in S \cup Q)
  BY ShownRows
<1>3. \A i \in DOMAIN t : i \in Nat /\ 0 < i /\ i < n /\ RowOk(t[i]) /\ Under(i, t) /\ Paying(i, t)
  BY DEF Importing, TreeOk
<1>4. ASSUME NEW k \in DOMAIN W PROVE CopyOk(W[k])
  <2>1. CASE k \in S
    <3>1. /\ DOMAIN W[k] = CopyFields /\ W[k].kind = t[k].kind /\ W[k].parent = t[k].parent
          /\ t[k].kind = "payment" => W[k].period = t[k].period
          /\ t[k].kind # "payment" => W[k].period = NoPeriod
      BY <2>1, ShownRows
    <3>2. RowOk(t[k]) /\ Under(k, t) /\ Paying(k, t)
      BY <1>2, <1>3, <2>1
    <3>3. W[k].kind \in Kinds
      BY <3>1, <3>2 DEF RowOk
    <3>4. W[k].parent \in Int /\ (W[k].parent = 0 <=> W[k].kind = "client")
      <4>1. CASE t[k].kind = "client"
        BY <3>1, <3>2, <4>1 DEF RowOk
      <4>2. CASE t[k].kind # "client"
        BY <1>3, <3>1, <3>2, <4>2 DEF Under
      <4> QED
        BY <4>1, <4>2
    <3>5. W[k].period \in Int /\ (W[k].kind # "payment" => W[k].period = NoPeriod)
      BY <1>3, <3>1, <3>2 DEF Paying, NoPeriod
    <3> QED
      BY <3>1, <3>3, <3>4, <3>5 DEF CopyOk
  <2>2. CASE k \notin S
    <3>1. PICK q, x, s, y : q = V[k].parent /\ s = V[k].period /\ x = W[k].parent /\ y = W[k].period
      OBVIOUS
    <3>2. /\ CopyOk(V[k]) /\ DOMAIN W[k] = CopyFields /\ W[k].kind = V[k].kind
          /\ q \in Int /\ s \in Int /\ NameOk(p, q, x, S, t) /\ NameOk(p, s, y, S, t)
      BY <2>2, <3>1, KeptRows
    <3>3. x \in Int /\ (x = 0 <=> q = 0)
      BY <3>2 DEF NameOk
    <3>4. y \in Int /\ (y = 0 <=> s = 0)
      BY <3>2 DEF NameOk
    <3> QED
      BY <3>1, <3>2, <3>3, <3>4 DEF CopyOk, NoPeriod
  <2> QED
    BY <2>1, <2>2
<1>5. ASSUME NEW i \in DOMAIN t \cap (DOMAIN W \cup Q), NEW k \in DOMAIN W, t[i].origin = <<p, k>> PROVE FALSE
  <2>1. k < 0 /\ k \in Int
    BY <1>5 DEF Importing, Made
  <2>2. k \notin S
    BY <1>2, <1>3, <2>1
  <2>3. k \in DOMAIN V /\ FoundIn(p, k, S, t) = {}
    BY <2>1, <2>2, KeptRows
  <2>4. i \notin S
    BY <1>5, <2>3 DEF FoundIn
  <2>5. i \in DOMAIN V \cup R
    BY <2>4 DEF Importing, Brings
  <2> QED
    BY <1>5, <2>3, <2>5 DEF Importing, ViewOk
<1>6. ASSUME NEW j \in Q \cap DOMAIN t, t[j].kind \in {"period", "payment"} PROVE t[j].parent \in DOMAIN W \cup Q
  <2>1. t[j].parent \in DOMAIN t /\ t[t[j].parent].kind = "debt"
    BY <1>3, <1>6 DEF Under, Above
  <2> QED
    BY <1>2, <2>1
<1>7. \A k \in DOMAIN W : Linking(k, W, Q, t, n) /\ Covering(k, W, t, n)
  BY ImportedLinking, ImportedCovering
<1>8. \A k \in DOMAIN W, i \in DOMAIN t : Means(p, k, i, t) => Faithful(p, k, i, W, t)
  BY ImportedFaithful
<1> QED
  BY <1>1, <1>4, <1>5, <1>6, <1>7, <1>8 DEF ViewOk

\* And agrees with the uploads of the phone that may yet arrive.
LEMMA ImportedAgree ==
  ASSUME NEW p, NEW V, NEW R, NEW t, NEW n, NEW made, NEW Q, NEW S, NEW W,
         Importing(p, V, R, t, n, made, Q, S, W), NEW U, Agree(p, V, U, t)
  PROVE  Agree(p, W, U, t)
<1>1. S \subseteq DOMAIN t /\ \A i \in DOMAIN t : i \in Nat /\ 0 < i
  BY ShownRows DEF Importing, TreeOk
<1> SUFFICES ASSUME NEW k \in DOMAIN W \cap DOMAIN U, k < 0
    PROVE  /\ W[k].kind = U[k].kind /\ W[k].amount = U[k].amount
           /\ Same(p, W[k].parent, U[k].parent, t)
  BY DEF Agree
<1>2. k \notin S
  BY <1>1
<1>3. PICK q, s, x, y, r : q = V[k].parent /\ s = V[k].period /\ x = W[k].parent /\ y = W[k].period /\ r = U[k].parent
  OBVIOUS
<1>4. k \in DOMAIN V /\ W[k].kind = V[k].kind /\ W[k].amount = V[k].amount /\ q \in Int /\ NameOk(p, q, x, S, t)
  BY <1>2, <1>3, KeptRows
<1>5. V[k].kind = U[k].kind /\ V[k].amount = U[k].amount /\ Same(p, q, r, t)
  BY <1>3, <1>4 DEF Agree
<1>6. Same(p, x, r, t)
  <2>1. x = q \/ (q < 0 /\ x \in Nat /\ x \in DOMAIN t /\ t[x].origin = <<p, q>> /\ \A j \in DOMAIN t : t[j].origin = <<p, q>> => j = x)
    BY <1>1, <1>4 DEF NameOk
  <2>2. CASE x = q
    BY <1>5, <2>2
  <2>3. CASE q < 0 /\ x \in Nat /\ x \in DOMAIN t /\ t[x].origin = <<p, q>> /\ \A j \in DOMAIN t : t[j].origin = <<p, q>> => j = x
    <3>1. ~(x < 0)
      BY <2>3
    <3>2. r < 0 /\ x \in DOMAIN t => t[x].origin = <<p, r>>
      BY <1>5, <2>3 DEF Same
    <3>3. x \in DOMAIN t /\ r \in DOMAIN t => x = r
      BY <1>5, <2>3 DEF Same
    <3> QED
      BY <3>1, <3>2, <3>3 DEF Same
  <2> QED
    BY <2>1, <2>2, <2>3
<1> QED
  BY <1>3, <1>4, <1>5, <1>6

\* The rows of a phone after it imports the rows S.
Snapshot(p, V, S, t) ==
  [k \in S \cup {j \in DOMAIN V : j < 0 /\ FoundIn(p, j, S, t) = {}}
           \cup {NamedIn(p, j, S, t) :
                    j \in {i \in DOMAIN V : Tree(i, V) \cap {j \in DOMAIN V : j < 0 /\ FoundIn(p, j, S, t) = {}} # {}}} |->
     IF k \in S THEN CopyOf(t[k])
     ELSE [V[k] EXCEPT !.parent = NamedIn(p, @, S, t), !.period = NamedIn(p, @, S, t)]]

\* An import brings what is shown and keeps what the server does not know.
LEMMA Brought ==
  ASSUME MobileInv, NEW p \in Phones, ImportSnapshot(p),
         NEW V, V = local[p], NEW R, R = removed[p], NEW t, t = rows, NEW S, S = Shown(R, t), NEW W, W = local'[p]
  PROVE  /\ DOMAIN local' = Phones /\ \A q \in Phones : q # p => local'[q] = local[q]
         /\ Brings(p, V, S, t, W)
<1>1. local' = [local EXCEPT ![p] = Snapshot(p, local[p], Shown(removed[p], rows), rows)]
  BY DEF ImportSnapshot, Snapshot, Shown, FoundIn, NamedIn
<1>2. S \subseteq DOMAIN t /\ TreeOk(t, nextId) /\ Made(t, own) /\ ViewOk(p, V, R, t, nextId, own[p])
  BY DEF Shown, MobileInv, ServerInv, ViewsInv
<1>3. PICK A : A = {k \in DOMAIN V : Tree(k, V) \cap {j \in DOMAIN V : j < 0 /\ FoundIn(p, j, S, t) = {}} # {}}
  OBVIOUS
<1>4. PICK U : U = {j \in DOMAIN V : j < 0 /\ FoundIn(p, j, S, t) = {}}
  OBVIOUS
<1>5. W = Snapshot(p, V, S, t)
  BY <1>1 DEF MobileInv, PhonesInv
<1>6. W = [k \in S \cup U \cup {NamedIn(p, k, S, t) : k \in A} |->
             IF k \in S THEN CopyOf(t[k])
             ELSE [V[k] EXCEPT !.parent = NamedIn(p, @, S, t), !.period = NamedIn(p, @, S, t)]]
  BY <1>3, <1>4, <1>5 DEF Snapshot
<1>7. /\ S \subseteq DOMAIN W /\ U \subseteq DOMAIN W
      /\ \A k \in S : W[k] = CopyOf(t[k])
  BY <1>6
<1>8. ASSUME NEW k \in DOMAIN W \ S
      PROVE  /\ k \in DOMAIN V /\ (k < 0 => FoundIn(p, k, S, t) = {})
             /\ W[k] = [V[k] EXCEPT !.parent = NamedIn(p, @, S, t), !.period = NamedIn(p, @, S, t)]
  <2>1. W[k] = [V[k] EXCEPT !.parent = NamedIn(p, @, S, t), !.period = NamedIn(p, @, S, t)]
    BY <1>6, <1>8
  <2>2. CASE k \in U
    BY <1>4, <2>1, <2>2
  <2>3. CASE \E j \in A : k = NamedIn(p, j, S, t)
    <3>1. PICK j \in A : k = NamedIn(p, j, S, t)
      BY <2>3
    <3>2. j \in DOMAIN V /\ j \in Int
      BY <1>2, <1>3, <3>1 DEF ViewOk, Keys
    <3>3. NameOk(p, j, k, S, t)
      BY <1>2, <3>1, <3>2, NamedIs
    <3>4. k = j /\ (j < 0 => FoundIn(p, j, S, t) = {})
      BY <1>8, <3>2, <3>3 DEF NameOk
    <3> QED
      BY <2>1, <3>2, <3>4
  <2>4. k \in U \/ \E j \in A : k = NamedIn(p, j, S, t)
    BY <1>6, <1>8
  <2> QED
    BY <2>2, <2>3, <2>4
<1>9. ASSUME NEW k \in DOMAIN W \ S
      PROVE  /\ DOMAIN W[k] = CopyFields /\ W[k].kind = V[k].kind /\ W[k].amount = V[k].amount
             /\ W[k].parent = NamedIn(p, V[k].parent, S, t) /\ W[k].period = NamedIn(p, V[k].period, S, t)
  <2>1. DOMAIN V[k] = CopyFields
    BY <1>2, <1>8 DEF ViewOk, CopyOk
  <2>2. PICK c, d, x, y : c = V[k] /\ d = W[k] /\ x = NamedIn(p, V[k].parent, S, t) /\ y = NamedIn(p, V[k].period, S, t)
    OBVIOUS
  <2>3. d = [c EXCEPT !.parent = x, !.period = y]
    BY <1>8, <2>2
  <2>4. DOMAIN d = CopyFields /\ d.kind = c.kind /\ d.amount = c.amount /\ d.parent = x /\ d.period = y
    BY <2>1, <2>2, <2>3 DEF CopyFields
  <2> QED
    BY <2>2, <2>4
<1>10. \A k \in DOMAIN V : k < 0 /\ FoundIn(p, k, S, t) = {} => k \in DOMAIN W
  BY <1>4, <1>7
<1>11. Brings(p, V, S, t, W)
  BY <1>7, <1>8, <1>9, <1>10 DEF Brings
<1>12. DOMAIN local' = Phones /\ \A q \in Phones : q # p => local'[q] = local[q]
  BY <1>1 DEF MobileInv, PhonesInv
<1> QED
  BY <1>11, <1>12

\* A phone imports what it is shown, and keeps the tombstones Q.
LEMMA ImportStep ==
  ASSUME MobileInv, NEW p \in Phones, ImportSnapshot(p), UNCHANGED <<rows, dead, nextId, batches, sent, own>>,
         NEW Q, Q \subseteq removed[p], \A j \in removed[p] \ Q : j \in DOMAIN rows => rows[j].kind = "payment",
         DOMAIN removed' = Phones, removed'[p] = Q, \A q \in Phones : q # p => removed'[q] = removed[q],
         DOMAIN waiting' = Phones
  PROVE  MobileInv'
<1>1. PICK V, R, t, n, made : V = local[p] /\ R = removed[p] /\ t = rows /\ n = nextId /\ made = own[p]
  OBVIOUS
<1>2. PICK S, W : S = Shown(R, t) /\ W = local'[p]
  OBVIOUS
<1>3. /\ DOMAIN local' = Phones /\ \A q \in Phones : q # p => local'[q] = local[q]
      /\ Brings(p, V, S, t, W)
  BY <1>1, <1>2, Brought
<1>4. Importing(p, V, R, t, n, made, Q, S, W)
  <2>1. /\ n \in Nat \ {0} /\ made \in Nat /\ TreeOk(t, n) /\ (\E all : Made(t, all))
        /\ ViewOk(p, V, R, t, n, made)
    BY <1>1 DEF MobileInv, ServerInv, PhonesInv, ViewsInv
  <2>2. Q \subseteq R /\ (\A j \in R \ Q : j \in DOMAIN t => t[j].kind = "payment")
    BY <1>1
  <2> QED
    BY <1>2, <1>3, <2>1, <2>2 DEF Importing
<1>5. ViewOk(p, W, Q, rows, nextId, made)
  <2>1. ViewOk(p, W, Q, t, n, made)
    BY <1>4, ImportedView
  <2> QED
    BY <1>1, <2>1
<1>6. ASSUME NEW m \in Open, m.phone = p PROVE Agree(p, W, m.rows, rows)
  <2>1. PICK U : U = m.rows
    OBVIOUS
  <2>2. Agree(p, V, U, t)
    BY <1>1, <1>6, <2>1 DEF MobileInv, ViewsInv
  <2>3. Agree(p, W, U, t)
    BY <1>4, <2>2, ImportedAgree
  <2> QED
    BY <1>1, <2>1, <2>3
<1>7. DOMAIN own' = Phones /\ own'[p] = made /\ made \in Nat /\ own[p] <= made /\ \A q \in Phones : q # p => own'[q] = own[q]
  BY <1>1 DEF MobileInv, PhonesInv
<1> QED
  BY <1>2, <1>3, <1>5, <1>6, <1>7, LocalMoves

\* A pull keeps the invariant.
LEMMA PullStep ==
  ASSUME MobileInv, NEW p \in Phones, Pull(p)
  PROVE  MobileInv'
<1>1. PICK Q : Q = removed[p]
  OBVIOUS
<1>2. ImportSnapshot(p) /\ UNCHANGED <<rows, dead, nextId, batches, sent, own, removed, waiting>>
  BY DEF Pull, server
<1>3. DOMAIN removed' = Phones /\ DOMAIN waiting' = Phones /\ removed'[p] = Q /\ \A q \in Phones : q # p => removed'[q] = removed[q]
  BY <1>1, <1>2 DEF MobileInv, PhonesInv
<1> QED
  BY <1>1, <1>2, <1>3, ImportStep

\* So does a reply: the tombstones it answers are of rows that are gone, or of payments.
LEMMA ReplyStep ==
  ASSUME MobileInv, NEW p \in Phones, Reply(p)
  PROVE  MobileInv'
<1>1. PICK m : m = CHOOSE x \in sent : x.phone = p /\ x.number = waiting[p]
  OBVIOUS
<1>2. PICK Q : Q = removed[p] \ m.removed
  OBVIOUS
<1>3. /\ ImportSnapshot(p) /\ UNCHANGED <<rows, dead, nextId, batches, sent, own>>
      /\ waiting' = [waiting EXCEPT ![p] = 0] /\ removed' = [removed EXCEPT ![p] = @ \ m.removed]
  BY <1>1 DEF Reply, server
<1>4. <<p, waiting[p]>> \in batches
  BY DEF Reply
<1>5. m \in sent /\ m.phone = p /\ m.number = waiting[p]
  <2>1. \E x \in sent : x.phone = p /\ x.number = waiting[p]
    BY <1>4 DEF MobileInv, SentInv, Batch
  <2> QED
    BY <1>1, <2>1
<1>6. Batch(m) \in batches
  BY <1>4, <1>5 DEF Batch
<1>7. \A j \in removed[p] \ Q : j \in DOMAIN rows => rows[j].kind = "payment"
  BY <1>2, <1>5, <1>6 DEF MobileInv, SentInv
<1>8. /\ DOMAIN removed' = Phones /\ DOMAIN waiting' = Phones /\ removed'[p] = Q
      /\ \A q \in Phones : q # p => removed'[q] = removed[q]
  BY <1>2, <1>3 DEF MobileInv, PhonesInv
<1>9. Q \subseteq removed[p]
  BY <1>2
<1> QED
  BY <1>3, <1>7, <1>8, <1>9, ImportStep

-----------------------------------------------------------------------------
(* The first state.                                                        *)

SumBody(f, S, h) ==
  [s \in SUBSET S |-> IF s = {} THEN 0 ELSE f[CHOOSE x \in s : TRUE] + h[s \ {CHOOSE x \in s : TRUE}]]

\* A sum is read off a function on subsets that takes one member at a time.
LEMMA SumUnfolds ==
  ASSUME NEW f, NEW S, S = DOMAIN f
  PROVE  SumFunction(f) = (CHOOSE h : h = SumBody(f, S, h))[S]
  BY DEF SumFunction, SumFunctionOnSet, FoldFunctionOnSet, MapThenFoldSet, SumBody

\* The sum of no numbers.
LEMMA SumOfNone ==
  ASSUME NEW f, DOMAIN f = {}
  PROVE  SumFunction(f) = 0
<1>1. PICK S : S = DOMAIN f
  OBVIOUS
<1>2. PICK g : g = [s \in SUBSET S |-> 0]
  OBVIOUS
<1>3. g = SumBody(f, S, g)
  BY <1>1, <1>2 DEF SumBody
<1>4. PICK h : h = CHOOSE x : x = SumBody(f, S, x)
  OBVIOUS
<1>5. h = SumBody(f, S, h)
  BY <1>3, <1>4
<1>6. h[S] = 0
  BY <1>1, <1>5 DEF SumBody
<1> QED
  BY <1>1, <1>4, <1>6, SumUnfolds

\* The sum of one number.
LEMMA SumOfOne ==
  ASSUME NEW f, NEW a, DOMAIN f = {a}, f[a] \in Int
  PROVE  SumFunction(f) = f[a]
<1>1. PICK S, v : S = DOMAIN f /\ v = f[a]
  OBVIOUS
<1>2. PICK g : g = [s \in SUBSET S |-> IF s = {} THEN 0 ELSE v]
  OBVIOUS
<1>3. ASSUME NEW s \in SUBSET S, s # {} PROVE (CHOOSE x \in s : TRUE) = a /\ s = S
  BY <1>1, <1>3
<1>4. g[{}] = 0 /\ g[S] = v /\ {} \in SUBSET S /\ S \in SUBSET S /\ S # {} /\ S \ {a} = {}
  BY <1>1, <1>2
<1>5. ASSUME NEW h, h[{}] = 0, NEW s \in SUBSET S
      PROVE  SumBody(f, S, h)[s] = IF s = {} THEN 0 ELSE v
  <2>1. SumBody(f, S, h)[s] = IF s = {} THEN 0 ELSE f[CHOOSE x \in s : TRUE] + h[s \ {CHOOSE x \in s : TRUE}]
    BY DEF SumBody
  <2>2. CASE s # {}
    <3>1. SumBody(f, S, h)[s] = v + 0
      BY <1>1, <1>3, <1>4, <1>5, <2>1, <2>2
    <3>2. v + 0 = v
      BY <1>1
    <3> QED
      BY <2>2, <3>1, <3>2
  <2> QED
    BY <2>1, <2>2
<1>6. g = SumBody(f, S, g)
  <2>1. \A s \in SUBSET S : SumBody(f, S, g)[s] = g[s]
    BY <1>2, <1>4, <1>5
  <2> QED
    BY <1>2, <2>1 DEF SumBody
<1>7. PICK h : h = CHOOSE x : x = SumBody(f, S, x)
  OBVIOUS
<1>8. h = SumBody(f, S, h)
  BY <1>6, <1>7
<1>9. h[{}] = 0
  <2>1. SumBody(f, S, h)[{}] = 0
    BY <1>4 DEF SumBody
  <2> QED
    BY <1>8, <2>1
<1>10. h[S] = v
  BY <1>4, <1>5, <1>8, <1>9
<1> QED
  BY <1>1, <1>7, <1>10, SumUnfolds

\* A phone that has nothing.
LEMMA NothingHeld ==
  ASSUME NEW p, NEW V, DOMAIN V = {}, NEW t, NEW n, NEW made
  PROVE  ViewOk(p, V, {}, t, n, made)
<1>1. IsFiniteSet(DOMAIN V)
  BY FS_EmptySet
<1> QED
  BY <1>1 DEF ViewOk, Keys

\* The loan that a phone has made is a view of an empty server.
LEMMA LoanHeld ==
  ASSUME NEW p, NEW t, DOMAIN t = {}, NEW V, V = FirstLoan
  PROVE  ViewOk(p, V, {}, t, 1, 3)
<1>1. DOMAIN V = -3 .. -1
  BY DEF FirstLoan
<1>2. /\ V[-1] = Copy("client", 0, NoPeriod, 0, 0)
      /\ V[-2] = Copy("debt", -1, NoPeriod, 0, 0)
      /\ V[-3] = Copy("period", -2, NoPeriod, 1, BaseAmount)
  BY DEF FirstLoan
<1>3. \A k \in DOMAIN V : k = -1 \/ k = -2 \/ k = -3
  BY <1>1
<1>4. -1 \in DOMAIN V /\ -2 \in DOMAIN V /\ -3 \in DOMAIN V
  BY <1>1
<1>5. Keys(V, {}, 1, 3)
  <2>1. IsFiniteSet(DOMAIN V)
    <3>1. PICK a \in Int, b \in Int : a = -3 /\ b = -1
      OBVIOUS
    <3>2. IsFiniteSet(a .. b)
      BY FS_Interval
    <3> QED
      BY <1>1, <3>1, <3>2
  <2>2. \A k \in DOMAIN V : k \in Int /\ k # 0 /\ k < 1 /\ -3 <= k
    BY <1>1
  <2> QED
    BY <2>1, <2>2 DEF Keys
<1>6. /\ V[-1].kind = "client" /\ V[-1].parent = 0 /\ V[-1].period = NoPeriod /\ DOMAIN V[-1] = CopyFields
      /\ V[-2].kind = "debt" /\ V[-2].parent = -1 /\ V[-2].period = NoPeriod /\ DOMAIN V[-2] = CopyFields
      /\ V[-3].kind = "period" /\ V[-3].parent = -2 /\ V[-3].period = NoPeriod /\ DOMAIN V[-3] = CopyFields
  BY <1>2 DEF Copy, CopyFields
<1>7. \A k \in DOMAIN V : CopyOk(V[k])
  BY <1>3, <1>6 DEF CopyOk, Kinds, NoPeriod
<1>8. \A k \in DOMAIN V : Linking(k, V, {}, t, 1)
  <2>1. Linking(-1, V, {}, t, 1)
    BY <1>6 DEF Linking
  <2>2. Linking(-2, V, {}, t, 1)
    BY <1>4, <1>6 DEF Linking, Above
  <2>3. Linking(-3, V, {}, t, 1)
    BY <1>4, <1>6 DEF Linking, Above
  <2> QED
    BY <1>3, <2>1, <2>2, <2>3
<1>9. \A k \in DOMAIN V : Covering(k, V, t, 1)
  BY <1>3, <1>6 DEF Covering
<1> QED
  BY <1>5, <1>7, <1>8, <1>9 DEF ViewOk

\* The loan that was made on the web.
LoanRows(t) ==
  /\ DOMAIN t = 1..3
  /\ t[1] = Client(<<Web, 0>>) /\ t[2] = Debt(1, <<Web, 0>>) /\ t[3] = Period(2, 1, <<Web, 0>>)

\* Its rows.
LEMMA LoanFields ==
  ASSUME NEW t, LoanRows(t)
  PROVE  /\ \A i \in DOMAIN t : i = 1 \/ i = 2 \/ i = 3
         /\ 1 \in DOMAIN t /\ 2 \in DOMAIN t /\ 3 \in DOMAIN t
         /\ t[1].kind = "client" /\ t[1].parent = 0 /\ DOMAIN t[1] = ClientFields
         /\ t[2].kind = "debt" /\ t[2].parent = 1 /\ DOMAIN t[2] = DebtFields
         /\ t[2].outstanding = BaseAmount /\ t[2].collected = 0
         /\ t[3].kind = "period" /\ t[3].parent = 2 /\ DOMAIN t[3] = PeriodFields
         /\ t[3].amount = BaseAmount /\ t[3].paid = 0
         /\ \A i \in DOMAIN t : t[i].origin = <<Web, 0>>
<1>1. \A i \in DOMAIN t : i = 1 \/ i = 2 \/ i = 3
  BY DEF LoanRows
<1>2. 1 \in DOMAIN t /\ 2 \in DOMAIN t /\ 3 \in DOMAIN t
  BY DEF LoanRows
<1>3. t[1].kind = "client" /\ t[1].parent = 0 /\ DOMAIN t[1] = ClientFields /\ t[1].origin = <<Web, 0>>
  BY DEF LoanRows, Client, ClientFields
<1>4. /\ t[2].kind = "debt" /\ t[2].parent = 1 /\ DOMAIN t[2] = DebtFields /\ t[2].origin = <<Web, 0>>
      /\ t[2].outstanding = BaseAmount /\ t[2].collected = 0
  BY DEF LoanRows, Debt, DebtFields
<1>5. /\ t[3].kind = "period" /\ t[3].parent = 2 /\ DOMAIN t[3] = PeriodFields /\ t[3].origin = <<Web, 0>>
      /\ t[3].amount = BaseAmount /\ t[3].paid = 0
  BY DEF LoanRows, Period, PeriodFields
<1>6. \A i \in DOMAIN t : t[i].origin = <<Web, 0>>
  BY <1>1, <1>3, <1>4, <1>5
<1> QED
  BY <1>1, <1>2, <1>3, <1>4, <1>5, <1>6

\* They are a tree,
LEMMA LoanTree ==
  ASSUME NEW t, LoanRows(t), NEW made
  PROVE  TreeOk(t, 4) /\ Made(t, made)
<1>1. \A i \in DOMAIN t : i \in Nat /\ 0 < i /\ i < 4
  BY DEF LoanRows
<1>2. RowOk(t[1]) /\ RowOk(t[2]) /\ RowOk(t[3])
  BY LoanFields DEF RowOk, Kinds
<1>3. Under(1, t) /\ Under(2, t) /\ Under(3, t)
  BY LoanFields DEF Under, Above
<1>4. Paying(1, t) /\ Paying(2, t) /\ Paying(3, t)
  BY LoanFields DEF Paying
<1>5. TreeOk(t, 4)
  BY <1>1, <1>2, <1>3, <1>4, LoanFields DEF TreeOk
<1>6. Made(t, made)
  BY LoanFields, MobileAssumption DEF Made
<1> QED
  BY <1>5, <1>6

\* and its books are right.
LEMMA LoanBooked ==
  ASSUME NEW t, LoanRows(t)
  PROVE  Booked(t)
<1>1. Active(t) = {}
  BY LoanFields DEF Active, Of
<1>2. \A i : PaidOn(i, t) = 0 /\ Collected(i, t) = 0
  <2> SUFFICES ASSUME NEW i PROVE PaidOn(i, t) = 0 /\ Collected(i, t) = 0
    OBVIOUS
  <2>1. {j \in Active(t) : t[j].period = i} = {} /\ {j \in Active(t) : t[j].parent = i} = {}
    BY <1>1
  <2>2. PICK f : f = [j \in {} |-> t[j].amount]
    OBVIOUS
  <2>3. SumFunction(f) = 0
    BY <2>2, SumOfNone
  <2> QED
    BY <2>1, <2>2, <2>3 DEF PaidOn, Collected, Total
<1>3. Outstanding(2, t) = BaseAmount
  <2>1. {p \in Of("period", t) : t[p].parent = 2} = {3}
    BY LoanFields DEF Of
  <2>2. PICK f : f = [p \in {p \in Of("period", t) : t[p].parent = 2} |-> Max({t[p].amount - t[p].paid, 0})]
    OBVIOUS
  <2>3. Outstanding(2, t) = SumFunction(f)
    BY <2>2 DEF Outstanding
  <2>4. DOMAIN f = {3} /\ f[3] = Max({t[3].amount - t[3].paid, 0})
    BY <2>1, <2>2
  <2>5. t[3].amount - t[3].paid = BaseAmount /\ BaseAmount \in Nat
    BY LoanFields, MobileAssumption
  <2>6. Max({BaseAmount, 0}) = BaseAmount
    BY <2>5 DEF Max
  <2>7. f[3] = BaseAmount /\ f[3] \in Int
    BY <2>4, <2>5, <2>6
  <2> QED
    BY <2>3, <2>4, <2>7, SumOfOne
<1>4. PeriodBooked(1, t) /\ PeriodBooked(2, t) /\ PeriodBooked(3, t)
  BY <1>2, LoanFields DEF PeriodBooked
<1>5. DebtBooked(1, t) /\ DebtBooked(2, t) /\ DebtBooked(3, t)
  BY <1>2, <1>3, LoanFields DEF DebtBooked
<1> QED
  BY <1>4, <1>5, LoanFields DEF Booked

\* The first states satisfy the invariant.
LEMMA InitInv ==
  ASSUME Init
  PROVE  MobileInv /\ BooksFollow
<1>1. /\ dead = {} /\ batches = {} /\ sent = {} /\ own = [p \in Phones |-> 3]
      /\ removed = [p \in Phones |-> {}] /\ waiting = [p \in Phones |-> 0]
  BY DEF Init
<1>2. SentInv
  BY <1>1, FS_EmptySet DEF SentInv
<1>3. Open = {} /\ DOMAIN local = Phones
  BY <1>1 DEF Init, Open
<1>4. PhonesInv
  BY <1>1, <1>3 DEF PhonesInv
<1>5. CASE /\ rows = <<Client(<<Web, 0>>), Debt(1, <<Web, 0>>), Period(2, 1, <<Web, 0>>)>>
           /\ nextId = 4
           /\ local = [p \in Phones |-> <<>>]
  <2>1. LoanRows(rows)
    BY <1>5 DEF LoanRows
  <2>2. TreeOk(rows, 4) /\ Made(rows, own)
    BY <2>1, LoanTree
  <2>3. ServerInv
    BY <1>1, <1>5, <2>2 DEF ServerInv
  <2>4. \A p \in Phones : DOMAIN local[p] = {} /\ removed[p] = {}
    BY <1>1, <1>5
  <2>5. ViewsInv
    <3>1. ASSUME NEW p \in Phones PROVE ViewOk(p, local[p], removed[p], rows, nextId, own[p])
      <4>1. PICK V, n, made : V = local[p] /\ n = nextId /\ made = own[p]
        OBVIOUS
      <4>2. ViewOk(p, V, {}, rows, n, made)
        BY <2>4, <4>1, NothingHeld
      <4> QED
        BY <2>4, <4>1, <4>2
    <3> QED
      BY <1>3, <3>1 DEF ViewsInv
  <2>6. BooksFollow
    BY <2>1, LoanBooked, BooksAre
  <2> QED
    BY <1>2, <1>4, <2>3, <2>5, <2>6 DEF MobileInv
<1>6. CASE /\ rows = <<>> /\ nextId = 1
           /\ \E maker \in Phones : local = [p \in Phones |-> IF p = maker THEN FirstLoan ELSE <<>>]
  <2>1. DOMAIN rows = {}
    BY <1>6
  <2>2. ServerInv
    BY <1>1, <1>6, <2>1 DEF ServerInv, TreeOk, Made
  <2>3. ASSUME NEW p \in Phones PROVE ViewOk(p, local[p], removed[p], rows, nextId, own[p])
    <3>1. PICK V : V = local[p]
      OBVIOUS
    <3>2. removed[p] = {} /\ own[p] = 3 /\ nextId = 1
      BY <1>1, <1>6
    <3>3. V = FirstLoan \/ DOMAIN V = {}
      BY <1>6, <3>1
    <3>4. ViewOk(p, V, {}, rows, 1, 3)
      BY <2>1, <3>3, LoanHeld, NothingHeld
    <3> QED
      BY <3>1, <3>2, <3>4
  <2>4. ViewsInv
    BY <1>3, <2>3 DEF ViewsInv
  <2>5. BooksFollow
    BY <2>1 DEF BooksFollow, Of
  <2> QED
    BY <1>2, <1>4, <2>2, <2>4, <2>5 DEF MobileInv
<1> QED
  BY <1>5, <1>6 DEF Init

-----------------------------------------------------------------------------
(* Every step.                                                             *)

\* No step of a phone changes the server.
LEMMA PhoneStep ==
  ASSUME MobileInv, NEW p \in Phones,
         \/ Upload(p) \/ Reply(p) \/ Pull(p) \/ GiveUp(p)
         \/ \E k \in DOMAIN local[p] :
              PhoneDelete(p, k) \/ PhonePeriod(p, k) \/ \E a \in Amounts : PhonePay(p, k, a)
  PROVE  MobileInv' /\ UNCHANGED <<rows, batches>>
<1>1. CASE Upload(p)
  BY <1>1, UploadStep DEF Upload, server
<1>2. CASE Reply(p)
  BY <1>2, ReplyStep DEF Reply, server
<1>3. CASE Pull(p)
  BY <1>3, PullStep DEF Pull, server
<1>4. CASE GiveUp(p)
  BY <1>4, GiveUpStep DEF GiveUp, server
<1>5. ASSUME NEW k \in DOMAIN local[p], PhoneDelete(p, k) PROVE MobileInv' /\ UNCHANGED <<rows, batches>>
  BY <1>5, PhoneDeleteStep DEF PhoneDelete, server
<1>6. ASSUME NEW k \in DOMAIN local[p], PhonePeriod(p, k) PROVE MobileInv' /\ UNCHANGED <<rows, batches>>
  BY <1>6, PhonePeriodStep DEF PhonePeriod, server
<1>7. ASSUME NEW k \in DOMAIN local[p], NEW a \in Amounts, PhonePay(p, k, a)
      PROVE  MobileInv' /\ UNCHANGED <<rows, batches>>
  BY <1>7, PhonePayStep DEF PhonePay, server
<1> QED
  BY <1>1, <1>2, <1>3, <1>4, <1>5, <1>6, <1>7

\* No step of the web processes an upload.
LEMMA WebStep ==
  ASSUME MobileInv,
         \/ \E i \in Of("period", rows) : WebRevert(i) \/ \E a \in Amounts : WebPay(i, a)
         \/ \E i \in Of("client", rows) : WebDelete(i)
         \/ DueDatePasses
  PROVE  MobileInv' /\ (BooksFollow => BooksFollow') /\ UNCHANGED batches
<1>1. ASSUME NEW i \in Of("period", rows), WebRevert(i)
      PROVE  MobileInv' /\ (BooksFollow => BooksFollow') /\ UNCHANGED batches
  BY <1>1, WebRevertStep DEF WebRevert
<1>2. ASSUME NEW i \in Of("period", rows), NEW a \in Amounts, WebPay(i, a)
      PROVE  MobileInv' /\ (BooksFollow => BooksFollow') /\ UNCHANGED batches
  BY <1>2, WebPayStep DEF WebPay
<1>3. ASSUME NEW i \in Of("client", rows), WebDelete(i)
      PROVE  MobileInv' /\ (BooksFollow => BooksFollow') /\ UNCHANGED batches
  BY <1>3, WebDeleteStep DEF WebDelete
<1>4. CASE DueDatePasses
  BY <1>4, DueDateStep DEF DueDatePasses
<1> QED
  BY <1>1, <1>2, <1>3, <1>4

\* The invariant is inductive.
LEMMA NextStep ==
  ASSUME MobileInv, [Next]_vars
  PROVE  MobileInv' /\ (BooksFollow => BooksFollow')
<1>1. ASSUME NEW m \in sent, Process(m) PROVE MobileInv' /\ (BooksFollow => BooksFollow')
  BY <1>1, ProcessStep
<1>2. CASE \/ \E i \in Of("period", rows) : WebRevert(i) \/ \E a \in Amounts : WebPay(i, a)
           \/ \E i \in Of("client", rows) : WebDelete(i)
           \/ DueDatePasses
  BY <1>2, WebStep
<1>3. ASSUME NEW p \in Phones,
             \/ Upload(p) \/ Reply(p) \/ Pull(p) \/ GiveUp(p)
             \/ \E k \in DOMAIN local[p] :
                  PhoneDelete(p, k) \/ PhonePeriod(p, k) \/ \E a \in Amounts : PhonePay(p, k, a)
      PROVE  MobileInv' /\ (BooksFollow => BooksFollow')
  <2>1. MobileInv' /\ rows' = rows
    BY <1>3, PhoneStep
  <2>2. BooksFollow => BooksFollow'
    BY <2>1, BooksAre, BooksWillBe
  <2> QED
    BY <2>1, <2>2
<1>4. CASE UNCHANGED vars
  <2>1. UNCHANGED <<rows, dead, nextId, batches, sent, local, own, removed, waiting>>
    BY <1>4 DEF vars, server, phones
  <2>2. MobileInv'
    BY <2>1 DEF MobileInv, ServerInv, SentInv, PhonesInv, ViewsInv, Open, Numbered, Batch
  <2>3. BooksFollow => BooksFollow'
    BY <2>1, BooksAre, BooksWillBe
  <2> QED
    BY <2>2, <2>3
<1> QED
  BY <1>1, <1>2, <1>3, <1>4 DEF Next

\* Only the step that processes an upload says so.
LEMMA StepProcesses ==
  ASSUME MobileInv, [Next]_vars, NEW m \in sent, Processed(m)
  PROVE  Process(m)
<1>1. batches' # batches
  BY DEF Processed
<1>2. ASSUME NEW x \in sent, Process(x) PROVE Process(m)
  BY <1>2, OneProcessed
<1>3. ~(\/ \E i \in Of("period", rows) : WebRevert(i) \/ \E a \in Amounts : WebPay(i, a)
        \/ \E i \in Of("client", rows) : WebDelete(i)
        \/ DueDatePasses)
  BY <1>1, WebStep
<1>4. ASSUME NEW p \in Phones,
             \/ Upload(p) \/ Reply(p) \/ Pull(p) \/ GiveUp(p)
             \/ \E k \in DOMAIN local[p] :
                  PhoneDelete(p, k) \/ PhonePeriod(p, k) \/ \E a \in Amounts : PhonePay(p, k, a)
      PROVE  FALSE
  BY <1>1, <1>4, PhoneStep
<1>5. ~UNCHANGED vars
  BY <1>1 DEF vars, server
<1> QED
  BY <1>2, <1>3, <1>4, <1>5 DEF Next

-----------------------------------------------------------------------------
(* The theorems.                                                           *)

\* What the phones hold, and the uploads that may yet arrive, stay views of the server's
\* ledger, whatever the order of uploads, replies, edits and deletions
\* (sync_snapshot, snapshot_for_user).
THEOREM ViewsHold == Spec => []MobileInv
<1>1. Init => MobileInv
  BY InitInv
<1>2. MobileInv /\ [Next]_vars => MobileInv'
  BY NextStep
<1> QED
  BY <1>1, <1>2, PTL DEF Spec

\* Uploads, payments, reversals and deletions in any order leave every balance derived
\* from the payments that are not reversed (reconcile_debt).
THEOREM BooksAlwaysFollow == Spec => []BooksFollow
<1>1. Init => MobileInv /\ BooksFollow
  BY InitInv
<1>2. MobileInv /\ BooksFollow /\ [Next]_vars => (MobileInv /\ BooksFollow)'
  BY NextStep
<1> QED
  BY <1>1, <1>2, PTL DEF Spec

\* An upload, however old its copy of the ledger, takes no payment that the phone did not
\* delete, brings none back that was reversed and changes no amount (_upsert,
\* _apply_deletions).
THEOREM FactsAlwaysSurvive == Spec => FactsSurvive
<1> DEFINE Facts == \A m \in sent : Processed(m) =>
                      \A i \in Of("payment", rows) :
                        IF i \in DOMAIN rows'
                        THEN /\ rows'[i].active => rows[i].active
                             /\ rows[i].active /\ i \notin m.removed => rows'[i].active
                             /\ rows'[i].amount = rows[i].amount
                        ELSE rows[i].parent \in m.removed
<1>1. ASSUME MobileInv, [Next]_vars PROVE Facts
  BY <1>1, StepProcesses, FactsStep
<1>2. MobileInv /\ [Next]_vars => [Facts]_vars
  BY <1>1
<1> QED
  BY <1>2, ViewsHold, PTL DEF Spec, FactsSurvive

\* Of an upload that is taken no row is passed over: each is a row of the server, under the
\* same parent, or one the server has deleted (_upsert, _deleted_on_server).
THEOREM NoneIsDropped == Spec => NothingDropped
<1> DEFINE None == \A m \in sent : Processed(m) =>
                     \A k \in DOMAIN m.rows :
                       IF k > 0 THEN k \in DOMAIN rows' \cup dead'
                       ELSE \E i \in DOMAIN rows' :
                              /\ rows'[i].origin = <<m.phone, k>>
                              /\ rows'[i].kind = m.rows[k].kind
                              /\ m.rows[k].parent > 0 => rows'[i].parent = m.rows[k].parent
<1>1. ASSUME MobileInv, [Next]_vars PROVE None
  BY <1>1, StepProcesses, NoneDroppedStep
<1>2. MobileInv /\ [Next]_vars => [None]_vars
  BY <1>1
<1> QED
  BY <1>2, ViewsHold, PTL DEF Spec, NothingDropped
=============================================================================
