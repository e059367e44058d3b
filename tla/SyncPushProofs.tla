--------------------------- MODULE SyncPushProofs ---------------------------
(***************************************************************************)
(* Theorems about SyncPush, for any phones, actions and rows.              *)
(*                                                                         *)
(* Two invariants are kept apart.  RecordInv needs of a mutation only its  *)
(* error: a push is carried out at most once, and the answers its phone    *)
(* gets are true.  PushInv needs what a mutation does to the rows and to   *)
(* the log: Working holds when it begins, each of its changes keeps it     *)
(* (InsertWorks, UpdateWorks, DeleteWorks), and so does the group of them, *)
(* by induction over its subsets (ChangedWorks).                           *)
(***************************************************************************)
EXTENDS SyncPush, FiniteSetTheorems, WellFoundedInduction, TLAPS

-----------------------------------------------------------------------------
(* Carried out once, answered truly.                                       *)

Outcomes == {"none", "applied", "duplicate", "conflict", "rejected"}

\* What was carried out, and what was refused, is on record.
RecordInv ==
  /\ record \in [Phones -> [1..MaxQueue -> Outcomes]]
  /\ DOMAIN answers = Phones
  /\ \A d \in Phones : \A i \in 1..MaxQueue :
       /\ \A a, b \in Acceptances(d, i) : a = b
       /\ record[d][i] \in {"applied", "duplicate"} <=> Acceptances(d, i) # {}
       /\ \A s \in {"applied", "conflict", "rejected"} : <<i, s>> \in answers[d] => record[d][i] = s

LEMMA Known == \A w : Status(w) \in Outcomes \ {"none"} /\ (w.error = "none" <=> Status(w) \in {"applied", "duplicate"})
  BY DEF Status, Conflicts, Outcomes

LEMMA RetryStep ==
  ASSUME RecordInv, NEW d \in Phones, NEW i, Retry(d, i)
  PROVE  RecordInv'
<1>1. /\ answers' = [answers EXCEPT ![d] = @ \cup {<<i, "duplicate">>}]
      /\ UNCHANGED <<record, accepted>>
  BY DEF Retry, Answer, server
<1>2. ASSUME NEW c \in Phones, NEW j, NEW s \in {"applied", "conflict", "rejected"}, <<j, s>> \in answers'[c]
      PROVE  <<j, s>> \in answers[c]
  BY <1>1, <1>2 DEF RecordInv
<1> QED
  BY <1>1, <1>2 DEF RecordInv, Acceptances

LEMMA ApplyStep ==
  ASSUME RecordInv, NEW d \in Phones, NEW i, Apply(d, i)
  PROVE  RecordInv'
<1>1. PICK w :
        /\ record' = [record EXCEPT ![d][i] = Status(w)]
        /\ Answer(d, i, Status(w))
        /\ accepted' = IF w.error # "none" THEN accepted
                       ELSE accepted \cup {[about |-> About(d, i), structural |-> w.structural,
                                            silent |-> w.sets \ w.notices]}
  BY DEF Apply
<1> DEFINE new == [about |-> About(d, i), structural |-> w.structural, silent |-> w.sets \ w.notices]
<1>2. ~IsRetry(d, i)
  BY DEF Apply
<1>3. new.about.device = d /\ new.about.id = i
  BY DEF About
<1>4. accepted' = IF w.error # "none" THEN accepted ELSE accepted \cup {new}
  BY <1>1
<1> HIDE DEF new
<1>5. Status(w) \in Outcomes \ {"none"} /\ (w.error = "none" <=> Status(w) \in {"applied", "duplicate"})
  BY Known
<1>6. record' \in [Phones -> [1..MaxQueue -> Outcomes]]
  BY <1>1, <1>5 DEF RecordInv
<1>7. DOMAIN answers' = Phones /\ answers' = [answers EXCEPT ![d] = @ \cup {<<i, Status(w)>>}]
  BY <1>1 DEF RecordInv, Answer
<1>8. ASSUME NEW c \in Phones, NEW j \in 1..MaxQueue, ~(c = d /\ j = i)
      PROVE  /\ Acceptances(c, j)' = Acceptances(c, j) /\ record'[c][j] = record[c][j]
             /\ \A s : <<j, s>> \in answers'[c] => <<j, s>> \in answers[c]
  <2>1. Acceptances(c, j)' = Acceptances(c, j)
    BY <1>3, <1>4, <1>8 DEF Acceptances
  <2>2. record'[c][j] = record[c][j]
    BY <1>1, <1>8 DEF RecordInv
  <2>3. \A s : <<j, s>> \in answers'[c] => <<j, s>> \in answers[c]
    BY <1>7, <1>8 DEF RecordInv
  <2> QED
    BY <2>1, <2>2, <2>3
<1>9. ASSUME i \in 1..MaxQueue
      PROVE  /\ \A a, b \in Acceptances(d, i)' : a = b
             /\ record'[d][i] \in {"applied", "duplicate"} <=> Acceptances(d, i)' # {}
             /\ \A s \in {"applied", "conflict", "rejected"} : <<i, s>> \in answers'[d] => record'[d][i] = s
  <2>1. record[d][i] = "none" /\ record'[d][i] = Status(w)
    <3>1. record[d][i] = "none"
      BY <1>2 DEF IsRetry
    <3>2. record'[d][i] = Status(w)
      <4>1. /\ record' = [record EXCEPT ![d] = [record[d] EXCEPT ![i] = Status(w)]]
            /\ DOMAIN record = Phones /\ DOMAIN record[d] = 1..MaxQueue
        BY <1>1 DEF RecordInv
      <4> QED
        BY ONLY <1>9, <4>1
    <3> QED
      BY <3>1, <3>2
  <2>2. Acceptances(d, i) = {}
    BY <1>9, <2>1 DEF RecordInv
  <2>3. Acceptances(d, i)' = IF w.error # "none" THEN {} ELSE {new}
    BY <1>3, <1>4, <2>2 DEF Acceptances
  <2>4. \A s \in {"applied", "conflict", "rejected"} : <<i, s>> \notin answers[d]
    BY <1>9, <2>1 DEF RecordInv
  <2>5. \A s \in {"applied", "conflict", "rejected"} : <<i, s>> \in answers'[d] => s = Status(w)
    BY <1>7, <2>4 DEF RecordInv
  <2> QED
    BY <1>5, <2>1, <2>3, <2>5
<1> QED
  <2>1. ASSUME NEW c \in Phones, NEW j \in 1..MaxQueue
        PROVE  /\ \A a, b \in Acceptances(c, j)' : a = b
               /\ record'[c][j] \in {"applied", "duplicate"} <=> Acceptances(c, j)' # {}
               /\ \A s \in {"applied", "conflict", "rejected"} : <<j, s>> \in answers'[c] => record'[c][j] = s
    <3>1. CASE c = d /\ j = i
      BY <1>9, <3>1
    <3>2. CASE ~(c = d /\ j = i)
      BY <1>8, <3>2 DEF RecordInv
    <3> QED
      BY <3>1, <3>2
  <2> QED
    BY <1>6, <1>7, <2>1 DEF RecordInv

LEMMA RecordStep == RecordInv /\ [Next]_vars => RecordInv'
<1> SUFFICES ASSUME RecordInv, [Next]_vars PROVE RecordInv'
  OBVIOUS
<1>1. CASE UNCHANGED <<record, answers, accepted>>
  BY <1>1 DEF RecordInv, Acceptances
<1>2. ASSUME NEW d \in Phones, Deliver(d) PROVE RecordInv'
  BY <1>2, RetryStep, ApplyStep DEF Deliver
<1> QED
  BY <1>1, <1>2
     DEF Next, vars, server, phones, Pull, Queue, Receive, BrowserNext, Browser, WebInterest, WebPrincipal, WebRate,
         WebTouch, Compact

\* However often a push is sent, it is carried out at most once, and what its phone is told
\* stays true.
THEOREM AnswersStayTrue == Spec => []AnswersTrue
<1>1. Init => RecordInv
  BY DEF Init, RecordInv, Acceptances, Outcomes
<1>2. RecordInv => AnswersTrue
  <2> SUFFICES ASSUME RecordInv, NEW d \in Phones, NEW i \in 1..MaxQueue
               PROVE  /\ Cardinality(Acceptances(d, i)) <= 1
                      /\ <<i, "applied">> \in answers[d] => Acceptances(d, i) # {}
                      /\ {<<i, "conflict">>, <<i, "rejected">>} \cap answers[d] # {} => Acceptances(d, i) = {}
    BY DEF AnswersTrue
  <2>1. Acceptances(d, i) = {} \/ \E a : Acceptances(d, i) = {a}
    <3>1. \A a, b \in Acceptances(d, i) : a = b
      BY DEF RecordInv
    <3> HIDE DEF Acceptances
    <3> QED
      BY <3>1
  <2>2. Cardinality(Acceptances(d, i)) <= 1
    <3>1. Cardinality({}) = 0 /\ \A a : Cardinality({a}) = 1
      BY FS_EmptySet, FS_Singleton
    <3>2. CASE Acceptances(d, i) = {}
      BY <3>1, <3>2
    <3>3. ASSUME NEW a, Acceptances(d, i) = {a} PROVE Cardinality(Acceptances(d, i)) <= 1
      <4>1. Cardinality({a}) = 1
        BY <3>1
      <4> QED
        BY <3>3, <4>1
    <3> QED
      BY <2>1, <3>2, <3>3
  <2>3. /\ record[d][i] \in {"applied", "duplicate"} <=> Acceptances(d, i) # {}
        /\ \A s \in {"applied", "conflict", "rejected"} : <<i, s>> \in answers[d] => record[d][i] = s
    BY DEF RecordInv
  <2> QED
    BY <2>2, <2>3
<1> QED
  BY <1>1, <1>2, RecordStep, PTL DEF Spec

-----------------------------------------------------------------------------
(* Least and greatest, first and last.                                     *)

\* A set of subsets of a finite set has a member that includes no other.
LEMMA LeastSet ==
  ASSUME NEW S, IsFiniteSet(S), NEW B, B \subseteq SUBSET S, B # {}
  PROVE  \E T \in B : \A U \in B : ~(U \subseteq T /\ U # T)
<1>1. IsWellFoundedOn(StrictSubsetOrdering(S), SUBSET S)
  BY FS_StrictSubsetOrderingWellFounded, FS_FiniteSubsetsOfFinite
<1>2. PICK T \in B : \A U \in B : ~(<<U, T>> \in StrictSubsetOrdering(S))
  BY <1>1, WFMin
<1> QED
  BY <1>2 DEF StrictSubsetOrdering

\* A set of natural numbers has a least member.
LEMMA LeastNat ==
  ASSUME NEW B, B \subseteq Nat, B # {}
  PROVE  \E n \in B : \A m \in B : n <= m
<1>1. OpToRel(<, Nat) = {ss \in Nat \X Nat : ss[1] < ss[2]}
  BY ZenonT(30) DEF OpToRel
<1>2. IsWellFoundedOn({ss \in Nat \X Nat : ss[1] < ss[2]}, Nat)
  BY <1>1, NatLessThanWellFounded, Zenon
<1>3. PICK n \in B : \A m \in B : ~(<<m, n>> \in {ss \in Nat \X Nat : ss[1] < ss[2]})
  BY <1>2, WFMin
<1>4. ASSUME NEW m \in B PROVE n <= m
  <2>1. m \in Nat /\ n \in Nat
    OBVIOUS
  <2>2. ~(<<m, n>> \in {ss \in Nat \X Nat : ss[1] < ss[2]})
    BY <1>3
  <2>3. ~(m < n)
    BY <2>1, <2>2
  <2> QED
    BY <2>1, <2>3
<1> QED
  BY <1>4

\* A bounded set of natural numbers has a greatest member.
LEMMA Greatest ==
  ASSUME NEW n \in Nat, NEW S, S \subseteq 0..n, S # {}
  PROVE  Max(S) \in S /\ \A x \in S : x <= Max(S)
<1> DEFINE B == {n - x : x \in S}
<1>1. B \subseteq Nat /\ B # {}
  <2>1. \A x \in S : n - x \in Nat
    OBVIOUS
  <2>2. PICK x : x \in S
    OBVIOUS
  <2>3. n - x \in B
    BY <2>2
  <2> QED
    BY <2>1, <2>3
<1>2. PICK b \in B : \A y \in B : b <= y
  BY <1>1, LeastNat
<1>3. PICK m \in S : b = n - m
  BY <1>2
<1>4. \A x \in S : m >= x
  <2> TAKE x \in S
  <2>1. n - x \in B
    OBVIOUS
  <2>2. b <= n - x /\ x \in Nat /\ m \in Nat
    BY <1>2, <2>1
  <2> QED
    BY <1>3, <2>2
<1>5. \E y \in S : \A x \in S : y >= x
  BY <1>4
<1>6. Max(S) \in S /\ \A x \in S : Max(S) >= x
  BY <1>5 DEF Max
<1>7. \A x \in S : x \in Nat
  OBVIOUS
<1> QED
  BY <1>6, <1>7

\* Of any changes one comes last.
LEMMA LastIsOne ==
  ASSUME NEW S, S # {}
  PROVE  LastOf(S) \in S
<1>1. \A c : Rank(c) \in 1..9
  BY DEF Rank
<1> DEFINE R == {Rank(c) : c \in S}
<1>2. R \subseteq 0..9 /\ R # {}
  <2>1. \A c : Rank(c) \in 0..9
    BY <1>1
  <2> QED
    BY <2>1
<1>3. Max(R) \in R /\ \A x \in R : x <= Max(R)
  <2> HIDE DEF R
  <2> QED
    BY <1>2, Greatest
<1>4. PICK c \in S : Rank(c) = Max(R)
  BY <1>3
<1>5. \A e \in S : Rank(e) <= Rank(c)
  BY <1>3, <1>4
<1> QED
  BY <1>5 DEF LastOf

\* The rows of a finite set are taken in some order.
LEMMA Listed ==
  ASSUME NEW S, IsFiniteSet(S)
  PROVE  /\ Len(SetToSeq(S)) \in Nat
         /\ \A k \in 1..Len(SetToSeq(S)) : SetToSeq(S)[k] \in S
<1>1. Cardinality(S) \in Nat /\ ExistsBijection(1..Cardinality(S), S)
  BY FS_CardinalityType
<1>2. \E f \in [1..Cardinality(S) -> S] : IsInjective(f)
  BY <1>1 DEF ExistsBijection, Bijection, Injection
<1>3. SetToSeq(S) \in [1..Cardinality(S) -> S]
  BY <1>2 DEF SetToSeq
<1> HIDE DEF SetToSeq
<1> DEFINE q == SetToSeq(S)
<1>4. q \in Seq(S) /\ Len(q) = Cardinality(S)
  BY <1>1, <1>3
<1> QED
  BY <1>1, <1>3, <1>4

-----------------------------------------------------------------------------
(* What saves and deletions do to the rows and the log.                    *)

DbFields == {"rows", "rev", "log", "lastPk", "floor"}

\* A period has its columns.
PeriodOk(f) == {"baseAmount", "paidAmount", "number"} \subseteq DOMAIN f /\ f.number \in Nat

\* A database whose periods have their columns.
DbOk(b) ==
  /\ DOMAIN b = DbFields
  /\ DOMAIN b.rows \subseteq Row
  /\ b.lastPk \in Nat /\ b.rev \in Nat /\ b.rev <= b.lastPk
  /\ \A i \in Periods : Live(i, b) => PeriodOk(b.rows[i])

\* b has become e by changes that the writer by has logged.
Grown(b, e, by) ==
  /\ e.lastPk >= b.lastPk /\ e.floor = b.floor
  /\ b.log \subseteq e.log
  /\ \A c \in e.log \ b.log : /\ c.by = by /\ c.pk \in Nat
                              /\ c.pk > b.lastPk /\ c.pk <= e.lastPk

LEMMA GrownOn ==
  ASSUME NEW b, NEW d, NEW e, NEW by, DbOk(b), DbOk(d), DbOk(e), Grown(b, d, by), Grown(d, e, by)
  PROVE  Grown(b, e, by)
<1>1. b.lastPk \in Nat /\ d.lastPk \in Nat /\ e.lastPk \in Nat
  BY DEF DbOk
<1>2. e.lastPk >= b.lastPk /\ e.floor = b.floor /\ b.log \subseteq e.log
  BY <1>1 DEF Grown
<1>3. ASSUME NEW c \in e.log \ b.log
      PROVE  c.by = by /\ c.pk \in Nat /\ c.pk > b.lastPk /\ c.pk <= e.lastPk
  <2>1. CASE c \in d.log
    BY <1>1, <2>1 DEF Grown
  <2>2. CASE c \notin d.log
    BY <1>1, <2>2 DEF Grown
  <2> QED
    BY <2>1, <2>2
<1> QED
  BY <1>2, <1>3 DEF Grown

LEMMA GrownNot ==
  ASSUME NEW b, NEW by, DbOk(b)
  PROVE  Grown(b, b, by)
  BY DEF Grown, DbOk

\* A save.
LEMMA SavedFacts ==
  ASSUME NEW b, NEW r \in Row, NEW fields, NEW by, DbOk(b), NEW e, e = Saved(b, r, fields, by)
  PROVE  /\ Grown(b, e, by) /\ DOMAIN e = DbFields
         /\ DOMAIN e.rows = DOMAIN b.rows \cup {r} /\ DOMAIN e.rows \subseteq Row
         /\ e.rows[r] = fields /\ \A q \in DOMAIN b.rows : q # r => e.rows[q] = b.rows[q]
         /\ e.lastPk \in Nat /\ e.rev \in Nat /\ e.rev <= e.lastPk
<1> DEFINE entry == [pk |-> b.lastPk + 1, row |-> r, op |-> "upsert", by |-> by,
                     changed |-> {k \in DOMAIN fields : Live(r, b) => fields[k] # b.rows[r][k]}]
<1>1. entry.pk = b.lastPk + 1 /\ entry.by = by
  OBVIOUS
<1>2. e = [b EXCEPT !.rows = Over([q \in {r} |-> fields], b.rows), !.rev = NewRevision(b, r), !.lastPk = b.lastPk + 1,
                    !.log = b.log \cup {entry}]
  BY DEF Saved
<1> HIDE DEF entry
<1>3. /\ DOMAIN e = DbFields /\ e.rows = Over([q \in {r} |-> fields], b.rows) /\ e.rev = NewRevision(b, r)
      /\ e.lastPk = b.lastPk + 1 /\ e.log = b.log \cup {entry} /\ e.floor = b.floor
  BY <1>2 DEF DbOk, DbFields
<1>4. /\ DOMAIN e.rows = DOMAIN b.rows \cup {r}
      /\ e.rows[r] = fields /\ \A q \in DOMAIN b.rows : q # r => e.rows[q] = b.rows[q]
  BY <1>3 DEF Over
<1>5. DOMAIN e.rows \subseteq Row
  BY <1>4 DEF DbOk
<1>6. e.lastPk \in Nat /\ e.rev \in Nat /\ e.rev <= e.lastPk
  BY <1>3 DEF DbOk, NewRevision
<1>7. Grown(b, e, by)
  BY <1>1, <1>3 DEF Grown, DbOk
<1> QED
  BY <1>3, <1>4, <1>5, <1>6, <1>7

\* A deletion.
LEMMA DeletedFacts ==
  ASSUME NEW b, NEW r \in Row, NEW by, DbOk(b), NEW e, e = Deleted(b, r, by)
  PROVE  /\ Grown(b, e, by) /\ DbOk(e)
         /\ DOMAIN e.rows = DOMAIN b.rows \ {r}
<1> DEFINE entry == [pk |-> b.lastPk + 1, row |-> r, op |-> "delete", by |-> by, changed |-> {}]
<1>1. entry.pk = b.lastPk + 1 /\ entry.by = by
  OBVIOUS
<1>2. e = [b EXCEPT !.rows = Restrict(b.rows, DOMAIN b.rows \ {r}), !.lastPk = b.lastPk + 1,
                    !.log = b.log \cup {entry}]
  BY DEF Deleted
<1> HIDE DEF entry
<1>3. /\ DOMAIN e = DbFields /\ e.rows = Restrict(b.rows, DOMAIN b.rows \ {r}) /\ e.rev = b.rev
      /\ e.lastPk = b.lastPk + 1 /\ e.log = b.log \cup {entry} /\ e.floor = b.floor
  BY <1>2 DEF DbOk, DbFields
<1>4. DOMAIN e.rows = DOMAIN b.rows \ {r} /\ \A q \in DOMAIN e.rows : e.rows[q] = b.rows[q]
  BY <1>3 DEF Restrict
<1>8. \A i \in Periods : Live(i, e) => PeriodOk(e.rows[i])
  BY <1>4 DEF DbOk, Live
<1>9. DOMAIN e = DbFields /\ DOMAIN e.rows \subseteq Row
  BY <1>3, <1>4 DEF DbOk
<1>10. e.lastPk \in Nat /\ e.rev \in Nat /\ e.rev <= e.lastPk
  BY <1>3 DEF DbOk
<1>5. DbOk(e)
  BY <1>8, <1>9, <1>10 DEF DbOk
<1>6. Grown(b, e, by)
  BY <1>1, <1>3 DEF Grown, DbOk
<1> QED
  BY <1>4, <1>5, <1>6

\* Several saves.
LEMMA SavedEachFacts ==
  ASSUME NEW b, NEW new, NEW by, DbOk(b), DOMAIN new \subseteq Row \ {Loan}, IsFiniteSet(DOMAIN new),
         NEW e, e = SavedEach(b, new, by)
  PROVE  /\ Grown(b, e, by) /\ DOMAIN e = DbFields
         /\ DOMAIN e.rows = DOMAIN b.rows \cup DOMAIN new /\ DOMAIN e.rows \subseteq Row
         /\ \A q \in DOMAIN e.rows : e.rows[q] = IF q \in DOMAIN new THEN new[q] ELSE b.rows[q]
         /\ e.lastPk \in Nat /\ e.rev \in Nat /\ e.rev <= e.lastPk
<1> DEFINE order == SetToSeq(DOMAIN new)
           Changed(r) == {k \in DOMAIN new[r] : Live(r, b) => new[r][k] # b.rows[r][k]}
           entry(k) == [pk |-> b.lastPk + k, row |-> order[k], op |-> "upsert", by |-> by,
                        changed |-> Changed(order[k])]
           n == Len(order)
           entries == {entry(k) : k \in 1..n}
<1>1. n \in Nat
  BY Listed
<1>2. e = [b EXCEPT !.rows = Over(new, b.rows), !.lastPk = b.lastPk + n, !.log = b.log \cup entries]
  BY DEF SavedEach
<1>3. \A c \in entries : \E k \in 1..n : c.pk = b.lastPk + k /\ c.by = by
  BY DEF entry
<1> HIDE DEF entries, n
<1>4. /\ DOMAIN e = DbFields /\ e.rows = Over(new, b.rows) /\ e.rev = b.rev
      /\ e.lastPk = b.lastPk + n /\ e.log = b.log \cup entries /\ e.floor = b.floor
  BY <1>2 DEF DbOk, DbFields
<1>5. /\ DOMAIN e.rows = DOMAIN b.rows \cup DOMAIN new
      /\ \A q \in DOMAIN e.rows : e.rows[q] = IF q \in DOMAIN new THEN new[q] ELSE b.rows[q]
  BY <1>4 DEF Over
<1>6. DOMAIN e.rows \subseteq Row
  BY <1>5 DEF DbOk
<1>7. e.lastPk \in Nat /\ e.rev \in Nat /\ e.rev <= e.lastPk
  BY <1>1, <1>4 DEF DbOk
<1>8. Grown(b, e, by)
  <2>1. b.lastPk \in Nat
    BY DEF DbOk
  <2>2. \A c \in entries : c.by = by /\ c.pk \in Nat /\ c.pk > b.lastPk /\ c.pk <= e.lastPk
    BY <1>1, <1>3, <1>4, <2>1
  <2> QED
    BY <1>1, <1>4, <2>1, <2>2 DEF Grown
<1> QED
  BY <1>4, <1>5, <1>6, <1>7, <1>8

\* Several deletions.
LEMMA DeletedEachFacts ==
  ASSUME NEW b, NEW S, NEW by, DbOk(b), IsFiniteSet(S), NEW e, e = DeletedEach(b, S, by)
  PROVE  /\ Grown(b, e, by) /\ DbOk(e)
         /\ DOMAIN e.rows = DOMAIN b.rows \ S
<1> DEFINE order == SetToSeq(S)
           entry(k) == [pk |-> b.lastPk + k, row |-> order[k], op |-> "delete", by |-> by, changed |-> {}]
           n == Len(order)
           entries == {entry(k) : k \in 1..n}
<1>1. n \in Nat
  BY Listed
<1>2. e = [b EXCEPT !.rows = Restrict(b.rows, DOMAIN b.rows \ S), !.lastPk = b.lastPk + n, !.log = b.log \cup entries]
  BY DEF DeletedEach
<1>3. \A c \in entries : \E k \in 1..n : c.pk = b.lastPk + k /\ c.by = by
  BY DEF entry
<1> HIDE DEF entries, n
<1>4. /\ DOMAIN e = DbFields /\ e.rows = Restrict(b.rows, DOMAIN b.rows \ S) /\ e.rev = b.rev
      /\ e.lastPk = b.lastPk + n /\ e.log = b.log \cup entries /\ e.floor = b.floor
  BY <1>2 DEF DbOk, DbFields
<1>5. DOMAIN e.rows = DOMAIN b.rows \ S /\ \A q \in DOMAIN e.rows : e.rows[q] = b.rows[q]
  BY <1>4 DEF Restrict
<1>8. \A i \in Periods : Live(i, e) => PeriodOk(e.rows[i])
  BY <1>5 DEF DbOk, Live
<1>9. DOMAIN e = DbFields /\ DOMAIN e.rows \subseteq Row
  BY <1>4, <1>5 DEF DbOk
<1>10. e.lastPk \in Nat /\ e.rev \in Nat /\ e.rev <= e.lastPk
  BY <1>1, <1>4 DEF DbOk
<1>6. DbOk(e)
  BY <1>8, <1>9, <1>10 DEF DbOk
<1>7. Grown(b, e, by)
  <2>1. b.lastPk \in Nat
    BY DEF DbOk
  <2>2. \A c \in entries : c.by = by /\ c.pk \in Nat /\ c.pk > b.lastPk /\ c.pk <= e.lastPk
    BY <1>1, <1>3, <1>4, <2>1
  <2> QED
    BY <1>1, <1>4, <2>1, <2>2 DEF Grown
<1> QED
  BY <1>5, <1>6, <1>7

-----------------------------------------------------------------------------
(* What is true of an unfinished mutation.                                 *)

WorkFields == {"db", "base", "by", "error", "applied", "created", "touched", "structural", "sets", "notices"}

\* Others have edited the structure since revision base.
Stale(b, base, by) == \E e \in b.log : e.pk > base /\ e.by.device # by.device /\ Structural(e)

\* A term of fields was changed since revision base.
Overwritten(b, base, f) == \E e \in b.log : e.row = Loan /\ e.pk > base /\ f \in e.changed

\* w was begun on b and base, by the push by.
Working(w, b, base, by) ==
  /\ DOMAIN w = WorkFields /\ w.base = base /\ w.by = by
  /\ DbOk(w.db) /\ Grown(b, w.db, by)
  /\ w.touched \/ w.db.rows = b.rows \/ ~Live(Loan, w.db)
  /\ w.structural => ~Stale(b, base, by)
  /\ \A f \in w.sets \ w.notices : ~Overwritten(b, base, f)

LEMMA FailedWorks ==
  ASSUME NEW w, NEW b, NEW base, NEW by, Working(w, b, base, by),
         NEW reason, reason # "stale_base_revision", NEW v, v = Failed(w, reason)
  PROVE  Working(v, b, base, by)
<1>1. /\ DOMAIN v = WorkFields /\ v.base = w.base /\ v.by = w.by /\ v.db = w.db /\ v.touched = w.touched
      /\ v.structural = w.structural /\ v.error = reason /\ v.sets = w.sets /\ v.notices = w.notices
  BY DEF Failed, Working, WorkFields
<1> QED
  BY <1>1 DEF Working

LEMMA DoneWorks ==
  ASSUME NEW w, NEW b, NEW base, NEW by, DbOk(b), Working(w, b, base, by),
         NEW e, DbOk(e), Grown(w.db, e, by), ~Live(Loan, e), NEW v, v = Done(w, e)
  PROVE  Working(v, b, base, by)
<1>1. /\ DOMAIN v = WorkFields /\ v.base = w.base /\ v.by = w.by /\ v.db = e /\ v.touched = w.touched
      /\ v.structural = w.structural /\ v.error = w.error /\ v.sets = w.sets /\ v.notices = w.notices
  BY DEF Done, Working, WorkFields
<1>2. Grown(b, e, by)
  BY GrownOn DEF Working
<1> QED
  BY <1>1, <1>2 DEF Working

LEMMA TouchingWorks ==
  ASSUME NEW w, NEW b, NEW base, NEW by, DbOk(b), Working(w, b, base, by),
         NEW e, DbOk(e), Grown(w.db, e, by), NEW v, v = Touching(w, e)
  PROVE  Working(v, b, base, by)
<1> DEFINE u == Done(w, e)
<1>1. /\ DOMAIN u = WorkFields /\ u.base = w.base /\ u.by = w.by /\ u.db = e
      /\ u.structural = w.structural /\ u.error = w.error /\ u.sets = w.sets /\ u.notices = w.notices
  BY DEF Done, Working, WorkFields
<1>2. v = [u EXCEPT !.touched = TRUE]
  BY DEF Touching
<1> HIDE DEF u
<1>3. /\ DOMAIN v = WorkFields /\ v.base = w.base /\ v.by = w.by /\ v.db = e /\ v.touched
      /\ v.structural = w.structural /\ v.error = w.error /\ v.sets = w.sets /\ v.notices = w.notices
  BY <1>1, <1>2 DEF WorkFields
<1>4. Grown(b, e, by)
  BY GrownOn DEF Working
<1> QED
  BY <1>3, <1>4 DEF Working

\* The structure was not changed by others, or the edit is refused.
LEMMA ParentWorks ==
  ASSUME NEW w, NEW b, NEW base, NEW by, Working(w, b, base, by),
         NEW v, Working(v, b, base, by), NEW u, u = Parent(w, v)
  PROVE  Working(u, b, base, by)
<1>1. StructureChanged(w) <=> Stale(b, base, by)
  <2>1. /\ w.by = by /\ w.base = base /\ b.log \subseteq w.db.log
        /\ \A c \in w.db.log : c \in b.log \/ c.by = by
    BY DEF Working, Grown
  <2> QED
    BY <2>1 DEF StructureChanged, Stale
<1>2. CASE StructureChanged(w)
  <2>0. u = [w EXCEPT !.error = "stale_base_revision"]
    BY <1>2 DEF Parent, Failed
  <2>1. /\ DOMAIN u = WorkFields /\ u.base = w.base /\ u.by = w.by /\ u.db = w.db /\ u.touched = w.touched
        /\ u.structural = w.structural /\ u.sets = w.sets /\ u.notices = w.notices
    BY <2>0 DEF Working, WorkFields
  <2> QED
    BY <1>1, <1>2, <2>1 DEF Working
<1>3. CASE ~StructureChanged(w)
  <2>0. u = [v EXCEPT !.structural = TRUE]
    BY <1>3 DEF Parent
  <2>1. /\ DOMAIN u = WorkFields /\ u.base = v.base /\ u.by = v.by /\ u.db = v.db /\ u.touched = v.touched
        /\ u.error = v.error /\ u.sets = v.sets /\ u.notices = v.notices
    BY <2>0 DEF Working, WorkFields
  <2> QED
    BY <1>1, <1>3, <2>1 DEF Working
<1> QED
  BY <1>2, <1>3

\* A save keeps the columns of the periods.
LEMMA SavedOk ==
  ASSUME NEW b, NEW r \in Row, NEW fields, NEW by, DbOk(b),
         r \in Periods => PeriodOk(fields),
         NEW e, e = Saved(b, r, fields, by)
  PROVE  DbOk(e) /\ Grown(b, e, by)
<1>1. /\ Grown(b, e, by) /\ DOMAIN e = DbFields
      /\ DOMAIN e.rows = DOMAIN b.rows \cup {r} /\ DOMAIN e.rows \subseteq Row
      /\ e.rows[r] = fields /\ \A q \in DOMAIN b.rows : q # r => e.rows[q] = b.rows[q]
      /\ e.lastPk \in Nat /\ e.rev \in Nat /\ e.rev <= e.lastPk
  BY SavedFacts
<1>2. \A i \in Periods : Live(i, e) => PeriodOk(e.rows[i])
  <2> SUFFICES ASSUME NEW i \in Periods, Live(i, e) PROVE PeriodOk(e.rows[i])
    OBVIOUS
  <2>1. CASE i = r
    BY <1>1, <2>1
  <2>2. CASE i # r
    BY <1>1, <2>2 DEF DbOk, Live
  <2> QED
    BY <2>1, <2>2
<1> QED
  BY <1>1, <1>2 DEF DbOk

LEMMA SavedWorks ==
  ASSUME NEW w, NEW b, NEW base, NEW by, DbOk(b), Working(w, b, base, by),
         NEW r \in Row, NEW fields, r \in Periods => PeriodOk(fields),
         NEW v, v = Touching(w, Saved(w.db, r, fields, w.by))
  PROVE  Working(v, b, base, by)
<1> DEFINE e == Saved(w.db, r, fields, w.by)
<1>1. DbOk(w.db) /\ w.by = by
  BY DEF Working
<1>2. DbOk(e) /\ Grown(w.db, e, by)
  BY <1>1, SavedOk
<1>3. v = Touching(w, e)
  OBVIOUS
<1> HIDE DEF e
<1> QED
  BY <1>2, <1>3, TouchingWorks

-----------------------------------------------------------------------------
(* The operations of a mutation.                                           *)

LEMMA OverDomain == \A f, g : DOMAIN Over(f, g) = DOMAIN f \cup DOMAIN g
  BY DEF Over

LEMMA InsertWorks ==
  ASSUME RowsAssumption, NEW w, NEW b, NEW base, NEW by, DbOk(b), Working(w, b, base, by), NEW c, c.row \in Row,
         c.row \in Periods => {"number", "baseAmount"} \subseteq DOMAIN c.fields /\ c.fields.number \in Nat,
         NEW u, u = Insert(w, c)
  PROVE  Working(u, b, base, by)
<1> DEFINE New(fields) == Touching(w, Saved(w.db, c.row, Over(c.fields, fields), w.by))
           NewPeriod == IF \E i \in Periods : Live(i, w.db) /\ w.db.rows[i].number = c.fields.number
                        THEN Failed(w, "invalid_change") ELSE New([paidAmount |-> 0])
           made == New([collected |-> 0, capitalRemaining |-> Principal, outstanding |-> 2 * Principal])
<1>1. ASSUME NEW fields, c.row \in Periods => "paidAmount" \in DOMAIN fields
      PROVE  Working(New(fields), b, base, by)
  <2> DEFINE f == Over(c.fields, fields)
  <2>1. c.row \in Periods => PeriodOk(f)
    <3>1. DOMAIN f = DOMAIN c.fields \cup DOMAIN fields
      BY OverDomain
    <3>2. c.row \in Periods => f.number = c.fields.number
      BY DEF Over
    <3> HIDE DEF f
    <3> QED
      BY <1>1, <3>1, <3>2 DEF PeriodOk
  <2>2. New(fields) = Touching(w, Saved(w.db, c.row, f, w.by))
    OBVIOUS
  <2> HIDE DEF f, New
  <2> QED
    BY <2>1, <2>2, SavedWorks
<1>2. "paidAmount" \in DOMAIN [paidAmount |-> 0]
  OBVIOUS
<1>3. Working(NewPeriod, b, base, by)
  <2>1. Working(Failed(w, "invalid_change"), b, base, by)
    BY FailedWorks
  <2>2. Working(New([paidAmount |-> 0]), b, base, by)
    <3> HIDE DEF New
    <3> QED
      BY <1>1, <1>2
  <2> QED
    BY <2>1, <2>2
<1>4. ASSUME Live(c.row, w.db), u = w \/ u = Failed(w, "already_exists")
      PROVE  Working(u, b, base, by)
  BY <1>4, FailedWorks
<1>5. ASSUME c.row = Loan, u = [made EXCEPT !.created = TRUE]
      PROVE  Working(u, b, base, by)
  <2>1. Working(made, b, base, by)
    <3>1. c.row \notin Periods
      BY <1>5 DEF RowsAssumption
    <3> DEFINE f == [collected |-> 0, capitalRemaining |-> Principal, outstanding |-> 2 * Principal]
    <3>2. made = New(f)
      OBVIOUS
    <3> HIDE DEF New, f, made
    <3>3. Working(New(f), b, base, by)
      BY <1>1, <3>1
    <3> QED
      BY <3>2, <3>3
  <2> HIDE DEF made
  <2>2. /\ DOMAIN u = WorkFields /\ u.base = made.base /\ u.by = made.by /\ u.db = made.db /\ u.touched = made.touched
        /\ u.structural = made.structural /\ u.error = made.error /\ u.sets = made.sets /\ u.notices = made.notices
    BY <1>5, <2>1 DEF Working, WorkFields
  <2> QED
    BY <2>1, <2>2 DEF Working
<1>6. ASSUME u = Failed(w, "not_found")
      PROVE  Working(u, b, base, by)
  BY <1>6, FailedWorks
<1>7. ASSUME u = NewPeriod \/ u = Parent(w, NewPeriod)
      PROVE  Working(u, b, base, by)
  <2> HIDE DEF NewPeriod
  <2> QED
    BY <1>3, <1>7, ParentWorks
<1>8. ASSUME c.row \notin Periods, u = New([reversedAt |-> FALSE])
      PROVE  Working(u, b, base, by)
  <2> DEFINE f == [reversedAt |-> FALSE]
  <2>1. u = New(f)
    BY <1>8
  <2> HIDE DEF New, f
  <2> QED
    BY <1>1, <1>8, <2>1
<1>9. \/ Live(c.row, w.db) /\ (u = w \/ u = Failed(w, "already_exists"))
      \/ c.row = Loan /\ u = [made EXCEPT !.created = TRUE]
      \/ u = Failed(w, "not_found")
      \/ u = NewPeriod \/ u = Parent(w, NewPeriod)
      \/ c.row \notin Periods /\ u = New([reversedAt |-> FALSE])
  <2> HIDE DEF made
  <2>0. u = CASE Live(c.row, w.db) ->
                  IF \A k \in DOMAIN c.fields : w.db.rows[c.row][k] = c.fields[k]
                  THEN w ELSE Failed(w, "already_exists")
             [] c.row = Loan /\ ~Live(c.row, w.db) -> [made EXCEPT !.created = TRUE]
             [] c.row # Loan /\ ~Live(Loan, w.db) -> Failed(w, "not_found")
             [] c.row \in Periods /\ Live(Loan, w.db) /\ ~Live(c.row, w.db) ->
                  IF w.created THEN NewPeriod ELSE Parent(w, NewPeriod)
             [] OTHER ->
                  IF c.fields.installmentId = NoPeriod \/ Live(c.fields.installmentId, w.db)
                  THEN New([reversedAt |-> FALSE]) ELSE Failed(w, "not_found")
    BY DEF Insert, made
  <2> HIDE DEF New, NewPeriod
  <2> QED
    BY <2>0
<1> QED
  <2> HIDE DEF New, NewPeriod, made
  <2> QED
    BY <1>4, <1>5, <1>6, <1>7, <1>8, <1>9

Noted(w, F) == [w EXCEPT !.sets = @ \cup F, !.notices = @ \cup Conflicting(w, F)]

\* The fields a mutation writes are remembered, and those somebody else has changed noticed.
LEMMA NotedWorks ==
  ASSUME NEW w, NEW b, NEW base, NEW by, DbOk(b), Working(w, b, base, by), NEW F,
         NEW v, v = Noted(w, F)
  PROVE  Working(v, b, base, by) /\ v.db = w.db /\ v.by = w.by
<1> DEFINE n == w.notices \cup Conflicting(w, F)
<1>2. b.log \subseteq w.db.log /\ w.base = base
  BY DEF Working, Grown
<1>3. \A f \in F : f \notin n => ~Overwritten(b, base, f)
  BY <1>2 DEF Conflicting, Overwritten
<1>4. w.notices \subseteq n
  OBVIOUS
<1>0. v = [w EXCEPT !.sets = w.sets \cup F, !.notices = n]
  BY DEF Noted
<1> HIDE DEF n
<1>5. /\ DOMAIN v = WorkFields /\ v.base = w.base /\ v.by = w.by /\ v.db = w.db /\ v.touched = w.touched
      /\ v.structural = w.structural /\ v.error = w.error /\ v.sets = w.sets \cup F /\ v.notices = n
  BY <1>0 DEF Working, WorkFields
<1>6. \A f \in v.sets \ v.notices : ~Overwritten(b, base, f)
  BY <1>3, <1>4, <1>5 DEF Working
<1> QED
  BY <1>5, <1>6 DEF Working

LEMMA UpdateLoanWorks ==
  ASSUME RowsAssumption, NEW w, NEW b, NEW base, NEW by, DbOk(b), Working(w, b, base, by), NEW c,
         NEW u, u = UpdateLoan(w, c)
  PROVE  Working(u, b, base, by)
<1> DEFINE fields == Restrict(c.fields, DebtFields \cap DOMAIN c.fields)
           noted == [w EXCEPT !.sets = @ \cup DOMAIN fields, !.notices = @ \cup Conflicting(w, DOMAIN fields)]
           written == Over(fields, w.db.rows[Loan])
           saved == Touching(noted, IF DOMAIN fields = {} THEN w.db ELSE Saved(w.db, Loan, written, w.by))
<1>1. u = Parent(w, saved) \/ u = saved
  BY DEF UpdateLoan
<1> HIDE DEF fields, written
<1>2. Working(noted, b, base, by) /\ noted.db = w.db /\ noted.by = w.by
  <2> DEFINE F == DOMAIN fields
  <2>1. noted = Noted(w, F)
    BY DEF Noted
  <2> HIDE DEF F, noted
  <2> QED
    BY <2>1, NotedWorks
<1> HIDE DEF noted
<1>3. Working(saved, b, base, by)
  <2>1. CASE DOMAIN fields = {}
    <3>1. saved = Touching(noted, noted.db)
      BY <1>2, <2>1
    <3> HIDE DEF saved
    <3>2. DbOk(noted.db) /\ Grown(noted.db, noted.db, by)
      BY <1>2, GrownNot DEF Working
    <3> QED
      BY <1>2, <3>1, <3>2, TouchingWorks
  <2>2. CASE DOMAIN fields # {}
    <3>1. saved = Touching(noted, Saved(noted.db, Loan, written, noted.by))
      BY <1>2, <2>2
    <3> HIDE DEF saved
    <3>2. Loan \in Row /\ Loan \notin Periods
      BY DEF Row, RowsAssumption
    <3> QED
      BY <1>2, <3>1, <3>2, SavedWorks
  <2> QED
    BY <2>1, <2>2
<1> HIDE DEF saved
<1> QED
  BY <1>1, <1>3, ParentWorks

LEMMA UpdateWorks ==
  ASSUME RowsAssumption, NEW w, NEW b, NEW base, NEW by, DbOk(b), Working(w, b, base, by), NEW c, c.row \in Row,
         c.row \in Periods /\ "number" \in DOMAIN c.fields => c.fields.number \in Nat,
         NEW u, u = Update(w, c)
  PROVE  Working(u, b, base, by)
<1> DEFINE written == Over(c.fields, w.db.rows[c.row])
           saved == Touching(w, Saved(w.db, c.row, written, w.by))
<1>1. \/ u = Failed(w, "not_found")
      \/ u = UpdateLoan(w, c)
      \/ Live(c.row, w.db) /\ (u = Parent(w, saved) \/ u = saved)
  <2>0. u = CASE ~Live(c.row, w.db) -> Failed(w, "not_found")
             [] c.row = Loan /\ Live(c.row, w.db) -> UpdateLoan(w, c)
             [] c.row \in Periods /\ Live(c.row, w.db) -> Parent(w, saved)
             [] OTHER -> saved
    BY DEF Update
  <2> HIDE DEF saved
  <2> QED
    BY <2>0
<1>2. ASSUME Live(c.row, w.db) PROVE Working(saved, b, base, by)
  <2>1. DOMAIN written = DOMAIN c.fields \cup DOMAIN w.db.rows[c.row]
    BY OverDomain
  <2>2. c.row \in Periods => PeriodOk(w.db.rows[c.row])
    BY <1>2 DEF Working, DbOk
  <2>6. c.row \in Periods => written.number = IF "number" \in DOMAIN c.fields THEN c.fields.number
                                             ELSE w.db.rows[c.row].number
    BY <2>2 DEF Over, PeriodOk
  <2> HIDE DEF written
  <2>3. c.row \in Periods => PeriodOk(written)
    BY <2>1, <2>2, <2>6 DEF PeriodOk
  <2>4. saved = Touching(w, Saved(w.db, c.row, written, w.by))
    OBVIOUS
  <2> HIDE DEF saved
  <2> QED
    BY <2>3, <2>4, SavedWorks
<1> HIDE DEF saved
<1> QED
  BY <1>1, <1>2, FailedWorks, UpdateLoanWorks, ParentWorks

\* Detaching payments from a period.
LEMMA DetachedOk ==
  ASSUME RowsAssumption, NEW b, NEW new, NEW by, DbOk(b), DOMAIN new \subseteq Payments,
         NEW e, e = SavedEach(b, new, by)
  PROVE  DbOk(e) /\ Grown(b, e, by)
<1>1. DOMAIN new \subseteq Row \ {Loan} /\ IsFiniteSet(DOMAIN new) /\ \A i \in Periods : i \notin DOMAIN new
  <2>1. IsFiniteSet(DOMAIN new)
    BY FS_Subset DEF RowsAssumption
  <2> QED
    BY <2>1 DEF Row, RowsAssumption
<1>2. /\ Grown(b, e, by) /\ DOMAIN e = DbFields
      /\ DOMAIN e.rows = DOMAIN b.rows \cup DOMAIN new /\ DOMAIN e.rows \subseteq Row
      /\ \A q \in DOMAIN e.rows : e.rows[q] = IF q \in DOMAIN new THEN new[q] ELSE b.rows[q]
      /\ e.lastPk \in Nat /\ e.rev \in Nat /\ e.rev <= e.lastPk
  BY <1>1, SavedEachFacts
<1>3. \A i \in Periods : Live(i, e) => PeriodOk(e.rows[i])
  BY <1>1, <1>2 DEF DbOk, Live
<1> QED
  BY <1>2, <1>3 DEF DbOk

LEMMA FiniteRow == ASSUME RowsAssumption PROVE IsFiniteSet(Row)
<1>1. IsFiniteSet({Loan}) /\ IsFiniteSet(Periods) /\ IsFiniteSet(Payments)
  BY FS_Singleton DEF RowsAssumption
<1> QED
  BY <1>1, FS_Union DEF Row

LEMMA DeleteWorks ==
  ASSUME RowsAssumption, NEW w, NEW b, NEW base, NEW by, DbOk(b), Working(w, b, base, by), NEW c, c.row \in Row,
         NEW u, u = Delete(w, c)
  PROVE  Working(u, b, base, by)
<1> DEFINE reversed == Touching(w, Saved(w.db, c.row, [w.db.rows[c.row] EXCEPT !.reversedAt = TRUE], w.by))
           same == Touching(w, w.db)
           Linked == {p \in Payments : Live(p, w.db) /\ w.db.rows[p].installmentId = c.row}
           freed == [p \in Linked |-> [w.db.rows[p] EXCEPT !.installmentId = NoPeriod]]
           detached == SavedEach(w.db, freed, w.by)
           dropPeriod == Touching(w, Deleted(detached, c.row, w.by))
           under == DOMAIN w.db.rows \ {Loan}
           emptied == DeletedEach(w.db, under, w.by)
           dropLoan == Done(w, Deleted(emptied, Loan, w.by))
<1>0. DbOk(w.db) /\ w.by = by
  BY DEF Working
<1>1. \/ u = Failed(w, "not_found")
      \/ u = Parent(w, dropLoan) \/ u = Parent(w, dropPeriod)
      \/ c.row \notin Periods /\ u = reversed
      \/ u = same
  <2>0. u = CASE ~Live(c.row, w.db) -> Failed(w, "not_found")
             [] c.row = Loan /\ Live(c.row, w.db) -> Parent(w, dropLoan)
             [] c.row \in Periods /\ Live(c.row, w.db) -> Parent(w, dropPeriod)
             [] OTHER -> IF w.db.rows[c.row].reversedAt THEN same ELSE reversed
    BY DEF Delete, AfterDelete
  <2> HIDE DEF dropLoan, dropPeriod, reversed, same
  <2> QED
    BY <2>0
<1>2. Working(same, b, base, by)
  <2>1. Grown(w.db, w.db, by)
    BY <1>0, GrownNot
  <2> HIDE DEF same
  <2>2. same = Touching(w, w.db)
    BY DEF same
  <2> QED
    BY <1>0, <2>1, <2>2, TouchingWorks
<1>3. ASSUME c.row \notin Periods PROVE Working(reversed, b, base, by)
  <2> DEFINE f == [w.db.rows[c.row] EXCEPT !.reversedAt = TRUE]
  <2>1. reversed = Touching(w, Saved(w.db, c.row, f, w.by))
    OBVIOUS
  <2> HIDE DEF f, reversed
  <2> QED
    BY <1>3, <2>1, SavedWorks
<1>4. Working(dropPeriod, b, base, by)
  <2>1. DOMAIN freed \subseteq Payments
    OBVIOUS
  <2>2. detached = SavedEach(w.db, freed, w.by)
    OBVIOUS
  <2> HIDE DEF freed, detached
  <2>3. DbOk(detached) /\ Grown(w.db, detached, by)
    BY <1>0, <2>1, <2>2, DetachedOk
  <2> DEFINE e == Deleted(detached, c.row, w.by)
  <2>4. DbOk(e) /\ Grown(detached, e, by)
    BY <1>0, <2>3, DeletedFacts
  <2>5. dropPeriod = Touching(w, e)
    OBVIOUS
  <2> HIDE DEF e, dropPeriod
  <2>6. Grown(w.db, e, by)
    BY <1>0, <2>3, <2>4, GrownOn
  <2> QED
    BY <2>4, <2>5, <2>6, TouchingWorks
<1>5. Working(dropLoan, b, base, by)
  <2>1. IsFiniteSet(under)
    <3>1. under \subseteq Row
      BY <1>0 DEF DbOk
    <3> QED
      BY <3>1, FiniteRow, FS_Subset
  <2>2. emptied = DeletedEach(w.db, under, w.by)
    OBVIOUS
  <2> HIDE DEF under, emptied
  <2>3. DbOk(emptied) /\ Grown(w.db, emptied, by)
    BY <1>0, <2>1, <2>2, DeletedEachFacts
  <2> DEFINE e == Deleted(emptied, Loan, w.by)
  <2>4. DbOk(e) /\ Grown(emptied, e, by) /\ ~Live(Loan, e)
    <3>1. Loan \in Row
      BY DEF Row
    <3>2. DbOk(e) /\ Grown(emptied, e, by) /\ DOMAIN e.rows = DOMAIN emptied.rows \ {Loan}
      BY <1>0, <2>3, <3>1, DeletedFacts
    <3> HIDE DEF e
    <3> QED
      BY <3>2 DEF Live
  <2>5. dropLoan = Done(w, e)
    OBVIOUS
  <2> HIDE DEF e, dropLoan
  <2>6. Grown(w.db, e, by)
    BY <1>0, <2>3, <2>4, GrownOn
  <2> QED
    BY <2>4, <2>5, <2>6, DoneWorks
<1> HIDE DEF dropLoan, dropPeriod, reversed, same
<1> QED
  BY <1>1, <1>2, <1>3, <1>4, <1>5, FailedWorks, ParentWorks

LEMMA ApplyOneWorks ==
  ASSUME RowsAssumption, NEW w, NEW b, NEW base, NEW by, DbOk(b), Working(w, b, base, by), NEW c, WellFormed(c),
         NEW u, u = ApplyOne(w, c)
  PROVE  Working(u, b, base, by)
<1>1. u = w \/ (c.op = "insert" /\ u = Insert(w, c)) \/ u = Update(w, c) \/ u = Delete(w, c)
  BY DEF ApplyOne
<1>2. /\ c.row \in Row
      /\ c.row \in Periods /\ "number" \in DOMAIN c.fields => c.fields.number \in Nat
      /\ c.op = "insert" /\ c.row \in Periods =>
           {"number", "baseAmount"} \subseteq DOMAIN c.fields /\ c.fields.number \in Nat
  BY DEF WellFormed
<1> QED
  BY <1>1, <1>2, InsertWorks, UpdateWorks, DeleteWorks

-----------------------------------------------------------------------------
(* The changes of a mutation, one after the other.                         *)

Turn(w0, S, h) == [s \in SUBSET S |-> IF s = {} THEN w0 ELSE ApplyOne(h[s \ {LastOf(s)}], LastOf(s))]
Changed(w0, S) == (CHOOSE h : h = Turn(w0, S, h))[S]

\* The result is read off a function on the sets of changes.
LEMMA WorkIs ==
  ASSUME NEW d, NEW i
  PROVE  Work(d, i) = Finished(Changed(Begun(d, i), outbox[d][i].changes))
<1> DEFINE S == outbox[d][i].changes
           w0 == Begun(d, i)
<1>1. MapThenFoldSet(LAMBDA c, w : ApplyOne(w, c), w0, LAMBDA c : c, LastOf, S) = Changed(w0, S)
  <2> HIDE DEF S, w0
  <2> QED
    BY DEF MapThenFoldSet, Changed, Turn
<1> QED
  BY <1>1 DEF Work

UpTo(S, n) == {s \in SUBSET S : Cardinality(s) <= n}
Takes(w0, s, h) == h[s] = IF s = {} THEN w0 ELSE ApplyOne(h[s \ {LastOf(s)}], LastOf(s))

\* Without its last change a group is smaller.
LEMMA Shorter ==
  ASSUME NEW S, IsFiniteSet(S), NEW s \in SUBSET S
  PROVE  /\ IsFiniteSet(s) /\ Cardinality(s) \in Nat /\ (Cardinality(s) = 0 <=> s = {})
         /\ Cardinality(s) <= Cardinality(S)
         /\ s # {} => /\ LastOf(s) \in s /\ s \ {LastOf(s)} \in SUBSET S
                      /\ Cardinality(s \ {LastOf(s)}) = Cardinality(s) - 1
<1>1. IsFiniteSet(s) /\ Cardinality(s) <= Cardinality(S)
  BY FS_Subset
<1>2. s # {} => LastOf(s) \in s
  BY LastIsOne
<1> QED
  BY <1>1, <1>2, FS_RemoveElement, FS_EmptySet, FS_CardinalityType

\* The function exists.
LEMMA TurnExists ==
  ASSUME NEW w0, NEW S, IsFiniteSet(S)
  PROVE  \E h : h = Turn(w0, S, h)
<1> DEFINE B == {n \in Nat : ~\E h : DOMAIN h = UpTo(S, n) /\ \A s \in UpTo(S, n) : Takes(w0, s, h)}
<1>1. \A s \in SUBSET S : Cardinality(s) \in Nat /\ (Cardinality(s) = 0 <=> s = {})
  BY Shorter
<1>2. \A s \in SUBSET S : s # {} => s \ {LastOf(s)} \in SUBSET S /\ Cardinality(s \ {LastOf(s)}) = Cardinality(s) - 1
  BY Shorter
<1>3. B = {}
  <2> SUFFICES ASSUME B # {} PROVE FALSE
    OBVIOUS
  <2>1. PICK n \in B : \A m \in B : n <= m
    BY LeastNat
  <2>2. n # 0
    <3> DEFINE h == [s \in UpTo(S, 0) |-> w0]
    <3>1. \A s \in UpTo(S, 0) : s = {}
      BY <1>1 DEF UpTo
    <3>2. \A s \in UpTo(S, 0) : Takes(w0, s, h)
      BY <3>1 DEF Takes
    <3>3. DOMAIN h = UpTo(S, 0)
      OBVIOUS
    <3> QED
      BY <3>2, <3>3
  <2>3. n \in Nat /\ n - 1 \in Nat /\ n - 1 \notin B
    BY <2>1, <2>2
  <2>4. PICK g : DOMAIN g = UpTo(S, n - 1) /\ \A s \in UpTo(S, n - 1) : Takes(w0, s, g)
    BY <2>3
  <2> DEFINE h == [s \in UpTo(S, n) |-> IF s \in UpTo(S, n - 1) THEN g[s]
                                        ELSE ApplyOne(g[s \ {LastOf(s)}], LastOf(s))]
  <2>5. ASSUME NEW s \in UpTo(S, n) PROVE Takes(w0, s, h)
    <3>1. s = {} => s \in UpTo(S, n - 1)
      BY <1>1, <2>3 DEF UpTo
    <3>2. s # {} => s \ {LastOf(s)} \in UpTo(S, n - 1) /\ s \ {LastOf(s)} \in UpTo(S, n)
      BY <1>1, <1>2, <2>3 DEF UpTo
    <3>3. s # {} => h[s \ {LastOf(s)}] = g[s \ {LastOf(s)}]
      BY <3>2
    <3>4. s \in UpTo(S, n - 1) => Takes(w0, s, g)
      BY <2>4
    <3> QED
      BY <3>1, <3>2, <3>3, <3>4 DEF Takes
  <2>6. DOMAIN h = UpTo(S, n)
    OBVIOUS
  <2> HIDE DEF h
  <2>7. n \notin B
    BY <2>3, <2>5, <2>6
  <2> QED
    BY <2>7
<1>4. Cardinality(S) \in Nat
  BY FS_CardinalityType
<1>5. PICK h : DOMAIN h = UpTo(S, Cardinality(S)) /\ \A s \in UpTo(S, Cardinality(S)) : Takes(w0, s, h)
  BY <1>3, <1>4
<1>6. UpTo(S, Cardinality(S)) = SUBSET S
  BY Shorter DEF UpTo
<1> DEFINE k == [s \in SUBSET S |-> h[s]]
<1>7. ASSUME NEW s \in SUBSET S PROVE k[s] = IF s = {} THEN w0 ELSE ApplyOne(k[s \ {LastOf(s)}], LastOf(s))
  BY <1>5, <1>6, Shorter DEF Takes
<1>8. k = Turn(w0, S, k)
  BY <1>7 DEF Turn
<1> QED
  BY <1>8

LEMMA ChangedWorks ==
  ASSUME RowsAssumption, NEW S, IsFiniteSet(S),
         \A c \in S : WellFormed(c),
         NEW b, NEW base, NEW by, DbOk(b), NEW w0, Working(w0, b, base, by)
  PROVE  Working(Changed(w0, S), b, base, by)
<1>1. PICK h : h = Turn(w0, S, h) /\ Changed(w0, S) = h[S]
  <2> DEFINE h == CHOOSE k : k = Turn(w0, S, k)
  <2>1. h = Turn(w0, S, h)
    BY TurnExists
  <2>2. Changed(w0, S) = h[S]
    BY DEF Changed
  <2> HIDE DEF h
  <2> QED
    BY <2>1, <2>2
<1>2. ASSUME NEW s \in SUBSET S
      PROVE  h[s] = IF s = {} THEN w0 ELSE ApplyOne(h[s \ {LastOf(s)}], LastOf(s))
  <2>1. Turn(w0, S, h)[s] = IF s = {} THEN w0 ELSE ApplyOne(h[s \ {LastOf(s)}], LastOf(s))
    BY DEF Turn
  <2> QED
    BY <1>1, <2>1
<1> DEFINE B == {s \in SUBSET S : ~Working(h[s], b, base, by)}
<1>3. /\ B \subseteq SUBSET S
      /\ \A s \in B : ~Working(h[s], b, base, by)
      /\ \A s \in SUBSET S : s \notin B => Working(h[s], b, base, by)
  OBVIOUS
<1> HIDE DEF B
<1>4. B = {}
  <2> SUFFICES ASSUME B # {} PROVE FALSE
    OBVIOUS
  <2>1. PICK s \in B : \A U \in B : ~(U \subseteq s /\ U # s)
    BY <1>3, LeastSet
  <2>2. s \in SUBSET S /\ s # {}
    BY <1>2, <1>3
  <2> DEFINE c == LastOf(s)
             w == h[s \ {c}]
  <2>3. c \in s /\ s \ {c} \in SUBSET S /\ s \ {c} # s
    BY <2>2, LastIsOne
  <2>4. Working(w, b, base, by)
    BY <1>3, <2>1, <2>3
  <2>5. h[s] = ApplyOne(w, c)
    BY <1>2, <2>2
  <2> HIDE DEF w, c
  <2>6. Working(h[s], b, base, by)
    <3>1. WellFormed(c)
      BY <2>2, <2>3
    <3> DEFINE u == h[s]
    <3>2. u = ApplyOne(w, c)
      BY <2>5
    <3> HIDE DEF u
    <3>3. Working(u, b, base, by)
      BY <2>4, <3>1, <3>2, ApplyOneWorks
    <3> QED
      BY <3>3 DEF u
  <2> QED
    BY <1>3, <2>6
<1> QED
  BY <1>1, <1>3, <1>4

-----------------------------------------------------------------------------
(* The books.                                                              *)

\* The columns of the loan and of its periods agree with the payments.
Books(b) ==
  Live(Loan, b) => /\ b.rows[Loan] = InBooks(b)
                   /\ \A i \in Periods : Live(i, b) => b.rows[i].paidAmount = PaidOn(b, i)

\* e has the payments of b and its periods cost the same.
SameFacts(b, e) ==
  /\ DOMAIN e.rows = DOMAIN b.rows
  /\ \A p \in Payments : Live(p, b) => e.rows[p] = b.rows[p]
  /\ \A i \in Periods : Live(i, b) => e.rows[i].baseAmount = b.rows[i].baseAmount

LEMMA SameSums ==
  ASSUME NEW b, NEW e, SameFacts(b, e)
  PROVE  /\ Collected(e) = Collected(b) /\ CapitalRemaining(e) = CapitalRemaining(b)
         /\ Outstanding(e) = Outstanding(b) /\ \A i : PaidOn(e, i) = PaidOn(b, i)
<1>1. Active(e) = Active(b) /\ \A p \in Active(b) : e.rows[p] = b.rows[p]
  BY DEF SameFacts, Active, Live
<1>2. ASSUME NEW S \in SUBSET Active(b) PROVE Sum(e, S) = Sum(b, S)
  <2>1. [p \in S |-> e.rows[p].amount] = [p \in S |-> b.rows[p].amount]
    BY <1>1
  <2> QED
    BY <2>1, Zenon DEF Sum
<1>3. Collected(e) = Collected(b)
  BY <1>1, <1>2 DEF Collected
<1>4. ASSUME NEW i PROVE PaidOn(e, i) = PaidOn(b, i)
  <2> DEFINE S == {p \in Active(b) : b.rows[p].installmentId = i}
  <2>1. {p \in Active(e) : e.rows[p].installmentId = i} = S /\ S \in SUBSET Active(b)
    BY <1>1
  <2>2. PaidOn(e, i) = Sum(e, S) /\ PaidOn(b, i) = Sum(b, S)
    BY <2>1, Zenon DEF PaidOn
  <2> HIDE DEF S
  <2> QED
    BY <1>2, <2>1, <2>2
<1>5. CapitalRemaining(e) = CapitalRemaining(b)
  <2> DEFINE S == {p \in Active(b) : b.rows[p].type = "principal" /\ b.rows[p].installmentId = NoPeriod}
             T == {p \in Active(e) : e.rows[p].type = "principal" /\ e.rows[p].installmentId = NoPeriod}
  <2>1. T = S /\ S \in SUBSET Active(b)
    BY <1>1
  <2>2. CapitalRemaining(e) = Max({0, Principal - Sum(e, T)}) /\ CapitalRemaining(b) = Max({0, Principal - Sum(b, S)})
    BY DEF CapitalRemaining
  <2> HIDE DEF S, T
  <2>3. Sum(e, T) = Sum(b, S)
    BY <1>2, <2>1
  <2> QED
    BY <2>2, <2>3, Zenon
<1>6. Outstanding(e) = Outstanding(b)
  <2> DEFINE L == {i \in Periods : Live(i, b)}
             K == {i \in Periods : Live(i, e)}
             f == [i \in L |-> Max({0, b.rows[i].baseAmount - PaidOn(b, i)})]
             g == [i \in K |-> Max({0, e.rows[i].baseAmount - PaidOn(e, i)})]
  <2>1. K = L
    BY DEF SameFacts, Live
  <2>2. \A i \in L : e.rows[i].baseAmount = b.rows[i].baseAmount
    BY DEF SameFacts
  <2>3. \A i \in L : Max({0, e.rows[i].baseAmount - PaidOn(e, i)}) = Max({0, b.rows[i].baseAmount - PaidOn(b, i)})
    BY <1>4, <2>2, Zenon
  <2> HIDE DEF L, K
  <2>4. g = f
    <3> DEFINE x(i) == Max({0, b.rows[i].baseAmount - PaidOn(b, i)})
               y(i) == Max({0, e.rows[i].baseAmount - PaidOn(e, i)})
    <3>1. \A i \in L : y(i) = x(i)
      BY <2>3, Zenon
    <3>2. f = [i \in L |-> x(i)] /\ g = [i \in K |-> y(i)]
      BY Zenon
    <3> HIDE DEF x, y, f, g
    <3> QED
      BY <2>1, <3>1, <3>2
  <2>5. Outstanding(e) = CapitalRemaining(e) + SumFunction(g) /\ Outstanding(b) = CapitalRemaining(b) + SumFunction(f)
    BY Zenon DEF Outstanding, K, L
  <2> HIDE DEF f, g
  <2> QED
    BY <1>5, <2>4, <2>5, Zenon
<1> QED
  BY <1>3, <1>4, <1>5, <1>6

\* What the books say of a loan does not depend on what its row says.
LEMMA InBooksIs ==
  ASSUME NEW b
  PROVE  /\ DOMAIN InBooks(b) = DOMAIN b.rows[Loan]
         /\ \A k \in DOMAIN b.rows[Loan] :
              InBooks(b)[k] = CASE k = "collected" -> Collected(b) [] k = "capitalRemaining" -> CapitalRemaining(b)
                                [] k = "outstanding" -> Outstanding(b) [] OTHER -> b.rows[Loan][k]
  BY DEF InBooks

\* What reconcile_debt leaves behind.
LEMMA ReconciledFacts ==
  ASSUME RowsAssumption, NEW b, NEW by, DbOk(b), Live(Loan, b), NEW e, e = Reconciled(b, by)
  PROVE  DbOk(e) /\ Grown(b, e, by) /\ Live(Loan, e) /\ Books(e)
<1> DEFINE changed == {i \in Periods : Live(i, b) /\ b.rows[i].paidAmount # PaidOn(b, i)}
           new == [i \in changed |-> [b.rows[i] EXCEPT !.paidAmount = PaidOn(b, i)]]
           c == SavedEach(b, new, by)
<1>0. Loan \in Row /\ Loan \notin Periods \cup Payments /\ Periods \subseteq Row /\ Periods \cap Payments = {}
  BY DEF Row, RowsAssumption
<1>1. e = IF b.rows[Loan] = InBooks(b) THEN c ELSE Saved(c, Loan, InBooks(b), by)
  BY DEF Reconciled
<1>2. DOMAIN new = changed /\ changed \subseteq Periods /\ changed \subseteq Row \ {Loan} /\ IsFiniteSet(changed)
  <2>1. changed \subseteq Periods
    OBVIOUS
  <2>2. IsFiniteSet(changed)
    BY <2>1, FS_Subset DEF RowsAssumption
  <2> QED
    BY <1>0, <2>1, <2>2
<1>3. \A i \in changed : /\ new[i].baseAmount = b.rows[i].baseAmount /\ new[i].paidAmount = PaidOn(b, i)
                         /\ PeriodOk(new[i])
  BY DEF DbOk, PeriodOk
<1>4. \A i \in Periods : Live(i, b) => i \in changed \/ b.rows[i].paidAmount = PaidOn(b, i)
  OBVIOUS
<1>8. \A i \in changed : Live(i, b)
  OBVIOUS
<1> HIDE DEF new, changed
<1>5. /\ Grown(b, c, by) /\ DOMAIN c = DbFields
      /\ DOMAIN c.rows = DOMAIN b.rows \cup changed /\ DOMAIN c.rows \subseteq Row
      /\ \A q \in DOMAIN c.rows : c.rows[q] = IF q \in changed THEN new[q] ELSE b.rows[q]
      /\ c.lastPk \in Nat /\ c.rev \in Nat /\ c.rev <= c.lastPk
  BY <1>2, SavedEachFacts
<1>6. DOMAIN c.rows = DOMAIN b.rows
  BY <1>5, <1>8 DEF Live
<1> HIDE DEF c
<1>9. \A i \in Periods : Live(i, c) => PeriodOk(c.rows[i])
  BY <1>3, <1>5, <1>6 DEF DbOk, Live
<1>10. DbOk(c)
  BY <1>5, <1>9 DEF DbOk
<1>11. /\ Live(Loan, c) /\ c.rows[Loan] = b.rows[Loan]
       /\ \A i \in Periods : Live(i, b) => /\ c.rows[i].baseAmount = b.rows[i].baseAmount
                                          /\ c.rows[i].paidAmount = PaidOn(b, i)
       /\ \A p \in Payments : Live(p, b) => c.rows[p] = b.rows[p]
  BY <1>0, <1>2, <1>3, <1>4, <1>5, <1>6 DEF Live
<1>12. /\ DbOk(e) /\ Grown(b, e, by) /\ DOMAIN e.rows = DOMAIN c.rows
       /\ e.rows[Loan] = InBooks(b)
       /\ \A q \in DOMAIN c.rows : q # Loan => e.rows[q] = c.rows[q]
  <2>1. CASE b.rows[Loan] = InBooks(b)
    BY <1>1, <1>5, <1>10, <1>11, <2>1
  <2>2. CASE b.rows[Loan] # InBooks(b)
    <3> DEFINE f == InBooks(b)
    <3>1. e = Saved(c, Loan, f, by)
      BY <1>1, <2>2
    <3> HIDE DEF f
    <3>2. /\ DOMAIN e.rows = DOMAIN c.rows \cup {Loan}
          /\ e.rows[Loan] = f /\ \A q \in DOMAIN c.rows : q # Loan => e.rows[q] = c.rows[q]
      BY <1>0, <1>10, <3>1, SavedFacts
    <3>3. DbOk(e) /\ Grown(c, e, by)
      BY <1>0, <1>10, <3>1, SavedOk
    <3>4. Grown(b, e, by)
      BY <1>5, <1>10, <3>3, GrownOn
    <3>5. DOMAIN e.rows = DOMAIN c.rows
      BY <1>11, <3>2 DEF Live
    <3> QED
      BY <3>2, <3>3, <3>4, <3>5 DEF f
  <2> QED
    BY <2>1, <2>2
<1>13. SameFacts(b, e)
  BY <1>0, <1>6, <1>11, <1>12 DEF SameFacts, Live
<1>14. /\ Collected(e) = Collected(b) /\ CapitalRemaining(e) = CapitalRemaining(b)
       /\ Outstanding(e) = Outstanding(b) /\ \A i : PaidOn(e, i) = PaidOn(b, i)
  BY <1>13, SameSums
<1>15. e.rows[Loan] = InBooks(e)
  <2>1. InBooks(e) = [InBooks(b) EXCEPT !.collected = Collected(b), !.capitalRemaining = CapitalRemaining(b),
                                        !.outstanding = Outstanding(b)]
    BY <1>12, <1>14, Zenon DEF InBooks
  <2> DEFINE x == Collected(b)
             y == CapitalRemaining(b)
             z == Outstanding(b)
             r == b.rows[Loan]
  <2>2. InBooks(b) = [r EXCEPT !.collected = x, !.capitalRemaining = y, !.outstanding = z]
    BY DEF InBooks
  <2> HIDE DEF x, y, z, r
  <2>3. InBooks(e) = [InBooks(b) EXCEPT !.collected = x, !.capitalRemaining = y, !.outstanding = z]
    BY <2>1 DEF x, y, z
  <2>4. [InBooks(b) EXCEPT !.collected = x, !.capitalRemaining = y, !.outstanding = z] = InBooks(b)
    BY <2>2
  <2> QED
    BY <1>12, <2>3, <2>4
<1>16. Live(Loan, e) /\ \A i \in Periods : Live(i, e) => e.rows[i].paidAmount = PaidOn(e, i)
  BY <1>0, <1>6, <1>11, <1>12, <1>14 DEF Live
<1> QED
  BY <1>12, <1>15, <1>16 DEF Books

\* A save of other terms of the loan leaves the books right.
LEMMA TermsKeepBooks ==
  ASSUME RowsAssumption, NEW b, NEW by, DbOk(b), Live(Loan, b), Books(b),
         NEW f, DOMAIN f \cap {"collected", "capitalRemaining", "outstanding"} = {},
         NEW e, e = Saved(b, Loan, Over(f, b.rows[Loan]), by)
  PROVE  DbOk(e) /\ Grown(b, e, by) /\ Books(e)
<1> DEFINE g == Over(f, b.rows[Loan])
<1>0. Loan \in Row /\ Loan \notin Periods \cup Payments
  BY DEF Row, RowsAssumption
<1>1. e = Saved(b, Loan, g, by)
  OBVIOUS
<1>2. DOMAIN g = DOMAIN f \cup DOMAIN b.rows[Loan] /\ \A k \in DOMAIN g \ DOMAIN f : g[k] = b.rows[Loan][k]
  BY DEF Over
<1>x. g = [k \in DOMAIN g |-> g[k]]
  BY DEF Over
<1> HIDE DEF g
<1>3. /\ DOMAIN e.rows = DOMAIN b.rows \cup {Loan}
      /\ e.rows[Loan] = g /\ \A q \in DOMAIN b.rows : q # Loan => e.rows[q] = b.rows[q]
  BY <1>0, <1>1, SavedFacts
<1>4. DbOk(e) /\ Grown(b, e, by)
  BY <1>0, <1>1, SavedOk
<1>5. SameFacts(b, e)
  BY <1>0, <1>3 DEF SameFacts, Live
<1>6. /\ Collected(e) = Collected(b) /\ CapitalRemaining(e) = CapitalRemaining(b)
      /\ Outstanding(e) = Outstanding(b) /\ \A i : PaidOn(e, i) = PaidOn(b, i)
  BY <1>5, SameSums
<1>7. \A k \in DOMAIN g : InBooks(e)[k] = g[k]
  <2> SUFFICES ASSUME NEW k \in DOMAIN g PROVE InBooks(e)[k] = g[k]
    OBVIOUS
  <2>1. InBooks(e)[k] = CASE k = "collected" -> Collected(b) [] k = "capitalRemaining" -> CapitalRemaining(b)
                          [] k = "outstanding" -> Outstanding(b) [] OTHER -> g[k]
    BY <1>3, <1>6, InBooksIs
  <2>2. CASE k \in {"collected", "capitalRemaining", "outstanding"}
    <3>1. k \in DOMAIN b.rows[Loan] /\ g[k] = b.rows[Loan][k]
      BY <1>2, <2>2
    <3>2. b.rows[Loan][k] = InBooks(b)[k]
      BY DEF Books
    <3>3. InBooks(b)[k] = CASE k = "collected" -> Collected(b) [] k = "capitalRemaining" -> CapitalRemaining(b)
                            [] k = "outstanding" -> Outstanding(b) [] OTHER -> b.rows[Loan][k]
      BY <3>1, InBooksIs
    <3> QED
      BY <2>1, <2>2, <3>1, <3>2, <3>3
  <2>3. CASE k \notin {"collected", "capitalRemaining", "outstanding"}
    BY <2>1, <2>3
  <2> QED
    BY <2>2, <2>3
<1>8. InBooks(e) = g
  <2>1. InBooks(e) = [g EXCEPT !.collected = Collected(e), !.capitalRemaining = CapitalRemaining(e),
                               !.outstanding = Outstanding(e)]
    BY <1>3, Zenon DEF InBooks
  <2> DEFINE h == InBooks(e)
  <2>2. h = [k \in DOMAIN g |-> h[k]]
    BY <2>1
  <2> HIDE DEF h
  <2>3. \A k \in DOMAIN g : h[k] = g[k]
    BY <1>7 DEF h
  <2> QED
    BY <2>2, <2>3, <1>x DEF h
<1>9. \A i \in Periods : Live(i, e) => e.rows[i].paidAmount = PaidOn(e, i)
  BY <1>0, <1>3, <1>6 DEF Live, Books
<1> QED
  BY <1>3, <1>4, <1>8, <1>9 DEF Books

\* A mutation that goes through leaves the books right.
LEMMA FinishedWorks ==
  ASSUME RowsAssumption, NEW b, NEW base, NEW by, DbOk(b), Books(b),
         NEW w, Working(w, b, base, by), NEW v, v = Finished(w)
  PROVE  Working(v, b, base, by) /\ (v.error = "none" => Books(v.db))
<1>1. CASE w.error # "none"
  BY <1>1 DEF Finished
<1>2. CASE w.error = "none" /\ v = Failed(w, "missing_installments")
  <2>1. Working(v, b, base, by)
    BY <1>2, FailedWorks
  <2>2. v.error = "missing_installments"
    BY <1>2 DEF Failed, Working, WorkFields
  <2> QED
    BY <2>1, <2>2
<1>3. CASE v = [w EXCEPT !.db = Reconciled(w.db, w.by)] /\ w.touched /\ Live(Loan, w.db)
  <2> DEFINE e == Reconciled(w.db, w.by)
  <2>1. DbOk(w.db) /\ w.by = by /\ Grown(b, w.db, by)
    BY DEF Working
  <2>2. DbOk(e) /\ Grown(w.db, e, by) /\ Books(e)
    BY <1>3, <2>1, ReconciledFacts
  <2>3. v = [w EXCEPT !.db = e]
    BY <1>3
  <2> HIDE DEF e
  <2>4. /\ DOMAIN v = WorkFields /\ v.base = w.base /\ v.by = w.by /\ v.db = e /\ v.touched = w.touched
        /\ v.structural = w.structural /\ v.error = w.error /\ v.sets = w.sets /\ v.notices = w.notices
    BY <2>3 DEF Working, WorkFields
  <2>5. Grown(b, e, by)
    BY <2>1, <2>2, GrownOn
  <2> QED
    BY <1>3, <2>2, <2>4, <2>5 DEF Working
<1>4. CASE v = w /\ ~(w.touched /\ Live(Loan, w.db))
  <2>1. w.db.rows = b.rows \/ ~Live(Loan, w.db)
    BY <1>4 DEF Working
  <2>2. CASE ~Live(Loan, w.db)
    BY <1>4, <2>2 DEF Books
  <2>3. CASE w.db.rows = b.rows
    <3> DEFINE e == w.db
    <3>1. e.rows = b.rows
      BY <2>3
    <3> HIDE DEF e
    <3>2. SameFacts(b, e)
      BY <3>1 DEF SameFacts
    <3>3. /\ Collected(e) = Collected(b) /\ CapitalRemaining(e) = CapitalRemaining(b)
          /\ Outstanding(e) = Outstanding(b) /\ \A i : PaidOn(e, i) = PaidOn(b, i)
      BY <3>2, SameSums
    <3>4. InBooks(e) = InBooks(b)
      BY <3>1, <3>3, Zenon DEF InBooks
    <3>5. Books(e)
      BY <3>1, <3>3, <3>4 DEF Books, Live
    <3> QED
      BY <1>4, <3>5 DEF e
  <2> QED
    BY <2>1, <2>2, <2>3
<1> QED
  <2>1. v = CASE w.error # "none" -> w
              [] w.error = "none" /\ w.created /\ ~\E i \in Periods : Live(i, w.db) -> Failed(w, "missing_installments")
              [] OTHER -> IF w.touched /\ Live(Loan, w.db) THEN [w EXCEPT !.db = Reconciled(w.db, w.by)] ELSE w
    BY DEF Finished
  <2> QED
    BY <1>1, <1>2, <1>3, <1>4, <2>1

-----------------------------------------------------------------------------
(* The sums of a loan without payments and with one period.                *)

Term(f, S, h) == [s \in SUBSET S |-> IF s = {} THEN 0 ELSE f[CHOOSE x \in s : TRUE] + h[s \ {CHOOSE x \in s : TRUE}]]

LEMMA SumIs ==
  ASSUME NEW f, NEW S
  PROVE  SumFunctionOnSet(f, S) = (CHOOSE h : h = Term(f, S, h))[S]
  BY DEF SumFunctionOnSet, FoldFunctionOnSet, MapThenFoldSet, Term

LEMMA SumOfNone == \A f : SumFunctionOnSet(f, {}) = 0
<1> SUFFICES ASSUME NEW f PROVE SumFunctionOnSet(f, {}) = 0
  OBVIOUS
<1> DEFINE k == [s \in SUBSET {} |-> 0]
           H == CHOOSE h : h = Term(f, {}, h)
<1>1. k = Term(f, {}, k)
  BY DEF Term
<1>2. H = Term(f, {}, H)
  <2> HIDE DEF k
  <2> QED
    BY <1>1
<1>3. SumFunctionOnSet(f, {}) = H[{}]
  BY SumIs
<1> HIDE DEF H
<1>4. Term(f, {}, H)[{}] = 0
  BY DEF Term
<1> QED
  BY <1>2, <1>3, <1>4

LEMMA SumOfOne ==
  ASSUME NEW f, NEW x, f[x] \in Int
  PROVE  SumFunctionOnSet(f, {x}) = f[x]
<1> DEFINE k == [s \in SUBSET {x} |-> IF s = {} THEN 0 ELSE f[x]]
           H == CHOOSE h : h = Term(f, {x}, h)
<1>0. \A s \in SUBSET {x} : s # {} => (CHOOSE y \in s : TRUE) = x /\ s \ {CHOOSE y \in s : TRUE} = {}
  <2> TAKE s \in SUBSET {x}
  <2>1. s # {} => s = {x}
    OBVIOUS
  <2> QED
    BY <2>1
<1>1. k = Term(f, {x}, k)
  <2>1. \A s \in SUBSET {x} : k[s] = IF s = {} THEN 0 ELSE f[CHOOSE y \in s : TRUE] + k[s \ {CHOOSE y \in s : TRUE}]
    <3> TAKE s \in SUBSET {x}
    <3>1. k[{}] = 0
      OBVIOUS
    <3>2. f[x] + 0 = f[x]
      OBVIOUS
    <3> QED
      BY <1>0, <3>1, <3>2
  <2> QED
    BY <2>1 DEF Term
<1>2. H = Term(f, {x}, H)
  <2> HIDE DEF k
  <2> QED
    BY <1>1
<1>3. SumFunctionOnSet(f, {x}) = H[{x}]
  BY SumIs
<1> HIDE DEF H, k
<1>4. ASSUME NEW s \in SUBSET {x}
      PROVE  H[s] = IF s = {} THEN 0 ELSE f[CHOOSE y \in s : TRUE] + H[s \ {CHOOSE y \in s : TRUE}]
  <2>1. Term(f, {x}, H)[s] = IF s = {} THEN 0 ELSE f[CHOOSE y \in s : TRUE] + H[s \ {CHOOSE y \in s : TRUE}]
    BY DEF Term
  <2> QED
    BY <1>2, <2>1
<1>5. H[{}] = 0
  BY <1>4
<1>6. H[{x}] = f[x] + H[{}]
  <2>1. (CHOOSE y \in {x} : TRUE) = x /\ {x} \ {CHOOSE y \in {x} : TRUE} = {}
    BY <1>0
  <2> DEFINE s == {x}
  <2>2. s \in SUBSET {x} /\ s # {}
    OBVIOUS
  <2>3. H[s] = f[CHOOSE y \in s : TRUE] + H[s \ {CHOOSE y \in s : TRUE}]
    <3> HIDE DEF s
    <3> QED
      BY <1>4, <2>2
  <2> QED
    BY <2>1, <2>3
<1> QED
  BY <1>3, <1>5, <1>6

LEMMA MaxOfTwo == \A n \in Nat : Max({0, n}) = n
<1> SUFFICES ASSUME NEW n \in Nat PROVE Max({0, n}) = n
  OBVIOUS
<1> DEFINE S == {0, n}
<1>1. S \subseteq 0..n /\ S # {} /\ n \in S
  OBVIOUS
<1> HIDE DEF S
<1>2. Max(S) \in S /\ \A x \in S : x <= Max(S)
  BY <1>1, Greatest
<1>3. Max(S) \in 0..n /\ n <= Max(S)
  BY <1>1, <1>2
<1>4. Max(S) = n
  BY <1>3
<1> QED
  BY <1>4 DEF S

-----------------------------------------------------------------------------
(* The beginning.                                                          *)

LEMMA EmptyOk == DbOk(Empty) /\ Books(Empty)
<1>1. Empty = [rows |-> <<>>, rev |-> 0, log |-> {}, lastPk |-> 0, floor |-> 0]
  BY DEF Empty
<1>2. DOMAIN Empty.rows = {}
  BY <1>1
<1>3. DOMAIN Empty = DbFields /\ Empty.lastPk = 0 /\ Empty.rev = 0
  BY <1>1 DEF DbFields
<1>4. \A r : ~Live(r, Empty)
  BY <1>2 DEF Live
<1> QED
  BY <1>2, <1>3, <1>4 DEF DbOk, Books

\* The loan made in the browser.
LEMMA WithLoanOk ==
  ASSUME RowsAssumption
  PROVE  DbOk(WithLoan) /\ Grown(Empty, WithLoan, WebId) /\ Books(WithLoan)
<1> DEFINE loan == [dueDate |-> 1, penaltyRate |-> 0, collected |-> 0, capitalRemaining |-> Principal,
                    outstanding |-> 2 * Principal]
           period == [number |-> 1, dueDate |-> 1, baseAmount |-> Principal, paidAmount |-> 0]
           b == Saved(Empty, Loan, loan, WebId)
           c == Saved(b, FirstPeriod, period, WebId)
           e == Saved(c, Loan, loan, WebId)
<1>0. /\ Loan \in Row /\ FirstPeriod \in Row /\ FirstPeriod \in Periods /\ Loan \notin Periods \cup Payments
      /\ Periods \cap Payments = {} /\ Loan # FirstPeriod
  BY DEF Row, RowsAssumption
<1>1. WithLoan = e
  <2>1. NewRows[Loan] = loan /\ NewRows[FirstPeriod] = period
    BY <1>0 DEF NewRows
  <2> HIDE DEF loan, period
  <2> QED
    BY <2>1 DEF WithLoan
<1>2. PeriodOk(period) /\ period.baseAmount = Principal /\ period.paidAmount = 0
  BY DEF PeriodOk
<1>3. loan.collected = 0 /\ loan.capitalRemaining = Principal /\ loan.outstanding = 2 * Principal
  OBVIOUS
<1>x. loan = [k \in DOMAIN loan |-> loan[k]]
  OBVIOUS
<1> HIDE DEF loan, period
<1>4. DbOk(b) /\ Grown(Empty, b, WebId) /\ DOMAIN b.rows = {Loan} /\ b.rows[Loan] = loan
  <2>1. DOMAIN Empty.rows = {}
    BY DEF Empty
  <2>2. DbOk(b) /\ Grown(Empty, b, WebId)
    BY <1>0, EmptyOk, SavedOk
  <2>3. DOMAIN b.rows = DOMAIN Empty.rows \cup {Loan} /\ b.rows[Loan] = loan
    BY <1>0, EmptyOk, SavedFacts
  <2> QED
    BY <2>1, <2>2, <2>3
<1> HIDE DEF b
<1>5. DbOk(c) /\ Grown(b, c, WebId) /\ DOMAIN c.rows = {Loan, FirstPeriod} /\ c.rows[FirstPeriod] = period
  <2>2. DbOk(c) /\ Grown(b, c, WebId)
    BY <1>0, <1>2, <1>4, SavedOk
  <2>3. DOMAIN c.rows = DOMAIN b.rows \cup {FirstPeriod} /\ c.rows[FirstPeriod] = period
    BY <1>0, <1>4, SavedFacts
  <2> QED
    BY <1>4, <2>2, <2>3
<1> HIDE DEF c
<1>6. /\ DbOk(e) /\ Grown(c, e, WebId) /\ DOMAIN e.rows = {Loan, FirstPeriod}
      /\ e.rows[Loan] = loan /\ e.rows[FirstPeriod] = period
  <2>2. DbOk(e) /\ Grown(c, e, WebId)
    BY <1>0, <1>5, SavedOk
  <2>3. /\ DOMAIN e.rows = DOMAIN c.rows \cup {Loan} /\ e.rows[Loan] = loan
        /\ \A q \in DOMAIN c.rows : q # Loan => e.rows[q] = c.rows[q]
    BY <1>0, <1>5, SavedFacts
  <2> QED
    BY <1>0, <1>5, <2>2, <2>3
<1> HIDE DEF e
<1>7. Grown(Empty, e, WebId)
  <2>1. Grown(Empty, c, WebId)
    BY <1>4, <1>5, EmptyOk, GrownOn
  <2> QED
    BY <1>5, <1>6, <2>1, EmptyOk, GrownOn
<1>8. Active(e) = {}
  BY <1>0, <1>6 DEF Active, Live
<1>9. ASSUME NEW S, S = {} PROVE Sum(e, S) = 0
  <2> DEFINE f == [p \in S |-> e.rows[p].amount]
  <2>1. DOMAIN f = {} /\ Sum(e, S) = SumFunctionOnSet(f, DOMAIN f)
    BY <1>9, Zenon DEF Sum, SumFunction
  <2> HIDE DEF f
  <2> QED
    BY <2>1, SumOfNone
<1>10. Collected(e) = 0 /\ \A i : PaidOn(e, i) = 0
  BY <1>8, <1>9 DEF Collected, PaidOn
<1>11. CapitalRemaining(e) = Principal
  <2> DEFINE S == {p \in Active(e) : e.rows[p].type = "principal" /\ e.rows[p].installmentId = NoPeriod}
  <2>1. S = {}
    BY <1>8
  <2>2. CapitalRemaining(e) = Max({0, Principal - Sum(e, S)})
    BY DEF CapitalRemaining
  <2> HIDE DEF S
  <2>3. Sum(e, S) = 0 /\ Principal \in Nat
    BY <1>9, <2>1 DEF RowsAssumption
  <2>4. Principal - Sum(e, S) = Principal
    BY <2>3
  <2> QED
    BY <2>2, <2>3, <2>4, MaxOfTwo
<1>12. Outstanding(e) = 2 * Principal
  <2> DEFINE L == {i \in Periods : Live(i, e)}
             x(i) == Max({0, e.rows[i].baseAmount - PaidOn(e, i)})
             f == [i \in L |-> x(i)]
  <2>1. L = {FirstPeriod}
    BY <1>0, <1>6 DEF Live
  <2>2. Outstanding(e) = CapitalRemaining(e) + SumFunctionOnSet(f, DOMAIN f)
    BY Zenon DEF Outstanding, SumFunction
  <2>3. x(FirstPeriod) = Principal
    <3>1. e.rows[FirstPeriod].baseAmount - PaidOn(e, FirstPeriod) = Principal /\ Principal \in Nat
      BY <1>2, <1>6, <1>10 DEF RowsAssumption
    <3> QED
      BY <3>1, MaxOfTwo
  <2> HIDE DEF L, x
  <2>4. DOMAIN f = {FirstPeriod} /\ f[FirstPeriod] = Principal
    BY <2>1, <2>3
  <2> HIDE DEF f
  <2>5. SumFunctionOnSet(f, DOMAIN f) = Principal
    <3>1. f[FirstPeriod] \in Int
      BY <2>4 DEF RowsAssumption
    <3>2. SumFunctionOnSet(f, {FirstPeriod}) = f[FirstPeriod]
      BY <3>1, SumOfOne
    <3> QED
      BY <2>4, <3>2
  <2> QED
    BY <1>11, <2>2, <2>5 DEF RowsAssumption
<1>13. e.rows[Loan] = InBooks(e)
  <2>1. InBooks(e) = [loan EXCEPT !.collected = 0, !.capitalRemaining = Principal, !.outstanding = 2 * Principal]
    BY <1>6, <1>10, <1>11, <1>12, Zenon DEF InBooks
  <2> DEFINE twice == 2 * Principal
             s == [loan EXCEPT !.collected = 0, !.capitalRemaining = Principal, !.outstanding = twice]
  <2>2. InBooks(e) = s
    BY <2>1
  <2>3. loan.collected = 0 /\ loan.capitalRemaining = Principal /\ loan.outstanding = twice
    BY <1>3
  <2> HIDE DEF twice
  <2>4. DOMAIN s = DOMAIN loan /\ \A k \in DOMAIN loan : s[k] = loan[k]
    BY <2>3
  <2>5. s = [k \in DOMAIN s |-> s[k]]
    OBVIOUS
  <2>6. s = loan
    <3> HIDE DEF s
    <3> QED
      BY <1>x, <2>4, <2>5
  <2> QED
    BY <1>6, <2>2, <2>6
<1>14. \A i \in Periods : Live(i, e) => e.rows[i].paidAmount = PaidOn(e, i)
  BY <1>0, <1>2, <1>6, <1>10 DEF Live
<1> QED
  BY <1>1, <1>6, <1>7, <1>13, <1>14 DEF Books

-----------------------------------------------------------------------------
(* The browser.                                                            *)

\* A finite set of natural numbers is bounded.
LEMMA Bounded ==
  ASSUME NEW S, IsFiniteSet(S), S \subseteq Nat
  PROVE  \E n \in Nat : S \subseteq 0..n
<1> DEFINE B == {T \in SUBSET S : ~\E n \in Nat : T \subseteq 0..n}
<1>0. B \subseteq SUBSET S
  OBVIOUS
<1>1. /\ \A T \in B : ~\E n \in Nat : T \subseteq 0..n
      /\ \A T \in SUBSET S : T \notin B => \E n \in Nat : T \subseteq 0..n
  OBVIOUS
<1> HIDE DEF B
<1>2. B = {}
  <2> SUFFICES ASSUME B # {} PROVE FALSE
    OBVIOUS
  <2>1. PICK T \in B : \A U \in B : ~(U \subseteq T /\ U # T)
    <3>1. B # {} /\ IsFiniteSet(S)
      OBVIOUS
    <3> QED
      BY ONLY <1>0, <3>1, LeastSet
  <2>2. T # {}
    <3>1. {} \subseteq 0..0 /\ 0 \in Nat
      OBVIOUS
    <3> QED
      BY <1>1, <3>1
  <2>3. PICK x \in T : TRUE
    BY <2>2
  <2>4. T \ {x} \notin B /\ T \ {x} \in SUBSET S /\ x \in Nat
    BY <1>0, <2>1, <2>3
  <2>5. PICK n \in Nat : T \ {x} \subseteq 0..n
    BY <1>1, <2>4
  <2>6. T \subseteq 0..(n + x) /\ n + x \in Nat
    BY <2>4, <2>5
  <2> QED
    BY <1>1, <2>6
<1>3. S \in SUBSET S /\ S \notin B
  BY <1>2
<1> QED
  BY <1>1, <1>3

\* A save of the browser.
LEMMA WebSavedFacts ==
  ASSUME RowsAssumption, NEW b, DbOk(b), NEW r \in Row, NEW fields,
         r \in Periods => PeriodOk(fields) \/ PeriodOk(Over(fields, b.rows[r])),
         NEW e, \/ e = WebSaved(b, r, fields) /\ (r \in Periods => PeriodOk(Over(fields, b.rows[r])))
                \/ e = Saved(b, r, fields, WebId) /\ (r \in Periods => PeriodOk(fields))
  PROVE  DbOk(e) /\ Grown(b, e, WebId) /\ DOMAIN e.rows = DOMAIN b.rows \cup {r}
<1> DEFINE f == Over(fields, b.rows[r])
<1>1. \/ e = Saved(b, r, f, WebId) /\ (r \in Periods => PeriodOk(f))
      \/ e = Saved(b, r, fields, WebId) /\ (r \in Periods => PeriodOk(fields))
  BY DEF WebSaved
<1> HIDE DEF f
<1>2. DbOk(e) /\ Grown(b, e, WebId)
  BY <1>1, SavedOk
<1>3. DOMAIN e.rows = DOMAIN b.rows \cup {r}
  BY <1>1, SavedFacts
<1> QED
  BY <1>2, <1>3

\* One of the open periods comes first.
LEMMA FirstIsOpen ==
  ASSUME RowsAssumption, DbOk(db), OpenPeriods # {}
  PROVE  First(OpenPeriods) \in OpenPeriods
<1> DEFINE B == {db.rows[i].number : i \in OpenPeriods}
<1>1. \A i \in OpenPeriods : db.rows[i].number \in Nat
  BY DEF OpenPeriods, DbOk, PeriodOk
<1>2. B \subseteq Nat /\ B # {} /\ \A j \in OpenPeriods : db.rows[j].number \in B
  BY <1>1
<1>3. \A n \in B : \E i \in OpenPeriods : n = db.rows[i].number
  OBVIOUS
<1> HIDE DEF B
<1>4. PICK n \in B : \A m \in B : n <= m
  BY <1>2, LeastNat
<1>5. PICK i \in OpenPeriods : n = db.rows[i].number
  BY <1>3
<1>6. \A j \in OpenPeriods : db.rows[i].number <= db.rows[j].number
  BY <1>2, <1>4, <1>5
<1> QED
  BY <1>6 DEF First

\* Numbers of periods have a greatest.
LEMMA TopIsNat ==
  ASSUME RowsAssumption, DbOk(db), OpenPeriods # {},
         NEW top, top = Max({db.rows[i].number : i \in {j \in Periods : Live(j, db)}})
  PROVE  top \in Nat
<1> DEFINE L == {j \in Periods : Live(j, db)}
           B == {db.rows[i].number : i \in L}
<1>1. IsFiniteSet(L)
  BY FS_Subset DEF RowsAssumption
<1>2. \A i \in L : db.rows[i].number \in Nat
  BY DEF DbOk, PeriodOk
<1>3. L # {}
  BY DEF OpenPeriods
<1> HIDE DEF L
<1>4. IsFiniteSet(B) /\ B \subseteq Nat /\ B # {}
  <2> DEFINE f == [i \in L |-> db.rows[i].number]
  <2>1. f \in Surjection(L, B)
    BY DEF Surjection
  <2>2. IsFiniteSet(B)
    <3> HIDE DEF f, B
    <3> QED
      BY <1>1, <2>1, FS_Surjection
  <2> QED
    BY <1>2, <1>3, <2>2
<1>5. top = Max(B)
  BY DEF L
<1> HIDE DEF B
<1>6. PICK n \in Nat : B \subseteq 0..n
  BY <1>4, Bounded
<1>7. Max(B) \in B
  BY <1>4, <1>6, Greatest
<1> QED
  BY <1>4, <1>5, <1>7

\* What a write of the browser leaves behind.
LEMMA WebBooks ==
  ASSUME RowsAssumption, DbOk(db), Live(Loan, db),
         NEW b, DbOk(b), Grown(db, b, WebId), DOMAIN db.rows \subseteq DOMAIN b.rows,
         NEW fields, NEW e, e = Reconciled(WebSaved(b, Loan, fields), WebId)
  PROVE  DbOk(e) /\ Grown(db, e, WebId) /\ Books(e)
<1> DEFINE c == WebSaved(b, Loan, fields)
<1>0. Loan \in Row /\ Loan \notin Periods
  BY DEF Row, RowsAssumption
<1>1. DbOk(c) /\ Grown(b, c, WebId) /\ DOMAIN c.rows = DOMAIN b.rows \cup {Loan}
  BY <1>0, WebSavedFacts
<1>2. e = Reconciled(c, WebId)
  OBVIOUS
<1> HIDE DEF c
<1>3. Live(Loan, c)
  BY <1>1 DEF Live
<1>4. DbOk(e) /\ Grown(c, e, WebId) /\ Books(e)
  BY <1>1, <1>2, <1>3, ReconciledFacts
<1>5. Grown(db, c, WebId)
  BY <1>1, GrownOn
<1> QED
  BY <1>1, <1>4, <1>5, GrownOn

LEMMA WebInterestFacts ==
  ASSUME RowsAssumption, DbOk(db), NEW p \in WebPayments, NEW n \in WebPeriods, WebInterest(p, n)
  PROVE  DbOk(db') /\ Grown(db, db', WebId) /\ Books(db') /\ past' = past \cup db'.log
         /\ UNCHANGED <<record, accepted, refused, phones, answers>>
<1> DEFINE open == First(OpenPeriods)
           due == db.rows[open].baseAmount - db.rows[open].paidAmount
           top == Max({db.rows[i].number : i \in {j \in Periods : Live(j, db)}})
           later == db.rows[open].dueDate + 1
           paidFields == [paidAmount |-> db.rows[open].baseAmount]
           paid == WebSaved(db, open, paidFields)
           factFields == [amount |-> due, installmentId |-> open, type |-> "interest", reversedAt |-> FALSE]
           fact == Saved(paid, p, factFields, WebId)
           madeFields == [number |-> top + 1, dueDate |-> later,
                          baseAmount |-> db.rows[Loan].capitalRemaining, paidAmount |-> 0]
           made == Saved(fact, n, madeFields, WebId)
           fields == Over([dueDate |-> later], InBooks(made))
           e == Reconciled(WebSaved(made, Loan, fields), WebId)
<1>0. /\ p \in Row /\ n \in Row /\ p \notin Periods /\ n \in Periods
  BY DEF Row, RowsAssumption
<1>1. OpenPeriods # {} /\ Live(Loan, db) /\ Browser(e)
  BY DEF WebInterest, MayWrite
<1>2. open \in OpenPeriods /\ open \in Periods /\ open \in Row /\ Live(open, db)
  BY <1>1, FirstIsOpen DEF OpenPeriods, Row
<1>3. top \in Nat
  BY <1>1, TopIsNat
<1>4. PeriodOk(madeFields)
  <2> HIDE DEF top, later
  <2> QED
    BY <1>3 DEF PeriodOk
<1>5. PeriodOk(Over(paidFields, db.rows[open]))
  <2>1. PeriodOk(db.rows[open])
    BY <1>2 DEF DbOk
  <2>2. DOMAIN paidFields = {"paidAmount"}
    OBVIOUS
  <2> HIDE DEF paidFields, open
  <2> DEFINE f == Over(paidFields, db.rows[open])
  <2>3. DOMAIN f = DOMAIN paidFields \cup DOMAIN db.rows[open]
    BY OverDomain
  <2>4. f.number = db.rows[open].number
    BY <2>1, <2>2 DEF Over, PeriodOk
  <2> HIDE DEF f
  <2>5. PeriodOk(f)
    BY <2>1, <2>3, <2>4 DEF PeriodOk
  <2> QED
    BY <2>5 DEF f
<1> HIDE DEF open, paidFields, factFields, madeFields
<1>6. DbOk(paid) /\ Grown(db, paid, WebId) /\ DOMAIN paid.rows = DOMAIN db.rows \cup {open}
  BY <1>2, <1>5, WebSavedFacts
<1> HIDE DEF paid
<1>7. DbOk(fact) /\ Grown(paid, fact, WebId) /\ DOMAIN fact.rows = DOMAIN paid.rows \cup {p}
  BY <1>0, <1>6, WebSavedFacts
<1> HIDE DEF fact
<1>8. DbOk(made) /\ Grown(fact, made, WebId) /\ DOMAIN made.rows = DOMAIN fact.rows \cup {n}
  BY <1>0, <1>4, <1>7, WebSavedFacts
<1> HIDE DEF made, fields
<1>9. Grown(db, made, WebId) /\ DOMAIN db.rows \subseteq DOMAIN made.rows
  <2>1. Grown(db, fact, WebId)
    BY <1>6, <1>7, GrownOn
  <2> QED
    BY <1>6, <1>7, <1>8, <2>1, GrownOn
<1>10. DbOk(e) /\ Grown(db, e, WebId) /\ Books(e)
  BY <1>1, <1>8, <1>9, WebBooks
<1> HIDE DEF e
<1> QED
  BY <1>1, <1>10 DEF Browser

LEMMA WebPrincipalFacts ==
  ASSUME RowsAssumption, DbOk(db), NEW p \in WebPayments, WebPrincipal(p)
  PROVE  DbOk(db') /\ Grown(db, db', WebId) /\ Books(db') /\ past' = past \cup db'.log
         /\ UNCHANGED <<record, accepted, refused, phones, answers>>
<1> DEFINE left == db.rows[Loan].capitalRemaining - 1
           open == First(OpenPeriods)
           lowerFields == [baseAmount |-> left, paidAmount |-> Min({db.rows[open].paidAmount, left})]
           lower == IF OpenPeriods = {} THEN db ELSE WebSaved(db, open, lowerFields)
           factFields == [amount |-> 1, installmentId |-> NoPeriod, type |-> "principal", reversedAt |-> FALSE]
           fact == Saved(lower, p, factFields, WebId)
           fields == InBooks(fact)
           e == Reconciled(WebSaved(fact, Loan, fields), WebId)
<1>0. p \in Row /\ p \notin Periods
  BY DEF Row, RowsAssumption
<1>1. Live(Loan, db) /\ Browser(e)
  BY DEF WebPrincipal, MayWrite
<1>2. DbOk(lower) /\ Grown(db, lower, WebId) /\ DOMAIN db.rows \subseteq DOMAIN lower.rows
  <2>1. CASE OpenPeriods = {}
    BY <2>1, GrownNot
  <2>2. CASE OpenPeriods # {}
    <3>1. open \in Periods /\ open \in Row /\ Live(open, db)
      BY <2>2, FirstIsOpen DEF OpenPeriods, Row
    <3>2. PeriodOk(db.rows[open])
      BY <3>1 DEF DbOk
    <3>3. DOMAIN lowerFields = {"baseAmount", "paidAmount"}
      OBVIOUS
    <3> HIDE DEF lowerFields, open
    <3> DEFINE f == Over(lowerFields, db.rows[open])
    <3>4. DOMAIN f = DOMAIN lowerFields \cup DOMAIN db.rows[open]
      BY OverDomain
    <3>5. f.number = db.rows[open].number
      BY <3>2, <3>3 DEF Over, PeriodOk
    <3> HIDE DEF f
    <3>6. PeriodOk(f)
      BY <3>2, <3>4, <3>5 DEF PeriodOk
    <3>7. PeriodOk(Over(lowerFields, db.rows[open]))
      BY <3>6 DEF f
    <3>8. lower = WebSaved(db, open, lowerFields)
      BY <2>2
    <3> HIDE DEF lower
    <3>9. DbOk(lower) /\ Grown(db, lower, WebId) /\ DOMAIN lower.rows = DOMAIN db.rows \cup {open}
      BY <3>1, <3>7, <3>8, WebSavedFacts
    <3> QED
      BY <3>9
  <2> QED
    BY <2>1, <2>2
<1> HIDE DEF lower, factFields
<1>7. DbOk(fact) /\ Grown(lower, fact, WebId) /\ DOMAIN fact.rows = DOMAIN lower.rows \cup {p}
  BY <1>0, <1>2, WebSavedFacts
<1> HIDE DEF fact
<1>8. Grown(db, fact, WebId) /\ DOMAIN db.rows \subseteq DOMAIN fact.rows
  BY <1>2, <1>7, GrownOn
<1> HIDE DEF fields
<1>10. DbOk(e) /\ Grown(db, e, WebId) /\ Books(e)
  BY <1>1, <1>7, <1>8, WebBooks
<1> HIDE DEF e
<1> QED
  BY <1>1, <1>10 DEF Browser

LEMMA WebTermsFacts ==
  ASSUME RowsAssumption, DbOk(db), Books(db), WebRate \/ WebTouch
  PROVE  DbOk(db') /\ Grown(db, db', WebId) /\ Books(db') /\ past' = past \cup db'.log
         /\ UNCHANGED <<record, accepted, refused, phones, answers>>
<1> DEFINE rate == [penaltyRate |-> 1 - db.rows[Loan].penaltyRate]
<1>1. /\ Live(Loan, db)
      /\ Browser(WebSaved(db, Loan, rate)) \/ Browser(WebSaved(db, Loan, <<>>))
  BY DEF WebRate, WebTouch, MayWrite
<1>2. DOMAIN rate \cap {"collected", "capitalRemaining", "outstanding"} = {}
  <2>1. DOMAIN rate = {"penaltyRate"}
    OBVIOUS
  <2> HIDE DEF rate
  <2> QED
    BY <2>1
<1>3. DOMAIN <<>> \cap {"collected", "capitalRemaining", "outstanding"} = {}
  OBVIOUS
<1> HIDE DEF rate
<1>4. PICK f : DOMAIN f \cap {"collected", "capitalRemaining", "outstanding"} = {} /\ Browser(WebSaved(db, Loan, f))
  BY <1>1, <1>2, <1>3
<1> DEFINE e == Saved(db, Loan, Over(f, db.rows[Loan]), WebId)
<1>5. DbOk(e) /\ Grown(db, e, WebId) /\ Books(e)
  BY <1>1, <1>4, TermsKeepBooks
<1>6. Browser(e)
  BY <1>4 DEF WebSaved
<1> HIDE DEF e
<1> QED
  BY <1>5, <1>6 DEF Browser

-----------------------------------------------------------------------------
(* The invariant of the log and of the decisions.                          *)

\* The log is what is left of the past, the books are right, and what is
\* missing from the log is below its floor.
LogInv ==
  /\ DbOk(db) /\ Books(db)
  /\ db.floor \in Nat /\ db.floor <= db.lastPk
  /\ db.log \subseteq past
  /\ \A c \in past : c.pk \in Nat /\ c.pk <= db.lastPk /\ (c \in db.log \/ c.pk <= db.floor)

\* The revision a mutation is based on was seen with it.
PhoneInv ==
  /\ DOMAIN known = Phones /\ DOMAIN outbox = Phones
  /\ \A d \in Phones : known[d].rev \in Nat /\ known[d].cursor \in Nat /\ known[d].rev <= known[d].cursor
  /\ \A d \in Phones : outbox[d] \in Seq([changes : Actions, base : Nat, seen : Nat])
  /\ \A d \in Phones : \A i \in 1..Len(outbox[d]) : outbox[d][i].base <= outbox[d][i].seen

\* A decision was about the log up to its revision; nothing that came later changes it.
DecisionInv ==
  /\ \A a \in accepted : a.about.at \in Nat /\ a.about.at <= db.lastPk
  /\ StructureSeen /\ OverwriteReported /\ RefusedLeavesNothing

PushInv == LogInv /\ PhoneInv /\ DecisionInv

LEMMA PushInit == RowsAssumption /\ Init => PushInv
<1> SUFFICES ASSUME RowsAssumption, Init PROVE PushInv
  OBVIOUS
<1>1. /\ DbOk(db) /\ Books(db) /\ db.floor = 0
      /\ \A c \in db.log : c.pk \in Nat /\ c.pk <= db.lastPk /\ c.by = WebId
  <2>1. CASE db = Empty
    <3>1. db.floor = 0 /\ db.log = {}
      BY <2>1 DEF Empty
    <3> QED
      BY <2>1, <3>1, EmptyOk
  <2>2. CASE db = WithLoan
    <3>1. Empty.floor = 0 /\ Empty.log = {}
      BY DEF Empty
    <3>2. DbOk(db) /\ Books(db) /\ Grown(Empty, db, WebId)
      BY <2>2, WithLoanOk
    <3> QED
      BY <3>1, <3>2 DEF Grown
  <2> QED
    BY <2>1, <2>2 DEF Init
<1>2. past = db.log /\ accepted = {}
  BY DEF Init
<1>3. LogInv
  BY <1>1, <1>2 DEF LogInv, DbOk
<1>4. PhoneInv
  BY DEF Init, PhoneInv
<1>5. WebId.device \notin Phones
  BY DEF WebId, RowsAssumption
<1>6. DecisionInv
  BY <1>1, <1>2, <1>5 DEF DecisionInv, StructureSeen, OverwriteReported, RefusedLeavesNothing
<1> QED
  BY <1>3, <1>4, <1>6 DEF PushInv

\* A step that only adds to the log keeps the invariant of the log, and what
\* it adds comes after everything decided before.
LEMMA LogGrows ==
  ASSUME LogInv, NEW by, DbOk(db'), Books(db)', Grown(db, db', by), past' = past \cup db'.log
  PROVE  LogInv' /\ \A c \in past' \ past : c.by = by /\ c.pk > db.lastPk
<1>1. db.lastPk \in Nat /\ db'.lastPk \in Nat /\ db'.lastPk >= db.lastPk /\ db'.floor = db.floor
  BY DEF LogInv, DbOk, Grown
<1>2. ASSUME NEW c \in past' \ past
      PROVE  c.by = by /\ c.pk \in Nat /\ c.pk > db.lastPk /\ c.pk <= db'.lastPk /\ c \in db'.log
  BY DEF LogInv, Grown
<1>3. ASSUME NEW c \in past
      PROVE  c.pk \in Nat /\ c.pk <= db'.lastPk /\ (c \in db'.log \/ c.pk <= db'.floor)
  <2>1. c.pk \in Nat /\ c.pk <= db.lastPk /\ (c \in db.log \/ c.pk <= db.floor)
    BY DEF LogInv
  <2>2. c \in db'.log \/ c.pk <= db'.floor
    BY <1>1, <2>1 DEF Grown
  <2> QED
    BY <1>1, <2>1, <2>2
<1>4. db'.floor \in Nat /\ db'.floor <= db'.lastPk
  BY <1>1 DEF LogInv
<1>5. \A c \in past' : c.pk \in Nat /\ c.pk <= db'.lastPk /\ (c \in db'.log \/ c.pk <= db'.floor)
  BY <1>2, <1>3
<1>6. db'.log \subseteq past'
  OBVIOUS
<1> QED
  BY <1>2, <1>4, <1>5, <1>6 DEF LogInv

\* What was decided stays right when the log grows.
LEMMA DecisionsStand ==
  ASSUME LogInv, DecisionInv, NEW by, DbOk(db'), Books(db)', Grown(db, db', by), past' = past \cup db'.log,
         NEW a \in accepted
  PROVE  /\ a.about.at \in Nat /\ a.about.at <= db'.lastPk
         /\ a.structural =>
              \A c \in past' : /\ c.by.device # a.about.device /\ Structural(c)
                               /\ a.about.seen < c.pk /\ c.pk <= a.about.at
                               => c.pk <= a.about.floor
         /\ \A c \in past' : /\ c.row = Loan /\ c.changed \cap a.silent # {}
                             /\ a.about.seen < c.pk /\ c.pk <= a.about.at
                             => c.pk <= a.about.floor
<1>1. \A c \in past' \ past : c.pk > db.lastPk
  BY LogGrows
<1>2. LogInv'
  BY LogGrows
<1>3. db.lastPk \in Nat /\ db'.lastPk \in Nat /\ db'.lastPk >= db.lastPk
  BY DEF LogInv, DbOk, Grown
<1>4. a.about.at \in Nat /\ a.about.at <= db.lastPk
  BY DEF DecisionInv
<1>5. \A c \in past' : c.pk <= a.about.at => c \in past
  <2> SUFFICES ASSUME NEW c \in past', c.pk <= a.about.at, c \notin past PROVE FALSE
    OBVIOUS
  <2>1. c.pk > db.lastPk /\ c.pk \in Nat
    BY <1>1, <1>2 DEF LogInv
  <2> QED
    BY <1>3, <1>4, <2>1
<1>6. a.about.at <= db'.lastPk
  BY <1>3, <1>4
<1>7. a.structural =>
              \A c \in past' : /\ c.by.device # a.about.device /\ Structural(c)
                               /\ a.about.seen < c.pk /\ c.pk <= a.about.at
                               => c.pk <= a.about.floor
  BY <1>5 DEF DecisionInv, StructureSeen
<1>8. \A c \in past' : /\ c.row = Loan /\ c.changed \cap a.silent # {}
                       /\ a.about.seen < c.pk /\ c.pk <= a.about.at
                       => c.pk <= a.about.floor
  BY <1>5 DEF DecisionInv, OverwriteReported
<1> QED
  BY <1>4, <1>6, <1>7, <1>8

LEMMA BrowserStep ==
  ASSUME RowsAssumption, PushInv, BrowserNext
  PROVE  PushInv'
<1>1. /\ DbOk(db') /\ Grown(db, db', WebId) /\ Books(db') /\ past' = past \cup db'.log
      /\ UNCHANGED <<record, accepted, refused, phones, answers>>
  <2>1. DbOk(db) /\ Books(db)
    BY DEF PushInv, LogInv
  <2> QED
    BY <2>1, WebInterestFacts, WebPrincipalFacts, WebTermsFacts DEF BrowserNext
<1>2. Books(db)'
  BY <1>1 DEF Books, Live, InBooks, PaidOn, Collected, CapitalRemaining, Outstanding, Sum, Active
<1>3. LogInv' /\ \A c \in past' \ past : c.by = WebId /\ c.pk > db.lastPk
  BY <1>1, <1>2, LogGrows DEF PushInv
<1>4. PhoneInv'
  BY <1>1 DEF PushInv, PhoneInv, phones
<1>5. \A a \in accepted : a.about.at \in Nat /\ a.about.at <= db'.lastPk
  BY <1>1, <1>2, DecisionsStand DEF PushInv
<1>6. StructureSeen'
  BY <1>1, <1>2, DecisionsStand DEF PushInv, StructureSeen
<1>7. OverwriteReported'
  BY <1>1, <1>2, DecisionsStand DEF PushInv, OverwriteReported
<1>9. RefusedLeavesNothing'
  <2>1. WebId.device \notin Phones
    BY DEF WebId, RowsAssumption
  <2>2. \A d, i : Acceptances(d, i)' = Acceptances(d, i)
    BY <1>1 DEF Acceptances
  <2> QED
    BY <1>3, <2>1, <2>2 DEF PushInv, DecisionInv, RefusedLeavesNothing
<1> QED
  BY <1>1, <1>3, <1>4, <1>5, <1>6, <1>7, <1>9 DEF PushInv, DecisionInv

LEMMA MutationTypes ==
  ASSUME PushInv, NEW d \in Phones, NEW i \in 1..Len(outbox[d])
  PROVE  /\ outbox[d][i].changes \in Actions /\ outbox[d][i].base \in Nat /\ outbox[d][i].seen \in Nat
         /\ outbox[d][i].base <= outbox[d][i].seen
<1> DEFINE Entry == [changes : Actions, base : Nat, seen : Nat]
<1>1. outbox[d] \in Seq(Entry) /\ outbox[d][i].base <= outbox[d][i].seen
  BY DEF PushInv, PhoneInv
<1> HIDE DEF Entry
<1>2. outbox[d][i] \in Entry
  BY <1>1
<1> QED
  BY <1>1, <1>2 DEF Entry

LEMMA BegunWorks ==
  ASSUME LogInv, NEW d, NEW i, NEW w, w = Begun(d, i)
  PROVE  Working(w, db, outbox[d][i].base, [device |-> d, id |-> i])
<1> DEFINE by == [device |-> d, id |-> i]
<1>1. /\ DOMAIN w = WorkFields /\ w.base = outbox[d][i].base /\ w.by = by /\ w.db = db /\ ~w.touched
      /\ ~w.structural /\ w.error = "none" /\ w.sets = {} /\ w.notices = {}
  BY DEF Begun, WorkFields
<1> HIDE DEF by
<1>2. DbOk(db) /\ Grown(db, db, by)
  BY GrownNot DEF LogInv
<1>3. Working(w, db, outbox[d][i].base, by)
  BY <1>1, <1>2 DEF Working
<1> QED
  BY <1>3 DEF by

\* What a push does to the rows and the log, and what it decides.
LEMMA WorkFacts ==
  ASSUME RowsAssumption, ActionsAssumption, PushInv, NEW d \in Phones, NEW i \in 1..Len(outbox[d]),
         NEW w, w = Work(d, i)
  PROVE  /\ Working(w, db, outbox[d][i].base, [device |-> d, id |-> i])
         /\ w.error = "none" => Books(w.db)
<1> DEFINE base == outbox[d][i].base
           by == [device |-> d, id |-> i]
           S == outbox[d][i].changes
           w0 == Begun(d, i)
           v == Changed(w0, S)
<1>1. LogInv /\ DbOk(db) /\ Books(db)
  BY DEF PushInv, LogInv
<1>2. S \in Actions
  BY MutationTypes
<1>3. IsFiniteSet(S) /\ \A c \in S : WellFormed(c)
  BY <1>2 DEF ActionsAssumption
<1>4. Working(w0, db, base, by)
  <2> HIDE DEF w0
  <2>1. w0 = Begun(d, i)
    BY DEF w0
  <2> QED
    BY <1>1, <2>1, BegunWorks
<1>5. w = Finished(v)
  BY WorkIs
<1> HIDE DEF S, w0, base, by
<1>6. Working(v, db, base, by)
  BY <1>1, <1>3, <1>4, ChangedWorks
<1> HIDE DEF v
<1>7. Working(w, db, base, by) /\ (w.error = "none" => Books(w.db))
  BY <1>1, <1>5, <1>6, FinishedWorks
<1> QED
  BY <1>7 DEF base, by

LEMMA PushStep ==
  ASSUME RowsAssumption, ActionsAssumption, PushInv, NEW d \in Phones, NEW i \in 1..Len(outbox[d]), Apply(d, i)
  PROVE  PushInv'
<1> DEFINE by == [device |-> d, id |-> i]
           base == outbox[d][i].base
<1>1. PICK w : /\ w = Work(d, i)
               /\ db' = Committed(w)
               /\ past' = past \cup db'.log
               /\ accepted' = IF w.error # "none" THEN accepted
                              ELSE accepted \cup {[about |-> About(d, i), structural |-> w.structural,
                                                   silent |-> w.sets \ w.notices]}
               /\ refused' = IF w.error = "stale_base_revision" THEN refused \cup {About(d, i)} ELSE refused
               /\ UNCHANGED phones
  BY DEF Apply
<1>2. Working(w, db, base, by) /\ (w.error = "none" => Books(w.db))
  BY <1>1, WorkFacts
<1>3. /\ by.device = d /\ by.id = i
      /\ About(d, i).device = d /\ About(d, i).id = i /\ About(d, i).seen = outbox[d][i].seen
      /\ About(d, i).at = db.lastPk /\ About(d, i).floor = db.floor
  BY DEF About
<1>4. base \in Nat /\ outbox[d][i].seen \in Nat /\ base <= outbox[d][i].seen
  BY MutationTypes
<1>0. UNCHANGED outbox
  BY <1>1 DEF phones
<1> DEFINE about == About(d, i)
           new == [about |-> about, structural |-> w.structural, silent |-> w.sets \ w.notices]
<1>5. new.about = about /\ new.structural = w.structural /\ new.silent = w.sets \ w.notices
  OBVIOUS
<1>6. accepted' = IF w.error # "none" THEN accepted ELSE accepted \cup {new}
  BY <1>1
<1> HIDE DEF by, base, new, about
<1>8. /\ DbOk(db') /\ Books(db') /\ Grown(db, db', by)
      /\ w.error # "none" => db' = db
  <2>1. CASE w.error = "none"
    BY <1>1, <1>2, <2>1 DEF Committed, Working
  <2>2. CASE w.error # "none"
    <3>1. db' = db
      BY <1>1, <2>2 DEF Committed
    <3>2. DbOk(db) /\ Books(db)
      BY DEF PushInv, LogInv
    <3>3. Grown(db, db, by)
      BY <3>2, GrownNot
    <3> QED
      BY <2>2, <3>1, <3>2, <3>3
  <2> QED
    BY <2>1, <2>2
<1>9. Books(db)'
  BY <1>8 DEF Books, Live, InBooks, PaidOn, Collected, CapitalRemaining, Outstanding, Sum, Active
<1>10. LogInv' /\ \A c \in past' \ past : c.by = by /\ c.pk > db.lastPk
  BY <1>1, <1>8, <1>9, LogGrows DEF PushInv
<1>11. PhoneInv'
  BY <1>1 DEF PushInv, PhoneInv, phones
<1>12. db.lastPk \in Nat /\ db'.lastPk \in Nat /\ db'.lastPk >= db.lastPk
  BY <1>8 DEF PushInv, LogInv, DbOk, Grown
<1>13. \A c \in past' : c.pk <= db.lastPk => c \in past /\ (c \in db.log \/ c.pk <= db.floor)
  <2> SUFFICES ASSUME NEW c \in past', c.pk <= db.lastPk PROVE c \in past /\ (c \in db.log \/ c.pk <= db.floor)
    OBVIOUS
  <2>1. c.pk \in Nat
    BY <1>10 DEF LogInv
  <2>2. c \in past
    BY <1>10, <1>12, <2>1
  <2> QED
    BY <2>2 DEF PushInv, LogInv
<1>14. new.structural =>
         \A c \in past' : /\ c.by.device # new.about.device /\ Structural(c)
                          /\ new.about.seen < c.pk /\ c.pk <= new.about.at
                          => c.pk <= new.about.floor
  <2> SUFFICES ASSUME w.structural, NEW c \in past', c.by.device # d, Structural(c),
                      outbox[d][i].seen < c.pk, c.pk <= db.lastPk
               PROVE  c.pk <= db.floor
    BY <1>3, <1>5 DEF about
  <2>1. c.pk \in Nat
    BY <1>10 DEF LogInv
  <2>2. c.pk > base
    BY <1>4, <2>1
  <2>3. ~Stale(db, base, by)
    BY <1>2 DEF Working
  <2>4. c \notin db.log
    BY <1>3, <2>2, <2>3 DEF Stale, by
  <2> QED
    BY <1>13, <2>4
<1>15. \A c \in past' : /\ c.row = Loan /\ c.changed \cap new.silent # {}
                        /\ new.about.seen < c.pk /\ c.pk <= new.about.at
                        => c.pk <= new.about.floor
  <2> SUFFICES ASSUME NEW c \in past', c.row = Loan, c.changed \cap (w.sets \ w.notices) # {},
                      outbox[d][i].seen < c.pk, c.pk <= db.lastPk
               PROVE  c.pk <= db.floor
    BY <1>3, <1>5 DEF about
  <2>1. c.pk \in Nat
    BY <1>10 DEF LogInv
  <2>2. c.pk > base
    BY <1>4, <2>1
  <2>3. PICK f \in w.sets \ w.notices : f \in c.changed
    OBVIOUS
  <2>4. ~Overwritten(db, base, f)
    BY <1>2 DEF Working
  <2>5. c \notin db.log
    BY <2>2, <2>3, <2>4 DEF Overwritten
  <2> QED
    BY <1>13, <2>5
<1>16. ASSUME NEW a \in accepted'
       PROVE  /\ a.about.at \in Nat /\ a.about.at <= db'.lastPk
              /\ a.structural =>
                   \A c \in past' : /\ c.by.device # a.about.device /\ Structural(c)
                                    /\ a.about.seen < c.pk /\ c.pk <= a.about.at
                                    => c.pk <= a.about.floor
              /\ \A c \in past' : /\ c.row = Loan /\ c.changed \cap a.silent # {}
                                  /\ a.about.seen < c.pk /\ c.pk <= a.about.at
                                  => c.pk <= a.about.floor
  <2>1. CASE a \in accepted
    BY <1>1, <1>8, <1>9, <2>1, DecisionsStand DEF PushInv
  <2>2. CASE a = new
    <3>1. a.about.at \in Nat /\ a.about.at <= db'.lastPk
      BY <1>3, <1>5, <1>12, <2>2 DEF about
    <3> QED
      BY <1>14, <1>15, <2>2, <3>1
  <2> QED
    BY <1>6, <2>1, <2>2
<1>17. StructureSeen'
  BY <1>16 DEF StructureSeen
<1>18. OverwriteReported'
  BY <1>16 DEF OverwriteReported
<1>21. RefusedLeavesNothing'
  <2> SUFFICES ASSUME NEW c \in past', c.by.device \in Phones PROVE Acceptances(c.by.device, c.by.id)' # {}
    BY DEF RefusedLeavesNothing
  <2>1. CASE c \in past
    <3>1. Acceptances(c.by.device, c.by.id) # {}
      BY <2>1 DEF PushInv, DecisionInv, RefusedLeavesNothing
    <3>2. accepted \subseteq accepted'
      BY <1>6
    <3> QED
      BY <3>1, <3>2 DEF Acceptances
  <2>2. CASE c \notin past
    <3>1. c.by = by /\ w.error = "none"
      <4>1. db' # db
        BY <1>1, <2>2 DEF PushInv, LogInv
      <4> QED
        BY <1>8, <1>10, <2>2, <4>1
    <3>2. new \in accepted' /\ new.about.device = d /\ new.about.id = i
      BY <1>3, <1>5, <1>6, <3>1 DEF about
    <3>3. c.by.device = d /\ c.by.id = i
      BY <1>3, <3>1
    <3> QED
      BY <3>2, <3>3 DEF Acceptances
  <2> QED
    BY <2>1, <2>2
<1> QED
  BY <1>10, <1>11, <1>16, <1>17, <1>18, <1>21 DEF PushInv, DecisionInv

\* Compaction takes from the log what its new floor covers.
LEMMA CompactStep ==
  ASSUME PushInv, NEW cutoff, Compact(cutoff)
  PROVE  PushInv'
<1> DEFINE out == Outdated(cutoff)
           S == {db.floor} \cup {c.pk : c \in out}
<1>1. /\ db' = [db EXCEPT !.log = db.log \ out, !.floor = Max(S)]
      /\ UNCHANGED <<record, past, accepted, refused, phones, answers>>
  BY DEF Compact
<1>2. out \subseteq db.log
  BY DEF Outdated
<1> HIDE DEF out
<1>3. /\ LogInv /\ DbOk(db) /\ Books(db) /\ db.lastPk \in Nat
      /\ \A c \in db.log : c.pk \in Nat /\ c.pk <= db.lastPk
      /\ db.floor \in Nat /\ db.floor <= db.lastPk
  BY DEF PushInv, LogInv, DbOk
<1>4. S \subseteq 0..db.lastPk /\ S # {} /\ db.floor \in S /\ \A c \in out : c.pk \in S
  <2>1. \A c \in out : c.pk \in 0..db.lastPk
    BY <1>2, <1>3
  <2>2. db.floor \in 0..db.lastPk
    BY <1>3
  <2> QED
    BY <2>1, <2>2
<1> HIDE DEF S
<1> DEFINE m == Max(S)
<1>5. m \in 0..db.lastPk /\ \A x \in S : x <= m
  BY <1>3, <1>4, Greatest
<1>6. db' = [db EXCEPT !.log = db.log \ out, !.floor = m]
  BY <1>1
<1> HIDE DEF m
<1>7. /\ DOMAIN db' = DOMAIN db /\ db'.rows = db.rows /\ db'.rev = db.rev /\ db'.lastPk = db.lastPk
      /\ db'.log = db.log \ out /\ db'.floor = m
  BY <1>3, <1>6 DEF DbOk, DbFields
<1>8. DbOk(db')
  BY <1>3, <1>7 DEF DbOk, Live
<1>9. Books(db)'
  <2> DEFINE b == db
             e == db'
  <2>1. e.rows = b.rows
    BY <1>7
  <2>2. SameFacts(b, e)
    BY <2>1 DEF SameFacts
  <2>x. Books(b)
    BY <1>3
  <2>y. Books(db)' <=> Books(e)
    BY DEF Books, Live, InBooks, PaidOn, Collected, CapitalRemaining, Outstanding, Sum, Active
  <2> HIDE DEF b, e
  <2>3. /\ Collected(e) = Collected(b) /\ CapitalRemaining(e) = CapitalRemaining(b)
        /\ Outstanding(e) = Outstanding(b) /\ \A i : PaidOn(e, i) = PaidOn(b, i)
    BY <2>2, SameSums
  <2>4. InBooks(e) = InBooks(b)
    BY <2>1, <2>3, Zenon DEF InBooks
  <2>5. Books(e)
    BY <2>x, <2>1, <2>3, <2>4 DEF Books, Live
  <2> QED
    BY <2>5, <2>y
<1>10. \A c \in past : c.pk \in Nat /\ c.pk <= db'.lastPk /\ (c \in db'.log \/ c.pk <= db'.floor)
  <2> SUFFICES ASSUME NEW c \in past PROVE c.pk \in Nat /\ c.pk <= db.lastPk /\ (c \in db.log \ out \/ c.pk <= m)
    BY <1>7
  <2>1. c.pk \in Nat /\ c.pk <= db.lastPk /\ (c \in db.log \/ c.pk <= db.floor)
    BY <1>3 DEF LogInv
  <2>2. c \in out => c.pk <= m
    BY <1>4, <1>5
  <2>3. c.pk <= db.floor => c.pk <= m
    <3>1. db.floor <= m /\ m \in Nat
      <4>1. db.floor \in S
        BY <1>4
      <4>2. m \in Nat
        BY <1>3, <1>5
      <4> QED
        BY <1>5, <4>1, <4>2
    <3> QED
      BY <1>3, <2>1, <3>1
  <2> QED
    BY <2>1, <2>2, <2>3
<1>11. LogInv'
  <2>1. db'.log \subseteq past'
    BY <1>1, <1>3, <1>7 DEF LogInv
  <2>2. db'.floor \in Nat /\ db'.floor <= db'.lastPk
    BY <1>3, <1>5, <1>7
  <2> QED
    BY <1>1, <1>8, <1>9, <1>10, <2>1, <2>2 DEF LogInv
<1>12. PhoneInv'
  BY <1>1 DEF PushInv, PhoneInv, phones
<1>13. DecisionInv'
  BY <1>1, <1>7
     DEF PushInv, DecisionInv, StructureSeen, OverwriteReported, RefusedLeavesNothing, Acceptances,
         phones
<1> QED
  BY <1>11, <1>12, <1>13 DEF PushInv

\* The phones look at the log and queue; what they queued stays.
LEMMA PhoneStep ==
  ASSUME PushInv, UNCHANGED server, NEW d \in Phones, Pull(d) \/ Queue(d) \/ Receive(d) \/ UNCHANGED phones
  PROVE  PushInv'
<1>1. LogInv'
  BY DEF PushInv, LogInv, server, DbOk, Books, Live, InBooks, PaidOn, Collected, CapitalRemaining, Outstanding, Sum,
         Active
<1>2. PhoneInv' /\ \A c \in Phones : /\ Len(outbox'[c]) \in Nat /\ 1..Len(outbox[c]) \subseteq 1..Len(outbox'[c])
                                     /\ \A i \in 1..Len(outbox[c]) : outbox'[c][i] = outbox[c][i]
  <2>1. CASE Pull(d)
    <3>1. /\ known' = [known EXCEPT ![d] = [cursor |-> db.lastPk, rev |-> IF Live(Loan, db) THEN db.rev ELSE 0]]
          /\ UNCHANGED outbox
      BY <2>1 DEF Pull
    <3>2. db.lastPk \in Nat /\ db.rev \in Nat /\ db.rev <= db.lastPk
      BY DEF PushInv, LogInv, DbOk
    <3> DEFINE rev == IF Live(Loan, db) THEN db.rev ELSE 0
               view == [cursor |-> db.lastPk, rev |-> rev]
    <3>3. rev \in Nat /\ rev <= db.lastPk
      BY <3>2
    <3>4. view.cursor = db.lastPk /\ view.rev = rev
      OBVIOUS
    <3>5. known' = [known EXCEPT ![d] = view]
      BY <3>1
    <3> HIDE DEF rev, view
    <3>6. \A c \in Phones : known'[c].rev \in Nat /\ known'[c].cursor \in Nat /\ known'[c].rev <= known'[c].cursor
      BY <3>2, <3>3, <3>4, <3>5 DEF PushInv, PhoneInv
    <3>7. DOMAIN known' = Phones
      BY <3>5 DEF PushInv, PhoneInv
    <3>8. \A c \in Phones : outbox'[c] = outbox[c] /\ Len(outbox[c]) \in Nat
      BY <3>1 DEF PushInv, PhoneInv
    <3> QED
      BY <3>1, <3>6, <3>7, <3>8 DEF PushInv, PhoneInv
  <2>2. CASE Queue(d)
    <3>1. PICK changes \in Actions :
            outbox' = [outbox EXCEPT ![d] =
              Append(outbox[d], [changes |-> changes, base |-> known[d].rev, seen |-> known[d].cursor])]
      BY <2>2 DEF Queue
    <3>2. UNCHANGED known
      BY <2>2 DEF Queue
    <3> DEFINE Entry == [changes : Actions, base : Nat, seen : Nat]
               m == [changes |-> changes, base |-> known[d].rev, seen |-> known[d].cursor]
    <3>3. m \in Entry /\ m.base <= m.seen
      BY DEF PushInv, PhoneInv
    <3>4. DOMAIN outbox = Phones /\ \A c \in Phones : outbox[c] \in Seq(Entry)
      BY DEF PushInv, PhoneInv
    <3>5. outbox' = [outbox EXCEPT ![d] = Append(outbox[d], m)]
      BY <3>1
    <3> HIDE DEF Entry, m
    <3>6. /\ DOMAIN outbox' = Phones /\ outbox'[d] = Append(outbox[d], m)
          /\ \A c \in Phones : c # d => outbox'[c] = outbox[c]
      BY <3>4, <3>5
    <3>7. \A c \in Phones : outbox'[c] \in Seq(Entry)
      BY <3>3, <3>4, <3>6
    <3>8. \A c \in Phones : /\ Len(outbox'[c]) \in Nat /\ 1..Len(outbox[c]) \subseteq 1..Len(outbox'[c])
                            /\ \A i \in 1..Len(outbox[c]) : outbox'[c][i] = outbox[c][i]
      BY <3>3, <3>4, <3>6
    <3>9. \A c \in Phones : \A i \in 1..Len(outbox'[c]) : outbox'[c][i].base <= outbox'[c][i].seen
      <4> SUFFICES ASSUME NEW c \in Phones, NEW i \in 1..Len(outbox'[c])
                   PROVE  outbox'[c][i].base <= outbox'[c][i].seen
        OBVIOUS
      <4>1. i \in 1..Len(outbox[c]) \/ outbox'[c][i] = m
        <5>1. CASE c # d
          BY <3>6, <5>1
        <5>2. CASE c = d
          <6>1. Len(outbox[d]) \in Nat /\ Len(Append(outbox[d], m)) = Len(outbox[d]) + 1
                /\ Append(outbox[d], m)[Len(outbox[d]) + 1] = m
            BY <3>3, <3>4
          <6> QED
            BY <3>6, <5>2, <6>1
        <5> QED
          BY <5>1, <5>2
      <4>2. CASE i \in 1..Len(outbox[c])
        <5>1. outbox[c][i].base <= outbox[c][i].seen
          BY <4>2 DEF PushInv, PhoneInv
        <5>2. outbox'[c][i] = outbox[c][i]
          BY <3>8, <4>2
        <5> QED
          BY <5>1, <5>2
      <4>3. CASE outbox'[c][i] = m
        BY <3>3, <4>3
      <4> QED
        BY <4>1, <4>2, <4>3
    <3> QED
      BY <3>2, <3>6, <3>7, <3>8, <3>9 DEF PushInv, PhoneInv, Entry
  <2>3. CASE UNCHANGED <<outbox, known>>
    <3>1. \A c \in Phones : outbox'[c] = outbox[c] /\ Len(outbox[c]) \in Nat
      BY <2>3 DEF PushInv, PhoneInv
    <3> QED
      BY <2>3, <3>1 DEF PushInv, PhoneInv
  <2> QED
    BY <2>1, <2>2, <2>3 DEF Receive, phones
<1>3. DecisionInv'
  <2>1. UNCHANGED <<db, past, accepted, refused>>
    BY DEF server
  <2>2. StructureSeen' /\ OverwriteReported' /\ RefusedLeavesNothing'
    BY <2>1 DEF PushInv, DecisionInv, StructureSeen, OverwriteReported, RefusedLeavesNothing, Acceptances
  <2>5. \A a \in accepted' : a.about.at \in Nat /\ a.about.at <= db'.lastPk
    BY <2>1 DEF PushInv, DecisionInv
  <2> QED
    BY <2>2, <2>5 DEF DecisionInv
<1> QED
  BY <1>1, <1>2, <1>3 DEF PushInv

LEMMA PushNext == RowsAssumption /\ ActionsAssumption /\ PushInv /\ [Next]_vars => PushInv'
<1> SUFFICES ASSUME RowsAssumption, ActionsAssumption, PushInv, [Next]_vars PROVE PushInv'
  OBVIOUS
<1>1. ASSUME UNCHANGED <<db, past, accepted, refused, outbox, known>> PROVE PushInv'
  <2>1. LogInv'
    BY <1>1
       DEF PushInv, LogInv, DbOk, Books, Live, InBooks, PaidOn, Collected, CapitalRemaining, Outstanding, Sum, Active
  <2>2. PhoneInv'
    BY <1>1 DEF PushInv, PhoneInv
  <2>3. DecisionInv'
    BY <1>1
       DEF PushInv, DecisionInv, StructureSeen, OverwriteReported, RefusedLeavesNothing, Acceptances
  <2> QED
    BY <2>1, <2>2, <2>3 DEF PushInv
<1>2. ASSUME NEW d \in Phones, Deliver(d) PROVE PushInv'
  <2>1. PICK i \in 1..Len(outbox[d]) : Retry(d, i) \/ Apply(d, i)
    BY <1>2 DEF Deliver
  <2>2. CASE Retry(d, i)
    BY <1>1, <2>2 DEF Retry, server, phones
  <2>3. CASE Apply(d, i)
    BY <2>3, PushStep
  <2> QED
    BY <2>1, <2>2, <2>3
<1>3. ASSUME NEW d \in Phones, Pull(d) \/ Queue(d) \/ Receive(d) PROVE PushInv'
  <2>1. UNCHANGED server
    BY <1>3 DEF Pull, Queue, Receive
  <2> QED
    BY <1>3, <2>1, PhoneStep
<1>4. CASE BrowserNext
  BY <1>4, BrowserStep
<1>5. ASSUME NEW cutoff, Compact(cutoff) PROVE PushInv'
  BY <1>5, CompactStep
<1>6. CASE UNCHANGED vars
  BY <1>1, <1>6 DEF vars, server, phones
<1> QED
  BY <1>2, <1>3, <1>4, <1>5, <1>6 DEF Next

LEMMA Pushed == Spec => []PushInv
<1>1. Init => PushInv
  BY PushInit, RowsAssumption
<1>2. PushInv /\ [Next]_vars => PushInv'
  BY PushNext, RowsAssumption, ActionsAssumption
<1> QED
  BY <1>1, <1>2, PTL DEF Spec

\* A push that is refused, even at its last change, has left no change of a row behind.
THEOREM RefusedLeavesNothingBehind == Spec => []RefusedLeavesNothing
<1>1. PushInv => RefusedLeavesNothing
  BY DEF PushInv, DecisionInv
<1> QED
  BY <1>1, Pushed, PTL

\* Whatever pushes and browser writes do, the columns of the loan and of its periods agree
\* with the payments.
THEOREM BooksAlwaysFollow == Spec => []BooksFollowFacts
<1>1. PushInv => BooksFollowFacts
  BY DEF PushInv, LogInv, Books, BooksFollowFacts
<1> QED
  BY <1>1, Pushed, PTL

\* A structural edit is accepted only if its phone had seen every structural change of
\* others that compaction had not removed.
THEOREM StructureAlwaysSeen == Spec => []StructureSeen
<1>1. PushInv => StructureSeen
  BY DEF PushInv, DecisionInv
<1> QED
  BY <1>1, Pushed, PTL

\* A term of the loan that somebody else has changed since is overwritten only with a notice.
THEOREM OverwritesReported == Spec => []OverwriteReported
<1>1. PushInv => OverwriteReported
  BY DEF PushInv, DecisionInv
<1> QED
  BY <1>1, Pushed, PTL

=============================================================================
