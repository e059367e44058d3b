-------------------------- MODULE ChangeFeedProofs --------------------------
(***************************************************************************)
(* Proofs about ChangeFeed for every ledger, set of devices, page size and *)
(* bound: type correctness, and that the feed loses no change although     *)
(* compaction runs between the two reads of a request.                     *)
(***************************************************************************)
EXTENDS ChangeFeed, FiniteSetTheorems, TLAPS

Links == Periods \cup {NoPeriod}

\* What every ledger transaction does, whatever rows it writes.
WritesRows(S, D, newLink, key) ==
  /\ S \subseteq Row
  /\ newLink \in [S -> Links]
  /\ key \in [S -> (lastPk + 1)..MaxPk]
  /\ Cardinality(S) \in Nat
  /\ lastPk + Cardinality(S) <= MaxPk
  /\ \A r \in S : key[r] <= lastPk + Cardinality(S)
  /\ Commit(S, D, newLink, key)

\* One row is written with the next key.
LEMMA OneRow ==
  ASSUME TypeOK, lastPk < MaxPk, NEW r \in Row, NEW D, NEW i \in Links,
         Commit({r}, D, [x \in {r} |-> i], [x \in {r} |-> lastPk + 1])
  PROVE  WritesRows({r}, D, [x \in {r} |-> i], [x \in {r} |-> lastPk + 1])
<1>1. Cardinality({r}) = 1
  BY FS_Singleton
<1>2. lastPk \in Nat /\ MaxPk \in Nat
  BY DevicesAssumption DEF TypeOK
<1>3. lastPk + 1 \in (lastPk + 1)..MaxPk
  BY <1>2
<1>. QED
  BY <1>1, <1>2, <1>3 DEF WritesRows

\* Several rows are written with consecutive keys.
LEMMA ManyRows ==
  ASSUME TypeOK, NEW S \in SUBSET Row, NEW D, NEW key \in Numberings(S),
         lastPk + Cardinality(S) <= MaxPk,
         Commit(S, D, [x \in S |-> NoPeriod], key)
  PROVE  WritesRows(S, D, [x \in S |-> NoPeriod], key)
<1>1. Cardinality(S) \in Nat
  BY RowsAssumption, FS_Subset, FS_CardinalityType
<1>2. lastPk \in Nat /\ MaxPk \in Nat
  BY DevicesAssumption DEF TypeOK
<1>3. key \in [S -> (lastPk + 1)..(lastPk + Cardinality(S))]
  BY DEF Numberings, Bijection, Injection
<1>4. \A n \in (lastPk + 1)..(lastPk + Cardinality(S)) : n \in (lastPk + 1)..MaxPk
  BY <1>1, <1>2
<1>5. key \in [S -> (lastPk + 1)..MaxPk]
  BY <1>3, <1>4
<1>6. \A r \in S : key[r] <= lastPk + Cardinality(S)
  BY <1>1, <1>2, <1>3
<1>. QED
  BY <1>1, <1>5, <1>6 DEF WritesRows, Links

\* Every ledger write of the program is one commit of some rows.
LEMMA WriteWritesRows ==
  ASSUME TypeOK, Write
  PROVE  \E S, D, newLink, key : WritesRows(S, D, newLink, key)
<1>1. ASSUME NEW r \in Row, Create(r)
      PROVE  \E S, D, newLink, key : WritesRows(S, D, newLink, key)
  <2>1. PICK i \in Links : Commit({r}, {}, [x \in {r} |-> i], [x \in {r} |-> lastPk + 1])
    BY <1>1 DEF Create, Links
  <2>2. lastPk < MaxPk
    BY <1>1 DEF Create
  <2>. QED
    BY <2>1, <2>2, OneRow
<1>2. ASSUME NEW r \in Row, Save(r)
      PROVE  \E S, D, newLink, key : WritesRows(S, D, newLink, key)
  <2>1. link[r] \in Links
    BY DEF TypeOK, Links
  <2>2. [x \in {r} |-> link[x]] = [x \in {r} |-> link[r]]
    OBVIOUS
  <2>3. lastPk < MaxPk /\ Commit({r}, {}, [x \in {r} |-> link[r]], [x \in {r} |-> lastPk + 1])
    BY <1>2, <2>2 DEF Save
  <2>. QED
    BY <2>1, <2>3, OneRow
<1>3. ASSUME NEW i \in Periods, DeletePeriod(i)
      PROVE  \E S, D, newLink, key : WritesRows(S, D, newLink, key)
  <2>. DEFINE S == Detached(i) \cup {i}
  <2>1. S \in SUBSET Row
    BY DEF Detached, Row
  <2>2. PICK key \in Numberings(S) : Commit(S, {i}, [x \in S |-> NoPeriod], key)
    BY <1>3 DEF DeletePeriod
  <2>3. lastPk + Cardinality(S) <= MaxPk
    BY <1>3 DEF DeletePeriod
  <2>. HIDE DEF S
  <2>. QED
    BY <2>1, <2>2, <2>3, ManyRows
<1>4. ASSUME NEW r \in Row, DeleteTree(r)
      PROVE  \E S, D, newLink, key : WritesRows(S, D, newLink, key)
  <2>1. Under(r) \in SUBSET Row
    BY DEF Under
  <2>2. PICK key \in Numberings(Under(r)) :
          Commit(Under(r), Under(r), [x \in Under(r) |-> NoPeriod], key)
    BY <1>4 DEF DeleteTree
  <2>3. lastPk + Cardinality(Under(r)) <= MaxPk
    BY <1>4 DEF DeleteTree
  <2>. QED
    BY <2>1, <2>2, <2>3, ManyRows
<1>. QED
  BY <1>1, <1>2, <1>3, <1>4 DEF Write

-----------------------------------------------------------------------------
(* Type correctness.                                                       *)

\* A commit keeps the types.
LEMMA CommitType ==
  ASSUME TypeOK, NEW S, NEW D, NEW newLink, NEW key, WritesRows(S, D, newLink, key)
  PROVE  TypeOK'
<1>. USE DEF TypeOK
<1>1. \A r \in S : key[r] \in 1..MaxPk /\ newLink[r] \in Links
  <2>1. \A n \in (lastPk + 1)..MaxPk : n \in 1..MaxPk
    BY DevicesAssumption
  <2>. QED
    BY <2>1 DEF WritesRows
<1>2. \A r \in S : r \in Row
  BY DEF WritesRows
<1>3. live' \in [Row -> BOOLEAN]
  BY DEF WritesRows, Commit
<1>4. link' \in [Row -> Links]
  BY <1>1 DEF WritesRows, Commit, Links
<1>5. last' \in [Row -> 0..MaxPk]
  BY <1>1 DEF WritesRows, Commit
<1>6. log' \subseteq Change
  BY <1>1, <1>2 DEF WritesRows, Commit, Change, Links
<1>7. lastPk' \in 0..MaxPk
  BY DevicesAssumption DEF WritesRows, Commit
<1>8. UNCHANGED <<floor, devices>>
  BY DEF WritesRows, Commit
<1>. QED
  BY <1>3, <1>4, <1>5, <1>6, <1>7, <1>8 DEF devices, Links

\* A device's scope is one of the scopes.
LEMMA ScopeIsScope == \A d \in Device : DeviceScope[d] \in Scopes
BY DevicesAssumption

\* The rows a bootstrap reads are records of the wire format.
LEMMA CanonicalRowType ==
  ASSUME TypeOK, NEW r \in Row, last[r] > 0
  PROVE  CanonicalRow(r) \in Change
BY DEF TypeOK, CanonicalRow, Change

\* A row that exists has been written.
LiveWritten == \A r \in Row : live[r] => last[r] > 0

\* A row that exists has a change in the feed.
LEMMA CommitLiveWritten ==
  ASSUME TypeOK, LiveWritten, NEW S, NEW D, NEW newLink, NEW key,
         WritesRows(S, D, newLink, key)
  PROVE  LiveWritten'
<1>1. \A r \in S : key[r] > 0
  <2>1. \A n \in (lastPk + 1)..MaxPk : n > 0
    BY DevicesAssumption DEF TypeOK
  <2>. QED
    BY <2>1 DEF WritesRows
<1>. QED
  BY <1>1 DEF LiveWritten, WritesRows, Commit, TypeOK

\* The migrated ledger is well typed.
LEMMA InitType == Init => TypeOK /\ LiveWritten
<1>. SUFFICES ASSUME Init PROVE TypeOK /\ LiveWritten
  OBVIOUS
<1>1. Cardinality(Legacy) \in 0..MaxPk
  <2>1. Cardinality(Legacy) \in Nat
    BY RowsAssumption, LegacyAssumption, FS_Subset, FS_CardinalityType
  <2>. QED
    BY <2>1, DevicesAssumption, LegacyAssumption
<1>2. \A r \in Legacy : LegacyKey[r] \in 1..MaxPk
  <2>1. \A n \in 1..Cardinality(Legacy) : n \in 1..MaxPk
    BY <1>1, DevicesAssumption
  <2>2. LegacyKey \in [Legacy -> 1..Cardinality(Legacy)]
    BY LegacyAssumption DEF Bijection, Injection
  <2>. QED
    BY <2>1, <2>2
<1>3. \A r \in Legacy : r \in Row /\ LegacyLink[r] \in Links
  BY LegacyAssumption DEF Links
<1>4. last \in [Row -> 0..MaxPk] /\ LiveWritten
  <2>1. last = [r \in Row |-> IF r \in Legacy THEN LegacyKey[r] ELSE 0]
    BY DEF Init
  <2>2. last \in [Row -> 0..MaxPk]
    BY <1>2, <2>1, DevicesAssumption
  <2>3. \A r \in Row : live[r] <=> r \in Legacy
    BY Zenon DEF Init
  <2>. QED
    BY <1>2, <2>1, <2>2, <2>3 DEF LiveWritten
<1>5. log \subseteq Change
  <2>1. \A r \in Legacy : last[r] = LegacyKey[r] /\ link[r] = LegacyLink[r]
    BY <1>3 DEF Init
  <2>2. \A r \in Legacy : CanonicalRow(r) \in Change
    BY <1>2, <1>3, <2>1 DEF CanonicalRow, Change, Links
  <2>. QED
    BY <2>2 DEF Init
<1>6. link \in [Row -> Periods \cup {NoPeriod}]
  BY <1>3 DEF Init, Links
<1>7. live \in [Row -> BOOLEAN] /\ lastPk \in 0..MaxPk /\ floor \in [Scopes -> 0..MaxPk]
  BY <1>1, DevicesAssumption DEF Init
<1>8. NoGap \in [lo : 0..MaxPk, hi : 0..MaxPk]
  BY DevicesAssumption DEF NoGap
<1>9. /\ phase \in [Device -> Phase] /\ cursor \in [Device -> 0..MaxPk]
      /\ mark \in [Device -> 0..MaxPk] /\ resync \in [Device -> BOOLEAN]
      /\ replica \in [Device -> SUBSET Change] /\ snap \in [Device -> SUBSET Change]
  BY DevicesAssumption DEF Init, Phase
<1>10. gap \in [Device -> [lo : 0..MaxPk, hi : 0..MaxPk]]
  BY <1>8 DEF Init
<1>. QED
  BY <1>4, <1>5, <1>6, <1>7, <1>9, <1>10 DEF TypeOK

\* Every step keeps the types.
LEMMA NextType ==
  ASSUME TypeOK, LiveWritten, [Next]_vars
  PROVE  TypeOK' /\ LiveWritten'
<1>1. CASE Write
  BY <1>1, WriteWritesRows, CommitType, CommitLiveWritten
<1>2. ASSUME NEW s \in Scopes, NEW cutoff \in 1..lastPk, Compact(s, cutoff)
      PROVE  TypeOK' /\ LiveWritten'
  <2>1. PICK top \in Outdated(s, cutoff) :
          /\ log' = log \ Outdated(s, cutoff)
          /\ floor' = [floor EXCEPT ![s] = IF top.pk > @ THEN top.pk ELSE @]
    BY <1>2 DEF Compact
  <2>2. top.pk \in 0..MaxPk
    BY DEF Outdated, Scoped, TypeOK, Change
  <2>3. floor' \in [Scopes -> 0..MaxPk]
    BY <2>1, <2>2 DEF TypeOK
  <2>4. log' \subseteq Change
    BY <2>1 DEF TypeOK
  <2>. QED
    <3>1. UNCHANGED <<ledger, devices>>
      BY <1>2 DEF Compact
    <3>. QED
      BY <2>3, <2>4, <3>1 DEF TypeOK, LiveWritten, ledger, devices
<1>3. ASSUME NEW d \in Device, Request(d) \/ Lost(d)
      PROVE  TypeOK' /\ LiveWritten'
  <2>1. CASE FeedFloor(d)
    BY <2>1 DEF FeedFloor, TypeOK, LiveWritten, Phase, server, ledger
  <2>6. CASE FeedEmpty(d)
    BY <2>6 DEF FeedEmpty, TypeOK, LiveWritten, Phase, server, ledger
  <2>7. CASE Lost(d)
    BY <2>7, DevicesAssumption DEF Lost, TypeOK, LiveWritten, Phase, server, ledger
  <2>2. CASE FeedRows(d)
    <3>1. PICK to \in {c.pk : c \in Later(d)} :
            /\ cursor' = [cursor EXCEPT ![d] = to]
            /\ IF d \in Phones
               THEN /\ replica' = [replica EXCEPT ![d] = Applied(@, PageUpTo(d, to))]
                    /\ UNCHANGED resync
               ELSE resync' = [resync EXCEPT ![d] = TRUE] /\ UNCHANGED replica
      BY <2>2 DEF FeedRows
    <3>2. to \in 0..MaxPk
      BY <3>1 DEF Later, Scoped, TypeOK, Change
    <3>3. Applied(replica[d], PageUpTo(d, to)) \subseteq Change
      BY DEF Applied, PageUpTo, Later, Scoped, TypeOK
    <3>4. cursor' \in [Device -> 0..MaxPk] /\ replica' \in [Device -> SUBSET Change]
          /\ resync' \in [Device -> BOOLEAN]
      BY <3>1, <3>2, <3>3 DEF TypeOK
    <3>. QED
      BY <2>2, <3>4 DEF FeedRows, TypeOK, LiveWritten, Phase, server, ledger
  <2>3. CASE BootstrapBegin(d)
    <3>1. PICK m \in 0..lastPk : mark' = [mark EXCEPT ![d] = m]
      BY <2>3 DEF BootstrapBegin
    <3>2. m \in 0..MaxPk
      BY DevicesAssumption DEF TypeOK
    <3>. QED
      BY <2>3, <3>1, <3>2 DEF BootstrapBegin, TypeOK, LiveWritten, Phase, server, ledger
  <2>4. ASSUME NEW k \in 1..4, BootstrapRead(d, k)
        PROVE  TypeOK' /\ LiveWritten'
    <3>1. ReadPhase[k + 1] \in Phase
      BY DEF ReadPhase, Phase
    <3>2. Kinds[k] \subseteq Row
      BY DEF Kinds, Row
    <3>3. {CanonicalRow(r) : r \in {x \in Kinds[k] : live[x] /\ ScopeOf[x] = DeviceScope[d]}}
            \subseteq Change
      BY <3>2, CanonicalRowType DEF LiveWritten
    <3>. QED
      BY <2>4, <3>1, <3>3 DEF BootstrapRead, TypeOK, LiveWritten, server, ledger
  <2>5. CASE BootstrapReply(d)
    <3>1. PICK m \in 0..lastPk :
            /\ cursor' = [cursor EXCEPT ![d] = m]
            /\ gap' = [gap EXCEPT ![d] = IF m = mark[d] THEN NoGap ELSE [lo |-> mark[d], hi |-> m]]
      BY <2>5 DEF BootstrapReply
    <3>2. m \in 0..MaxPk /\ 0 \in 0..MaxPk
      BY DevicesAssumption DEF TypeOK
    <3>3. gap' \in [Device -> [lo : 0..MaxPk, hi : 0..MaxPk]]
      BY <3>1, <3>2 DEF TypeOK, NoGap
    <3>. QED
      BY <2>5, <3>1, <3>2, <3>3 DEF BootstrapReply, TypeOK, LiveWritten, Phase, server, ledger
  <2>. QED
    BY <1>3, <2>1, <2>2, <2>3, <2>4, <2>5, <2>6, <2>7 DEF Request
<1>4. CASE UNCHANGED vars
  BY <1>4 DEF vars, server, ledger, devices, TypeOK, LiveWritten
<1>. QED
  BY <1>1, <1>2, <1>3, <1>4 DEF Next

\* Every variable keeps its type.
THEOREM TypeCorrect == Spec => []TypeOK
<1>1. Spec => [](TypeOK /\ LiveWritten)
  BY InitType, NextType, PTL DEF Spec
<1>. QED
  BY <1>1, PTL

-----------------------------------------------------------------------------
(* The inductive invariant behind FreshOutsideGap.                         *)

\* A record of a row's last change says what the row is now; older records
\* of the row may say anything.  The three tables are parameters, so that the
\* same statement serves for the state before and after a step.
Matches(c, lv, lk) ==
  /\ c.op = IF lv[c.row] THEN "upsert" ELSE "delete"
  /\ lv[c.row] => c.link = lk[c.row]
Sound(X, lv, lk, la) ==
  \A c \in X : c.pk <= la[c.row] /\ (c.pk = la[c.row] => Matches(c, lv, lk))

LogInv ==
  /\ LiveWritten
  /\ \A r \in Row : last[r] <= lastPk
  /\ Sound(log, live, link, last)
  /\ LogHoldsLatest

\* The records of r in X are the row as it is.
Agrees(X, r, lv, lk, la) ==
  {c \in X : c.row = r} =
    IF lv[r] THEN {[pk |-> la[r], row |-> r, op |-> "upsert", link |-> lk[r]]} ELSE {}

\* A bootstrap has read the tables before the k-th: it holds rows of these
\* tables only, and those not written since it began are as they are now.
ReadBefore(k, r) == \E j \in 1..4 : j < k /\ r \in Kinds[j]
BootInv(d) ==
  \A k \in 1..5 : phase[d] = ReadPhase[k] =>
    /\ \A c \in snap[d] : ReadBefore(k, c.row)
    /\ \A r \in Row : ReadBefore(k, r) /\ ScopeOf[r] = DeviceScope[d] /\ last[r] <= mark[d]
                       => Agrees(snap[d], r, live, link, last)

Upserts(X) == \A c \in X : c.op = "upsert"

Fresh(d) ==
  \A r \in Row :
    Covers(d, r) /\ ~(gap[d].lo < last[r] /\ last[r] <= gap[d].hi)
      => Agrees(replica[d], r, live, link, last)

DeviceInv(d) ==
  /\ cursor[d] <= lastPk /\ mark[d] <= lastPk
  /\ Sound(replica[d], live, link, last) /\ Upserts(replica[d])
  /\ Sound(snap[d], live, link, last) /\ Upserts(snap[d])
  /\ BootInv(d)
  /\ Fresh(d)
  /\ d \in Tabs => gap[d] = NoGap

IInv == TypeOK /\ LogInv /\ \A d \in Device : DeviceInv(d)

-----------------------------------------------------------------------------
(* Ledger writes.                                                          *)

\* A write gives its rows keys no record has yet and leaves other rows alone.
LEMMA CommitFacts ==
  ASSUME TypeOK, \A r \in Row : last[r] <= lastPk,
         NEW S, NEW D, NEW newLink, NEW key, WritesRows(S, D, newLink, key)
  PROVE  /\ \A r \in S : last'[r] = key[r] /\ last'[r] > lastPk /\ last'[r] > last[r]
         /\ \A r \in Row \ S : last'[r] = last[r] /\ live'[r] = live[r] /\ link'[r] = link[r]
         /\ \A r \in Row : last'[r] <= lastPk'
         /\ lastPk' >= lastPk
<1>1. \A r \in S : r \in Row /\ key[r] \in Nat /\ key[r] > lastPk
  <2>1. \A n \in (lastPk + 1)..MaxPk : n \in Nat /\ n > lastPk
    BY DevicesAssumption DEF TypeOK
  <2>. QED
    BY <2>1 DEF WritesRows
<1>2. last' = [r \in Row |-> IF r \in S THEN key[r] ELSE last[r]]
      /\ live' = [r \in Row |-> IF r \in S THEN r \notin D ELSE live[r]]
      /\ link' = [r \in Row |-> IF r \in S THEN newLink[r] ELSE link[r]]
      /\ lastPk' = lastPk + Cardinality(S)
  BY DEF WritesRows, Commit
<1>3. lastPk \in Nat /\ Cardinality(S) \in Nat /\ \A r \in Row : last[r] \in Nat
  BY DevicesAssumption DEF TypeOK, WritesRows
<1>4. \A r \in S : last'[r] = key[r] /\ last'[r] > lastPk /\ last'[r] > last[r]
  BY <1>1, <1>2, <1>3
<1>5. \A r \in S : key[r] <= lastPk + Cardinality(S)
  BY DEF WritesRows
<1>6. \A r \in Row \ S : last'[r] = last[r] /\ live'[r] = live[r] /\ link'[r] = link[r]
  BY <1>2
<1>7. \A r \in Row : last'[r] <= lastPk'
  BY <1>1, <1>2, <1>3, <1>4, <1>5, <1>6
<1>. QED
  BY <1>2, <1>3, <1>4, <1>6, <1>7

\* A commit leaves each record consistent with the ledger it describes.
LEMMA CommitSound ==
  ASSUME TypeOK, \A r \in Row : last[r] <= lastPk,
         NEW S, NEW D, NEW newLink, NEW key, WritesRows(S, D, newLink, key),
         NEW X, X \subseteq Change, Sound(X, live, link, last)
  PROVE  Sound(X, live', link', last')
<1>. SUFFICES ASSUME NEW c \in X
              PROVE  c.pk <= last'[c.row] /\ (c.pk = last'[c.row] => Matches(c, live', link'))
  BY DEF Sound
<1>1. c.row \in Row /\ c.pk \in Nat /\ c.pk <= last[c.row] /\ last[c.row] \in Nat
      /\ (c.pk = last[c.row] => Matches(c, live, link))
  BY DEF Sound, Change, TypeOK
<1>2. CASE c.row \in S
  <2>1. last'[c.row] > last[c.row] /\ last'[c.row] = key[c.row] /\ key[c.row] \in (lastPk + 1)..MaxPk
    BY <1>2, CommitFacts DEF WritesRows
  <2>. QED
    BY <1>1, <2>1
<1>3. CASE c.row \notin S
  BY <1>1, <1>3, CommitFacts DEF Matches
<1>. QED
  BY <1>2, <1>3

\* A commit logs the new state of the rows it writes.
LEMMA CommitLog ==
  ASSUME TypeOK, LogInv, NEW S, NEW D, NEW newLink, NEW key, WritesRows(S, D, newLink, key)
  PROVE  LogInv'
<1>. DEFINE New == {[pk |-> key[r], row |-> r,
                     op |-> IF r \in D THEN "delete" ELSE "upsert", link |-> newLink[r]] : r \in S}
<1>0. \A r \in S : r \in Row
  BY DEF WritesRows
<1>1. log' = log \cup New
  BY DEF WritesRows, Commit
<1>2. \A r \in S : (live'[r] <=> r \notin D) /\ link'[r] = newLink[r] /\ last'[r] = key[r]
  BY <1>0, CommitFacts DEF LogInv, WritesRows, Commit
<1>3. Sound(log, live', link', last')
  BY CommitSound DEF LogInv, TypeOK
<1>4. Sound(New, live', link', last')
  <2>. SUFFICES ASSUME NEW r \in S
                PROVE  LET c == [pk |-> key[r], row |-> r,
                                 op |-> IF r \in D THEN "delete" ELSE "upsert", link |-> newLink[r]]
                       IN c.pk <= last'[c.row] /\ Matches(c, live', link')
    BY DEF Sound
  <2>1. key[r] \in Int
    BY DEF WritesRows
  <2>. QED
    BY <1>2, <2>1 DEF Matches
<1>5. Sound(log', live', link', last')
  BY <1>1, <1>3, <1>4 DEF Sound
<1>6. LogHoldsLatest'
  <2>. SUFFICES ASSUME NEW r \in Row, last'[r] > 0
                PROVE  \E c \in log' : /\ c.pk = last'[r] /\ c.row = r
                                       /\ c.op = IF live'[r] THEN "upsert" ELSE "delete"
                                       /\ live'[r] => c.link = link'[r]
    BY DEF LogHoldsLatest
  <2>1. CASE r \in S
    <3>. DEFINE c == [pk |-> key[r], row |-> r,
                      op |-> IF r \in D THEN "delete" ELSE "upsert", link |-> newLink[r]]
    <3>1. c \in New
      BY <2>1
    <3>2. c.pk = last'[r] /\ c.row = r /\ c.link = link'[r]
          /\ c.op = IF live'[r] THEN "upsert" ELSE "delete"
      BY <1>2, <2>1
    <3>. QED
      BY <1>1, <3>1, <3>2
  <2>2. CASE r \notin S
    BY <1>1, <2>2, CommitFacts DEF LogInv, LogHoldsLatest
  <2>. QED
    BY <2>1, <2>2
<1>7. LiveWritten'
  BY CommitLiveWritten DEF LogInv
<1>8. \A r \in Row : last'[r] <= lastPk'
  BY CommitFacts DEF LogInv
<1>. QED
  BY <1>5, <1>6, <1>7, <1>8 DEF LogInv

\* A commit disturbs no device: the rows it changes lie beyond the cursors.
LEMMA CommitDevice ==
  ASSUME TypeOK, LogInv, NEW S, NEW D, NEW newLink, NEW key, WritesRows(S, D, newLink, key),
         NEW d \in Device, DeviceInv(d)
  PROVE  DeviceInv(d)'
<1>1. UNCHANGED devices
  BY DEF WritesRows, Commit
<1>2. UNCHANGED <<phase, cursor, replica, resync, snap, mark, gap>>
  BY <1>1 DEF devices
<1>3. Sound(replica[d], live', link', last') /\ Sound(snap[d], live', link', last')
  BY CommitSound DEF LogInv, DeviceInv, TypeOK
<1>4. lastPk \in Nat /\ lastPk' \in Nat /\ cursor[d] \in Nat /\ mark[d] \in Nat
      /\ \A r \in Row : last[r] \in Nat /\ last'[r] \in Nat
  BY CommitType, DevicesAssumption DEF TypeOK
<1>5. cursor[d] <= lastPk' /\ mark[d] <= lastPk'
  BY <1>4, CommitFacts DEF LogInv, DeviceInv
<1>6. \A r \in Row : last'[r] <= lastPk => /\ r \notin S
                                           /\ last'[r] = last[r] /\ live'[r] = live[r] /\ link'[r] = link[r]
  BY <1>4, CommitFacts DEF LogInv
<1>7. BootInv(d)'
  <2>. SUFFICES ASSUME NEW k \in 1..5, phase[d] = ReadPhase[k]
                PROVE  /\ \A c \in snap[d] : ReadBefore(k, c.row)
                       /\ \A r \in Row :
                            ReadBefore(k, r) /\ ScopeOf[r] = DeviceScope[d] /\ last'[r] <= mark[d]
                              => Agrees(snap[d], r, live', link', last')
    BY <1>2 DEF BootInv, ReadBefore
  <2>1. ASSUME NEW r \in Row, ReadBefore(k, r), ScopeOf[r] = DeviceScope[d], last'[r] <= mark[d]
        PROVE  Agrees(snap[d], r, live', link', last')
    <3>1. last'[r] <= lastPk
      BY <1>4, <2>1 DEF DeviceInv
    <3>. QED
      BY <1>6, <2>1, <3>1 DEF DeviceInv, BootInv, Agrees
  <2>. QED
    BY <2>1 DEF DeviceInv, BootInv
<1>8. Fresh(d)'
  <2>. SUFFICES ASSUME NEW r \in Row, ScopeOf[r] = DeviceScope[d], ~resync[d], last'[r] <= cursor[d],
                       ~(gap[d].lo < last'[r] /\ last'[r] <= gap[d].hi)
                PROVE  Agrees(replica[d], r, live', link', last')
    BY <1>2 DEF Fresh, Covers
  <2>1. last'[r] <= lastPk
    BY <1>4 DEF DeviceInv
  <2>. QED
    BY <1>6, <2>1 DEF DeviceInv, Fresh, Covers, Agrees
<1>. QED
  BY <1>2, <1>3, <1>5, <1>7, <1>8 DEF DeviceInv, Upserts

-----------------------------------------------------------------------------
(* Compaction.                                                             *)

\* The newest record of every row survives, so every record has a survivor of
\* its row that is at least as new.
LEMMA CompactKeeps ==
  ASSUME TypeOK, LogInv, NEW s \in Scopes, NEW cutoff, NEW c \in Scoped(s)
  PROVE  \E e \in Scoped(s) \ Outdated(s, cutoff) :
           /\ e.row = c.row /\ e.pk = last[c.row] /\ e.pk >= c.pk
           /\ c \in Outdated(s, cutoff) => e.pk > c.pk
<1>1. c \in log /\ c.row \in Row /\ c.pk \in 1..MaxPk /\ c.pk <= last[c.row]
      /\ last[c.row] \in 0..MaxPk /\ ScopeOf[c.row] = s
  BY DEF Scoped, LogInv, Sound, TypeOK, Change
<1>2. last[c.row] > 0
  BY <1>1, DevicesAssumption
<1>3. PICK e \in log : e.pk = last[c.row] /\ e.row = c.row
  BY <1>1, <1>2 DEF LogInv, LogHoldsLatest
<1>4. e \in Scoped(s)
  BY <1>1, <1>3 DEF Scoped
<1>5. \A f \in Scoped(s) : f.row = c.row => f.pk <= last[c.row]
  BY DEF Scoped, LogInv, Sound
<1>6. e \in Latest(s)
  BY <1>3, <1>4, <1>5 DEF Latest
<1>7. c \in Outdated(s, cutoff) => \E f \in Scoped(s) : f.row = c.row /\ ~(f.pk <= c.pk)
  BY DEF Outdated, Latest
<1>8. c \in Outdated(s, cutoff) => e.pk > c.pk
  <2>. SUFFICES ASSUME c \in Outdated(s, cutoff) PROVE e.pk > c.pk
    OBVIOUS
  <2>1. PICK f \in Scoped(s) : f.row = c.row /\ ~(f.pk <= c.pk)
    BY <1>7
  <2>2. f.pk \in Nat /\ f.pk <= last[c.row]
    BY <1>5, <2>1, DevicesAssumption DEF Scoped, TypeOK, Change
  <2>. QED
    BY <1>1, <1>3, <2>1, <2>2, DevicesAssumption
<1>. QED
  BY <1>1, <1>3, <1>4, <1>6, <1>8 DEF Outdated

\* Compaction disturbs no device, since it only removes what a later record of the same row supersedes.
LEMMA CompactInv ==
  ASSUME IInv, TypeOK', NEW s \in Scopes, NEW cutoff, Compact(s, cutoff)
  PROVE  IInv'
<1>1. log' = log \ Outdated(s, cutoff) /\ UNCHANGED <<ledger, devices>>
  BY DEF Compact
<1>2. UNCHANGED <<live, link, last, lastPk, phase, cursor, replica, resync, snap, mark, gap>>
  BY <1>1 DEF ledger, devices
<1>3. LogHoldsLatest'
  <2>. SUFFICES ASSUME NEW r \in Row, last[r] > 0
                PROVE  \E c \in log' : /\ c.pk = last[r] /\ c.row = r
                                       /\ c.op = IF live[r] THEN "upsert" ELSE "delete"
                                       /\ live[r] => c.link = link[r]
    BY <1>2 DEF LogHoldsLatest
  <2>1. PICK c \in log : /\ c.pk = last[r] /\ c.row = r
                         /\ c.op = IF live[r] THEN "upsert" ELSE "delete"
                         /\ live[r] => c.link = link[r]
    BY DEF IInv, LogInv, LogHoldsLatest
  <2>2. c \notin Outdated(s, cutoff)
    <3>1. SUFFICES ASSUME c \in Outdated(s, cutoff) PROVE FALSE
      OBVIOUS
    <3>2. PICK e \in Scoped(s) : e.pk = last[r] /\ e.pk > c.pk
      BY <2>1, <3>1, CompactKeeps DEF IInv, Outdated
    <3>. QED
      BY <2>1, <3>2 DEF IInv, TypeOK
  <2>. QED
    BY <1>1, <2>1, <2>2
<1>4. LogInv'
  BY <1>1, <1>2, <1>3 DEF IInv, LogInv, LiveWritten, Sound
<1>5. \A d \in Device : DeviceInv(d)'
  BY <1>2 DEF IInv, DeviceInv, BootInv, Fresh, Covers
<1>. QED
  BY <1>4, <1>5 DEF IInv

-----------------------------------------------------------------------------
(* Requests.                                                               *)

\* A request of one device leaves the ledger, the log and the others alone.
LEMMA OtherDevices ==
  ASSUME IInv, UNCHANGED server, NEW d \in Device, DeviceInv(d)', TypeOK',
         \A e \in Device \ {d} :
           /\ phase'[e] = phase[e] /\ cursor'[e] = cursor[e] /\ replica'[e] = replica[e]
           /\ resync'[e] = resync[e] /\ snap'[e] = snap[e] /\ mark'[e] = mark[e] /\ gap'[e] = gap[e]
  PROVE  IInv'
<1>1. UNCHANGED <<live, link, last, lastPk, log, floor>>
  BY DEF server, ledger
<1>2. LogInv'
  BY <1>1 DEF IInv, LogInv, LiveWritten, LogHoldsLatest
<1>3. ASSUME NEW e \in Device \ {d} PROVE DeviceInv(e)'
  BY <1>1, <1>3 DEF IInv, DeviceInv, BootInv, Fresh, Covers
<1>. QED
  BY <1>2, <1>3 DEF IInv

\* Reading the floor keeps the invariant.
LEMMA FeedFloorInv ==
  ASSUME IInv, TypeOK', NEW d \in Device, FeedFloor(d)
  PROVE  IInv'
<1>1. /\ UNCHANGED <<server, cursor, replica, snap, mark, gap>>
      /\ phase[d] = "idle" /\ phase'[d] \in {"idle", "feed"}
      /\ resync'[d] \/ resync'[d] = resync[d]
      /\ \A e \in Device \ {d} : phase'[e] = phase[e] /\ resync'[e] = resync[e]
  BY DEF FeedFloor, IInv, TypeOK
<1>2. DeviceInv(d)'
  BY <1>1 DEF IInv, DeviceInv, BootInv, ReadPhase, Fresh, Covers, server, ledger
<1>. QED
  BY <1>1, <1>2, OtherDevices

\* Dropping a request or an empty page keeps the invariant.
LEMMA BackToIdle ==
  ASSUME IInv, TypeOK', NEW d \in Device, FeedEmpty(d) \/ Lost(d)
  PROVE  IInv'
<1>1. /\ UNCHANGED <<server, cursor, replica, resync, gap>>
      /\ phase'[d] = "idle" /\ snap'[d] \in {snap[d], {}} /\ mark'[d] \in {mark[d], 0}
      /\ \A e \in Device \ {d} :
           phase'[e] = phase[e] /\ snap'[e] = snap[e] /\ mark'[e] = mark[e]
  BY DEF FeedEmpty, Lost, IInv, TypeOK
<1>2. mark'[d] <= lastPk'
  BY <1>1, DevicesAssumption DEF IInv, DeviceInv, TypeOK, server, ledger
<1>3. Sound(snap'[d], live, link, last) /\ Upserts(snap'[d])
  BY <1>1 DEF IInv, DeviceInv, Sound, Upserts
<1>4. DeviceInv(d)'
  BY <1>1, <1>2, <1>3 DEF IInv, DeviceInv, BootInv, ReadPhase, Fresh, Covers, server, ledger
<1>. QED
  BY <1>1, <1>4, OtherDevices

\* What a phone holds after a page: the page decides the rows it mentions.
LEMMA AppliedAgrees ==
  ASSUME IInv, NEW d \in Device, NEW to \in 0..MaxPk, NEW r \in Row,
         ScopeOf[r] = DeviceScope[d], last[r] <= to,
         last[r] <= cursor[d] => Agrees(replica[d], r, live, link, last)
  PROVE  Agrees(Applied(replica[d], PageUpTo(d, to)), r, live, link, last)
<1>. DEFINE page == PageUpTo(d, to)
            all == replica[d] \cup page
<1>1. page \subseteq log /\ \A c \in page : c.pk > cursor[d] /\ c.pk <= to
  BY DEF PageUpTo, Later, Scoped
<1>2. all \subseteq Change /\ Sound(all, live, link, last)
  BY <1>1 DEF IInv, TypeOK, LogInv, DeviceInv, Sound
<1>3. cursor[d] \in Nat /\ last[r] \in Nat
  BY DevicesAssumption DEF IInv, TypeOK
<1>4. ASSUME NEW c \in all, c.row = r, c.pk = last[r], c.op = "upsert"
      PROVE  live[r] /\ c = [pk |-> last[r], row |-> r, op |-> "upsert", link |-> link[r]]
  <2>1. Matches(c, live, link) /\ c \in Change
    BY <1>2, <1>4 DEF Sound
  <2>. QED
    BY <1>4, <2>1 DEF Matches, Change
<1>5. CASE last[r] <= cursor[d]
  <2>1. \A c \in page : c.row # r
    BY <1>1, <1>2, <1>3, <1>5 DEF Sound, Change
  <2>2. {c \in all : c.row = r} = {c \in replica[d] : c.row = r}
    BY <2>1
  <2>3. \A c \in all, e \in all : c.row = r /\ e.row = r => c = e
    BY <1>5, <2>2 DEF Agrees
  <2>4. \A c \in all : c.pk <= c.pk /\ (c \in replica[d] => c.op = "upsert")
    BY <1>2 DEF IInv, DeviceInv, Upserts, Change
  <2>5. \A c \in all : c.row = r => c \in Applied(replica[d], page)
    BY <2>1, <2>3, <2>4 DEF Applied
  <2>6. {c \in Applied(replica[d], page) : c.row = r} = {c \in all : c.row = r}
    BY <2>5 DEF Applied
  <2>. QED
    BY <1>5, <2>2, <2>6 DEF Agrees
<1>6. CASE ~(last[r] <= cursor[d])
  <2>1. PICK n \in log : /\ n.pk = last[r] /\ n.row = r
                         /\ n.op = IF live[r] THEN "upsert" ELSE "delete"
    BY <1>3, <1>6 DEF IInv, LogInv, LogHoldsLatest
  <2>2. n \in page
    BY <1>3, <1>6, <2>1 DEF PageUpTo, Later, Scoped
  <2>3. \A c \in Applied(replica[d], page) : c.row = r => c.pk = last[r] /\ c.op = "upsert"
    BY <1>2, <1>3, <2>1, <2>2 DEF Applied, Sound, Change
  <2>4. CASE live[r]
    <3>1. n \in Applied(replica[d], page)
      BY <1>2, <2>1, <2>2, <2>4 DEF Applied, Sound
    <3>. QED
      BY <1>4, <2>1, <2>3, <2>4, <3>1 DEF Agrees, Applied
  <2>5. CASE ~live[r]
    BY <1>4, <2>3, <2>5 DEF Agrees, Applied
  <2>. QED
    BY <2>4, <2>5
<1>. QED
  BY <1>5, <1>6

\* Applying a page keeps the invariant: the cursor passes only changes the page holds.
LEMMA FeedRowsInv ==
  ASSUME IInv, TypeOK', NEW d \in Device, FeedRows(d)
  PROVE  IInv'
<1>1. PICK to \in {c.pk : c \in Later(d)} :
        /\ cursor' = [cursor EXCEPT ![d] = to]
        /\ IF d \in Phones
           THEN /\ replica' = [replica EXCEPT ![d] = Applied(@, PageUpTo(d, to))]
                /\ UNCHANGED resync
           ELSE resync' = [resync EXCEPT ![d] = TRUE] /\ UNCHANGED replica
  BY DEF FeedRows
<1>2. /\ UNCHANGED <<server, snap, mark, gap>>
      /\ phase' = [phase EXCEPT ![d] = "idle"]
  BY DEF FeedRows
<1>3. to \in 0..MaxPk /\ to <= lastPk
  <2>1. PICK c \in Later(d) : to = c.pk
    OBVIOUS
  <2>2. c \in Change /\ c.pk <= last[c.row] /\ last[c.row] <= lastPk
    BY <2>1 DEF Later, Scoped, IInv, TypeOK, LogInv, Sound, Change
  <2>. QED
    BY <2>1, <2>2, DevicesAssumption DEF IInv, TypeOK, Change
<1>4. UNCHANGED <<live, link, last, lastPk, log>>
  BY <1>2 DEF server, ledger
<1>5. cursor'[d] = to /\ phase'[d] = "idle"
  BY <1>1, <1>2 DEF IInv, TypeOK
<1>6. CASE d \in Phones
  <2>1. replica'[d] = Applied(replica[d], PageUpTo(d, to)) /\ resync'[d] = resync[d]
    BY <1>1, <1>6 DEF IInv, TypeOK
  <2>2. Sound(replica'[d], live, link, last) /\ Upserts(replica'[d])
    BY <2>1 DEF Applied, PageUpTo, Later, Scoped, Sound, Upserts, IInv, LogInv, DeviceInv
  <2>3. ASSUME NEW r \in Row, ScopeOf[r] = DeviceScope[d], ~resync[d], last[r] <= to,
               ~(gap[d].lo < last[r] /\ last[r] <= gap[d].hi)
        PROVE  Agrees(replica'[d], r, live, link, last)
    BY <1>3, <2>1, <2>3, AppliedAgrees DEF IInv, DeviceInv, Fresh, Covers
  <2>4. Fresh(d)'
    BY <1>2, <1>4, <1>5, <2>1, <2>3 DEF Fresh, Covers
  <2>5. DeviceInv(d)'
    BY <1>2, <1>3, <1>4, <1>5, <2>2, <2>4 DEF IInv, DeviceInv, BootInv, ReadPhase
  <2>. QED
    BY <1>1, <1>2, <2>5, <1>6, OtherDevices DEF IInv, TypeOK
<1>7. CASE d \notin Phones
  <2>1. resync'[d] /\ UNCHANGED replica
    BY <1>1, <1>7 DEF IInv, TypeOK
  <2>2. DeviceInv(d)'
    BY <1>2, <1>3, <1>4, <1>5, <2>1 DEF IInv, DeviceInv, BootInv, ReadPhase, Fresh, Covers
  <2>. QED
    BY <1>1, <1>2, <2>1, <2>2, <1>7, OtherDevices DEF IInv, TypeOK
<1>. QED
  BY <1>6, <1>7

\* Beginning a bootstrap keeps the invariant.
LEMMA BootstrapBeginInv ==
  ASSUME IInv, TypeOK', NEW d \in Device, BootstrapBegin(d)
  PROVE  IInv'
<1>1. /\ UNCHANGED <<server, cursor, replica, resync, gap>>
      /\ phase'[d] = "read1" /\ snap'[d] = {} /\ mark'[d] \in 0..lastPk
      /\ \A e \in Device \ {d} :
           phase'[e] = phase[e] /\ snap'[e] = snap[e] /\ mark'[e] = mark[e]
  BY DEF BootstrapBegin, IInv, TypeOK
<1>2. \A k \in 1..5 : ReadPhase[k] = "read1" => k = 1
  BY DEF ReadPhase
<1>3. \A r : ~ReadBefore(1, r)
  BY DEF ReadBefore
<1>4. BootInv(d)'
  BY <1>1, <1>2, <1>3 DEF BootInv, ReadBefore
<1>5. mark'[d] <= lastPk'
  BY <1>1, DevicesAssumption DEF IInv, TypeOK, server, ledger
<1>6. DeviceInv(d)'
  BY <1>1, <1>4, <1>5 DEF IInv, DeviceInv, Sound, Upserts, Fresh, Covers, server, ledger
<1>. QED
  BY <1>1, <1>6, OtherDevices

\* No row is in two tables.
LEMMA KindsDisjoint ==
  ASSUME NEW j \in 1..4, NEW k \in 1..4, NEW r \in Kinds[j], r \in Kinds[k]
  PROVE  j = k
BY KindsAssumption DEF Kinds

\* Reading one table keeps the invariant.
LEMMA BootstrapReadInv ==
  ASSUME IInv, TypeOK', NEW d \in Device, NEW k \in 1..4, BootstrapRead(d, k)
  PROVE  IInv'
<1>. DEFINE table == {CanonicalRow(r) : r \in {x \in Kinds[k] : live[x] /\ ScopeOf[x] = DeviceScope[d]}}
<1>1. /\ UNCHANGED <<server, cursor, replica, resync, mark, gap>>
      /\ phase[d] = ReadPhase[k] /\ phase'[d] = ReadPhase[k + 1] /\ snap'[d] = snap[d] \cup table
      /\ \A e \in Device \ {d} : phase'[e] = phase[e] /\ snap'[e] = snap[e]
  BY DEF BootstrapRead, IInv, TypeOK
<1>2. \A n \in 1..5 : ReadPhase[n] = ReadPhase[k + 1] => n = k + 1
  BY DEF ReadPhase
<1>3. \A r : ReadBefore(k + 1, r) <=> ReadBefore(k, r) \/ r \in Kinds[k]
  BY DEF ReadBefore
<1>4. Kinds[k] \subseteq Row
  BY DEF Kinds, Row
<1>5. \A r \in Kinds[k] : ~ReadBefore(k, r)
  BY KindsDisjoint DEF ReadBefore
<1>6. \A c \in snap[d] : ReadBefore(k, c.row)
  BY <1>1 DEF IInv, DeviceInv, BootInv
<1>7. \A c \in table : c.row \in Kinds[k] /\ c = CanonicalRow(c.row) /\ live[c.row]
                       /\ c.op = "upsert"
  BY DEF CanonicalRow
<1>8. Sound(table, live, link, last)
  <2>1. \A c \in table : c.pk = last[c.row] /\ last[c.row] \in Nat /\ c.link = link[c.row]
    BY <1>4, <1>7, DevicesAssumption DEF CanonicalRow, IInv, TypeOK
  <2>. QED
    BY <1>7, <2>1 DEF Sound, Matches
<1>9. ASSUME NEW r \in Row, ReadBefore(k + 1, r), ScopeOf[r] = DeviceScope[d], last[r] <= mark[d]
      PROVE  Agrees(snap[d] \cup table, r, live, link, last)
  <2>1. CASE r \in Kinds[k]
    <3>1. \A c \in snap[d] : c.row # r
      BY <1>5, <1>6, <2>1
    <3>2. {c \in snap[d] \cup table : c.row = r} = {c \in table : c.row = r}
      BY <3>1
    <3>3. CASE live[r]
      <4>1. CanonicalRow(r) \in table /\ CanonicalRow(r).row = r
        BY <1>9, <2>1, <3>3 DEF CanonicalRow
      <4>2. {c \in table : c.row = r} = {CanonicalRow(r)}
        BY <1>7, <4>1
      <4>. QED
        BY <3>2, <3>3, <4>2 DEF Agrees, CanonicalRow
    <3>4. CASE ~live[r]
      BY <1>7, <3>2, <3>4 DEF Agrees
    <3>. QED
      BY <3>3, <3>4
  <2>2. CASE r \notin Kinds[k]
    <3>1. Agrees(snap[d], r, live, link, last)
      BY <1>1, <1>3, <1>9, <2>2 DEF IInv, DeviceInv, BootInv
    <3>2. {c \in snap[d] \cup table : c.row = r} = {c \in snap[d] : c.row = r}
      BY <1>7, <2>2
    <3>. QED
      BY <3>1, <3>2 DEF Agrees
  <2>. QED
    BY <2>1, <2>2
<1>10. UNCHANGED <<live, link, last, lastPk>>
  BY <1>1 DEF server, ledger
<1>11. BootInv(d)'
  <2>1. \A c \in snap[d] \cup table : ReadBefore(k + 1, c.row)
    BY <1>3, <1>6, <1>7
  <2>. HIDE DEF table
  <2>2. /\ \A c \in snap'[d] : ReadBefore(k + 1, c.row)
        /\ \A r \in Row : ReadBefore(k + 1, r) /\ ScopeOf[r] = DeviceScope[d] /\ last'[r] <= mark'[d]
                          => Agrees(snap'[d], r, live', link', last')
    BY <1>1, <1>9, <1>10, <2>1
  <2>. QED
    BY <1>1, <1>2, <2>2 DEF BootInv, ReadBefore
<1>12. DeviceInv(d)'
  <2>1. Sound(snap'[d], live', link', last') /\ Upserts(snap'[d])
    BY <1>1, <1>7, <1>8, <1>10 DEF IInv, DeviceInv, Sound, Upserts
  <2>. QED
    BY <1>1, <1>10, <1>11, <2>1 DEF IInv, DeviceInv, Fresh, Covers
<1>. QED
  BY <1>1, <1>12, OtherDevices

\* Answering a bootstrap keeps the invariant; a phone gets its gap here.
LEMMA BootstrapReplyInv ==
  ASSUME IInv, TypeOK', NEW d \in Device, BootstrapReply(d)
  PROVE  IInv'
<1>1. PICK m \in 0..lastPk :
        /\ ReplyCursor(d, m)
        /\ cursor' = [cursor EXCEPT ![d] = m]
        /\ gap' = [gap EXCEPT ![d] = IF m = mark[d] THEN NoGap ELSE [lo |-> mark[d], hi |-> m]]
  BY DEF BootstrapReply
<1>2. /\ UNCHANGED server
      /\ phase[d] = "reply" /\ phase'[d] = "idle" /\ replica'[d] = snap[d]
      /\ snap'[d] = {} /\ mark'[d] = 0 /\ cursor'[d] = m
      /\ gap'[d] = IF m = mark[d] THEN NoGap ELSE [lo |-> mark[d], hi |-> m]
  BY <1>1 DEF BootstrapReply, IInv, TypeOK
<1>3. UNCHANGED <<live, link, last, lastPk>>
  BY <1>2 DEF server, ledger
<1>4. \A r \in Row : ReadBefore(5, r)
  BY DEF ReadBefore, Row, Kinds
<1>5. \A r \in Row : ScopeOf[r] = DeviceScope[d] /\ last[r] <= mark[d]
                    => Agrees(snap[d], r, live, link, last)
  BY <1>2, <1>4 DEF IInv, DeviceInv, BootInv, ReadPhase
<1>6. Fresh(d)'
  <2>. SUFFICES ASSUME NEW r \in Row, ScopeOf[r] = DeviceScope[d], last[r] <= m,
                       ~(gap'[d].lo < last[r] /\ last[r] <= gap'[d].hi)
                PROVE  Agrees(snap[d], r, live, link, last)
    BY <1>2, <1>3 DEF Fresh, Covers
  <2>1. last[r] <= mark[d]
    <3>1. mark[d] \in Nat /\ m \in Nat /\ last[r] \in Nat
      BY DevicesAssumption DEF IInv, TypeOK
    <3>. QED
      BY <1>2, <3>1
  <2>. QED
    BY <1>5, <2>1
<1>7. d \in Tabs => gap'[d] = NoGap
  BY <1>1, <1>2 DEF ReplyCursor
<1>8. cursor'[d] <= lastPk' /\ mark'[d] <= lastPk'
  BY <1>1, <1>2, <1>3, DevicesAssumption DEF IInv, TypeOK
<1>9. BootInv(d)'
  BY <1>2 DEF BootInv, ReadPhase
<1>10. DeviceInv(d)'
  BY <1>2, <1>3, <1>6, <1>7, <1>8, <1>9 DEF IInv, DeviceInv, Sound, Upserts
<1>. QED
  BY <1>1, <1>2, <1>10, OtherDevices DEF BootstrapReply, IInv, TypeOK

-----------------------------------------------------------------------------
(* The invariant holds.                                                    *)

\* The migrated ledger satisfies the invariant.
LEMMA InitInv == Init => IInv
<1>. SUFFICES ASSUME Init PROVE IInv
  OBVIOUS
<1>1. TypeOK /\ LiveWritten
  BY InitType
<1>2. Legacy \subseteq Row
  BY LegacyAssumption
<1>3. \A r \in Row : live[r] <=> r \in Legacy
  BY Zenon DEF Init
<1>4. \A r \in Row : last[r] > 0 <=> r \in Legacy
  <2>1. \A r \in Row \ Legacy : last[r] = 0
    BY DEF Init
  <2>. QED
    BY <1>1, <1>2, <1>3, <2>1 DEF LiveWritten
<1>5. \A c \in log : c.row \in Legacy /\ c = CanonicalRow(c.row)
  BY DEF Init, CanonicalRow
<1>6. \A c \in log : c.pk = last[c.row] /\ c.op = "upsert" /\ c.link = link[c.row]
  BY <1>5 DEF CanonicalRow
<1>7. Sound(log, live, link, last)
  <2>1. \A c \in log : c.pk \in Int
    BY <1>1 DEF TypeOK, Change
  <2>. QED
    BY <1>2, <1>3, <1>5, <1>6, <2>1 DEF Sound, Matches
<1>8. LogHoldsLatest
  <2>1. \A r \in Legacy : CanonicalRow(r) \in log
    BY DEF Init
  <2>. QED
    BY <1>2, <1>3, <1>4, <2>1 DEF LogHoldsLatest, CanonicalRow
<1>9. \A r \in Row : last[r] <= lastPk
  <2>1. Cardinality(Legacy) \in Nat
    BY <1>2, RowsAssumption, FS_Subset, FS_CardinalityType
  <2>2. \A r \in Legacy : LegacyKey[r] <= Cardinality(Legacy)
    BY <2>1, LegacyAssumption DEF Bijection, Injection
  <2>. QED
    BY <2>1, <2>2 DEF Init
<1>10. ASSUME NEW d \in Device PROVE DeviceInv(d)
  <2>1. /\ phase[d] = "idle" /\ cursor[d] = 0 /\ mark[d] = 0
        /\ replica[d] = {} /\ snap[d] = {} /\ gap[d] = NoGap
    BY DEF Init
  <2>2. lastPk >= 0
    BY <1>1, DevicesAssumption DEF TypeOK
  <2>3. \A r \in Row : last[r] <= 0 => ~live[r]
    BY <1>1, <1>3, <1>4 DEF TypeOK
  <2>4. Fresh(d)
    BY <2>1, <2>3 DEF Fresh, Covers, Agrees
  <2>. QED
    BY <2>1, <2>2, <2>4 DEF DeviceInv, BootInv, ReadPhase, Sound, Upserts
<1>. QED
  BY <1>1, <1>7, <1>8, <1>9, <1>10 DEF IInv, LogInv

\* Every step keeps the invariant.
LEMMA NextInv ==
  ASSUME IInv, [Next]_vars
  PROVE  IInv'
<1>1. TypeOK'
  BY NextType DEF IInv, LogInv
<1>2. CASE Write
  BY <1>2, WriteWritesRows, CommitLog, CommitDevice, <1>1 DEF IInv
<1>3. ASSUME NEW s \in Scopes, NEW cutoff \in 1..lastPk, Compact(s, cutoff)
      PROVE  IInv'
  BY <1>1, <1>3, CompactInv
<1>4. ASSUME NEW d \in Device, Request(d) \/ Lost(d)
      PROVE  IInv'
  BY <1>1, <1>4, FeedFloorInv, BackToIdle, FeedRowsInv,
     BootstrapBeginInv, BootstrapReadInv, BootstrapReplyInv DEF Request
<1>5. CASE UNCHANGED vars
  BY <1>5 DEF vars, server, ledger, devices, IInv, TypeOK, LogInv, LiveWritten, LogHoldsLatest,
              DeviceInv, BootInv, Fresh, Covers
<1>. QED
  BY <1>2, <1>3, <1>4, <1>5 DEF Next

\* The inductive invariant that ties log, ledger, replicas and snapshots.
THEOREM Invariant == Spec => []IInv
BY InitInv, NextInv, PTL DEF Spec

\* The feed loses no change, except to a phone during its own bootstrap.
THEOREM FeedLosesNothing == Spec => []FreshOutsideGap
<1>1. IInv => FreshOutsideGap
  BY DEF IInv, DeviceInv, Fresh, FreshOutsideGap, Agrees, InStep, CanonicalRow
<1>. QED
  BY <1>1, Invariant, PTL

\* A browser tab loses no change at all.
THEOREM TabLosesNothing == Spec => []TabsFresh
<1>1. IInv => TabsFresh
  <2>. SUFFICES ASSUME IInv, NEW d \in Tabs, NEW r \in Row, Covers(d, r)
                PROVE  InStep(d, r)
    BY DEF TabsFresh
  <2>1. d \in Device /\ gap[d] = NoGap
    BY DEF Device, IInv, DeviceInv
  <2>2. ~(gap[d].lo < last[r] /\ last[r] <= gap[d].hi)
    BY <2>1, DevicesAssumption DEF NoGap, IInv, TypeOK
  <2>. QED
    BY <2>1, <2>2 DEF IInv, DeviceInv, Fresh, Agrees, InStep, CanonicalRow
<1>. QED
  BY <1>1, Invariant, PTL

\* Compaction never loses the present state of a row, deleted rows included.
THEOREM CompactionKeepsLatest == Spec => []LogHoldsLatest
<1>1. IInv => LogHoldsLatest
  BY DEF IInv, LogInv
<1>. QED
  BY <1>1, Invariant, PTL

-----------------------------------------------------------------------------
(* The floor and the cursors.                                              *)

\* A commit only adds records, a request none.
LEMMA LogGrows ==
  ASSUME IInv, Write \/ \E d \in Device : Request(d) \/ Lost(d)
  PROVE  log \subseteq log' /\ UNCHANGED floor
<1>1. CASE Write
  BY <1>1, WriteWritesRows DEF IInv, WritesRows, Commit
<1>2. ASSUME NEW d \in Device, Request(d) \/ Lost(d) PROVE UNCHANGED server
  BY <1>2 DEF Request, Lost, FeedFloor, FeedRows, FeedEmpty,
              BootstrapBegin, BootstrapRead, BootstrapReply
<1>. QED
  BY <1>1, <1>2 DEF server

\* Some record of the scope is at or beyond the n-th change.
Reached(s, n) == n > 0 => \E c \in Scoped(s) : c.pk >= n
Seen(d) ==
  /\ Reached(DeviceScope[d], cursor[d])
  /\ Reached(DeviceScope[d], mark[d])
  /\ d \in Tabs /\ phase[d] \notin {"idle", "feed"} => mark[d] >= cursor[d]
SeenInv == UpToDateNotExpired /\ \A d \in Device : Seen(d)

\* A key that is at or below a change of the scope stays so.
LEMMA ReachedKept ==
  ASSUME IInv, [Next]_vars, NEW s \in Scopes, NEW n \in Nat, Reached(s, n)
  PROVE  n > 0 => \E c \in log' : ScopeOf[c.row] = s /\ c.pk >= n
<1>. SUFFICES ASSUME n > 0 PROVE \E c \in log' : ScopeOf[c.row] = s /\ c.pk >= n
  OBVIOUS
<1>1. PICK c \in Scoped(s) : c.pk >= n
  BY DEF Reached
<1>2. CASE Write \/ \E d \in Device : Request(d) \/ Lost(d)
  BY <1>1, <1>2, LogGrows DEF Scoped
<1>3. ASSUME NEW t \in Scopes, NEW cutoff \in 1..lastPk, Compact(t, cutoff)
      PROVE  \E e \in log' : ScopeOf[e.row] = s /\ e.pk >= n
  <2>1. log' = log \ Outdated(t, cutoff)
    BY <1>3 DEF Compact
  <2>2. CASE s = t
    <3>1. PICK e \in Scoped(s) \ Outdated(s, cutoff) : e.pk >= c.pk
      BY CompactKeeps DEF IInv
    <3>2. e.pk \in Nat /\ c.pk \in Nat
      BY DevicesAssumption DEF Scoped, IInv, TypeOK, Change
    <3>. QED
      BY <1>1, <2>1, <2>2, <3>1, <3>2 DEF Scoped
  <2>3. CASE s # t
    BY <1>1, <2>1, <2>3 DEF Scoped, Outdated
  <2>. QED
    BY <2>2, <2>3
<1>4. CASE UNCHANGED vars
  BY <1>1, <1>4 DEF Scoped, vars, server
<1>. QED
  BY <1>2, <1>3, <1>4 DEF Next

\* At the start every cursor and floor is zero.
LEMMA InitSeen == Init => SeenInv
BY DEF Init, SeenInv, UpToDateNotExpired, Seen, Reached

\* Compaction leaves the floor below the newest change of its scope.
LEMMA FloorSeen ==
  ASSUME IInv, IInv', UpToDateNotExpired, [Next]_vars
  PROVE  UpToDateNotExpired'
<1>. SUFFICES ASSUME NEW s \in Scopes, floor'[s] > 0
              PROVE  \E c \in log' : ScopeOf[c.row] = s /\ c.pk > floor'[s]
  BY DEF UpToDateNotExpired, Scoped
<1>1. floor[s] \in Nat /\ floor'[s] \in Nat
  BY DevicesAssumption DEF IInv, TypeOK
<1>2. floor[s] > 0 => \E c \in log' : ScopeOf[c.row] = s /\ c.pk > floor[s]
  <2>. SUFFICES ASSUME floor[s] > 0 PROVE \E c \in log' : ScopeOf[c.row] = s /\ c.pk > floor[s]
    OBVIOUS
  <2>1. Reached(s, floor[s] + 1)
    BY <1>1, DevicesAssumption DEF Reached, UpToDateNotExpired, IInv, TypeOK, Scoped, Change
  <2>2. PICK c \in log' : ScopeOf[c.row] = s /\ c.pk >= floor[s] + 1
    BY <1>1, <2>1, ReachedKept
  <2>3. c.pk \in Nat
    BY DevicesAssumption DEF IInv, TypeOK, Change
  <2>. QED
    BY <1>1, <2>2, <2>3
<1>3. CASE Write \/ (\E d \in Device : Request(d) \/ Lost(d)) \/ UNCHANGED vars
  BY <1>2, <1>3, LogGrows DEF vars, server
<1>4. ASSUME NEW t \in Scopes, NEW cutoff \in 1..lastPk, Compact(t, cutoff)
      PROVE  \E c \in log' : ScopeOf[c.row] = s /\ c.pk > floor'[s]
  <2>1. PICK top \in Outdated(t, cutoff) :
          /\ log' = log \ Outdated(t, cutoff)
          /\ floor' = [floor EXCEPT ![t] = IF top.pk > @ THEN top.pk ELSE @]
    BY <1>4 DEF Compact
  <2>2. CASE floor'[s] = floor[s]
    BY <1>2, <2>2
  <2>3. CASE floor'[s] # floor[s]
    <3>1. s = t /\ floor'[s] = top.pk
      BY <2>1, <2>3 DEF IInv, TypeOK
    <3>2. top \in Scoped(s)
      BY <2>1, <3>1 DEF Outdated
    <3>3. PICK e \in Scoped(s) \ Outdated(s, cutoff) : e.pk > top.pk
      BY <2>1, <3>1, <3>2, CompactKeeps DEF IInv
    <3>. QED
      BY <2>1, <3>1, <3>3 DEF Scoped
  <2>. QED
    BY <2>2, <2>3
<1>. QED
  BY <1>3, <1>4 DEF Next

\* The newest change of a scope is at or beyond every cursor handed out in it.
LEMMA LatestReaches ==
  ASSUME IInv, NEW s \in Scopes, NEW n \in Nat, Reached(s, n), NEW m \in Nat, IsLatestCursor(m, s)
  PROVE  m >= n /\ Reached(s, m)
<1>1. \A c \in Scoped(s) : c.pk \in Nat
  BY DevicesAssumption DEF Scoped, IInv, TypeOK, Change
<1>2. m >= n
  BY <1>1 DEF Reached, IsLatestCursor
<1>3. Reached(s, m)
  BY <1>1 DEF Reached, IsLatestCursor
<1>. QED
  BY <1>2, <1>3

\* A step moves no cursor back, and none beyond the newest change.
LEMMA CursorStep ==
  ASSUME IInv, IInv', SeenInv, [Next]_vars, NEW d \in Device
  PROVE  cursor'[d] >= cursor[d] /\ Seen(d)'
<1>. DEFINE s == DeviceScope[d]
<1>1. /\ s \in Scopes
      /\ cursor[d] \in Nat /\ mark[d] \in Nat /\ cursor'[d] \in Nat /\ mark'[d] \in Nat
      /\ \A c \in log : c.pk \in Nat
  BY DevicesAssumption, ScopeIsScope DEF IInv, TypeOK, Change
<1>2. Seen(d)
  BY DEF SeenInv
<1>3. \A n \in Nat : Reached(s, n) => (n > 0 => \E c \in log' : ScopeOf[c.row] = s /\ c.pk >= n)
  BY <1>1, ReachedKept
<1>4. CASE UNCHANGED <<phase[d], cursor[d], mark[d]>>
  <2>1. cursor'[d] >= cursor[d]
    BY <1>1, <1>4
  <2>2. /\ cursor'[d] > 0 => \E c \in log' : ScopeOf[c.row] = s /\ c.pk >= cursor'[d]
        /\ mark'[d] > 0 => \E c \in log' : ScopeOf[c.row] = s /\ c.pk >= mark'[d]
    BY <1>1, <1>2, <1>3, <1>4 DEF Seen
  <2>. QED
    BY <1>2, <1>4, <2>1, <2>2 DEF Seen, Reached, Scoped
<1>5. ASSUME UNCHANGED log, Reached(s, cursor'[d]), Reached(s, mark'[d]), cursor'[d] >= cursor[d],
             d \in Tabs /\ phase'[d] \notin {"idle", "feed"} => mark'[d] >= cursor'[d]
      PROVE  cursor'[d] >= cursor[d] /\ Seen(d)'
  BY <1>5 DEF Seen, Reached, Scoped
<1>6. CASE Write \/ (\E t \in Scopes : \E cutoff \in 1..lastPk : Compact(t, cutoff)) \/ UNCHANGED vars
  <2>1. UNCHANGED devices
    BY <1>6, WriteWritesRows DEF IInv, WritesRows, Commit, Compact, vars
  <2>. QED
    BY <1>4, <2>1 DEF devices
<1>7. ASSUME NEW e \in Device \ {d}, Request(e) \/ Lost(e)
      PROVE  UNCHANGED <<phase[d], cursor[d], mark[d]>>
  BY <1>7 DEF Request, Lost, FeedFloor, FeedRows, FeedEmpty, BootstrapBegin, BootstrapRead,
              BootstrapReply, IInv, TypeOK
<1>8. CASE FeedFloor(d) \/ FeedEmpty(d) \/ Lost(d)
  <2>1. /\ UNCHANGED <<log, cursor>> /\ phase'[d] \in {"idle", "feed"} /\ mark'[d] \in {mark[d], 0}
    BY <1>8 DEF FeedFloor, FeedEmpty, Lost, IInv, TypeOK, server
  <2>. QED
    BY <1>1, <1>2, <1>5, <2>1 DEF Seen, Reached
<1>9. CASE FeedRows(d)
  <2>1. PICK c \in Later(d) : cursor' = [cursor EXCEPT ![d] = c.pk]
    BY <1>9 DEF FeedRows
  <2>2. UNCHANGED <<log, mark>> /\ phase'[d] = "idle" /\ cursor'[d] = c.pk
    BY <1>9, <2>1 DEF FeedRows, IInv, TypeOK, server
  <2>3. c \in Scoped(s) /\ c.pk > cursor[d]
    BY DEF Later
  <2>4. c.pk >= cursor[d] /\ c.pk >= c.pk
    BY <1>1, <2>3 DEF Scoped
  <2>. QED
    BY <1>2, <1>5, <2>2, <2>3, <2>4 DEF Seen, Reached
<1>10. CASE BootstrapBegin(d)
  <2>1. PICK m \in 0..lastPk : IsLatestCursor(m, s) /\ mark' = [mark EXCEPT ![d] = m]
    BY <1>10 DEF BootstrapBegin
  <2>2. UNCHANGED <<log, cursor>> /\ mark'[d] = m
    BY <1>10, <2>1 DEF BootstrapBegin, IInv, TypeOK, server
  <2>3. m >= cursor[d] /\ Reached(s, m)
    BY <1>1, <1>2, <2>1, LatestReaches DEF Seen
  <2>. QED
    BY <1>1, <1>2, <1>5, <2>2, <2>3 DEF Seen
<1>11. ASSUME NEW k \in 1..4, BootstrapRead(d, k)
       PROVE  cursor'[d] >= cursor[d] /\ Seen(d)'
  <2>1. UNCHANGED <<log, cursor, mark>> /\ phase[d] \notin {"idle", "feed"}
    BY <1>11 DEF BootstrapRead, ReadPhase, server
  <2>. QED
    BY <1>1, <1>2, <1>5, <2>1 DEF Seen
<1>12. CASE BootstrapReply(d)
  <2>1. PICK m \in 0..lastPk : ReplyCursor(d, m) /\ cursor' = [cursor EXCEPT ![d] = m]
    BY <1>12 DEF BootstrapReply
  <2>2. UNCHANGED log /\ cursor'[d] = m /\ mark'[d] = 0 /\ phase[d] = "reply" /\ phase'[d] = "idle"
    BY <1>12, <2>1 DEF BootstrapReply, IInv, TypeOK, server
  <2>3. m >= cursor[d] /\ Reached(s, m)
    <3>1. CASE d \in Tabs
      BY <1>2, <2>1, <2>2, <3>1 DEF ReplyCursor, Seen
    <3>2. CASE d \notin Tabs
      BY <1>1, <1>2, <2>1, <3>2, LatestReaches DEF ReplyCursor, Seen
    <3>. QED
      BY <3>1, <3>2
  <2>. QED
    BY <1>5, <2>2, <2>3 DEF Reached
<1>. QED
  BY <1>4, <1>6, <1>7, <1>8, <1>9, <1>10, <1>11, <1>12 DEF Next, Request

\* Every step keeps cursors and floors at or below the newest change of their scope.
LEMMA NextSeen ==
  ASSUME IInv, IInv', SeenInv, [Next]_vars
  PROVE  SeenInv'
BY CursorStep, FloorSeen DEF SeenInv

\* Cursors and floors stay at or below the newest change of their scope.
LEMMA SeenInvariant == Spec => []SeenInv
<1>1. IInv /\ IInv' /\ SeenInv /\ [Next]_vars => SeenInv'
  BY NextSeen
<1>. QED
  BY <1>1, InitSeen, Invariant, PTL DEF Spec

\* A device that has seen its scope's newest change is not made to start again.
THEOREM UpToDateStays == Spec => []UpToDateNotExpired
<1>1. SeenInv => UpToDateNotExpired
  BY DEF SeenInv
<1>. QED
  BY <1>1, SeenInvariant, PTL

\* What compaction removes is at or below the floor it leaves.
THEOREM FloorCovers == Spec => FloorCoversRemoval
<1>1. ASSUME IInv, [Next]_vars
      PROVE  \A c \in log \ log' : c.pk <= floor'[ScopeOf[c.row]]
  <2>. SUFFICES ASSUME NEW c \in log, c \notin log'
                PROVE  c.pk <= floor'[ScopeOf[c.row]]
    OBVIOUS
  <2>1. PICK s \in Scopes, cutoff \in 1..lastPk : Compact(s, cutoff)
    BY <1>1, LogGrows DEF Next, vars, server
  <2>2. PICK top \in Outdated(s, cutoff) :
          /\ \A e \in Outdated(s, cutoff) : e.pk <= top.pk
          /\ log' = log \ Outdated(s, cutoff)
          /\ floor' = [floor EXCEPT ![s] = IF top.pk > @ THEN top.pk ELSE @]
    BY <2>1 DEF Compact
  <2>3. c \in Outdated(s, cutoff) /\ ScopeOf[c.row] = s
    BY <2>2 DEF Outdated, Scoped
  <2>4. c.pk \in Nat /\ top.pk \in Nat /\ floor[s] \in Nat
    BY <1>1, DevicesAssumption DEF Outdated, Scoped, IInv, TypeOK, Change
  <2>5. floor'[s] = IF top.pk > floor[s] THEN top.pk ELSE floor[s]
    BY <1>1, <2>2 DEF IInv, TypeOK
  <2>. QED
    BY <2>2, <2>3, <2>4, <2>5
<1>. QED
  BY <1>1, Invariant, PTL DEF Spec, FloorCoversRemoval

\* No cursor and no floor ever moves back.
THEOREM CursorsOnlyAdvance == Spec => CursorsAdvance
<1>1. ASSUME IInv, IInv', SeenInv, [Next]_vars
      PROVE  /\ \A d \in Device : cursor'[d] >= cursor[d]
             /\ \A s \in Scopes : floor'[s] >= floor[s]
  <2>1. \A d \in Device : cursor'[d] >= cursor[d]
    BY <1>1, CursorStep
  <2>2. ASSUME NEW s \in Scopes PROVE floor'[s] >= floor[s]
    <3>1. floor[s] \in Nat
      BY <1>1, DevicesAssumption DEF IInv, TypeOK
    <3>2. CASE UNCHANGED floor
      BY <3>1, <3>2
    <3>3. ASSUME NEW t \in Scopes, NEW cutoff \in 1..lastPk, Compact(t, cutoff)
          PROVE  floor'[s] >= floor[s]
      <4>1. PICK top \in Outdated(t, cutoff) :
              floor' = [floor EXCEPT ![t] = IF top.pk > @ THEN top.pk ELSE @]
        BY <3>3 DEF Compact
      <4>2. top.pk \in Nat
        BY <1>1, DevicesAssumption DEF Outdated, Scoped, IInv, TypeOK, Change
      <4>. QED
        BY <1>1, <3>1, <4>1, <4>2 DEF IInv, TypeOK
    <3>. QED
      BY <1>1, <3>2, <3>3, LogGrows DEF Next, vars, server
  <2>. QED
    BY <2>1, <2>2
<1>. QED
  BY <1>1, Invariant, SeenInvariant, PTL DEF Spec, CursorsAdvance

-----------------------------------------------------------------------------
(* Foreign keys.                                                           *)

\* A payment points at a period of its own debt.
LinkInv ==
  \A p \in Row : live[p] /\ link[p] # NoPeriod =>
    /\ p \in Payments /\ link[p] \in Periods
    /\ live[link[p]] /\ ParentOf[link[p]] = ParentOf[p]

\* A ledger write leaves no payment linked to a missing period.
LEMMA WriteLinks ==
  ASSUME TypeOK, LinkInv, Write
  PROVE  LinkInv'
<1>0. Periods \subseteq Row /\ NoPeriod \notin Row /\ Clients \subseteq Row
  BY RowsAssumption DEF Row
<1>1. ASSUME NEW r \in Row, NEW i \in Links,
             i # NoPeriod => r \in Payments /\ i \in Periods /\ live[i] /\ ParentOf[i] = ParentOf[r],
             Commit({r}, {}, [x \in {r} |-> i], [x \in {r} |-> lastPk + 1])
      PROVE  LinkInv'
  <2>1. /\ live' = [x \in Row |-> IF x = r THEN TRUE ELSE live[x]]
        /\ link' = [x \in Row |-> IF x = r THEN i ELSE link[x]]
    BY <1>1 DEF Commit
  <2>. QED
    BY <1>0, <1>1, <2>1 DEF LinkInv
<1>2. ASSUME NEW r \in Row, Create(r) PROVE LinkInv'
  <2>1. PICK i \in {NoPeriod} \cup {x \in Periods : r \in Payments /\ live[x] /\ ParentOf[x] = ParentOf[r]} :
          Commit({r}, {}, [x \in {r} |-> i], [x \in {r} |-> lastPk + 1])
    BY <1>2 DEF Create
  <2>. QED
    BY <1>1, <2>1 DEF Links
<1>3. ASSUME NEW r \in Row, Save(r) PROVE LinkInv'
  <2>1. [x \in {r} |-> link[x]] = [x \in {r} |-> link[r]]
    OBVIOUS
  <2>2. Commit({r}, {}, [x \in {r} |-> link[r]], [x \in {r} |-> lastPk + 1]) /\ live[r]
    BY <1>3, <2>1 DEF Save
  <2>3. link[r] \in Links
    BY DEF TypeOK, Links
  <2>4. link[r] # NoPeriod => /\ r \in Payments /\ link[r] \in Periods /\ live[link[r]]
                             /\ ParentOf[link[r]] = ParentOf[r]
    BY <2>2 DEF LinkInv
  <2>. QED
    BY <1>1, <2>2, <2>3, <2>4
<1>4. ASSUME NEW i \in Periods, DeletePeriod(i) PROVE LinkInv'
  <2>. DEFINE S == Detached(i) \cup {i}
  <2>1. PICK key \in Numberings(S) : Commit(S, {i}, [x \in S |-> NoPeriod], key)
    BY <1>4 DEF DeletePeriod
  <2>2. /\ live' = [x \in Row |-> IF x \in S THEN x # i ELSE live[x]]
        /\ link' = [x \in Row |-> IF x \in S THEN NoPeriod ELSE link[x]]
    BY <2>1 DEF Commit
  <2>3. \A x \in Row : x \in S => live[x]
    BY <1>4 DEF Detached, DeletePeriod
  <2>. SUFFICES ASSUME NEW p \in Row, live'[p], link'[p] # NoPeriod
                PROVE  /\ p \in Payments /\ link'[p] \in Periods
                       /\ live'[link'[p]] /\ ParentOf[link'[p]] = ParentOf[p]
    BY DEF LinkInv
  <2>4. p \notin S /\ live[p] /\ link'[p] = link[p]
    BY <2>2
  <2>5. p \in Payments /\ link[p] \in Periods /\ live[link[p]] /\ ParentOf[link[p]] = ParentOf[p]
    BY <2>4 DEF LinkInv
  <2>6. link[p] # i
    BY <2>4, <2>5 DEF Detached
  <2>7. link[p] \notin Payments
    BY <2>5, KindsAssumption
  <2>8. live'[link[p]]
    BY <1>0, <2>2, <2>5, <2>6
  <2>. QED
    BY <2>4, <2>5, <2>8
<1>5. ASSUME NEW r \in Row \ Periods, DeleteTree(r) PROVE LinkInv'
  <2>. DEFINE S == Under(r)
  <2>1. PICK key \in Numberings(S) : Commit(S, S, [x \in S |-> NoPeriod], key)
    BY <1>5 DEF DeleteTree
  <2>2. /\ live' = [x \in Row |-> IF x \in S THEN x \notin S ELSE live[x]]
        /\ link' = [x \in Row |-> IF x \in S THEN NoPeriod ELSE link[x]]
    BY <2>1 DEF Commit
  <2>. SUFFICES ASSUME NEW p \in Row, live'[p], link'[p] # NoPeriod
                PROVE  /\ p \in Payments /\ link'[p] \in Periods
                       /\ live'[link'[p]] /\ ParentOf[link'[p]] = ParentOf[p]
    BY DEF LinkInv
  <2>3. p \notin S /\ live[p] /\ link'[p] = link[p]
    BY <2>2
  <2>4. p \in Payments /\ link[p] \in Periods /\ live[link[p]] /\ ParentOf[link[p]] = ParentOf[p]
    BY <2>3 DEF LinkInv
  <2>5. link[p] \notin S
    BY <1>0, <1>5, <2>3, <2>4 DEF Under
  <2>. QED
    BY <1>0, <2>2, <2>3, <2>4, <2>5
<1>. QED
  BY <1>2, <1>3, <1>4, <1>5 DEF Write

\* Every step keeps the links.
LEMMA NextLinks ==
  ASSUME TypeOK, LinkInv, [Next]_vars
  PROVE  LinkInv'
<1>1. CASE Write
  BY <1>1, WriteLinks
<1>2. ASSUME NEW d \in Device, Request(d) \/ Lost(d) PROVE UNCHANGED server
  BY <1>2 DEF Request, Lost, FeedFloor, FeedRows, FeedEmpty,
              BootstrapBegin, BootstrapRead, BootstrapReply
<1>3. ASSUME NEW s \in Scopes, NEW cutoff \in 1..lastPk, Compact(s, cutoff) PROVE UNCHANGED ledger
  BY <1>3 DEF Compact
<1>4. UNCHANGED ledger => LinkInv'
  BY DEF ledger, LinkInv
<1>. QED
  BY <1>1, <1>2, <1>3, <1>4 DEF Next, vars, server

\* The migrated links point at migrated periods of the same debt.
LEMMA InitLinks == Init => LinkInv
<1>. SUFFICES ASSUME Init, NEW p \in Row, live[p], link[p] # NoPeriod
              PROVE  /\ p \in Payments /\ link[p] \in Periods
                     /\ live[link[p]] /\ ParentOf[link[p]] = ParentOf[p]
  BY DEF LinkInv
<1>1. \A r \in Row : live[r] <=> r \in Legacy
  BY Zenon DEF Init
<1>2. p \in Legacy /\ link[p] = LegacyLink[p]
  BY <1>1 DEF Init
<1>3. LegacyLink[p] \in Periods /\ p \in Payments /\ LegacyLink[p] \in Legacy
      /\ ParentOf[LegacyLink[p]] = ParentOf[p]
  BY <1>2, LegacyAssumption
<1>. QED
  BY <1>1, <1>2, <1>3 DEF Row

\* No payment keeps pointing at a period that was deleted.
THEOREM NoDanglingLink == Spec => []LinksLive
<1>1. Spec => []LinkInv
  BY InitLinks, NextLinks, TypeCorrect, PTL DEF Spec
<1>2. LinkInv => LinksLive
  BY DEF LinkInv, LinksLive, Row
<1>. QED
  BY <1>1, <1>2, PTL
=============================================================================
