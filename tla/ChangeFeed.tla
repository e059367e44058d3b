----------------------------- MODULE ChangeFeed -----------------------------
(***************************************************************************)
(* The append-only change feed of the v2 sync protocol: the signal         *)
(* handlers of ledger/sync_log.py that log every row write, the nightly    *)
(* compaction of ledger/management/commands/compact_sync_log.py, the two   *)
(* bootstraps (ledger/sync_v2.py for phones, ledger/views.py for browser   *)
(* tabs) and the cursor feed of ledger/sync_v2.py.                         *)
(*                                                                         *)
(* SQLite runs with transaction_mode IMMEDIATE, so a write transaction is  *)
(* one step.  The reads of a request are not wrapped in a transaction:     *)
(* each query is a step of its own, and writers run between them.          *)
(*                                                                         *)
(* The contents of a row are abstracted to the primary key of the change   *)
(* that wrote them, except for Payment.installment, which the database     *)
(* itself rewrites (on_delete=SET_NULL) and which is kept as link.         *)
(***************************************************************************)
EXTENDS Integers, FiniteSets, Functions

CONSTANTS
  Clients, Debts, Periods, Payments,  \* the public ids of the four row kinds
  ParentOf,    \* the client of a debt, the debt of a period or payment
  Legacy, LegacyKey, LegacyLink,  \* the rows older than the feed, their first change and link
  Scopes,      \* owners and organizations; each has a feed of its own
  ScopeOf,     \* the scope of a row
  Phones,      \* devices that bootstrap from sync_v2.bootstrap
  Tabs,        \* browser tabs, which bootstrap from views.bootstrap_view
  DeviceScope, \* the scope of a device's user
  NoPeriod,    \* Payment.installment is NULL
  PageSize,    \* the limit of a feed page
  MaxPk        \* bound: the number of changes ever logged

Row == Clients \cup Debts \cup Periods \cup Payments
Device == Phones \cup Tabs

\* The order in which a bootstrap reads the tables.
Kinds == <<Clients, Debts, Periods, Payments>>

ASSUME RowsAssumption ==
  /\ IsFiniteSet(Row)
  /\ ParentOf \in [Row -> Row]
  /\ \A r \in Row : ParentOf[r] = r <=> r \in Clients
  /\ \A r \in Debts : ParentOf[r] \in Clients
  /\ \A r \in Periods \cup Payments : ParentOf[r] \in Debts
  /\ ScopeOf \in [Row -> Scopes]
  /\ \A r \in Row : ScopeOf[r] = ScopeOf[ParentOf[r]]
  /\ NoPeriod \notin Row

ASSUME KindsAssumption ==
  /\ Debts \cap Clients = {}
  /\ Periods \cap (Clients \cup Debts) = {}
  /\ Payments \cap (Clients \cup Debts \cup Periods) = {}

ASSUME LegacyAssumption ==
  /\ Legacy \subseteq Row
  /\ \A r \in Legacy : ParentOf[r] \in Legacy
  /\ LegacyKey \in Bijection(Legacy, 1..Cardinality(Legacy))
  /\ LegacyLink \in [Legacy -> Periods \cup {NoPeriod}]
  /\ \A r \in Legacy : LegacyLink[r] # NoPeriod =>
       /\ r \in Payments /\ LegacyLink[r] \in Legacy
       /\ ParentOf[LegacyLink[r]] = ParentOf[r]
  /\ Cardinality(Legacy) <= MaxPk

ASSUME DevicesAssumption ==
  /\ Phones \cap Tabs = {}
  /\ DeviceScope \in [Device -> Scopes]
  /\ PageSize \in Nat \ {0}
  /\ MaxPk \in Nat

VARIABLES
  live,    \* does the row exist?
  link,    \* Payment.installment
  last,    \* the primary key of the row's last change (its revision column)
  log,     \* the SyncChange table
  lastPk,  \* the AUTOINCREMENT counter of SyncChange
  floor,   \* SyncCursorFloor, per scope
  phase,   \* the request a device has in flight
  cursor,  \* the device's position in the feed
  replica, \* the rows the device holds
  resync,  \* the device knows that its rows must be fetched again
  snap,    \* the rows an unfinished bootstrap has read
  mark,    \* the newest change of the scope when an unfinished bootstrap began
  gap      \* the phone's last bootstrap was read between changes lo and hi

ledger == <<live, link, last, lastPk>>
server == <<ledger, log, floor>>
devices == <<phase, cursor, replica, resync, snap, mark, gap>>
vars == <<server, devices>>

Change == [pk : 1..MaxPk, row : Row, op : {"upsert", "delete"},
           link : Periods \cup {NoPeriod}]
Phase == {"idle", "feed"} \cup {"read1", "read2", "read3", "read4", "reply"}
ReadPhase == <<"read1", "read2", "read3", "read4", "reply">>

TypeOK ==
  /\ live \in [Row -> BOOLEAN]
  /\ link \in [Row -> Periods \cup {NoPeriod}]
  /\ last \in [Row -> 0..MaxPk]
  /\ log \subseteq Change
  /\ lastPk \in 0..MaxPk
  /\ floor \in [Scopes -> 0..MaxPk]
  /\ phase \in [Device -> Phase]
  /\ cursor \in [Device -> 0..MaxPk]
  /\ replica \in [Device -> SUBSET Change]
  /\ resync \in [Device -> BOOLEAN]
  /\ snap \in [Device -> SUBSET Change]
  /\ mark \in [Device -> 0..MaxPk]
  /\ gap \in [Device -> [lo : 0..MaxPk, hi : 0..MaxPk]]

-----------------------------------------------------------------------------
(* What the queries see.                                                   *)

\* Mutant: the revision is taken before the update that stores it.
CanonicalRowUnsaved(r) ==
  [pk |-> last[r] + 1, row |-> r, op |-> "upsert", link |-> link[r]]

\* canonical_row: the row as a bootstrap or an upsert carries it.
CanonicalRow(r) == [pk |-> last[r], row |-> r, op |-> "upsert", link |-> link[r]]

Scoped(s) == {c \in log : ScopeOf[c.row] = s}

\* m is latest_cursor of the scope: order_by("-pk").first() or 0.
IsLatestCursor(m, s) ==
  /\ \A c \in Scoped(s) : c.pk <= m
  /\ \/ m = 0 /\ Scoped(s) = {}
     \/ \E c \in Scoped(s) : c.pk = m

-----------------------------------------------------------------------------
(* Ledger writes.  A transaction of the program saves one or more rows;    *)
(* saves that could be separate transactions are separate steps here.      *)

\* The keys the AUTOINCREMENT column gives to the rows a transaction writes.
Numberings(S) == Bijection(S, (lastPk + 1)..(lastPk + Cardinality(S)))

\* The transaction writes the rows of S; those of D are deleted.
Commit(S, D, newLink, key) ==
  /\ live' = [r \in Row |-> IF r \in S THEN r \notin D ELSE live[r]]
  /\ link' = [r \in Row |-> IF r \in S THEN newLink[r] ELSE link[r]]
  /\ last' = [r \in Row |-> IF r \in S THEN key[r] ELSE last[r]]
  /\ log' = log \cup
       {[pk |-> key[r], row |-> r,
         op |-> IF r \in D THEN "delete" ELSE "upsert", link |-> newLink[r]] : r \in S}
  /\ lastPk' = lastPk + Cardinality(S)
  /\ UNCHANGED <<floor, devices>>

\* A new row, or a deleted public id inserted again by a phone.
Create(r) ==
  /\ ~live[r] /\ lastPk < MaxPk
  /\ r \in Clients \/ live[ParentOf[r]]
  /\ \E i \in {NoPeriod} \cup {x \in Periods : r \in Payments /\ live[x] /\ ParentOf[x] = ParentOf[r]} :
       Commit({r}, {}, [x \in {r} |-> i], [x \in {r} |-> lastPk + 1])

\* Any save of an existing row: an edit, a payment, a reconciliation.
Save(r) ==
  /\ live[r] /\ lastPk < MaxPk
  /\ Commit({r}, {}, [x \in {r} |-> link[x]], [x \in {r} |-> lastPk + 1])

\* Mutant: SET_NULL is left to the database.
DetachedByDatabase(i) == {}

\* Deleting one period.  The pre_delete handler first detaches and saves the
\* payments that point at it, since SET_NULL would do so without a signal.
Detached(i) == {p \in Payments : live[p] /\ link[p] = i}
DeletePeriod(i) ==
  /\ live[i] /\ lastPk + Cardinality(Detached(i) \cup {i}) <= MaxPk
  /\ \E key \in Numberings(Detached(i) \cup {i}) :
       /\ \A p \in Detached(i) : key[p] < key[i]
       /\ Commit(Detached(i) \cup {i}, {i},
                 [x \in Detached(i) \cup {i} |-> NoPeriod], key)

\* Deleting a payment, a debt or a client (delete_client) with everything
\* under it.  The payments of a deleted debt go too and are not detached.
Under(r) == {x \in Row : live[x] /\ r \in {x, ParentOf[x], ParentOf[ParentOf[x]]}}
DeleteTree(r) ==
  /\ live[r] /\ lastPk + Cardinality(Under(r)) <= MaxPk
  /\ \E key \in Numberings(Under(r)) :
       /\ \A x \in Under(r) \ {r} : key[x] < key[ParentOf[x]]
       /\ Commit(Under(r), Under(r), [x \in Under(r) |-> NoPeriod], key)

-----------------------------------------------------------------------------
(* Compaction.                                                             *)

\* Mutant: tombstones age out like any other change.
LatestUpserts(s) ==
  {c \in Scoped(s) : /\ c.op = "upsert"
                     /\ \A e \in Scoped(s) : e.row = c.row => e.pk <= c.pk}

\* The last change of every entity of the scope is kept whatever its age.
Latest(s) == {c \in Scoped(s) : \A e \in Scoped(s) : e.row = c.row => e.pk <= c.pk}
Outdated(s, cutoff) == {c \in Scoped(s) : c.pk <= cutoff} \ Latest(s)

\* Mutants: the floor is the cutoff itself, the oldest removed key, or is set
\* without comparing it with the one stored.
CompactToCutoff(s, cutoff) ==
  /\ Outdated(s, cutoff) # {}
  /\ log' = log \ Outdated(s, cutoff)
  /\ floor' = [floor EXCEPT ![s] = IF cutoff > @ THEN cutoff ELSE @]
  /\ UNCHANGED <<ledger, devices>>
CompactToOldest(s, cutoff) ==
  \E c \in Outdated(s, cutoff) :
    /\ \A e \in Outdated(s, cutoff) : c.pk <= e.pk
    /\ log' = log \ Outdated(s, cutoff)
    /\ floor' = [floor EXCEPT ![s] = IF c.pk > @ THEN c.pk ELSE @]
    /\ UNCHANGED <<ledger, devices>>
CompactUnguarded(s, cutoff) ==
  \E top \in Outdated(s, cutoff) :
    /\ \A c \in Outdated(s, cutoff) : c.pk <= top.pk
    /\ log' = log \ Outdated(s, cutoff)
    /\ floor' = [floor EXCEPT ![s] = top.pk]
    /\ UNCHANGED <<ledger, devices>>

\* One scope of the command's loop.  created_at grows with the primary key and
\* time passes freely, so any key may be the newest one past the cutoff.
Compact(s, cutoff) ==
  \E top \in Outdated(s, cutoff) :
    /\ \A c \in Outdated(s, cutoff) : c.pk <= top.pk
    /\ log' = log \ Outdated(s, cutoff)
    /\ floor' = [floor EXCEPT ![s] = IF top.pk > @ THEN top.pk ELSE @]
    /\ UNCHANGED <<ledger, devices>>

-----------------------------------------------------------------------------
(* A device's requests.                                                    *)

\* Mutant: an expired tab is sent away without being told to start again.
FeedFloorSilent(d) ==
  /\ phase[d] = "idle" /\ ~resync[d]
  /\ phase' = [phase EXCEPT ![d] =
       IF cursor[d] < floor[DeviceScope[d]] THEN "idle" ELSE "feed"]
  /\ UNCHANGED <<server, cursor, replica, resync, snap, mark, gap>>

\* feed reads the floor first and the rows in a second query.
FeedFloor(d) ==
  /\ phase[d] = "idle" /\ ~resync[d]
  /\ IF cursor[d] < floor[DeviceScope[d]]
     THEN resync' = [resync EXCEPT ![d] = TRUE] /\ UNCHANGED phase
     ELSE phase' = [phase EXCEPT ![d] = "feed"] /\ UNCHANGED resync
  /\ UNCHANGED <<server, cursor, replica, snap, mark, gap>>

\* Mutant: the page starts one key too late.
LaterByOne(d) == {c \in Scoped(DeviceScope[d]) : c.pk > cursor[d] + 1}

Later(d) == {c \in Scoped(DeviceScope[d]) : c.pk > cursor[d]}

\* The first PageSize later changes, in key order.
IsPage(page, d) ==
  /\ page \subseteq Later(d)
  /\ \A c \in page : \A e \in Later(d) : e.pk < c.pk => e \in page
  /\ page = Later(d) \/ Cardinality(page) = PageSize
  /\ Cardinality(page) <= PageSize

\* The rows left when the items of a page are applied in key order.
Applied(rows, page) ==
  {c \in rows \cup page : /\ c.op = "upsert"
                          /\ \A e \in rows \cup page : e.row = c.row => e.pk <= c.pk}

\* The end of the page; items of a page have different keys.
PageUpTo(d, to) == {c \in Later(d) : c.pk <= to}

\* A phone applies the page, a tab only learns that it must refresh.
FeedRows(d) ==
  /\ phase[d] = "feed"
  /\ phase' = [phase EXCEPT ![d] = "idle"]
  /\ \E to \in {c.pk : c \in Later(d)} :
       /\ IsPage(PageUpTo(d, to), d)
       /\ cursor' = [cursor EXCEPT ![d] = to]
       /\ IF d \in Phones
          THEN /\ replica' = [replica EXCEPT ![d] = Applied(@, PageUpTo(d, to))]
               /\ UNCHANGED resync
          ELSE resync' = [resync EXCEPT ![d] = TRUE] /\ UNCHANGED replica
  /\ UNCHANGED <<server, snap, mark, gap>>

\* An empty page tells the device that it is up to date.
FeedEmpty(d) ==
  /\ phase[d] = "feed" /\ Later(d) = {}
  /\ phase' = [phase EXCEPT ![d] = "idle"]
  /\ UNCHANGED <<server, cursor, replica, resync, snap, mark, gap>>

\* views.bootstrap_view keeps the mark it reads here as the tab's cursor;
\* sync_v2.bootstrap reads nothing yet, and mark only records the moment.
BootstrapBegin(d) ==
  /\ phase[d] = "idle"
  /\ \E m \in 0..lastPk : /\ IsLatestCursor(m, DeviceScope[d])
                          /\ mark' = [mark EXCEPT ![d] = m]
  /\ phase' = [phase EXCEPT ![d] = "read1"]
  /\ snap' = [snap EXCEPT ![d] = {}]
  /\ UNCHANGED <<server, cursor, replica, resync, gap>>

\* One table is read.
BootstrapRead(d, k) ==
  /\ phase[d] = ReadPhase[k]
  /\ phase' = [phase EXCEPT ![d] = ReadPhase[k + 1]]
  /\ snap' = [snap EXCEPT ![d] = @ \cup
       {CanonicalRow(r) : r \in {x \in Kinds[k] : live[x] /\ ScopeOf[x] = DeviceScope[d]}}]
  /\ UNCHANGED <<server, cursor, replica, resync, mark, gap>>

NoGap == [lo |-> 0, hi |-> 0]

\* Mutant: every bootstrap reads its cursor last.
ReplyCursorLast(d, m) == IsLatestCursor(m, DeviceScope[d])

\* The cursor a bootstrap answers with: a tab's was read before the rows, a
\* phone's is read after them.
ReplyCursor(d, m) ==
  IF d \in Tabs THEN m = mark[d] ELSE IsLatestCursor(m, DeviceScope[d])

BootstrapReply(d) ==
  /\ phase[d] = "reply"
  /\ phase' = [phase EXCEPT ![d] = "idle"]
  /\ \E m \in 0..lastPk :
       /\ ReplyCursor(d, m)
       /\ cursor' = [cursor EXCEPT ![d] = m]
       /\ gap' = [gap EXCEPT ![d] = IF m = mark[d] THEN NoGap ELSE [lo |-> mark[d], hi |-> m]]
  /\ replica' = [replica EXCEPT ![d] = snap[d]]
  /\ resync' = [resync EXCEPT ![d] = FALSE]
  /\ snap' = [snap EXCEPT ![d] = {}]
  /\ mark' = [mark EXCEPT ![d] = 0]
  /\ UNCHANGED server

\* A request dies with the connection or the server process.
Lost(d) ==
  /\ phase[d] # "idle"
  /\ phase' = [phase EXCEPT ![d] = "idle"]
  /\ snap' = [snap EXCEPT ![d] = {}]
  /\ mark' = [mark EXCEPT ![d] = 0]
  /\ UNCHANGED <<server, cursor, replica, resync, gap>>

-----------------------------------------------------------------------------
\* The migration 0008_backfill_sync_changes has logged the rows of the ledger
\* that was there before the feed; no device has called yet.
Init ==
  /\ live = [r \in Row |-> r \in Legacy]
  /\ link = [r \in Row |-> IF r \in Legacy THEN LegacyLink[r] ELSE NoPeriod]
  /\ last = [r \in Row |-> IF r \in Legacy THEN LegacyKey[r] ELSE 0]
  /\ log = {CanonicalRow(r) : r \in Legacy}
  /\ lastPk = Cardinality(Legacy)
  /\ floor = [s \in Scopes |-> 0]
  /\ phase = [d \in Device |-> "idle"]
  /\ cursor = [d \in Device |-> 0]
  /\ replica = [d \in Device |-> {}]
  /\ resync = [d \in Device |-> d \in Tabs]
  /\ snap = [d \in Device |-> {}]
  /\ mark = [d \in Device |-> 0]
  /\ gap = [d \in Device |-> NoGap]

Write ==
  \/ \E r \in Row : Create(r) \/ Save(r)
  \/ \E i \in Periods : DeletePeriod(i)
  \/ \E r \in Row \ Periods : DeleteTree(r)

Request(d) ==
  \/ FeedFloor(d) \/ FeedRows(d) \/ FeedEmpty(d)
  \/ BootstrapBegin(d) \/ BootstrapReply(d)
  \/ \E k \in 1..4 : BootstrapRead(d, k)

Next ==
  \/ Write
  \/ \E s \in Scopes : \E cutoff \in 1..lastPk : Compact(s, cutoff)
  \/ \E d \in Device : Request(d) \/ Lost(d)

Spec == Init /\ [][Next]_vars

\* Devices go on polling and asking for a bootstrap they need, and a request
\* that is repeated for ever is not lost at the same point every time.
Fairness ==
  \A d \in Device :
    /\ WF_vars(FeedFloor(d)) /\ SF_vars(FeedRows(d))
    /\ WF_vars(resync[d] /\ BootstrapBegin(d)) /\ SF_vars(BootstrapReply(d))
    /\ \A k \in 1..4 : SF_vars(BootstrapRead(d, k))
FairSpec == Spec /\ Fairness

-----------------------------------------------------------------------------
(* Properties.                                                             *)

\* The device's copy of r is the row in the database, or is absent with it.
InStep(d, r) ==
  {c \in replica[d] : c.row = r} = IF live[r] THEN {CanonicalRow(r)} ELSE {}

Covers(d, r) ==
  /\ ScopeOf[r] = DeviceScope[d]
  /\ ~resync[d]
  /\ last[r] <= cursor[d]

\* The feed loses nothing: once a device's cursor has passed the last change
\* of a row, the device holds the row as it is, whatever was compacted between
\* the two reads of a feed request, deleted by cascade, detached by SET_NULL or
\* inserted again.  The only exception is a change committed while the phone's
\* last bootstrap was being read.
FreshOutsideGap ==
  \A d \in Device : \A r \in Row :
    Covers(d, r) /\ ~(gap[d].lo < last[r] /\ last[r] <= gap[d].hi) => InStep(d, r)

\* A tab has no such exception: bootstrap_view reads its cursor before the rows.
TabsFresh == \A d \in Tabs : \A r \in Row : Covers(d, r) => InStep(d, r)

\* The same for the phones: sync_v2.bootstrap promises rows together with the
\* cursor they are current at.  The code reads that cursor last.
PhonesFresh == \A d \in Phones : \A r \in Row : Covers(d, r) => InStep(d, r)

\* Compaction keeps the change that describes each row as it is now, the
\* tombstone of a deleted row included.
LogHoldsLatest ==
  \A r \in Row : last[r] > 0 =>
    \E c \in log : /\ c.pk = last[r] /\ c.row = r
                   /\ c.op = IF live[r] THEN "upsert" ELSE "delete"
                   /\ live[r] => c.link = link[r]

\* The payment of a deleted period never goes on pointing at it.
LinksLive == \A p \in Payments : live[p] /\ link[p] # NoPeriod => live[link[p]]

\* A device that has seen the newest change of its scope is never told to
\* start again: the floor stays below that change.
UpToDateNotExpired ==
  \A s \in Scopes : floor[s] > 0 => \E c \in Scoped(s) : c.pk > floor[s]

\* Every key that compaction removes is at or below the floor it leaves, so a
\* cursor the floor admits has no hole after it.
FloorCoversRemoval ==
  [][\A c \in log \ log' : c.pk <= floor'[ScopeOf[c.row]]]_vars

\* Neither a device's cursor nor the floor of a scope ever moves back.
CursorsAdvance ==
  [][/\ \A d \in Device : cursor'[d] >= cursor[d]
     /\ \A s \in Scopes : floor'[s] >= floor[s]]_vars

\* When writers stop, a tab comes to hold exactly the rows of its scope.
TabsConverge ==
  \A d \in Tabs :
    <>[](/\ ~resync[d]
         /\ \A r \in Row : ScopeOf[r] = DeviceScope[d] => InStep(d, r))
=============================================================================
