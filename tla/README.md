# Pingo backend: TLA+ models

Pingo is a loan ledger. A Django server keeps clients, debts, installments
("periods") and payments; browsers and phones read and change them, a change
feed tells each about the others' changes, a background process mails the clients
and reminds the owner, and organizations share a ledger among their staff. This
directory models the server with its order of events and its arithmetic,
model-checks it with TLC and proves most of what is checked with TLAPS.

    tlc -config ChangeFeedTab.cfg MCChangeFeed     # any run of PROJECT.json
    tlapm ChangeFeedProofs.tla                     # the proofs of one module

`PROJECT.json` lists components, runs, findings, hazards, theorems, and for every
definition the source lines it stands for.

## 1. The system

| Component | State | Operations | Talks to |
| --- | --- | --- | --- |
| Debt ledger (`services.py`, PATCH in `views.py`/`serializers.py`) | `Debt`, `Installment`, `Payment` rows | `create_debt`, `record_payment`, `revert_installment`, `reconcile_debt`, `assess_overdue_penalties`, PATCH | every row write fires the signals below |
| Amortization, rounding (`services.py`, repair commands) | none of its own | schedules, previews, statements; the repair | ledger rows |
| Change log (`sync_log.py`) | `SyncChange`, the `revision` of each row | save and delete handlers, SET_NULL detachment, broadcast | written in the ledger's transactions; broadcasts after commit |
| Compaction (`compact_sync_log.py`) | `SyncCursorFloor` | nightly, per scope | deletes from the log |
| Cursor feed and bootstraps (`sync_v2.py`, `views.bootstrap_view`) | the device's cursor and rows | `feed`, `welcome`, two bootstraps | read the log, the floor and the rows |
| Pushes of protocol v2 (`sync_v2.apply_mutation`) | `SyncMutation`, `SyncConflict`, `MobileDevice` | idempotent grouped mutation, field merge, structural conflicts | writes the ledger, reads the log |
| Web socket (`consumers.py`, `ws_auth.py`) | socket state, a counter in the cache | connect, hello, drain, push, disconnect, revocation | feed, pushes, broadcasts |
| Mobile sync v1 (`mobile_sync.py`) | `MobileSyncBatch` | snapshot merge, tombstones | writes the ledger |
| Client emails (`client_notifications.py`) | `PushDelivery` rows | queue in the ledger's transaction; claim, send, finish | SMTP relay |
| Web push and reminders (`push.py`) | `PushDelivery`, subscriptions | daily reminders | browser push services, client emails |
| Organizations, staff, numbers, plans, documents (`services.py`, `views.py`) | memberships, sequences, plans, fiscal documents | registration, roles, numbering, deletion | scope of every query |
| Generated PDF store (`pdf_store.py`) | files | store, find, sweep | downloads, the worker |
| Notification worker (`run_notification_worker`) | a process | sweep, remind, mail, compact, in a loop | all of those |
| Password reset, PDF documents, admin, import | tokens, nothing | sequential | |

**Concurrency.** SQLite runs in WAL mode with `transaction_mode: IMMEDIATE`
(`config/settings.py`): write transactions are serialised from their first
statement, so a function under `@transaction.atomic` is one step (in `Corporate` the two
that draw a number are two steps under the lock). Nothing wraps a
request (`ATOMIC_REQUESTS` is off): a bootstrap, a feed request, a `welcome` and a
PATCH are several queries, and other requests commit between them. Notification
processes hold no transaction across SMTP.

**What makes each component correct, and what is hard about it**

* Change feed: a device that follows its cursor misses no change. Hard: reads in
  several queries, compaction between them, deletions by cascade, SET_NULL
  rewrites without a signal, public ids inserted again, requests that die.
* Client emails: no email twice, no payment unreported, no email stuck. Hard:
  overlapping processes, leases, crashes between SMTP and the database, receipts
  absorbed, cancelled or reverted while in flight.
* Debt ledger: derived balances follow from payments and terms. Hard: long
  sequences of payments, reversals and passing due dates; penalties whose
  presence depends on what has been paid; edits that race payments; reads that
  reconcile only what a filter selects.
* Pushes: each mutation applied once, no structural edit overwritten unseen. Hard:
  lost answers, retries, compaction of the changes the conflict test looks for.
* Schedules: capital and interest of the periods add up, are never negative and are
  what the preview promised. Hard: rounding to whole units with fallbacks.
* Socket: every committed change reaches a connected client, in order; a user has a
  limited number of sockets; a revoked token ends them. Hard: lost or paused
  broadcasts, full channels, a drain racing the next broadcast, a counter in a cache, crashes.
* Mobile v1: payments survive merges, rows deleted elsewhere take nothing else with them. Hard: clocks of
  the phones, whole snapshots that are old, replies that are lost, local ids.
* Reminders: overdue emails keep their interval, pushes come once. Hard: two processes
  with the same work, deaths between sending and recording.
* Corporate accounts: an organization keeps an owner; numbers are unique and
  without gaps; a loan keeps its plan; a client is deleted with everything that cites it.
  Hard: requests that check first and write later, transactions that fail half way, cascades
  and protected foreign keys.
* PDF store: a download is whole, and finds what was stored. Hard: sweeps beside
  writers and readers, one file-system call at a time.

The hazards, each at its line and with the properties that would catch it, are in
`PROJECT.json`.

## 2. Modules

| Module | Of | Uses |
| --- | --- | --- |
| `Schedules` | pure arithmetic of loans | |
| `DebtLedger`, `DebtLedgerProofs` | one debt to the cent | `Schedules` |
| `ChangeFeed`, `ChangeFeedProofs` | log, compaction, feed, bootstraps | |
| `ChangeStream` | abstract: what a live connection promises | |
| `LedgerSocket`, `LedgerSocketProofs` | the web socket | implements `ChangeStream` |
| `SyncPush`, `SyncPushProofs` | pushes of protocol v2 | |
| `MobileSync`, `MobileSyncProofs` | protocol v1 | |
| `ClientEmails`, `ClientEmailsProofs` | receipts and full-payment emails | |
| `PdfStore`, `Reminders` | actions of the store and of the reminders | |
| `Worker`, `WorkerProofs` | the background processes | composes `PdfStore` and `Reminders` |
| `Corporate`, `CorporateProofs` | accounts, staff, numbers, plans, documents | |
| `MC...` | values of the constants for TLC | the module of that name |

### ChangeFeed

One row is a public id of one of four kinds; its contents are abstracted to the
primary key of the change that wrote them (`last`, the `revision` column), except
`Payment.installment` (`link`), which the database rewrites by itself. `log`,
`lastPk` and `floor` are `SyncChange`, its AUTOINCREMENT counter and
`SyncCursorFloor`. A device has a `cursor`, a `replica` and the request it has in
flight (`phase`, `snap`, `mark`).

| Actions | Code |
| --- | --- |
| `Create`, `Save` | any save of a row: `append_saved_change` |
| `DeletePeriod` | `remember_installment_scope` (detach, save, log) and the tombstone |
| `DeleteTree` | deleting a payment, a debt, or a client with `delete_client` |
| `Compact` | one scope of `compact_sync_log` |
| `FeedFloor`, `FeedRows`, `FeedEmpty` | the two queries of `feed`; `welcome` makes the same floor test |
| `BootstrapBegin`, `BootstrapRead`, `BootstrapReply` | the queries of the bootstraps; `ReplyCursor` is where they differ |
| `Lost` | the connection or the process dies |

A phone applies a page; a browser tab only notes that it must bootstrap again
(`resync`), as the web client does. `gap` is a history variable: the changes
committed while the phone's last bootstrap was read. The environment is the
phone's and the tab's own code, which is not in this repository; what it must do
with a reply is taken from the reply and `MASTER_CONTEXT.md`.

### ClientEmails

`active` is the set of payments in force per loan, paid period by period; `queue`
is the `PushDelivery` table with its `emailStatus`, `attemptedAt`, `paymentIds`
and `settlement`. A process goes through `Begin` (list the batch, read the time),
`Skip` or `Claim` (compare-and-set), `ReadDebt` and `ReadFacts` (the queries of
`_deliver`), `Send` or `SendFails` (SMTP) and `Finish` (compare-and-set). It may
`Crash` at any point, and a send that looks failed may have reached the client.
History variables record what the properties excuse: `late`, `doubt`, `raced`,
`undone`. Emails of other kinds go through the same steps but are not queued here.

### Schedules and DebtLedger

`Schedules` holds `money`, `equal_period_amounts`, `capital_portions` with its three
attempts (whole units, cents, filling the periods in turn), the amortization
schedule, previews and the statement behind a share link, as functions over cents.

`DebtLedger` is one debt to the cent: `terms`, `debt`, `periods` and the unreversed
`payments`. `RecordPayment`, `RevertInstallment`, `AssessOverduePenalties` and
`EditPeriod` (a phone's update) are transactions ending in `Reconcile`. The PATCH of a
debt is the steps of its handler, one per save. `RepairRead` and `RepairSave` are
`repair_installment_rounding`, which reads before its transaction; `ReconcileReport` is the
report command. Some loans begin as they were made before the rule of whole units
(`rounding = "cents"`), because the repair is for them. Dates are months. Intermediate
values that the final reconciliation overwrites (for example `debt.collected` inside
`record_payment`) are not kept.

### SyncPush

One loan, changed by two phones and a browser. `db` is what one transaction reads
and writes: the rows, the loan's `revision`, `SyncChange` (with `changed_fields` and
`origin_device`) and `SyncCursorFloor`. `record` is `SyncMutation`. `outbox`, `next`
and `known` belong to the phones, `answers` is the network. `past`, `accepted` and
`refused` are history variables: every change ever logged, and what each decision
was about.

| Definitions | Code |
| --- | --- |
| `Deliver` = `Retry` or `Apply` | `apply_mutation`, reached by a first push, a repeated one or a late copy |
| `Work`, `ApplyOne`, `Insert`, `Update`, `Delete` | the loop over the ordered changes and `_apply_one` |
| `StructureChanged`, `Parent`, `Conflicting` | the two conflict tests on the log |
| `Finished`, `Reconciled`, `Committed` | checks after the loop, `reconcile_debt`, rollback |
| `WebInterest`, `WebPrincipal`, `WebRate`, `WebTouch` | `record_payment` and the saves of a PATCH |
| `Compact` | `compact_sync_log` |
| `Pull`, `Queue`, `Receive` | the phone, which is not in this repository |

`apply_mutation` is one write transaction and so one step: a fold of `ApplyOne` over
the changes, in which the first error stops the rest. The phone is taken at its
best: it pulls everything at once, sends its mutations in order, and takes
the base revision of an edit from the row the feed gave it. What a phone may queue
(`MCSyncPush`) are the groups of row changes that paying interest, paying capital,
voiding, editing terms and deleting make. Amounts are small integers, a unit of
capital bears one of interest per period, and no date passes, so there are no
penalties (`DebtLedger` has them). Left out: client rows, moving a loan to another
client, malformed payloads, a mutation id reused for other content, device binding.

### ChangeStream and LedgerSocket

`ChangeStream` is the promise to a connected client: its stream begins at a cursor
and hands over every change that is kept, in order, until it ends. `LedgerSocket` is the
code that has to keep it.

| Actions | Code |
| --- | --- |
| `Authenticate`, `AddKey`, `CountSocket`, `Refuse`, `JoinLedger`, `Accept`, `JoinFails`, `Forget` | `token_user` and `connect`, one step per call to the cache or the channel layer |
| `Hello`, `HelloRefused`, `Push`, `ApplyPush` | `receive_json` |
| `LedgerChanged`, `ReadFloor`, `SendPage`, `AuthRevoked` | the handlers of events, and `_drain` page by page |
| `Disconnect`, `ReadCount`, `Release` | `disconnect` and `release_socket` |
| `Write`, `Compact`, `NotifyScope`, `PauseEnds`, `Revoke`, `NotifyAuthRevoked` | commits, and the broadcasts that follow them |
| `Crash`, `Expire` | a process dies; the key of the counter times out |

A connection has one channel, of `Capacity` events, for both groups it joins (`groups`): its
`inbox` of broadcasts and the `auth.revoked` events `told` share it, and `group_send` drops
either kind for a channel that is full. `revoked` are the tokens whose `auth.revoked` is yet
to be sent. History: `missed`, the broadcasts a member did not get, and `unheard`, whether
the event for its own token passed it by.

The refinement maps `cursor` and what the client `got` to the stream. That a phone of
another scope sees nothing is not a matter of this module (one user).

### MobileSync

`sync_snapshot` is one write transaction and one step, `Process`: the upsert of clients,
debts, periods and payments (`Upserted`), then the deletions (`AfterDeletions`), then the
reconciliation of the debts in the upload (`Reconciled`). A phone keeps its rows by server id
once it knows one, by local id before; it uploads everything, and `ImportSnapshot`
replaces its copy by the reply. An upload may be given up, arrive late, or twice. Who
is newer (`updatedAt`, from clocks nobody synchronizes) is a choice per row. The web pays,
reverts and deletes meanwhile. What a phone may do (`PhonePay`, `PhonePeriod`,
`PhoneDelete`) is what its requests, the tests and the documents say of the app.

### Corporate

Accounts, organizations, memberships, and a ledger of rows without amounts, whose
references to each other are what matters. Every request that reads before its
transaction is two steps (`UpdateStaff`/`StaffUpdated`, `DeletePlan`/`PlanDeleted`, ...),
with any other requests between them; `Lost` is a process that dies in between. The two
transactions that draw a number are two steps as well, drawing (`Lend`, `Issue`) and making
the rows (`Lent`, `Issued`); in between the transaction has the write lock (`Unlocked`), so
that others only read, and it may fail (`RolledBack`), as a row is refused or the process dies.
`DropDebts` and `Protected` are the CASCADE, SET_NULL and PROTECT of the foreign keys.
`astray` is history: the organizations whose owners were demoted by themselves or by
somebody who had meanwhile stopped being an owner.

### PdfStore, Reminders and Worker

`PdfStore` has one action per file-system call of `store_pdf`, `find_pdf`, the download
and `delete_expired`. `Reminders` is `send_due_notifications` item by item: the email is
queued (`QueueReminder`), then the push is looked up, sent and recorded (`CheckPush`,
`Send`, `Record`: three calls, no transaction), and the run ends in
`send_client_emails` (`BeginMail`, `Claim`, `FinishMail`). `Worker` composes both: the loop
of `run_notification_worker`, and one process started by hand or cron. An exception
ends the process (`Raised`), any process may die, and a supervisor restarts the loop.

### What the modules share

They share no variables, except within `Worker`. The ledger's writes are abstract saves
in `ChangeFeed`, changes of a log in `LedgerSocket`, whole-period payments in
`ClientEmails` and rows without amounts in `Corporate`; to the cent they are in
`DebtLedger`, and with reconciliation in `SyncPush` and `MobileSync`. The socket is taken
with reads of the feed that `ChangeFeed` describes, query by query; that a phone's
cursor loses nothing is proved of `ChangeFeed` and used as `Pull` in `SyncPush`.

## 3. Runs

Passing runs:

| Run | Instance | Shows |
| --- | --- | --- |
| `feed_phone` | a ledger of one row of each kind (`MCChangeFeed.tla`), another owner's client, one phone, pages of two, three writes after the backfill | `TypeOK`, `FreshOutsideGap`, `LogHoldsLatest`, `LinksLive`, `FloorCoversRemoval` |
| `feed_tab` | the same with a browser tab, two writes, fairness | `TabsFresh`, `TabsConverge` |
| `socket` | two connections of a user who may have one, pages of one change, channels that hold one broadcast, two changes, two tokens; fairness | `NothingSlips`, `WithinSocketLimit`, `RevokedIsTold`, the refinement `ImplementsStream`, `CatchesUp` |
| `emails_claims` | two processes, batches of one, a loan of two periods, two payments and any reversals, a lease of one tick, crashes | `AtMostOnce`, `ReceiptsAccounted`, `FinalStays` |
| `emails_finish` | one process, batches of one, two loans of which one has an address that is refused, two payments and any reversals, a lease of one tick in two, crashes, fairness | `EmailsFinish` |
| `debt_ledger` | loans of 1.00 of both types at 0, 10 or 200 %, penalty 0 or 5 %, one or three periods, rounded to units or to cents; two operations, a PATCH, a repair, four months | `TypeOK`, `BooksBalance`, `OnePosition`, `AssessmentMissesNothing`, `ScheduleKept`, `DocumentsAgree`, `RepairAddsUp`, `PaidPeriodsKeepAmount` |
| `push_phones` | a loan made in the browser, or by a phone; two phones, and two of eleven groups of changes queued by one or by both; retries and late copies; one browser write; compaction | `AnswersTrue`, `RefusedLeavesNothing`, `BooksFollowFacts`, `StructureSeen`, `OverwriteReported`, `RefusalsHaveCause` |
| `mobile_v1` | a phone and the web, five rows, three edits, two uploads | `BooksFollow`, `FactsSurvive`, `NothingDropped` |
| `corporate` | two people; rows and staff requests six together, of which three requests at most | `NumbersIssuedOnce`, `LoansKeepPlans`, `NothingDangles`, `OwnerRemains` |
| `worker` | the loop and one command from cron, a loan or a document, three days, an interval of two, one death | `DownloadsWhole`, `RemindersApart`, `PushedOnce` |

Runs that end in a violation; each is a disagreement between the code and what the
repository says (quoted in `PROJECT.json`, "findings"):

| Run | What happens |
| --- | --- |
| `feed_bootstrap` | `sync_v2.bootstrap` reads its cursor after the rows. A row changed in between is missing from the reply and, being at or below the cursor, never comes with the feed. `views.bootstrap_view` reads the cursor first and does not have this. |
| `debt_lost_update` | A payment committed while a PATCH is between its read and its save disappears from `collected` and `outstanding` (the payment row stays). |

**What the properties except, because the code does not give it.** Each exception is
named in the property and is a behaviour TLC shows when it is taken out.

* `ReceiptsAccounted` (`raced`): a receipt that is being sent when its loan is settled is
  not absorbed by the full-payment email; its worker then sees a paid loan and cancels it
  (`client_notifications.py:202`), and the payment is never reported.
* `AtMostOnce` (`late`): `attemptedAt` is the time the batch began, not the time of the
  claim, so that a claim late in a long batch looks expired to the next process at once.
* `AssessmentMissesNothing` (`edited`): a PATCH of terms is not reconciled
  (`views.py:423`), and `assess_overdue_penalties` (`services.py:377`) does not select the
  debt, so that reads go on showing old columns until the next payment.
* `Regular` (`Tiny`): a few cents spread over many periods are rounded up period by period
  (`services.py:160`) and leave nothing, or less, for the last: 0.03 over five periods is four times
  0.01 and -0.01. Of such loans `TypeOK` and the action properties hold, and no more is claimed.
* `BooksBalance`, `ScheduleKept` (`rounding`): loans from before the rule of whole units
  are off by up to a cent per period until they are repaired. They also except loans that
  were edited: a base amount of 0 is taken for "no base" (`services.py:332`) and replaced by
  amount less penalty, so that repaying all capital of an overdue single loan to which a
  PATCH has given a penalty rate leaves a negative base.
* `PaidPeriodsKeepAmount`: a repair saves bases, penalties and statuses it read before its
  transaction (`repair_installment_rounding.py:56`); a payment in between can leave a period with
  less base than was paid, or a penalty that was current when it was read. Periods a repair has read
  are excepted until it has saved.
* `StructureSeen`, `OverwriteReported`: `_structure_changed_since` and
  `_conflicting_fields` read the log and compare no base with the floor, so a phone
  that was away for longer than the log reaches back is not stopped.
* `RefusalsHaveCause`: the property is about what writers set out to do (`Restructures`: edit
  periods or the terms they follow from, or move capital), not about the columns that the conflict
  test compares, so that what reconciliation derives from a payment must refuse nobody. The cause may
  still be what the phone has seen already. A loan made by a
  phone has periods logged after it, and a `revision` below theirs; a structural edit by
  another phone that takes its base from the newest loan row counts those periods as later
  changes (`sync_v2.py:209`) and is refused, until the loan itself is saved again.
* `EmailsFinish` (`Blocked`): a batch is the first unfinished emails in the order of their ids
  (`client_notifications.py:249`), and refused ones stay unfinished; with a batch's worth of them ahead,
  an email is never tried. Without the exception, `emails_finish` shows exactly that.
* `NothingSlips`, `CatchesUp` (`missed`): a broadcast that fails, is skipped in the 30 seconds
  after one that failed (`BROADCAST_PAUSE_SECONDS`) or finds the channel full is not repeated;
  the client gets its changes with the next one.
* `RevokedIsTold` (`unheard`): a token revoked between authentication and `group_add`, a
  broadcast that fails and a channel that is full leave the socket open; nothing repeats the event.
* `WithinSocketLimit` says nothing of leaks: after a crash the counter stays too
  high until its key expires, and refused attempts renew the key's timeout
  (`consumers.py:32`), so that a client that goes on trying keeps itself out.
* `OwnerRemains` (`astray`): an owner may demote themselves, and two owners who demote or
  remove each other at the same time both succeed, as the role is checked
  before the transaction (`services.py:565`).
* `RemindersApart` (`crossed`), `PushedOnce` (`doubt`): overlapping runs. A push counts as
  delivered if any of the owner's browsers took it (`push.py:118`).
* `DownloadsWhole`: a document swept between `find_pdf` and `open` is an error page,
  which the property allows for expired documents only.

**Bounds, and why they are enough.** Every bound is a constant whose name begins with
`Max`, except `Capacity` and `Durations`, which the code has too.
In `ChangeFeed` a row of each kind suffices, since rows interact only through
parent and link, and the keys leave room for a row to be written, deleted and
inserted again, or written twice and compacted past a cursor, while a device reads.
The proofs hold for any number of rows, scopes, devices and changes. In `LedgerSocket`
one change can be broadcast while another is being sent, the second connection competes for
the slot of the first, and crashes may push the counter past the limit. In
`ClientEmails` two processes are enough for every takeover; two payments, each of one period
or of both, give a receipt that the settlement takes over, or a settlement, a reversal and
a second settlement; the lease ends within the clock, so a claim expires and is taken over. A batch
of one makes the limit bind: emails wait behind those of a refused address, which are tried
first again and again; a batch may still be older than the lease when it claims. In
`DebtLedger` 1.10 divides into cents with a rest over three periods and 3.00 into whole
units; shares of 200 % interest exceed their periods when rounded to units, which reaches the
second attempt of `capital_portions` (the third needs a principal of a few cents, as the code
says, and is not reached); amounts are less than, equal to and
more than what is due; four months let every period fall overdue before and after it
is paid. In `SyncPush` a conflict needs two writers with one mutation each, the other
phone and the browser; the one browser write (`MaxPk`) comes before, between or after
them. The two mutations may also be one phone's, queued on the same base. Two phones with
queues of two are beyond what a run can hold. The run leaves what the phones know out of the
fingerprints once nothing more may be queued (`MCView`): only queueing reads it. In `MobileSync` five rows hold a client, a loan, its period and two
payments; two uploads let one arrive after the other was answered, or twice. A second
phone behaves toward the first as the web does. In `Corporate` a loan with a new client
and a plan takes three rows and leaves room for a client and a document that cites it;
three staff requests let a second owner be made and both remove each other; either person's
transaction may draw a number and fail while the other reads and waits. In
`Worker` an installment due before the first day is overdue on three days, so that an
interval of two ends within the run; loan and documents are run apart, as they have no
state in common. `push_phones`, `corporate` and `emails_claims` use symmetry (of
the two phones, people and processes, which no property tells apart; none has liveness).

`CHECK_DEADLOCK FALSE` stands where the system comes to rest (no mail waits, or a bound is
reached). `worker` checks for deadlock: its loop never ends.

**Fairness.** `ChangeFeed`: a device goes on polling and bootstrapping when it must
(weak fairness), and a request repeated for ever is not lost at the same query
every time (strong). Writers and compaction need none. That is what a client with
a polling loop and reconnection does, and no fairness is assumed of the server beyond
answering. `LedgerSocket`: `on_commit` hooks run and the event loop serves each
connection's events (weak). Nothing is assumed of clients, of Redis or of further
writes. `ClientEmails`: the worker's loop never stops
(`run_notification_worker` sleeps and repeats, its supervisor restarts it), time
passes, and an email that is tried again and again is accepted some time unless
its address is unreachable (strong fairness of `Send`). The other modules state none. Strong fairness
helps only an email that a batch reaches; `EmailsFinish` says which are not.

## 4. Proofs

`ChangeFeedProofs.tla`, for every set of rows, devices and scopes, page size and
bound that meets the assumptions of `ChangeFeed` (`RowsAssumption`,
`KindsAssumption`, `LegacyAssumption`, `DevicesAssumption`; TLC evaluates them on
every run):

| Theorem | Property |
| --- | --- |
| `TypeCorrect` | `TypeOK` |
| `Invariant` | the inductive invariant `IInv` |
| `FeedLosesNothing`, `TabLosesNothing` | `FreshOutsideGap`, `TabsFresh` |
| `CompactionKeepsLatest`, `FloorCovers` | `LogHoldsLatest`, `FloorCoversRemoval` |
| `UpToDateStays`, `CursorsOnlyAdvance` | `UpToDateNotExpired`, `CursorsAdvance`: a device that is up to date is never told to start again, and no cursor goes back (proved, not run) |
| `NoDanglingLink` | `LinksLive` |

None of the freshness properties is inductive. `IInv` adds to `TypeOK`:

* about the log: each row's last change is logged and describes it, no change is
  newer, keys are unique, a row that is live has a live parent and a live link
  in the same debt (without which a deletion would leave a dangling link), and the
  floor is below some later change of its scope;
* about each device, with a cursor at `k`: for each row of its scope that has not changed
  since `k` the replica is in step (the property); for the others
  the later change is in the log and above the floor or the device will be told to
  start again. While a bootstrap is running the rows already read are those
  of a moment after `mark`, so everything not newer than `mark` is in step; while a feed
  request is between its queries its cursor may have fallen below the floor, but
  then the removed changes were not the last ones of their rows, which are still
  to come in the page or after it.

The step from there: a page takes all changes up to its last key, so a row whose
last change is at or below the new cursor was either in step already or has its last
change in the page, and that is the one `Applied` keeps.

`CorporateProofs.tla`, for any finite set of people, any document types and any bounds
(`CorporateAssumption`):

| Theorem | Property |
| --- | --- |
| `OwnersRemain` | `OwnerRemains` |
| `NumbersOnce` | `NumbersIssuedOnce` |
| `PlansKept` | `LoansKeepPlans` |
| `RowsCiteRows` | `NothingDangles` |

The code checks a role or a row in one query and writes in a later transaction, so no
property follows from the state alone: each invariant says what a request in flight still
knows.

* `StaffInv`: who has no account, or is about to found an organization, belongs to
  none, so founding takes no owner from another organization; who removes is
  not who is removed. `OwnerRemains` follows step by step: an organization loses an
  owner only to somebody else, who is an owner still (then one remains) or no longer
  (then it is astray).
* `NumbersInv`: at most one transaction holds the lock, and the number it drew is the last of its
  counter; the numbers before it, and all of every other counter, are made (`Made`). Without
  the lock in the invariant, a rollback could take back the number of another transaction.
* `PlansInv`: ids grow, so no new row takes a place that a request or a row still
  refers to; a request that deletes a plan has found it without a loan (`Unplanning`), and
  no step ever gives a plan a loan later. Without the last part a plan could be
  deleted under a loan between the two halves of `DeletePlan`.
* `RefsInv`: what an open transaction has looked up is there until it ends (`Cited`), since nobody
  else writes; and each deletion takes, forgets or is refused by every row that would cite what it
  deletes. For a client that means that the documents `delete_client` looks for (`DocumentsOf`) are all
  that cite it, its loans or their payments, which needs that a payment has the client of its loan.

`LedgerSocketProofs.tla`, for any number of connections, changes and tokens, and any limit,
page size and channel capacity (`SocketAssumption`):

| Theorem | Property |
| --- | --- |
| `SocketStreams` | `ImplementsStream`, that is `Stream!Spec` |
| `NoChangeSlips` | `NothingSlips` |
| `RevocationReaches` | `RevokedIsTold` |
| `SocketsLimited` | `WithinSocketLimit` |

* `StreamInv` carries the first two: only a connection that is open and has said hello has
  a cursor, no cursor is ahead of the log, and the newest change is never compacted.
  `PageIsPrefix` is the heart of the refinement: a page is a prefix of the kept changes above
  the cursor, so what lies between the old cursor and the new one is the page and nothing
  else. Each action is then a step of `ChangeStream` or leaves the stream alone.
* `NothingSlips` is kept by each step on its own; a drain that
  finds less than a page has covered every change there was, whatever the inbox still holds.
* `LoginInv` adds that no revocation is broadcast before it is committed, that no connection
  was let in with a token that does not exist yet, and that an open one is in its user's group, so
  that a broadcast puts the event into its channel or is noted as unheard.
* `SlotsInv` splits the sockets that are counted: the counter is at least their number, and
  those not over the limit when counted (`Holding`) are at most the limit. The second part is
  needed because a socket that is over the limit is counted until it has released its slot.

`ClientEmailsProofs.tla`, for any loans, processes, batch size, lease and bounds
(`LoansAssumption`, `WorkersAssumption`):

| Theorem | Property |
| --- | --- |
| `FinalRowsStay` | `FinalStays` |
| `EmailsReachOnce` | `AtMostOnce` |
| `NoPaymentUnreported` | `ReceiptsAccounted` |

* `ClaimInv`: a batch lists unfinished rows, and a process at work holds a claim stamped with
  its batch's time. A claim or an outcome therefore never touches a finished row.
* `OnceInv`: unless its batch has outlived the lease, a process still has the row it claimed
  (`KeepsClaim`) and nobody else works on it (`Alone`); an email that went out is sent or about
  to be (`Settled`). The heart is `ClaimsAreKept`: a claim whose lease runs, by a clock no
  batch is ahead of, is never taken over.
* `AccountInv`: the property alone does not survive a receipt that is dropped because the loan
  is paid. `FactsInv` adds that every payment of a settled loan is reported, excused, or in the
  full-payment email of this very settlement (`Covered`), and that what a process has read
  of the loan stays true of the payments still active (`Remembers`), since payments that were
  reversed never come back (`NothingReturns`).

`SyncPushProofs.tla`, for any phones, actions and rows (`RowsAssumption`,
`ActionsAssumption`):

| Theorem | Property |
| --- | --- |
| `AnswersStayTrue` | `AnswersTrue` |
| `RefusedLeavesNothingBehind` | `RefusedLeavesNothing` |
| `BooksAlwaysFollow` | `BooksFollowFacts` |
| `StructureAlwaysSeen`, `OverwritesReported` | `StructureSeen`, `OverwriteReported` |

* For the first, `Work`, what a mutation does to the rows, stays opaque; `RecordInv` says that
  the record holds "applied" or "duplicate" exactly for what was carried out, and that answers on
  their way repeat the record.
* The others are about `Work`. `Working` is what is true of an unfinished mutation: unless it has
  failed, nothing it read of the log was stale, what it overwrote is among its notices, and the log
  tells of every row it wrote. It holds at the beginning, each change of the group keeps it
  (`InsertWorks`, `UpdateWorks`, `DeleteWorks`), and so the whole group does, by induction over
  its subsets in the order `LastOf` gives (`ChangedWorks`).
* `PushInv` adds the log (`LogInv`: keys below `lastPk`, everything kept is in `past`, what is missing
  is below the floor), the phones (`PhoneInv`: cursors are not ahead) and what was decided
  (`DecisionInv`). The decision properties compare a mutation with `past`; what is
  only in `past` and above its base is above the floor too, unless the property excepts it.
* The books need one fact only, that reconciling reads amounts, links and reversals, which it
  does not write (`SameFacts`), so reconciling again changes nothing.

`DebtLedgerProofs.tla`, for loans of any terms and number of periods, any payments, sessions and
bounds (the assumptions of `Schedules` and `DebtLedger`):

| Theorem | Property |
| --- | --- |
| `TypeCorrect` | `TypeOK` |
| `OnePositionOpen` | `OnePosition` |
| `RepairCompletes` | `RepairAddsUp` |
| `PaidKeepsAmount` | `PaidPeriodsKeepAmount` |
| `AssessmentComplete` | `AssessmentMissesNothing` |
| `BooksAlwaysBalance` | `BooksBalance` |
| `ScheduleAlwaysKept` | `ScheduleKept` |
| `DocumentsAlwaysAgree` | `DocumentsAgree` |

* Sums over periods and payments are `SumFunction`, a fold. What the proofs need of them
  (adding, removing or changing one term, comparing two sums) is proved by induction over finite sets
  in the first part of the module.
* `Typed` is inductive by itself, for all loans, edited or not. `RegularInv` is the strengthening for
  the others: nobody is in the middle of a PATCH; each period's amount is its base and a penalty
  that is none or the rate's, of which no more is paid (`Sound`); and the debt row is the
  reconciliation of the rows as of some day up to today (`Fresh`).
* Equal periods (`MultiInv`): the bases are the shares of the total in which the last takes the rest, or
  equal cents if the loan is old (`Shape`), and what a repair is about to save is such shares
  (`RepairAims`), whatever was paid since it read. Single loans (`SingleInv`): all periods but the last
  are paid, the last is open or paid, and no more capital is repaid than was lent.
* `AssessmentMissesNothing` and `BooksBalance` follow from `Fresh`: between that day and today only
  `Stale` debts change, and the sums of the bases are known from `Shape`.
* `ScheduleKept` follows as shares of a total stay within what is left, in whole units, in cents or
  filling the periods in turn (`Leaves`, `Fitted`), and are a function of the bases alone.
* `DocumentsAgree` needs two things more. An invoice's capital is a sum of fractions, one per open
  period, over the product of their bases: the product is a multiple of each base (`ProductDivides`), so
  a period of which nothing is paid contributes exactly its capital, and no period more
  (`SharesBound`). And a single loan never has an interest payment without a period, though `Settle`
  writes one when no period is open: each period's amount covers the interest on the capital that is left, and
  a last period that is paid leaves no capital (`CapitalOnly`, inductive with `RegularInv`), so
  the interest due is then zero and no row is written.

`MobileSyncProofs.tla`, for any set of phones, amounts and bounds (`MobileAssumption`):

| Theorem | Property |
| --- | --- |
| `ViewsHold` | the inductive invariant `MobileInv` |
| `BooksAlwaysFollow` | `BooksFollow` |
| `FactsAlwaysSurvive` | `FactsSurvive` |
| `NoneIsDropped` | `NothingDropped` |

* `ServerInv`: the server's rows are a tree (`TreeOk`: a parent of the right kind, a payment's period
  in the payment's debt), ids grow and are never reused, and no two rows have the same origin.
* `ViewsInv` is what makes an old upload harmless. The rows of a phone, and of each upload that was
  not processed (`Open`), are a *view* of the server's rows (`ViewOk`): a copy of a row the server has
  is of the same kind and parent and, if a payment, of the same amount (`Faithful`); the row above a copy is a copy too, or the
  phone has a tombstone of it, or the server no longer has it (`Linking`); a payment's period is one of its debt
  (`Covering`); and a row that the phone made is not also held under the id that the server gave it.
* That is not yet inductive: a phone with two uploads under way may have moved a row from a local id to
  the server's between them, and the first to arrive decides what the other one means. `Agree` says
  that two copies of a row the phone made differ at most in the name of the row above.
* The server side is one lemma, `ViewKept`: whatever keeps the rows that are left as they are (`Kept`)
  and adds only rows that the views know as their own keeps every view. An upload that is taken does
  (`Merged`), as do the web's payments, reversals and deletions; the phone side is `LocalMoves`, with
  `ImportedView` for a snapshot that is imported: each local name is replaced by the id of the row
  that has that origin, if it is shown.
* `SentInv` adds that a processed upload's tombstones are of rows that are gone, or of payments; so a
  phone may forget them when it is answered and is never shown a debt without the rows above it.
* The two action properties follow from `Merged`: an upload is the only step that processes one
  (`StepProcesses`), and what it has of a payment is `Faithful`.

`WorkerProofs.tla`, for any documents, installments, processes and bounds
(`RemindersAssumption`, `WorkerAssumption`):

| Theorem | Property |
| --- | --- |
| `DownloadsAreWhole` | `DownloadsWhole` |
| `PushesSentOnce` | `PushedOnce` |
| `RemindersStayApart` | `RemindersApart` |

* `StoreInv`: a `.pdf` is a document that was stored, and only an expired document leaves the
  folder after that, whichever sweeps overlap.
* `PushInv`: a push that was sent is recorded or its process is about to (`Sent`); whoever is
  about to send is the first (`First`) and alone (`Single`), or the push is in doubt.
* `MailInv`: as long as no runs of different days overlap (`Apart`), all runs are of one day, which no
  reminder is later than; a reminder was queued only when each earlier one was finished and long
  enough ago (`Spaced`), and a run between asking and queueing still knows that (`Cleared`), because
  until then the others can queue only the reminder of the same day.

Induction over data is not available as a rule (the library's induction theorems take an operator).
Where it is needed, a set of counterexamples is given a least member by `WFMin`, with the library's
facts that `<` is well founded on the naturals and strict inclusion on the subsets of a finite set.

**Only model-checked**: `TabsConverge`, `EmailsFinish` and `CatchesUp` (liveness, which
the provers cannot do), and `RefusalsHaveCause`, which needs what each group does to the columns
that reconciliation derives. Every other property of a passing run is a theorem.

## 5. What is not modelled

* Layout and wording: reports, the pages of PDFs, dashboards, the admin. The figures
  of invoices, receipts and share links are in `DebtLedger`.
* Password reset, but for the revocation of tokens: one sequential flow over Django's token
  generator. `staff_user.save` in `services.py:585` writes every column of a row read
  earlier, and can put back a password that was reset in between; passwords are not in
  `Corporate`.
* Import and key commands, which an operator runs on a quiet database; migrations.
* Within the modelled parts: contents of rows in `ChangeFeed`; frame sizes and the rate limit
  of the socket; device binding; emails that are not about payments or overdue
  periods; days within months; several debts of one client in `DebtLedger`; a client
  whose email address changes; several browsers of one owner in `Reminders`; preferences
  and descriptive columns in `MobileSync`; the copying of a browser edit over a phone's
  client row (`views.py:353`).

## 6. Plan

Done, in order of importance: `ChangeFeed`, `ClientEmails`, `DebtLedger`, `SyncPush`,
`Schedules`, `LedgerSocket` over `ChangeStream`, `MobileSync`, `Corporate`, `Reminders` and
`PdfStore` in `Worker`; proofs about each of them.

Next:

1. `Replica`: the abstract ledger that a device reads, and `ChangeFeed` shown to
   implement it for tabs (refinement, then proof of the step).
2. Client rows and the move of a loan to another client in `SyncPush`.
