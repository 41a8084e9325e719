# TLA+ models of Setuora Master

Setuora Master is the central server of a retail franchise network. Every
franchise runs its own Setuora Lite. Lite posts its stock events to Master over
HTTPS and polls Master for commands; Master keeps the stock of the network,
issues QR labels, moves goods between franchises, reviews payment receipts and
posts vouchers to one central Tally company. Master is one FastAPI process over
one SQLite database.

This directory models that program in TLA+, checks the models with TLC on small
instances and proves theorems about them, for every instance, with TLAPS. The
reference is the code under `app/`; documents are quoted only where the code is
compared with them. Paths in this file are relative to the repository.

## 1. The system

### How the program runs

* `post_events` and `patch_command` are coroutines on the event loop, so two of
  them interleave only at `await request.body()`. All other routes run on pool
  threads; the retry worker, the backup worker and the product worker are
  threads of their own.
* Sessions do not autoflush. A `SELECT` runs in autocommit mode: it takes no
  lock that lasts, and SQLite's write lock is taken by the first `INSERT`,
  `UPDATE` or `DELETE`. `with_for_update()` does nothing on SQLite. **A handler
  therefore reads, may be overtaken, and then writes**; an `UPDATE` contains
  only the columns that differ from what was read. Loaded rows are kept in the
  session until a commit expires them.

These rules are the source of most of the hard behaviours, and the models keep
them: a handler that decides on something it read before its first write is two
actions, and an action writes only what the ORM would write.

### Inventory

| Part | State | Operations | Hard because | Module |
| --- | --- | --- | --- | --- |
| Central Tally queue (`services/tally.py`, `services/sync_worker.py`) | `batches.status`, frozen request, lease, retry count | `sync_batch`, `retry_pending_batches`, `reconcile_batch`, console Retry | threads hold stale rows; the answer, the commit or the process can be lost between claim and result; one voucher in doubt holds the queue | `TallySync`, abstract `CentralQueue` |
| Event ingestion and stock (`services/network_ingest.py`) | `serials`, `network_stock`, `stock_transfers`, `qr_replacement_intents`, `node_commands` | one per event type | long sequences of events of several franchises; two tables for one fact | `NetworkIngest`, abstract `StockLedger` |
| QR allocation and replacement (`services/qr_allocation.py`, `services/qr_replacement_intent.py`) | as above | allocate, request replacement, complete it | reads before the write lock; franchise and console race | `NetworkIngest` |
| Node API: events and credentials (`routers/node_api.py`, `services/node_auth.py`) | `inbound_events`, `franchise_nodes`, `node_credentials` | `POST /events`, authenticate, rotate, disable, enable | lost and repeated requests, overlapping batches, restored Lites, body awaited after authentication | `NodeSync` |
| Node API: commands (`routers/node_api.py`, `services/network_ingest.py`) | `node_commands` | queue, poll, acknowledge | lost answers, withheld types, response budget | `NodeCommands` |
| Receipts (`routers/receipts.py`) | `receipts` | submit, review | two reviewers | `NodeCommands` |
| Products from Tally (`services/tally_products.py`, worker, router) | `products`, `product_identity_history` | import, live sync, switch sync on and off | Tally and products are read before the write lock; events carry frozen product details while the product changes | `TallyProducts` |
| Settings, companies, master check (`services/settings.py`, `services/tally_masters.py`, `routers/settings.py`, `routers/tally_check.py`) | `settings`, `companies`, `tally_master_confirmations` | save, autosave, add, update, switch, delete, confirm | one configuration in two places, written by three pages | `TallySettings`; the use of it as `EditConfig` in `TallySync` |
| Users, login, roles (`auth.py`, `routers/auth.py`, `routers/users.py`, `routers/account.py`, `services/access_control.py`, `services/bootstrap.py`) | `users`, `login_audit`, role matrix | sign in, toggle, reset, delete, create, change password, change role access | parallel attempts against the lockout, administrators who remove each other | `ConsoleUsers` |
| Backups (`services/backup.py`, `services/backup_worker.py`, `routers/maintenance.py`) | backup files, `.env` values | copy, verify, copy off the machine, prune, change settings | two processes make backups, failure half-way | `Backup` |
| Deployment (`deploy.py`) | `.env`, port file, scheduled task, Serve route | setup, start, stop, update | boot trigger and restart on failure race with commands; steps fail, some of them unnoticed; the tailnet can be offline | `Deployment` |
| Voucher totals (`services/voucher.py`) | none | rounding and summing | numeric edges | not modelled (section 8) |
| Tally cache and access, SFTP party sync, schema upgrades, pages, reports, packaging | caches, files, or none of their own | | | not modelled (section 8) |

How the parts interact: an event that `NodeSync` accepts is applied by
`NetworkIngest` in the same transaction; a sale, purchase, receipt or return
creates a batch that `TallySync` posts (its `Enqueue`); transfers, labels,
products and receipt verdicts create the commands that `NodeCommands` delivers.
`TallyProducts` keeps the product details that events carry, `TallySettings` the
configuration that `TallySync` builds vouchers from.
The modules are separate because each interface is one committed row: what one
side writes in a transaction the other reads later, and nothing else is shared.

`PROJECT.json` lists all parts under `components`, the lines each definition
models under `map`, and under `hazards` what is hard to test and which property
is about it.

## 2. Files

| File | Content |
| --- | --- |
| `TallySync.tla` | the queue to Tally with worker, console, operator, Tally and failures |
| `CentralQueue.tla` | what that queue promises |
| `TallySyncProofs.tla` | proofs about `TallySync` |
| `NetworkIngest.tla` | events, transfers, labels, replacements |
| `StockLedger.tla` | what the stock records promise |
| `NetworkIngestProofs.tla` | proofs about `NetworkIngest` |
| `NodeSync.tla`, `NodeSyncProofs.tla` | the event stream from Lite to Master and credentials |
| `NodeCommands.tla`, `NodeCommandsProofs.tla` | the command queue from Master to Lite and receipts |
| `TallyProducts.tla`, `TallyProductsProofs.tla` | products that come from Tally, and the details events carry |
| `TallySettings.tla`, `TallySettingsProofs.tla` | settings, companies and the check before posting is turned on |
| `ConsoleUsers.tla`, `ConsoleUsersProofs.tla` | sign-in, lockout and the administration of users |
| `Backup.tla` | scheduled backups of two processes |
| `Deployment.tla` | the commands of `deploy.py` over task, port and route |
| `OperationsProofs.tla` | proofs about `Backup` and `Deployment` |
| `MC*.tla`, `MC*.cfg` | instances for TLC |

An operator whose comment begins "Mutant" is a wrong version of the
definition below it. No specification uses it; substituting it for the
definition must make TLC report the property that `PROJECT.json` names, which
shows that the property depends on that code.

## 3. The modules and the code

### TallySync

`db` is the table `batches` as committed, `sess[t]` the ORM copies a thread's
session holds, `todo[t]` the batches a worker pass or a request has still to
serve, `lock` the holder of `_SYNC_LOCK`, `post` the claim of the thread that
waits for Tally. `delivered` and `imports` are Tally's side: a request that has
reached it, and the vouchers it has.

`sync_batch` is one action per path between two points where other threads can
act: the checks under the lock and the claim's commit (`Claim`, `ClaimLost`,
`BuildFails`, `TallyDisabled`, `LeaseHeld`, `LeaseExpired`, `ReturnAtOnce`), the
request to Tally with its outcomes, and the commit of the result, which may
raise. A process stop drops every session and the lock and
leaves the database. A request XML is represented by the configuration it was
built from, so "the frozen request" and "a rebuilt request" differ exactly if
the configuration does.

The copies are the point of the model: `sync_batch` refreshes a batch only when
its status differs from the loaded copy, so a copy can be stale in its other
columns, and the worker's session carries copies from one batch to the next
until a commit expires them. `overtaken` is a history variable: the commit of a
result failed while another session kept an older copy of that row which it
would write back.

### NetworkIngest

`stock` is `network_stock`, `serial` the copy in `serials`, `transfers`,
`intents` and `commands` their tables, `sold` counts SALE vouchers minus
SALES_RETURN vouchers of a serial. Each event type is one action, because
`ingest_events` inserts the inbound row first and so holds the write lock while
it validates and applies the event. A request of several events is the sequence
of their steps, and a request that is rolled back is no step. A replacement
request is two steps: it reads, then reserves.

### NodeSync

`outbox`, `sent`, `liteKey` are Lite's, `requests` and `answers` are on the
network, `serving` are requests that are authenticated and wait for their body,
`inbound`, `cursor`, `active`, `keys` are Master's tables. `Ingest` is the rest
of `post_events`: duplicates are answered from the journal, new events must
follow the cursor, the domain rules accept or refuse them, all or nothing.
`InSequence` states the loop's condition in closed form: the new events are
neighbours and the first one follows the cursor. `active` is read again just
before the first write; the model takes both as one step.

A rotation or a disabling is two steps: the credentials that are not revoked
are read, later those are revoked and the new one is inserted. `was` remembers
that a franchise read as disabled is not written again. `overlapped` is a history
variable: the franchises whose last rotation or disabling had read credentials
that another one had changed by the time it wrote.

### NodeCommands

`commands` is `node_commands` in the order of ids, `acked` those with
`acknowledged_at`. A poll is one step, since `list_unacknowledged_commands` is
one `SELECT`: `Waiting` is its WHERE, `Window` its ORDER BY and LIMIT, `Used`,
`Reached`, `TooLarge` and `Listed` the loop over the response budget. Because
ids are the order, lists are sets. `BeginReview` reads a receipt as PENDING,
`CommitReview` writes the
status and queues the verdict.

### TallyProducts

`tally` is Tally's item master, `product` and `history` the tables `products`
and `product_identity_history`, `thread` what a thread has read, `upserts` the
PRODUCT_UPSERT commands Lite has not applied, `lite` and `frozen` the details
Lite has and may have put into events. `Fetch` reads Tally, `ReadProducts` the
products, `ApplyTallyStockItems` or `ImportTallyProducts` takes the write lock
and writes the columns that differ from the copy. The worker syncs when it is
due; an administrator imports items or presses Sync now at any time. The history
variable `overlapped` names the products whose details a sync has replaced
although they had changed since it read them. Name stands for the Tally
name with the product name that follows it, tax for HSN, unit and GST rate.
`Accepts` is the check of an event's details.

### TallySettings

`settings` and `company` are the two copies of the configuration. A request
reads (`Begin`) and commits later (`Commit`), with one disjunct per operation;
`Rollback` is every refusal. `Restart` is `ensure_company_records` at start-up.
`LiveSyncReadiness` says that all masters that the configuration and the active
products name are confirmed; a ledger, stock item, unit or HSN code that is left
blank is `NoMaster`, which nobody can confirm. The history variable `raced` says
that a request has committed on rows that another one had changed since it read
them; a switch on rows that are still as it read them writes everything anew and
ends it. The Tally check page saves
companies with the same functions as the Settings page, so both are the same
requests.

### ConsoleUsers

`users` is the table, `mayManage` the cell of the role matrix that lets an
admin manage users, `failures` what `recent_failed_logins` counts, `task` the
request of each thread with the column it has read. Permissions are checked
when a request begins (`Allowed`), its write comes later (`Apply`). A session
cookie carries only the id of a user, and every request reads the row again, so
it is no state.

### Backup

`files` holds the listed copies of each folder, each with its time, the commit
it covers and whether it is sound; `job` is the running job of each process.
The lock in `backup.py` serialises jobs of one process; the updater
(`scripts/windows/bootstrap.ps1`, `client/windows/setuora.ps1`) calls
`create_scheduled_backup` in another one while the server runs. Every step of
`create_scheduled_backup` is an action and the job can end after each.

### Deployment

A command is the list of its steps (`StopSteps`, `StartSteps`, ...), each an
action on `.env`, the port file, the scheduled task, the processes or the Serve
route. A step whose result the code checks may fail, before it changes anything
(`StepFails`) or, where it does more than one thing, after its change.
`/DISABLE` and `/End` are run with `check=False`: their failure goes unnoticed
and the command goes on. `FailStep` follows the handlers of setup and update:
repair by a start, cleanup by a stop, or abort.

The task's process is `starting` until it has bound its port and `server`
afterwards; one that outlives its task is in `adrift` until it has bound its port
and in `orphans` afterwards. `_wait_for_stop` and `_release_setuora_port` see only
what listens on the saved port. What they miss is remembered in the history
variable `slips`: a process that survived `/End` before it listened ("unseen"), and
a port that was left while a process still ran for it ("moved"). It is cleared
when no process runs after the wait, and by a reboot. `pending` is the scheduler's
restart on failure. A reboot ends the command and runs an enabled task. The
specification's own definitions are `DeployInit`, `DeployNext` and `DeploySpec`,
so that `OperationsProofs` can extend this module together with `Backup`.

### External parts

Lite, the network, Tally and the operator are not in this repository's `app/`.
They are modelled as liberally as the code's use of them allows and marked
external in `PROJECT.json`: Lite numbers its events, repeats a post without an
answer, stores commands by id, applies them in order and acknowledges what it
applied; Tally imports, rejects, or imports and loses the answer, and its users
edit stock items at any time; an operator who reconciles looks into Tally and
tells the truth; Windows, other applications and Tailscale act between any two
steps of a command.

## 4. What is checked

Passing runs:

| Run | Instance | Properties |
| --- | --- | --- |
| `tally_queue` | 3 batches, worker and 1 console thread, 1 configuration, 1 process stop or failed commit of a result, Tally switched on or off once | `TypeOK`, `OneInDoubt`, `AtMostOneImport`, `StatusTellsTheTruth`, `ImplementsCentralQueue` |
| `tally_live` | 2 batches, worker alone, 2 configurations of which 1 is incomplete, commits of results can fail, with fairness | `PendingIsServed`, `DoubtIsResolved` |
| `network_stock` | 2 franchises, 2 serials, 2 transfers, 2 administrators | `TypeOK`, `InTransitMatchesTransfers`, `VouchersMatchStock`, `MirrorAgrees`, `SourceIsTold`, `ImplementsStockLedger` |
| `node_sync` | 1 franchise, 3 events of which 1 is refused, batches of 2, 2 requests in flight, 2 administrators, 3 credentials, 2 rotations, disablings or restores, with fairness | `TypeOK`, `JournalGapFree`, `SentIsAccepted`, `JournalFollowsLite`, `OneCredential`, `EventsArrive` |
| `node_commands` | 1 franchise, 1 receipt, 2 administrators, 3 commands of sizes 1 and 2, budget 2, limit 2, with fairness | `TypeOK`, `AckedIsApplied`, `LiteAgrees`, `CommandsArrive` |
| `products` | 1 item with 2 names and 2 taxes, 2 product codes, worker and 1 administrator who imports and syncs, 2 edits of Tally or presses of Sync now, with fairness | `TypeOK`, `EventsAccepted`, `LiteFollowsTally` |
| `settings` | 2 companies, 2 configurations of which 1 leaves a ledger blank, products with and without a blank unit or HSN code, 1 master, 2 administrators | `TypeOK`, `SettingsMatchActive`, `SwitchStopsPosting` |
| `users` | 2 users, 2 threads, limit of 2 attempts, with fairness | `TypeOK`, `AttemptsBounded`, `LockoutEnds`, `LastManagerKept` |
| `backup` | 2 folders, retention 1 and 2, 2 processes, 3 copies, 1 change of the settings | `OnlyVerified`, `LastBackupKept` |
| `deploy` | 2 ports, which others can take | `StoppedStays`, `SuccessServes`, `RouteKnown` |

What the properties say is written above each of them in its module. In short:
vouchers are imported once and one at a time; stock is where the transfers and
vouchers say it is; the event stream arrives complete, once and in order; a
command is forgotten only after it was applied, and a Lite that has caught up
agrees with Master; products at Lite follow Tally, and events with earlier
details are still accepted; vouchers are posted where products are read, and
not after a switch of companies; the lockout holds against parallel attempts
and ends; backups that are listed are sound and a newer one is not lost; a
stopped Master stays stopped.

Five of these are not true of the code without a condition, because it trusts
rows or processes that have changed since it looked. The condition is in each
case a history variable of the module, which no guard reads and which is set by
the step after which the claim can fail: `overtaken` (queue), `overlapped`
(credentials, products), `raced` (settings), `slips` (deployment; `moves` counts
changes of port for `RouteKnown` in the same way).
The runs reach the states in which it is set, and so everything that happens in
them, and the theorems of section 7 are about the same formulas, with no
assumption about how many threads or administrators there are. What goes wrong
in those states is in the list below.

`CHECK_DEADLOCK FALSE` is set for the queue, the network and the backups because
these may be idle: with all vouchers posted, events sent and bounds used up
there is nothing to do. The other runs check for deadlock.

### Disagreements between the code and what is said about it

Each of these runs violates one property that quotes the repository:

| Run | What happens |
| --- | --- |
| `tally_lost` | `NeverPostedTwice`: after a failed commit a stale FAILED copy overwrites the claim, and the voucher can be posted twice |
| `products_race` | `EventsNotRejected`: the worker's sync and Sync now overlap, the details the first has sent are in no history row, and events that carry them are refused |

`PROJECT.json` quotes the line each run contradicts, under `findings`.

These were met while modelling and have no run:

* A console Retry that waited for the lock with a copy that became FAILED again
  (review, then reconciled back) sees no change of status and rebuilds the
  request (`tally.py:511`), which the comment at lines 691-692 rules out. The
  model has this behaviour and no property is about it.
* A rejected voucher whose rebuild fails is queued again with the rejected
  request (`tally.py:580`, against the comment at line 572).
* A tagged snapshot that names only known serials is accepted at any time, and
  the next tagged snapshot enrolls new ones (`network_ingest.py:613`, against
  `README.md:20`, "only during the initial inventory enrollment").
* One command above 4 MiB makes every poll of its franchise fail while it is
  among the first (`network_ingest.py:202`, against
  `archive/legacy-node-api/docs/node-sync-v1.md:26`).
* Two administrators who rotate a credential at once each revoke only what they
  have read (`node_auth.py:159`), and both new credentials stay valid
  (against `archive/legacy-node-api/docs/node-sync-v1.md:67-69`). `node_sync`
  reaches this; `OneCredential` is about the franchises that are not
  `overlapped`.
* Two administrators who review one receipt at once both pass the check for
  PENDING (`receipts.py:93`): the last verdict wins on both sides, and an
  approval after a denial keeps the rejection remarks.
* Two administrators whose settings requests overlap can leave the settings and
  the active company different, and a switch can leave posting on, since each
  writes the columns that differ from what it read. `settings` reaches this;
  its properties hold until a request commits on rows that have changed, and
  again after the next switch on current rows. A form that was opened before a
  switch and autosaved after it writes the old values into the newly active
  company.
* Stop reports "stopped and stays stopped until you choose Start"
  (`deploy.py:1005-1006`, and the comment at 997-998) also if `/DISABLE` failed,
  so that the next boot or RestartOnFailure runs Master again; if a process that
  did not listen yet survived `/End`; and if a process outlived its task on a
  port that was left, which nobody looks at. `deploy` reaches all three;
  `StoppedStays` is about a task that was disabled and `slips = {}`. In the
  second case a start can also report success with the task's process on another
  port than the saved one, which the last part of `SuccessServes` excludes.
* Two overlapping syncs of a product can leave Lite with details that Tally does
  not have, because the PRODUCT_UPSERT is built from the copy the second one read
  (`tally_products.py:238-251`). `LiteFollowsTally` is about the products that are
  not `overlapped`.
* When posting was turned on before any company was saved, the first company
  added brings its configuration and posting stays on without a new check
  (compare `README.md:48`). Confirmations are kept by type and name, not by
  company, so a master confirmed in one company counts in another.
* A forced password reset that overlaps the user's own change loses the
  must-change flag: the flag is not written if it had that value when read.
* Two administrators who disable or delete each other at once can leave nobody
  to administer users; `LastManagerKept` shows that this is the only way.
* Importing an item after its rename and before the next sync creates a second
  product with the same GUID, when the new name makes another code.
* The Maintenance page accepts a retention of 1 and switches backups off, which
  `preflight` then refuses: the next start or update fails. With a retention of
  1 a slow older job can delete a newer copy, which is why `LastBackupKept` asks
  for two.
* A failing off-machine copy ends the job before the pruning, so local copies
  exceed the retention count until it works again.
* Two changes of port while the tailnet is offline leave a route to a port that
  neither `SETUORA_WEB_PORT` nor `SETUORA_PREVIOUS_WEB_PORT` names; start and
  stop then refuse to touch it (`RouteKnown` is about one change).
* A first setup whose check of the private API fails leaves the route, because
  cleanup removes it only when the address was saved.

## 5. Bounds, and why they are enough

Every bound is a named constant.

* **Queue.** Mutual exclusion is about a pair of batches, but with two of them no
  session can keep an old copy of the batch whose commit fails; `tally_queue`
  has three, so that the states in which `overtaken` is set are among those it
  explores, as in `tally_lost`. The three are interchangeable, since each can
  always be built (`Idle` names some batch only to have a value); vouchers that
  cannot be built are in `tally_live`. Retry counts saturate at the maximum, which
  is exact. `tally_queue` has a maximum of one, where a refused connection makes
  the voucher FAILED at once; that it is first queued again needs two, which
  `tally_live` has and which the theorems cover for two threads.
* **Stock.** There is no bound on events: the state is finite, so all sequences
  of events are explored. Two transfers let a serial travel and come back, and a
  transfer be received in parts. Two serials are a label and its successor. Two
  administrators who replace one label by different ones need a third, as longer
  chains do, and that instance is too large for a run: `ReplacementChains` is a
  theorem and no run checks it.
* **Node API.** Three events with batches of two give a batch that overlaps the
  accepted ones in its first half; two requests in flight let a late original
  follow its repetition. Two incidents are a restore and a rotation, or two
  rotations that overlap; that a later rotation repairs what overlapping ones
  left needs three, and the theorem shows it. Three commands exceed the limit of
  two, and leave one on each side of a withheld one; a command above the budget
  is not in the run (section 4).
* **Products.** One item with two names is renamed, retaxed, deleted and brought
  back by two edits, and its second name makes another code, so that imports
  before and after a rename differ. One edit and one Sync now let two syncs
  overlap with a change in between.
* **Settings.** Two companies are what a switch needs, and two administrators are
  two requests at once; threads are interchangeable (`Begin` takes the first free
  one).
* **Users.** Two threads and a limit of two let attempts overlap at the limit,
  and two users can remove each other.
* **Backups.** Three copies exceed a retention of two by one while two jobs
  overlap.
* **Deployment.** Two ports allow a change of port and a change back before the
  route is set again. A route to neither the saved nor the previous port needs a
  third one; with three ports the run takes longer than it may, and the theorems
  hold for any number.

Symmetry is used only in runs that check no liveness property.

The theorems of section 7 hold without the bounds.

## 6. Fairness

* `tally_live`: weak fairness of the worker's loop (a thread that runs while
  the process does), of the end of a post (it has a timeout), of the passing of
  time that expires a lease, and of the operator who reconciles a voucher that
  is shown as requiring review. Failures are not fair.
* `node_sync`: Lite repeats its post (weak fairness); a post, a body or an
  answer that is sent again and again gets through in the end (strong fairness
  of `AuthenticateOf`, `IngestOf`, `AckOf`), as for any network that is not cut
  for ever. Nothing is assumed of the console.
* `node_commands`: the same for polls, the application of commands and
  acknowledgements. A Lite may restart at any time, also for ever.
* `products`: weak fairness of the worker's loop, of a console thread that has
  read (a request ends), and of Lite's polling. Nobody has to import anything
  or leave the sync on: `LiteFollowsTally` assumes that it stays on.
* `users`: time passes, so rows leave the lockout window (weak fairness of
  `FailureExpires`). Nothing is assumed of users.

## 7. What is proved

For every value of the constants that satisfies the `ASSUME` of the module:

| Theorem | Says | Assumes |
| --- | --- | --- |
| `TallySyncProofs!TypeCorrect`, `OneInDoubtHolds` | `TypeOK`, `OneInDoubt` | `ConstantsOK`, `NoRowOK` |
| `TallySyncProofs!AtMostOneImportHolds`, `StatusTellsTheTruthHolds`, `QueueImplementsCentralQueue` | `AtMostOneImport`, `StatusTellsTheTruth`, refinement of `CentralQueue` | the same |
| `NetworkIngestProofs!TypeCorrect`, `InTransitMatchesTransfersHolds`, `VouchersMatchStockHolds`, `MirrorAgreesHolds`, `SourceIsToldHolds`, `ReplacementChainsHolds`, `StockImplementsLedger` | the invariants, refinement of `StockLedger` | `IngestConstants`, `NoIntentAssumption` |
| `NodeSyncProofs!TypeCorrect`, `JournalGapFreeHolds`, `SentIsAcceptedHolds`, `JournalFollowsLiteHolds`, `OneCredentialHolds` | `TypeOK` and the four invariants | `SyncConstants` |
| `NodeCommandsProofs!TypeCorrect`, `AckedIsAppliedHolds`, `LiteAgreesHolds` | `TypeOK` and the two invariants | `CommandConstants` |
| `TallySettingsProofs!TypeCorrect`, `SettingsMatchActiveHolds`, `SwitchStopsPostingHolds` | `TypeOK`, the invariant and the action property | `SettingsConstants`, `NoRowAssumption` |
| `ConsoleUsersProofs!TypeCorrect`, `AttemptsBoundedHolds`, `LastManagerKeptHolds` | `TypeOK`, `AttemptsBounded`, the action property `LastManagerKept` | `UsersConstants`, `NoRowAssumption` |
| `TallyProductsProofs!TypeCorrect`, `EventsAcceptedHolds` | `TypeOK`, `EventsAccepted` | `ProductConstants`, `MarkerAssumption` |
| `OperationsProofs!OnlyVerifiedHolds`, `LastBackupKeptHolds` | `OnlyVerified`, `LastBackupKept` (and the types of `Backup`) | `BackupConstants` |
| `OperationsProofs!StoppedStaysHolds`, `SuccessServesHolds`, `RouteKnownHolds` | the three invariants of `Deployment` | `PortsAssumption` |

No theorem assumes anything beyond the `ASSUME`s of its module: any number of
threads and administrators work at once, and commits of results may fail. Where the code
keeps a claim only on a condition, the condition is part of the property
(section 4). Markers such as `NoRow` are assumed not to be rows, which holds for
model values in TLC.

The arguments:

* **TallySync.** `OneInDoubt` is inductive with `Posting` (a thread that waits
  for Tally has claimed its row) and `Listed` (threads work on rows that exist):
  together `QueueInv`. The claims about Tally need two more facts. `Clean`:
  nothing of a row that is being posted for the first time is in Tally.
  `CopiesOfClaims`: while nobody holds the lock, no session has a copy of an
  interrupted claim that it would write back, that is one that is neither SYNCING
  nor PENDING_SYNC (the unit of work writes PENDING_SYNC only over another value).
  Only a failed commit can break it, and only if such a copy exists at that
  moment, which is what `overtaken` records; a stop of the process ends all
  sessions. So the invariant is `TruthInv`: `QueueInv` always, the rest until
  `overtaken`.
* **NetworkIngest.** `StockInv` adds to the two invariants that transfer rows
  are well formed. It is what makes `Place`, the refinement mapping's CHOOSE of
  the transfer that carries a serial, well defined. For the labels,
  `LabelInv` is `MirrorAgrees` with `ReplacementChains`: neither is inductive
  alone, because a replacement is completed from the status in one table and
  marks both. `ToldInv` adds to `SourceIsTold` that a transfer id which is not in
  use has no receipts a new transfer could inherit; that receipts of one transfer
  are disjoint follows because a receipt is refused for serials that were
  already received, and those are what earlier receipts named.
* **NodeSync.** `SyncInv` adds that answers are true (`AnswersAreTrue`), also
  those that arrive after Master has moved on, and that requests carry what Lite
  recorded (`RequestsFollowLite`) as long as it was not restored. For the
  credentials, `CredentialInv` adds `RotatesActive` (a rotation has read its
  franchise as active): a request that writes on what it has read leaves one
  credential or none, whatever the ones before it left, and any other request
  puts its franchise into `overlapped`.
* **NodeCommands.** `CommandInv` is about order. Opt-in commands and the others
  are each applied in the order of ids (`InOrder`), because a poll's answer is
  closed under older commands that are not acknowledged (lemma `ListedClosed`),
  acknowledged commands are applied, and Lite works an answer off in order. The
  newest verdict is the one Master stores (`NewestVerdict`) and the last one
  applied is the one Lite holds (`NewestApplied`).
* **TallySettings.** `SettingsInv` adds `AllowedByRead`: what a request has read
  lets it go on. A commit on current rows keeps the two copies equal, and a
  switch on current rows makes them so; any other commit sets `raced`. The types
  hold without that case: no saved company gets the blank configuration, because
  a row that is written must still be there.
* **ConsoleUsers.** A thread that begins a sign-in has seen fewer than the
  limit of failures; the others can add at most one each. `AttemptsBounded`
  counts recorded failures and attempts in flight together, which makes it
  inductive with the types: beginning adds one to the second when the first is
  below the limit, recording moves one from the second to the first.
  `LastManagerKept` rests on `NotOneself`: a request that disables or deletes an
  account is never about its own author, so an author who is still entitled at
  the commit remains; a change of role access by a super administrator leaves
  that account.
* **TallyProducts.** `ProductsInv` adds `RowsStay`: products that a thread has
  read are there when it writes, since products are only added. `EventsAccepted`
  becomes inductive as `SentAccepted`, which includes the details on their way to
  Lite. A sync that finds a product's details as it has read them puts into the
  history what it replaces; one that does not puts the product into `overlapped`.
* **Backup.** The difficulty is that the newest copies by time, which pruning
  keeps, need not be the newest by content: a job that began earlier can end
  later. `OvertakenOnce` says that this happens at most once to any copy, because
  there are two processes and each runs one job at a time; so among the two
  newest of a folder one covers at least what any other covers, and a retention
  of two or more keeps it (lemmas on the newest elements of a finite set).
  `OffsiteCovered` carries this from the copy to another folder to the report.
* **Deployment.** `DeployInv` uses what a command has still to do as its program
  counter. `OnTrack` says which lists of steps each kind of command can have
  before it; `StopInForce` and `StartInForce` say what holds when a given number
  of steps is left: with one step of a stop left the task's process does not wait
  to listen, with none nothing runs, provided that the task is disabled and
  nothing was overlooked. Disabling before ending is what keeps RestartOnFailure
  out. `InSight` says that what was not overlooked runs for the saved port, so the
  wait finds it. For a start, once the port has been selected nothing but the
  task's process can answer on it until the server was seen to be healthy.
  `RouteFollows` ties the counted moves to the saved and previous port. The tables in the proofs (`Table`, `StopTable`, ...) say which step is
  next at which distance from the end; `Effects` says what a step may do, and
  `ProceedInv` combines the two once for all steps.

`BackupInv` and `DeployInv` and the other strengthenings were checked with TLC on
the instances of section 4 before they were proved; they are stated in the
modules they are about, and can be added to a `.cfg` as invariants.

### Checked by TLC only

The liveness properties `PendingIsServed`, `DoubtIsResolved`, `EventsArrive`,
`CommandsArrive`, `LiteFollowsTally` and `LockoutEnds`: the prover does not handle
fairness and ENABLED. Every invariant and action property of the passing runs
has a theorem.

## 8. What is not modelled

* Formatting, parsing and page rendering: the XML of vouchers and of Tally's
  answers, reports, templates, connection details. No property is about them.
* Validation of request bodies (`network_schemas.py`): an invalid request is
  rejected before anything changes, so it is no step.
* The rate limiter drops requests like a lossy network; expiry of credentials
  is not used by any caller in `app/`.
* A restore of Master behind what it acknowledged, which the backup guide asks
  an operator to reconcile, and a Lite restored behind commands it had
  acknowledged: both lose data by what they are.
* Schema upgrades (`services/schema.py`): the text of SQL statements.
* `services/voucher.py`: decimal arithmetic without state or concurrency, which
  the unit tests reach better than a bounded model.
* The Tally cache, users' access to Tally companies and the pages that read
  Tally (`services/tally_cache.py`, `services/tally_access.py`, most of
  `routers/tally_check.py`): each replaces rows that only pages show. Deleting a
  company also deletes the access rows of its users.
* SFTP party sync: its worker is not started in this deployment.
* `scripts/`, `client/` and the installing parts of `deploy.py` (Tailscale, file
  permissions): effects on the host. The scheduled task, port and route are
  modelled in `Deployment`.

## 9. Plan

1. A property of the frozen request that says what the code keeps of the comment
   at `tally.py:691-692` when a console Retry waits with an old copy, and runs for
   the disagreements of section 4 that have none.
2. `TallyProducts` composed with `NodeCommands`, so that withheld and lost
   PRODUCT_UPSERT commands and the sync meet in one model.
3. Allocation requests of `qr_allocation.py`: idempotence of the allocation id
   and the splitting into commands.
4. The replacement of rows in the Tally cache under a reader.
