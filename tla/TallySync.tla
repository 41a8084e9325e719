----------------------------- MODULE TallySync -----------------------------
(***************************************************************************)
(* The central Tally queue of app/services/tally.py, the retry worker of   *)
(* app/services/sync_worker.py and the Retry and Reconcile actions of the  *)
(* console.  A voucher batch is claimed in the database, posted to Tally   *)
(* and settled by a second commit; between the two the process may stop,   *)
(* the answer may be lost, and other threads hold ORM copies of rows that  *)
(* they read before they got _SYNC_LOCK.                                   *)
(*                                                                         *)
(* Abstractions.  A request XML is the configuration (settings and product *)
(* data) it was built from.  retry_count saturates at MaxRetries, which    *)
(* is exact: the code only asks whether it is below the maximum.  A lease  *)
(* is fresh or expired.  last_retry_at and created_at appear as the order  *)
(* the worker's ORDER BY gives.  Every batch has a type that Tally XML     *)
(* supports: _inventory_event creates all others CLOSED, and sync_batch    *)
(* returns at once for those, so lines 554-569 of tally.py are not         *)
(* reached.                                                                *)
(***************************************************************************)
EXTENDS Naturals, Sequences, FiniteSets

CONSTANTS
    Batch,        \* voucher batches
    Worker,       \* the retry worker's thread
    Console,      \* threads that serve "Retry" requests of the console
    Config,       \* configurations a voucher can be built from
    Unbuildable,  \* <<batch, configuration>> pairs build_voucher_xml rejects
    NoXml,        \* sync_request_xml is NULL
    NoRow,        \* the session holds no (unexpired) copy of the row
    NoThread,     \* nobody holds _SYNC_LOCK
    MaxRetries,   \* MAX_AUTOMATIC_TALLY_RETRIES
    Limit,        \* how many batches one worker pass takes
    MaxFaults,    \* bound: process stops and failed commits in a behaviour
    MaxEdits      \* bound: settings edits in a behaviour

Thread == {Worker} \cup Console

ASSUME ConstantsOK ==
    /\ Batch # {}
    /\ Worker \notin Console
    /\ NoThread \notin Thread
    /\ Unbuildable \subseteq Batch \X Config
    /\ NoXml \notin Config
    /\ MaxRetries \in Nat \ {0}
    /\ Limit \in Nat \ {0}
    /\ MaxFaults \in Nat
    /\ MaxEdits \in Nat

Status == {"ABSENT", "PENDING_SYNC", "SYNCING", "SYNCED", "FAILED",
           "REVIEW_REQUIRED"}

Xml == Config \cup {NoXml}

\* The columns of a batches row that the queue reads and writes;
\* status "ABSENT" stands for a row that does not exist yet.
Row == [status  : Status,
        retries : 0..MaxRetries,
        xml     : Xml,
        lease   : {"none", "fresh", "expired"}]

ASSUME NoRowOK == NoRow \notin Row

VARIABLES
    db,        \* the committed batches table
    before,    \* <<a, b>>: the worker's ORDER BY puts a before b
    tried,     \* batches whose last_retry_at is not NULL
    config,    \* settings and product data as committed
    enabled,   \* the setting tally_enabled
    todo,      \* per thread: batches it still has to pass to sync_batch
    sess,      \* per thread: unexpired copies of rows in its ORM session
    lock,      \* the holder of _SYNC_LOCK while it waits for Tally
    post,      \* the batch, request and claim_status of the running post
    delivered, \* per batch: a request Tally may still import (external)
    imports,   \* per batch: vouchers Tally has imported (external)
    overtaken, \* history: a commit failed while an old copy of its row was kept
    faults,
    edits

vars == <<db, before, tried, config, enabled, todo, sess, lock, post,
          delivered, imports, overtaken, faults, edits>>

queue    == <<before, tried>>
settings == <<config, enabled>>
tally    == <<delivered, imports>>
bounds   == <<overtaken, faults, edits>>

-----------------------------------------------------------------------------
NewRow == [status |-> "ABSENT", retries |-> 0, xml |-> NoXml, lease |-> "none"]

NoCopies == [b \in Batch |-> NoRow]

\* No request is being posted; the record names some batch only to have a value.
Idle == [batch |-> CHOOSE b \in Batch : TRUE, xml |-> NoXml, claim |-> "ABSENT"]

Init ==
    /\ db = [b \in Batch |-> NewRow]
    /\ before = {}
    /\ tried = {}
    /\ config \in Config
    /\ enabled \in BOOLEAN
    /\ todo = [t \in Thread |-> <<>>]
    /\ sess = [t \in Thread |-> NoCopies]
    /\ lock = NoThread
    /\ post = Idle
    /\ delivered = [b \in Batch |-> NoXml]
    /\ imports = [b \in Batch |-> 0]
    /\ overtaken = FALSE
    /\ faults = 0
    /\ edits = 0

\* Commit new values of the columns of row b.
Write(b, status, retries, xml, lease) ==
    db' = [db EXCEPT ![b] = [status |-> status, retries |-> retries,
                             xml |-> xml, lease |-> lease]]

Created == {b \in Batch : db[b].status # "ABSENT"}

\* _inventory_event commits a batch PENDING_SYNC.  Its last_retry_at is NULL:
\* it is served after the older untried batches and before the tried ones.
Enqueue(b) ==
    /\ b \notin Created
    /\ Write(b, "PENDING_SYNC", 0, NoXml, "none")
    /\ before' = before \cup ((Created \ tried) \X {b})
                        \cup ({b} \X (Created \cap tried))
    /\ UNCHANGED <<tried, settings, todo, sess, lock, post, tally, bounds>>

\* An administrator edits the settings or a product.
EditConfig(c) ==
    /\ edits < MaxEdits
    /\ c # config
    /\ config' = c
    /\ edits' = edits + 1
    /\ UNCHANGED <<db, queue, enabled, todo, sess, lock, post, tally, overtaken, faults>>

\* An administrator switches Tally sync on or off.
ToggleTally ==
    /\ edits < MaxEdits
    /\ enabled' = ~enabled
    /\ edits' = edits + 1
    /\ UNCHANGED <<db, queue, config, todo, sess, lock, post, tally, overtaken, faults>>

-----------------------------------------------------------------------------
(* Who asks for a batch to be synced.                                      *)

\* Mutant of Retryable: interrupted claims are not picked up again.
RetryableIfPending == {b \in Batch : db[b].status = "PENDING_SYNC"}

Retryable == {b \in Batch : \/ db[b].status = "PENDING_SYNC"
                            \/ /\ db[b].status = "SYNCING"
                               /\ db[b].lease # "fresh"}

\* retry_pending_batches: with Tally enabled, load the first Limit retryable
\* batches in last_retry_at order.  s is that page of the query.
FirstInOrder(s) ==
    /\ \A i, j \in DOMAIN s : i < j => <<s[i], s[j]>> \in before
    /\ \A i \in DOMAIN s : \A b \in Retryable :
          b \notin {s[k] : k \in DOMAIN s} => <<s[i], b>> \in before

Scan ==
    /\ enabled
    /\ todo[Worker] = <<>>
    /\ \E n \in 1..Limit : \E s \in [1..n -> Retryable] :
          /\ n = Limit \/ Retryable = {s[k] : k \in 1..n}
          /\ FirstInOrder(s)
          /\ todo' = [todo EXCEPT ![Worker] = s]
          /\ sess' = [sess EXCEPT ![Worker] =
                        [b \in Batch |-> IF \E k \in 1..n : s[k] = b
                                         THEN db[b] ELSE NoRow]]
    /\ UNCHANGED <<db, queue, settings, lock, post, tally, bounds>>

\* retry_network_tally_batch: load the batch and, if its status allows a
\* retry, call sync_batch (which then waits for the lock).
LoadForRetry(t, b) ==
    /\ todo[t] = <<>>
    /\ db[b].status \in {"PENDING_SYNC", "FAILED"}
    /\ todo' = [todo EXCEPT ![t] = <<b>>]
    /\ sess' = [sess EXCEPT ![t] = [NoCopies EXCEPT ![b] = db[b]]]
    /\ UNCHANGED <<db, queue, settings, lock, post, tally, bounds>>

-----------------------------------------------------------------------------
(* sync_batch and _sync_batch_locked, up to the commit of the claim.  The  *)
(* lock makes this one step: only lock holders write existing rows.        *)

\* What the session of t sees of row b: its copy, or a fresh read if the
\* copy is expired or was never loaded.
Seen(t, b) == IF sess[t][b] = NoRow THEN db[b] ELSE sess[t][b]

Settled(b) == db[b].status \in {"SYNCED", "REVIEW_REQUIRED"}

\* Mutant of QueueHeld: a review does not hold the queue.
QueueNeverHeld == FALSE

QueueHeld == \E b \in Batch : db[b].status = "REVIEW_REQUIRED"

\* Mutant of Interrupted: other claims are not looked at.
InterruptedIgnored(b) == {}

Interrupted(b) == {a \in Batch \ {b} : db[a].status = "SYNCING"}

\* Thread t has the lock for the batch at the head of its list.
Serving(t) == lock = NoThread /\ todo[t] # <<>>

\* sync_batch hands _sync_batch_locked an interrupted batch if there is one,
\* else its own.
Handed(t, a) ==
    LET b == Head(todo[t]) IN
    /\ Serving(t)
    /\ ~Settled(b)
    /\ ~QueueHeld
    /\ a \in IF Interrupted(b) = {} THEN {b} ELSE Interrupted(b)

\* The row of a as _sync_batch_locked finds it.  Its own batch is refreshed
\* only when the status has changed since it was loaded.
RowOf(t, a) == IF a = Head(todo[t]) /\ Seen(t, a).status # db[a].status
               THEN db[a] ELSE Seen(t, a)

\* The session of t after the call, if nothing was committed: copies it
\* touched are loaded now.  The session closes with the last batch.
KeepCopies(t, copies) ==
    /\ todo' = [todo EXCEPT ![t] = Tail(@)]
    /\ sess' = [sess EXCEPT ![t] = IF Tail(todo[t]) = <<>> THEN NoCopies ELSE copies]

\* The copies of t once row b has been read.
Loaded(t, b) == [sess[t] EXCEPT ![b] = Seen(t, b)]

\* Commit and rollback expire every copy of the session.
ExpireCopies(t) == KeepCopies(t, NoCopies)

\* Mutant of Touch: last_retry_at is not written.
TouchForgotten(a) == UNCHANGED <<tried, before>>

\* last_retry_at = now: a becomes the last in the worker's order.
Touch(a) ==
    /\ tried' = tried \cup {a}
    /\ before' = {p \in before : p[1] # a /\ p[2] # a} \cup ((Created \ {a}) \X {a})

NextRetry(row) == IF row.retries < MaxRetries THEN row.retries + 1 ELSE row.retries

BuildVoucherXml(a) == IF <<a, config>> \in Unbuildable THEN NoXml ELSE config

\* A rejected voucher is rebuilt; any other keeps its frozen request.
RequestXml(a, row) ==
    IF row.status = "FAILED" \/ row.xml = NoXml THEN BuildVoucherXml(a) ELSE row.xml

\* The batch is settled, or another import needs reconciliation.
ReturnAtOnce(t) ==
    LET b == Head(todo[t]) IN
    /\ Serving(t)
    /\ Settled(b) \/ QueueHeld
    /\ KeepCopies(t, Loaded(t, b))
    /\ UNCHANGED <<db, queue, settings, lock, post, tally, bounds>>

\* A SYNCING row whose lease still runs is left alone.
LeaseHeld(t, a) ==
    LET row == RowOf(t, a) IN
    /\ Handed(t, a)
    /\ row.status = "SYNCING" /\ row.lease = "fresh"
    /\ KeepCopies(t, [Loaded(t, Head(todo[t])) EXCEPT ![a] = row])
    /\ UNCHANGED <<db, queue, settings, lock, post, tally, bounds>>

\* Mutant of LeaseExpired: an interrupted import is simply queued again.
LeaseExpiredRequeued(t, a) ==
    LET row == RowOf(t, a) IN
    /\ Handed(t, a)
    /\ row.status = "SYNCING" /\ row.lease # "fresh"
    /\ Write(a, "PENDING_SYNC", db[a].retries, db[a].xml, "none")
    /\ ExpireCopies(t)
    /\ UNCHANGED <<queue, settings, lock, post, tally, bounds>>

\* An interrupted import needs an operator: its outcome is unknown.
LeaseExpired(t, a) ==
    LET row == RowOf(t, a) IN
    /\ Handed(t, a)
    /\ row.status = "SYNCING" /\ row.lease # "fresh"
    /\ Write(a, "REVIEW_REQUIRED", db[a].retries, db[a].xml, "none")
    /\ ExpireCopies(t)
    /\ UNCHANGED <<queue, settings, lock, post, tally, bounds>>

\* Mutant of PendingIn: the batch goes back to a status the queue never scans.
PendingInSubmitted(a, row) == IF row.status = "PENDING_SYNC" THEN db[a].status ELSE "SUBMITTED"

\* The session writes status = PENDING_SYNC only if its copy had another
\* value: the unit of work emits changed columns.
PendingIn(a, row) == IF row.status = "PENDING_SYNC" THEN db[a].status ELSE "PENDING_SYNC"

\* build_voucher_xml raises: the batch waits for a corrected configuration.
BuildFails(t, a) ==
    LET row == RowOf(t, a) IN
    /\ Handed(t, a)
    /\ row.status # "SYNCING"
    /\ RequestXml(a, row) = NoXml
    /\ Write(a, PendingIn(a, row), NextRetry(row), db[a].xml, db[a].lease)
    /\ Touch(a)
    /\ ExpireCopies(t)
    /\ UNCHANGED <<settings, lock, post, tally, bounds>>

\* Tally is disabled: the request is frozen and the batch stays pending.
TallyDisabled(t, a) ==
    LET row == RowOf(t, a)
        xml == RequestXml(a, row) IN
    /\ Handed(t, a)
    /\ row.status # "SYNCING"
    /\ xml # NoXml
    /\ ~enabled
    /\ Write(a, PendingIn(a, row), NextRetry(row),
             IF xml = row.xml THEN db[a].xml ELSE xml, db[a].lease)
    /\ Touch(a)
    /\ ExpireCopies(t)
    /\ UNCHANGED <<settings, lock, post, tally, bounds>>

\* UPDATE ... WHERE status = claim_status, committed before the post.
Claim(t, a) ==
    LET row == RowOf(t, a)
        xml == RequestXml(a, row) IN
    /\ Handed(t, a)
    /\ row.status # "SYNCING"
    /\ xml # NoXml
    /\ enabled
    /\ db[a].status = row.status
    /\ Write(a, "SYNCING", NextRetry(row), xml, "fresh")
    /\ Touch(a)
    /\ lock' = t
    /\ post' = [batch |-> a, xml |-> xml, claim |-> row.status]
    /\ UNCHANGED <<settings, todo, sess, tally, bounds>>

\* The row is no longer in the claimed status: rollback.
ClaimLost(t, a) ==
    LET row == RowOf(t, a) IN
    /\ Handed(t, a)
    /\ row.status # "SYNCING"
    /\ RequestXml(a, row) # NoXml
    /\ enabled
    /\ db[a].status # row.status
    /\ ExpireCopies(t)
    /\ UNCHANGED <<db, queue, settings, lock, post, tally, bounds>>

-----------------------------------------------------------------------------
(* post_to_tally and the commit of its result.  t is lock.                 *)

\* The result is committed, the lock released, the session expired.
Finish(t, status) ==
    /\ lock = t
    /\ Write(post.batch, status, db[post.batch].retries, db[post.batch].xml, "none")
    /\ lock' = NoThread
    /\ post' = Idle
    /\ ExpireCopies(t)

\* Connection refused: Tally never saw the voucher.
PostRefused(t) ==
    /\ Finish(t, IF post.claim # "FAILED" /\ db[post.batch].retries < MaxRetries
                 THEN "PENDING_SYNC" ELSE "FAILED")
    /\ UNCHANGED <<queue, settings, tally, bounds>>

\* Tally answers that it imported nothing.
PostRejected(t) ==
    /\ Finish(t, "FAILED")
    /\ UNCHANGED <<queue, settings, tally, bounds>>

\* A request that left this process may be lost or may still be imported.
MayBeDelivered == \E x \in {NoXml, post.xml} :
    delivered' = [delivered EXCEPT ![post.batch] = x]

\* Mutant of PostUnknown: a timeout is retried like a refused connection.
PostUnknownRetried(t) ==
    /\ Finish(t, "PENDING_SYNC")
    /\ MayBeDelivered
    /\ UNCHANGED <<queue, settings, imports, bounds>>

\* Timeout, broken connection, unreadable or contradictory answer.
PostUnknown(t) ==
    /\ Finish(t, "REVIEW_REQUIRED")
    /\ MayBeDelivered
    /\ UNCHANGED <<queue, settings, imports, bounds>>

\* Tally reports the voucher as created or altered.
PostImported(t) ==
    /\ Finish(t, "SYNCED")
    /\ imports' = [imports EXCEPT ![post.batch] = @ + 1]
    /\ UNCHANGED <<queue, settings, delivered, bounds>>

\* Another session keeps a copy of the posted row that is older than its
\* claim and would be written back (a pending copy would not: PendingIn).
OldCopyElsewhere(t) == \E u \in Thread \ {t} :
    /\ sess[u][post.batch] # NoRow
    /\ sess[u][post.batch].status \notin {"PENDING_SYNC", "SYNCING"}

\* The commit of the result raises (the database stays locked beyond
\* busy_timeout): the thread unwinds and the row keeps its claim.
ResultCommitFails(t) ==
    /\ lock = t
    /\ faults < MaxFaults
    /\ faults' = faults + 1
    /\ MayBeDelivered
    /\ lock' = NoThread
    /\ post' = Idle
    /\ todo' = [todo EXCEPT ![t] = <<>>]
    /\ sess' = [sess EXCEPT ![t] = NoCopies]
    /\ overtaken' = (overtaken \/ OldCopyElsewhere(t))
    /\ UNCHANGED <<db, queue, settings, imports, edits>>

\* The process stops at any point and is started again.
Crash ==
    /\ faults < MaxFaults
    /\ faults' = faults + 1
    /\ IF lock = NoThread THEN UNCHANGED delivered ELSE MayBeDelivered
    /\ lock' = NoThread
    /\ post' = Idle
    /\ todo' = [t \in Thread |-> <<>>]
    /\ sess' = [t \in Thread |-> NoCopies]
    /\ UNCHANGED <<db, queue, settings, imports, overtaken, edits>>

\* SYNC_LEASE_MINUTES pass: the claim is old in the row and in every copy.
Expire(row) == IF row # NoRow /\ row.lease = "fresh"
               THEN [row EXCEPT !.lease = "expired"] ELSE row

LeaseRunsOut(b) ==
    /\ db[b].lease = "fresh"
    /\ db' = [db EXCEPT ![b] = Expire(db[b])]
    /\ sess' = [t \in Thread |-> [sess[t] EXCEPT ![b] = Expire(sess[t][b])]]
    /\ UNCHANGED <<queue, settings, todo, lock, post, tally, bounds>>

-----------------------------------------------------------------------------
\* Tally (external) imports a request it still holds, or drops it.
TallyImports(b) ==
    /\ delivered[b] # NoXml
    /\ imports' = [imports EXCEPT ![b] = @ + 1]
    /\ delivered' = [delivered EXCEPT ![b] = NoXml]
    /\ UNCHANGED <<db, queue, settings, todo, sess, lock, post, bounds>>

TallyDrops(b) ==
    /\ delivered[b] # NoXml
    /\ delivered' = [delivered EXCEPT ![b] = NoXml]
    /\ UNCHANGED <<db, queue, settings, todo, sess, lock, post, imports, bounds>>

\* reconcile_batch: the operator has looked the voucher up in Tally.  The
\* operator is assumed to look when Tally is done with the request and to
\* report what Tally shows; nothing in the code can check that.
Reconcile(b, imported) ==
    /\ lock = NoThread
    /\ db[b].status = "REVIEW_REQUIRED"
    /\ delivered[b] = NoXml
    /\ imported = (imports[b] > 0)
    /\ IF imported THEN Write(b, "SYNCED", db[b].retries, db[b].xml, "none")
                   ELSE Write(b, "PENDING_SYNC", 0, db[b].xml, "none")
    /\ UNCHANGED <<queue, settings, todo, sess, lock, post, tally, bounds>>

-----------------------------------------------------------------------------
SyncBatch(t) ==
    \/ ReturnAtOnce(t)
    \/ \E a \in Batch : \/ LeaseHeld(t, a)
                        \/ LeaseExpired(t, a)
                        \/ BuildFails(t, a)
                        \/ TallyDisabled(t, a)
                        \/ Claim(t, a)
                        \/ ClaimLost(t, a)

PostResult(t) ==
    \/ PostRefused(t)
    \/ PostRejected(t)
    \/ PostUnknown(t)
    \/ PostImported(t)

TallyStep(b) == TallyImports(b) \/ TallyDrops(b)

Operator(b) == \E imported \in BOOLEAN : Reconcile(b, imported)

Next ==
    \/ \E b \in Batch : Enqueue(b) \/ LeaseRunsOut(b) \/ TallyStep(b) \/ Operator(b)
    \/ \E c \in Config : EditConfig(c)
    \/ ToggleTally
    \/ Scan
    \/ \E t \in Console, b \in Batch : LoadForRetry(t, b)
    \/ \E t \in Thread : SyncBatch(t) \/ PostResult(t) \/ ResultCommitFails(t)
    \/ Crash

Spec == Init /\ [][Next]_vars

\* The worker's loop runs for ever and a post ends within its timeout; time
\* passes; Tally settles what it holds; the operator looks at reviews.
Fairness ==
    /\ WF_vars(Scan)
    /\ WF_vars(SyncBatch(Worker))
    /\ WF_vars(PostResult(Worker))
    /\ \A b \in Batch : /\ WF_vars(LeaseRunsOut(b))
                        /\ WF_vars(TallyStep(b))
                        /\ WF_vars(Operator(b))

FairSpec == Spec /\ Fairness

-----------------------------------------------------------------------------
(* Properties.                                                             *)

TypeOK ==
    /\ db \in [Batch -> Row]
    /\ before \subseteq Batch \X Batch
    /\ tried \subseteq Batch
    /\ config \in Config
    /\ enabled \in BOOLEAN
    /\ todo \in [Thread -> Seq(Batch)]
    /\ sess \in [Thread -> [Batch -> Row \cup {NoRow}]]
    /\ lock \in Thread \cup {NoThread}
    /\ post \in [batch : Batch, xml : Xml, claim : Status]
    /\ delivered \in [Batch -> Xml]
    /\ imports \in [Batch -> Nat]
    /\ overtaken \in BOOLEAN
    /\ faults \in 0..MaxFaults
    /\ edits \in 0..MaxEdits

\* Batches whose import has begun and is not known to have ended.
InDoubt == {b \in Batch : db[b].status \in {"SYNCING", "REVIEW_REQUIRED"}}

\* The one central company never has two imports in doubt at a time: while
\* a voucher is being posted, was interrupted or awaits reconciliation,
\* sync_batch starts no other, whatever stale rows its callers loaded.
OneInDoubt == \A a, b \in InDoubt : a = b

ImportedOnce == \A b \in Batch : imports[b] + (IF delivered[b] = NoXml THEN 0 ELSE 1) <= 1

\* Tally imports a voucher at most once, across retries by the worker and
\* the console, lost answers, restarts and failed commits of results,
\* provided that reconciliations tell the truth and that no commit failed
\* while another thread kept an older copy of that row (_sync_batch_locked
\* trusts such a copy; run tally_lost shows what follows).
AtMostOneImport == ~overtaken => ImportedOnce

StatusTrue == \A b \in Batch :
    /\ db[b].status = "SYNCED" => imports[b] = 1
    /\ db[b].status \in {"PENDING_SYNC", "FAILED"} =>
          imports[b] = 0 /\ delivered[b] = NoXml

\* A batch is SYNCED only if Tally has its voucher, and a batch that the
\* queue would post again (PENDING_SYNC, FAILED) has left nothing in Tally,
\* with the same exception.
StatusTellsTheTruth == ~overtaken => StatusTrue

\* "Prevent request/retry races from posting the same voucher twice"
\* (tally.py:484): a batch that the queue would post again has left nothing
\* in Tally, whatever fails.
NeverPostedTwice == StatusTrue

\* The worker cannot pass over a voucher for ever: while Tally is enabled
\* and the voucher can be built it leaves PENDING_SYNC, even if others in
\* front of it can never be built.
PendingIsServed == \A b \in Batch :
    []<>(\/ ~enabled
         \/ <<b, config>> \in Unbuildable
         \/ db[b].status # "PENDING_SYNC")

\* An import in doubt does not hold the central queue for ever: an
\* interrupted claim reaches review when its lease runs out, and a review
\* ends with the operator's answer.
DoubtIsResolved == \A b \in Batch : []<>(~enabled \/ b \notin InDoubt)

-----------------------------------------------------------------------------
(* The queue implements CentralQueue.                                      *)

PhaseOf(status) ==
    CASE status = "ABSENT" -> "absent"
      [] status \in {"PENDING_SYNC", "FAILED"} -> "waiting"
      [] status \in {"SYNCING", "REVIEW_REQUIRED"} -> "doubt"
      [] status = "SYNCED" -> "done"

CQ == INSTANCE CentralQueue
        WITH phase <- [b \in Batch |-> PhaseOf(db[b].status)], vouchers <- imports

\* Every step of the threads, of Tally and of the operator is a step of
\* CentralQueue or changes nothing it can see: one import in doubt at a
\* time, given back only if Tally has no voucher, done only if it has one.
\* It holds until a commit fails under an old copy of its row (overtaken).
ImplementsCentralQueue == CQ!Init /\ [][overtaken' \/ CQ!Next]_(CQ!vars)

-----------------------------------------------------------------------------
(* The inductive invariants of the proofs in TallySyncProofs.              *)

\* A thread that waits for Tally has claimed its row and is not done.
Posting ==
    lock # NoThread => db[post.batch].status = "SYNCING" /\ todo[lock] # <<>>

\* Threads only work on rows that exist.
Listed == \A t \in Thread : \A i \in 1..Len(todo[t]) :
    db[todo[t][i]].status # "ABSENT"

\* Holds whether or not a commit can fail.
QueueInv == TypeOK /\ OneInDoubt /\ Posting /\ Listed

\* Nothing of a row that is being posted or does not exist is in Tally.
Clean ==
    /\ \A b \in Batch : db[b].status = "ABSENT" => imports[b] = 0 /\ delivered[b] = NoXml
    /\ lock # NoThread => imports[post.batch] = 0 /\ delivered[post.batch] = NoXml

\* A copy of an interrupted claim says so, or is pending and thus harmless.
CopiesOfClaims ==
    lock = NoThread =>
        \A t \in Thread, b \in Batch :
            db[b].status = "SYNCING" /\ sess[t][b] # NoRow =>
                sess[t][b].status \in {"PENDING_SYNC", "SYNCING"}

ImportInv == QueueInv /\ ImportedOnce /\ StatusTrue /\ Clean /\ CopiesOfClaims

\* Holds in every state.
TruthInv == QueueInv /\ (~overtaken => ImportInv)
=============================================================================
