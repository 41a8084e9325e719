-------------------------- MODULE TallySyncProofs --------------------------
(* Proofs that the central Tally queue keeps its safety properties and     *)
(* implements CentralQueue for any number of batches, threads, faults and  *)
(* edits.                                                                  *)
EXTENDS TallySync, TLAPS

USE ConstantsOK, NoRowOK DEF Thread, Write

-----------------------------------------------------------------------------
(* Facts about the helpers of sync_batch.                                  *)

\* The batch at the head of a thread's list is a row that exists.
LEMMA HeadExists ==
    ASSUME QueueInv, NEW t \in Thread, todo[t] # <<>>
    PROVE  Head(todo[t]) \in Batch /\ db[Head(todo[t])].status # "ABSENT"
<1>1. todo[t] \in Seq(Batch)
  BY DEF QueueInv, TypeOK
<1>2. Len(todo[t]) >= 1 /\ Head(todo[t]) = todo[t][1]
  BY <1>1
<1>. QED  BY <1>1, <1>2 DEF QueueInv, Listed

\* A SYNCING copy is handed on only for a claimed row.  Any other copy that
\* agrees with the row is of the thread's own batch, pending or failed,
\* while no import is in doubt; if it disagrees, the row is claimed.
LEMMA HandedRow ==
    ASSUME QueueInv, NEW t \in Thread, NEW a \in Batch, Handed(t, a)
    PROVE  /\ RowOf(t, a) \in Row
           /\ RowOf(t, a).status = "SYNCING" => db[a].status = "SYNCING"
           /\ RowOf(t, a).status # "SYNCING" =>
                \/ /\ RowOf(t, a).status = db[a].status
                   /\ db[a].status \in {"PENDING_SYNC", "FAILED"}
                   /\ InDoubt = {}
                \/ /\ db[a].status = "SYNCING"
                   /\ sess[t][a] # NoRow
                   /\ RowOf(t, a) = sess[t][a]
<1> DEFINE b == Head(todo[t])
<1>1. b \in Batch /\ db[b].status # "ABSENT"
  BY HeadExists DEF Handed, Serving
<1>2. RowOf(t, a) \in Row
  BY DEF QueueInv, TypeOK, RowOf, Seen
<1>3. CASE Interrupted(b) = {}
  <2>1. a = b
    BY <1>3 DEF Handed
  <2>2. RowOf(t, a).status = db[a].status
    BY <2>1 DEF RowOf
  <2>3. db[a].status \in {"PENDING_SYNC", "FAILED", "SYNCING"}
    BY <1>1, <2>1 DEF Handed, Settled, QueueInv, TypeOK, Row, Status
  <2>4. db[a].status # "SYNCING" => InDoubt = {}
    BY <1>3, <2>1 DEF Handed, QueueHeld, InDoubt, Interrupted
  <2>. QED  BY <1>2, <2>2, <2>3, <2>4
<1>4. CASE Interrupted(b) # {}
  <2>1. a # b /\ db[a].status = "SYNCING"
    BY <1>4 DEF Handed, Interrupted
  <2>2. RowOf(t, a) = Seen(t, a)
    BY <2>1 DEF RowOf
  <2>. QED  BY <1>2, <2>1, <2>2 DEF Seen
<1>. QED  BY <1>3, <1>4

\* What the end of a sync_batch call does to the threads' lists and sessions.
LEMMA KeepCopiesEffect ==
    ASSUME QueueInv, NEW t \in Thread, todo[t] # <<>>,
           NEW copies \in [Batch -> Row \cup {NoRow}],
           KeepCopies(t, copies)
    PROVE  /\ todo' \in [Thread -> Seq(Batch)]
           /\ sess' \in [Thread -> [Batch -> Row \cup {NoRow}]]
           /\ \A u \in Thread : \A i \in 1..Len(todo'[u]) :
                 \E j \in 1..Len(todo[u]) : todo'[u][i] = todo[u][j]
           /\ \A u \in Thread \ {t} : sess'[u] = sess[u]
           /\ \A b \in Batch : sess'[t][b] # NoRow => sess'[t][b] = copies[b]
<1>1. todo[t] \in Seq(Batch)
  BY DEF QueueInv, TypeOK
<1>2. /\ Tail(todo[t]) \in Seq(Batch)
      /\ Len(Tail(todo[t])) = Len(todo[t]) - 1
      /\ \A i \in 1..Len(Tail(todo[t])) : Tail(todo[t])[i] = todo[t][i + 1]
  BY <1>1
<1>3. todo' = [todo EXCEPT ![t] = Tail(todo[t])]
  BY DEF KeepCopies
<1>4. todo'[t] = Tail(todo[t]) /\ \A u \in Thread \ {t} : todo'[u] = todo[u]
  BY <1>3 DEF QueueInv, TypeOK
<1>5. NoCopies \in [Batch -> Row \cup {NoRow}] /\ \A b \in Batch : NoCopies[b] = NoRow
  BY DEF NoCopies
<1>6. /\ sess' \in [Thread -> [Batch -> Row \cup {NoRow}]]
      /\ \A u \in Thread \ {t} : sess'[u] = sess[u]
      /\ \A b \in Batch : sess'[t][b] # NoRow => sess'[t][b] = copies[b]
  BY <1>4, <1>5 DEF KeepCopies, QueueInv, TypeOK
<1>7. \A i \in 1..Len(todo'[t]) : \E j \in 1..Len(todo[t]) : todo'[t][i] = todo[t][j]
  <2> SUFFICES ASSUME NEW i \in 1..Len(Tail(todo[t]))
               PROVE  \E j \in 1..Len(todo[t]) : Tail(todo[t])[i] = todo[t][j]
    BY <1>4
  <2>1. i + 1 \in 1..Len(todo[t])
    BY <1>1, <1>2
  <2>. QED  BY <1>2, <2>1
<1>8. todo' \in [Thread -> Seq(Batch)]
  BY <1>2, <1>3 DEF QueueInv, TypeOK
<1>. QED  BY <1>4, <1>6, <1>7, <1>8, ZenonT(60)

\* A call that commits or rolls back leaves no copy in its session.
LEMMA ExpireCopiesEffect ==
    ASSUME QueueInv, NEW t \in Thread, todo[t] # <<>>, ExpireCopies(t)
    PROVE  /\ todo' \in [Thread -> Seq(Batch)]
           /\ sess' \in [Thread -> [Batch -> Row \cup {NoRow}]]
           /\ \A u \in Thread : \A i \in 1..Len(todo'[u]) :
                 \E j \in 1..Len(todo[u]) : todo'[u][i] = todo[u][j]
           /\ \A u \in Thread \ {t} : sess'[u] = sess[u]
           /\ \A b \in Batch : sess'[t][b] = NoRow
<1>1. NoCopies \in [Batch -> Row \cup {NoRow}] /\ \A b \in Batch : NoCopies[b] = NoRow
  BY DEF NoCopies
<1>2. KeepCopies(t, NoCopies)
  BY DEF ExpireCopies
<1>3. /\ todo' \in [Thread -> Seq(Batch)]
      /\ sess' \in [Thread -> [Batch -> Row \cup {NoRow}]]
      /\ \A u \in Thread : \A i \in 1..Len(todo'[u]) :
            \E j \in 1..Len(todo[u]) : todo'[u][i] = todo[u][j]
      /\ \A u \in Thread \ {t} : sess'[u] = sess[u]
      /\ \A b \in Batch : sess'[t][b] # NoRow => sess'[t][b] = NoCopies[b]
  BY <1>1, <1>2, KeepCopiesEffect, Zenon
<1>. QED  BY <1>1, <1>3

\* The list of a thread shrinks and no row disappears: Listed is kept.
LEMMA ListedKept ==
    ASSUME QueueInv,
           \A u \in Thread : \A i \in 1..Len(todo'[u]) :
              \E j \in 1..Len(todo[u]) : todo'[u][i] = todo[u][j],
           \A b \in Batch : db[b].status # "ABSENT" => db'[b].status # "ABSENT"
    PROVE  Listed'
<1> SUFFICES ASSUME NEW u \in Thread, NEW i \in 1..Len(todo'[u])
             PROVE  db'[todo'[u][i]].status # "ABSENT"
  BY DEF Listed
<1>1. PICK j \in 1..Len(todo[u]) : todo'[u][i] = todo[u][j]
  OBVIOUS
<1>2. todo[u] \in Seq(Batch)
  BY DEF QueueInv, TypeOK
<1>3. todo[u][j] \in Batch /\ db[todo[u][j]].status # "ABSENT"
  BY <1>2 DEF QueueInv, Listed
<1>. QED  BY <1>1, <1>3

-----------------------------------------------------------------------------
(* QueueInv is inductive.                                                  *)

LEMMA QueueInvInit == Init => QueueInv
<1> SUFFICES ASSUME Init PROVE QueueInv
  OBVIOUS
<1>1. NewRow \in Row /\ NewRow.status = "ABSENT"
  BY DEF NewRow, Row, Status, Xml
<1>2. Idle \in [batch : Batch, xml : Xml, claim : Status]
  BY DEF Idle, Xml, Status
<1>0. overtaken \in BOOLEAN /\ enabled \in BOOLEAN
  BY Zenon DEF Init
<1>3. TypeOK
  BY <1>0, <1>1, <1>2 DEF Init, TypeOK, NoCopies, Xml
<1>4. OneInDoubt
  BY <1>1 DEF Init, OneInDoubt, InDoubt
<1>5. Posting
  BY DEF Init, Posting
<1>6. Listed
  BY DEF Init, Listed
<1>. QED  BY <1>3, <1>4, <1>5, <1>6 DEF QueueInv

\* A step of sync_batch: the thread t at work, nothing posted.
LEMMA QueueInvSyncBatch ==
    ASSUME QueueInv, NEW t \in Thread, SyncBatch(t)
    PROVE  QueueInv'
<1> USE DEF Row, Status, Xml
<1>1. CASE ReturnAtOnce(t)
  <2> DEFINE b == Head(todo[t])
             copies == Loaded(t, b)
  <2>1. todo[t] # <<>> /\ b \in Batch
    BY <1>1, HeadExists DEF ReturnAtOnce, Serving
  <2>2. copies \in [Batch -> Row \cup {NoRow}]
    BY <2>1 DEF Loaded, QueueInv, TypeOK, Seen
  <2>3. KeepCopies(t, copies)
    BY <1>1 DEF ReturnAtOnce
  <2>4. TypeOK' /\ Listed'
    BY <1>1, <2>1, <2>2, <2>3, KeepCopiesEffect, ListedKept
       DEF ReturnAtOnce, QueueInv, TypeOK, queue, settings, tally, bounds
  <2>5. OneInDoubt' /\ Posting'
    BY <1>1 DEF ReturnAtOnce, Serving, QueueInv, OneInDoubt, InDoubt, Posting
  <2>. QED  BY <2>4, <2>5 DEF QueueInv
<1>2. ASSUME NEW a \in Batch, LeaseHeld(t, a) PROVE QueueInv'
  <2> DEFINE b == Head(todo[t])
             copies == [Loaded(t, b) EXCEPT ![a] = RowOf(t, a)]
  <2>1. todo[t] # <<>> /\ b \in Batch /\ RowOf(t, a) \in Row
    BY <1>2, HeadExists, HandedRow DEF LeaseHeld, Handed, Serving
  <2>2. copies \in [Batch -> Row \cup {NoRow}]
    <3>1. Loaded(t, b) \in [Batch -> Row \cup {NoRow}]
      BY <2>1, SMTT(60) DEF Loaded, QueueInv, TypeOK, Seen
    <3>. QED  BY <2>1, <3>1
  <2>3. KeepCopies(t, copies)
    BY <1>2 DEF LeaseHeld
  <2>4. TypeOK' /\ Listed'
    BY <1>2, <2>1, <2>2, <2>3, KeepCopiesEffect, ListedKept
       DEF LeaseHeld, QueueInv, TypeOK, queue, settings, tally, bounds
  <2>5. OneInDoubt' /\ Posting'
    BY <1>2 DEF LeaseHeld, Handed, Serving, QueueInv, OneInDoubt, InDoubt, Posting
  <2>. QED  BY <2>4, <2>5 DEF QueueInv
<1>3. ASSUME NEW a \in Batch, LeaseExpired(t, a) PROVE QueueInv'
  <2>1. todo[t] # <<>> /\ db[a].status = "SYNCING"
    BY <1>3, HandedRow DEF LeaseExpired, Handed, Serving
  <2>2. ExpireCopies(t)
    BY <1>3 DEF LeaseExpired
  <2>3. /\ db' \in [Batch -> Row]
        /\ db'[a].status = "REVIEW_REQUIRED"
        /\ \A b \in Batch \ {a} : db'[b] = db[b]
    BY <1>3 DEF LeaseExpired, QueueInv, TypeOK
  <2>4. TypeOK' /\ Listed'
    BY <1>3, <2>1, <2>2, <2>3, ExpireCopiesEffect, ListedKept
       DEF LeaseExpired, QueueInv, TypeOK, queue, settings, tally, bounds
  <2>5. OneInDoubt'
    BY <2>1, <2>3 DEF QueueInv, OneInDoubt, InDoubt
  <2>6. Posting'
    BY <1>3 DEF LeaseExpired, Handed, Serving, Posting
  <2>. QED  BY <2>4, <2>5, <2>6 DEF QueueInv
<1>4. ASSUME NEW a \in Batch, BuildFails(t, a) \/ TallyDisabled(t, a) PROVE QueueInv'
  <2>1. /\ todo[t] # <<>> /\ lock' = NoThread
        /\ RowOf(t, a) \in Row
        /\ db[a].status \in {"PENDING_SYNC", "FAILED", "SYNCING"}
    BY <1>4, HandedRow DEF BuildFails, TallyDisabled, Handed, Serving
  <2>2. ExpireCopies(t)
    BY <1>4 DEF BuildFails, TallyDisabled
  <2>3. /\ db' \in [Batch -> Row]
        /\ db'[a].status \in {"PENDING_SYNC", db[a].status}
        /\ \A b \in Batch \ {a} : db'[b] = db[b]
    <3>1. NextRetry(RowOf(t, a)) \in 0..MaxRetries
      BY <2>1 DEF NextRetry
    <3>2. PendingIn(a, RowOf(t, a)) \in {"PENDING_SYNC", db[a].status}
      BY DEF PendingIn
    <3>3. RequestXml(a, RowOf(t, a)) \in Xml
      BY <2>1 DEF RequestXml, BuildVoucherXml, QueueInv, TypeOK
    <3>4. \E x \in Xml :
             Write(a, PendingIn(a, RowOf(t, a)), NextRetry(RowOf(t, a)), x, db[a].lease)
      BY <1>4, <3>3 DEF BuildFails, TallyDisabled, QueueInv, TypeOK
    <3>5. db[a] \in Row
      BY DEF QueueInv, TypeOK
    <3>. QED  BY <3>1, <3>2, <3>4, <3>5 DEF QueueInv, TypeOK
  <2>4. before' \subseteq Batch \X Batch /\ tried' \subseteq Batch
    BY <1>4 DEF BuildFails, TallyDisabled, Touch, Created, QueueInv, TypeOK
  <2>5. TypeOK' /\ Listed'
    BY <1>4, <2>1, <2>2, <2>3, <2>4, ExpireCopiesEffect, ListedKept
       DEF BuildFails, TallyDisabled, QueueInv, TypeOK, settings, tally, bounds
  <2>6. OneInDoubt' /\ Posting'
    BY <2>1, <2>3 DEF QueueInv, OneInDoubt, InDoubt, Posting
  <2>. QED  BY <2>5, <2>6 DEF QueueInv
<1>5. ASSUME NEW a \in Batch, Claim(t, a) PROVE QueueInv'
  <2>1. /\ todo[t] # <<>>
        /\ RowOf(t, a) \in Row
        /\ InDoubt = {} /\ RowOf(t, a).status = db[a].status
    BY <1>5, HandedRow DEF Claim, Handed, Serving
  <2>2. RequestXml(a, RowOf(t, a)) \in Xml /\ NextRetry(RowOf(t, a)) \in 0..MaxRetries
    BY <2>1 DEF RequestXml, BuildVoucherXml, NextRetry, QueueInv, TypeOK
  <2>3. /\ db' \in [Batch -> Row]
        /\ db'[a].status = "SYNCING"
        /\ \A b \in Batch \ {a} : db'[b] = db[b]
    BY <1>5, <2>2 DEF Claim, QueueInv, TypeOK
  <2>4. before' \subseteq Batch \X Batch /\ tried' \subseteq Batch
    BY <1>5 DEF Claim, Touch, Created, QueueInv, TypeOK
  <2>5. /\ lock' = t /\ todo' = todo /\ sess' = sess
        /\ post' = [batch |-> a, xml |-> RequestXml(a, RowOf(t, a)), claim |-> RowOf(t, a).status]
    BY <1>5 DEF Claim
  <2>6. TypeOK'
    BY <1>5, <2>1, <2>2, <2>3, <2>4, <2>5
       DEF Claim, QueueInv, TypeOK, settings, tally, bounds
  <2>7. Listed'
    BY <2>3, <2>5, ListedKept
  <2>8. OneInDoubt' /\ Posting'
    BY <2>1, <2>3, <2>5 DEF OneInDoubt, InDoubt, Posting
  <2>. QED  BY <2>6, <2>7, <2>8 DEF QueueInv
<1>6. ASSUME NEW a \in Batch, ClaimLost(t, a) PROVE QueueInv'
  <2>1. todo[t] # <<>> /\ ExpireCopies(t)
    BY <1>6 DEF ClaimLost, Handed, Serving
  <2>2. TypeOK' /\ Listed'
    BY <1>6, <2>1, ExpireCopiesEffect, ListedKept
       DEF ClaimLost, QueueInv, TypeOK, queue, settings, tally, bounds
  <2>3. OneInDoubt' /\ Posting'
    BY <1>6 DEF ClaimLost, Handed, Serving, QueueInv, OneInDoubt, InDoubt, Posting
  <2>. QED  BY <2>2, <2>3 DEF QueueInv
<1>. QED  BY <1>1, <1>2, <1>3, <1>4, <1>5, <1>6 DEF SyncBatch

\* The result of a post is committed.
LEMMA QueueInvPostResult ==
    ASSUME QueueInv, NEW t \in Thread, PostResult(t)
    PROVE  QueueInv'
<1> USE DEF Row, Status, Xml
<1> DEFINE b == post.batch
<1>1. PICK s \in {"PENDING_SYNC", "FAILED", "REVIEW_REQUIRED", "SYNCED"} : Finish(t, s)
  BY DEF PostResult, PostRefused, PostRejected, PostUnknown, PostImported
<1>2. /\ b \in Batch /\ todo[t] # <<>> /\ db[b].status = "SYNCING"
  BY <1>1 DEF Finish, QueueInv, TypeOK, Posting
<1>3. /\ db' \in [Batch -> Row]
      /\ db'[b].status = s
      /\ \A a \in Batch \ {b} : db'[a] = db[a]
  BY <1>1, <1>2 DEF Finish, QueueInv, TypeOK
<1>4. lock' = NoThread /\ post' \in [batch : Batch, xml : Xml, claim : Status]
  BY <1>1 DEF Finish, Idle
<1>5. delivered' \in [Batch -> Xml] /\ imports' \in [Batch -> Nat]
  <2>1. CASE PostRefused(t) \/ PostRejected(t)
    BY <2>1 DEF PostRefused, PostRejected, QueueInv, TypeOK, tally
  <2>2. CASE PostUnknown(t)
    BY <1>2, <2>2 DEF PostUnknown, MayBeDelivered, QueueInv, TypeOK
  <2>3. CASE PostImported(t)
    <3>1. imports[b] + 1 \in Nat
      BY <1>2 DEF QueueInv, TypeOK
    <3>. QED  BY <1>2, <2>3, <3>1 DEF PostImported, QueueInv, TypeOK
  <2>. QED  BY <2>1, <2>2, <2>3 DEF PostResult
<1>6. ExpireCopies(t)
  BY <1>1 DEF Finish
<1>7. UNCHANGED <<queue, settings, bounds>>
  BY DEF PostResult, PostRefused, PostRejected, PostUnknown, PostImported
<1>8. TypeOK' /\ Listed'
  BY <1>2, <1>3, <1>4, <1>5, <1>6, <1>7, ExpireCopiesEffect, ListedKept
     DEF QueueInv, TypeOK, queue, settings, bounds
<1>9. OneInDoubt' /\ Posting'
  BY <1>2, <1>3, <1>4 DEF QueueInv, OneInDoubt, InDoubt, Posting
<1>. QED  BY <1>8, <1>9 DEF QueueInv

\* The process stops, or a thread unwinds: rows keep what was committed.
LEMMA QueueInvFault ==
    ASSUME QueueInv, Crash \/ \E t \in Thread : ResultCommitFails(t)
    PROVE  QueueInv'
<1> USE DEF Row, Status, Xml
<1>1. /\ todo' \in [Thread -> Seq(Batch)]
      /\ \A u \in Thread : todo'[u] \in {<<>>, todo[u]}
  <2>1. CASE Crash
    BY <2>1 DEF Crash
  <2>2. CASE \E t \in Thread : ResultCommitFails(t)
    BY <2>2 DEF ResultCommitFails, QueueInv, TypeOK
  <2>. QED  BY <2>1, <2>2
<1>2. sess' \in [Thread -> [Batch -> Row \cup {NoRow}]]
  <2>0. NoCopies \in [Batch -> Row \cup {NoRow}]
    BY DEF NoCopies
  <2>1. CASE Crash
    BY <2>0, <2>1 DEF Crash
  <2>2. CASE \E t \in Thread : ResultCommitFails(t)
    BY <2>0, <2>2 DEF ResultCommitFails, QueueInv, TypeOK
  <2>. QED  BY <2>1, <2>2
<1>3. delivered' \in [Batch -> Xml]
  BY DEF Crash, ResultCommitFails, MayBeDelivered, QueueInv, TypeOK
<1>4. lock' = NoThread /\ post' \in [batch : Batch, xml : Xml, claim : Status]
  BY DEF Crash, ResultCommitFails, Idle
<1>5. faults' \in 0..MaxFaults
  BY DEF Crash, ResultCommitFails, QueueInv, TypeOK
<1>6. UNCHANGED <<db, queue, settings, imports, edits>>
  BY DEF Crash, ResultCommitFails
<1>10. overtaken' \in BOOLEAN
  <2>1. overtaken \in BOOLEAN
    BY Zenon DEF QueueInv, TypeOK
  <2>2. overtaken' = overtaken \/ \E t \in Thread : overtaken' = (overtaken \/ OldCopyElsewhere(t))
    BY Zenon DEF Crash, ResultCommitFails
  <2>. QED  BY <2>1, <2>2, Zenon
<1>7. TypeOK'
  BY <1>1, <1>2, <1>3, <1>4, <1>5, <1>6, <1>10 DEF QueueInv, TypeOK, queue, settings
<1>8. OneInDoubt' /\ Posting'
  BY <1>4, <1>6 DEF QueueInv, OneInDoubt, InDoubt, Posting
<1>9. Listed'
  BY <1>1, <1>6 DEF QueueInv, Listed
<1>. QED  BY <1>7, <1>8, <1>9 DEF QueueInv

\* A thread loads the batches it will work on.
LEMMA QueueInvLoad ==
    ASSUME QueueInv, Scan \/ \E t \in Console, b \in Batch : LoadForRetry(t, b)
    PROVE  QueueInv'
<1> USE DEF Row, Status, Xml
<1>1. CASE Scan
  <2>1. PICK n \in 1..Limit : \E s \in [1..n -> Retryable] :
          /\ todo' = [todo EXCEPT ![Worker] = s]
          /\ sess' = [sess EXCEPT ![Worker] =
                        [b \in Batch |-> IF \E k \in 1..n : s[k] = b
                                         THEN db[b] ELSE NoRow]]
    BY <1>1 DEF Scan
  <2>2. PICK s \in [1..n -> Retryable] :
          /\ todo' = [todo EXCEPT ![Worker] = s]
          /\ sess' = [sess EXCEPT ![Worker] =
                        [b \in Batch |-> IF \E k \in 1..n : s[k] = b
                                         THEN db[b] ELSE NoRow]]
    BY <2>1
  <2>3. s \in Seq(Batch) /\ Len(s) = n /\ \A i \in 1..n : db[s[i]].status # "ABSENT"
    BY DEF Retryable
  <2>4. todo' \in [Thread -> Seq(Batch)]
    BY <2>2, <2>3 DEF QueueInv, TypeOK
  <2>5. sess' \in [Thread -> [Batch -> Row \cup {NoRow}]]
    BY <2>2 DEF QueueInv, TypeOK
  <2>6. UNCHANGED <<db, queue, settings, lock, post, tally, bounds>>
    BY <1>1 DEF Scan
  <2>7. TypeOK'
    BY <2>4, <2>5, <2>6 DEF QueueInv, TypeOK, queue, settings, tally, bounds
  <2>8. Listed'
    <3> SUFFICES ASSUME NEW u \in Thread, NEW i \in 1..Len(todo'[u])
                 PROVE  db[todo'[u][i]].status # "ABSENT"
      BY <2>6 DEF Listed
    <3>1. CASE u = Worker
      BY <2>2, <2>3, <3>1 DEF QueueInv, TypeOK
    <3>2. CASE u # Worker
      BY <2>2, <3>2 DEF QueueInv, TypeOK, Listed
    <3>. QED  BY <3>1, <3>2
  <2>9. OneInDoubt' /\ Posting'
    BY <1>1, <2>2, <2>6 DEF Scan, QueueInv, TypeOK, OneInDoubt, InDoubt, Posting
  <2>. QED  BY <2>7, <2>8, <2>9 DEF QueueInv
<1>2. ASSUME NEW t \in Console, NEW b \in Batch, LoadForRetry(t, b) PROVE QueueInv'
  <2>1. /\ todo' = [todo EXCEPT ![t] = <<b>>]
        /\ todo[t] = <<>>
        /\ db[b].status # "ABSENT"
        /\ UNCHANGED <<db, queue, settings, lock, post, tally, bounds>>
    BY <1>2 DEF LoadForRetry
  <2>2. sess' \in [Thread -> [Batch -> Row \cup {NoRow}]]
    BY <1>2 DEF LoadForRetry, QueueInv, TypeOK, NoCopies
  <2>3. todo' \in [Thread -> Seq(Batch)]
    BY <2>1 DEF QueueInv, TypeOK
  <2>4. TypeOK'
    BY <2>1, <2>2, <2>3 DEF QueueInv, TypeOK, queue, settings, tally, bounds
  <2>5. Listed'
    BY <2>1 DEF QueueInv, TypeOK, Listed
  <2>6. OneInDoubt' /\ Posting'
    BY <2>1 DEF QueueInv, TypeOK, OneInDoubt, InDoubt, Posting
  <2>. QED  BY <2>4, <2>5, <2>6 DEF QueueInv
<1>. QED  BY <1>1, <1>2

\* Steps of the environment: ingestion, time, Tally and the operator.
LEMMA QueueInvEnvironment ==
    ASSUME QueueInv, NEW b \in Batch,
           Enqueue(b) \/ LeaseRunsOut(b) \/ TallyStep(b) \/ Operator(b)
    PROVE  QueueInv'
<1> USE DEF Row, Status, Xml
<1>0. db[b] \in Row
  BY DEF QueueInv, TypeOK
<1>1. CASE Enqueue(b)
  <2>1. /\ db[b].status = "ABSENT"
        /\ db' \in [Batch -> Row] /\ db'[b].status = "PENDING_SYNC"
        /\ \A a \in Batch \ {b} : db'[a] = db[a]
    BY <1>1 DEF Enqueue, Created, QueueInv, TypeOK
  <2>2. before' \subseteq Batch \X Batch
    BY <1>1 DEF Enqueue, Created, QueueInv, TypeOK
  <2>3. TypeOK'
    BY <1>1, <2>1, <2>2 DEF Enqueue, QueueInv, TypeOK, settings, tally, bounds
  <2>4. Listed'
    BY <1>1, <2>1, ListedKept DEF Enqueue
  <2>5. OneInDoubt' /\ Posting'
    BY <1>1, <2>1 DEF Enqueue, QueueInv, TypeOK, OneInDoubt, InDoubt, Posting
  <2>. QED  BY <2>3, <2>4, <2>5 DEF QueueInv
<1>2. CASE LeaseRunsOut(b)
  <2>1. \A row \in Row \cup {NoRow} : Expire(row) \in Row \cup {NoRow}
    BY DEF Expire
  <2>2. Expire(db[b]) \in Row /\ Expire(db[b]).status = db[b].status
    BY <1>0 DEF Expire
  <2>3. /\ db' \in [Batch -> Row]
        /\ \A a \in Batch : db'[a].status = db[a].status
    BY <1>2, <2>2 DEF LeaseRunsOut, QueueInv, TypeOK
  <2>4. sess' \in [Thread -> [Batch -> Row \cup {NoRow}]]
    <3>1. ASSUME NEW u \in Thread
          PROVE  [sess[u] EXCEPT ![b] = Expire(sess[u][b])] \in [Batch -> Row \cup {NoRow}]
      <4>1. sess[u] \in [Batch -> Row \cup {NoRow}]
        BY DEF QueueInv, TypeOK
      <4>2. Expire(sess[u][b]) \in Row \cup {NoRow}
        BY <2>1, <4>1
      <4>. QED  BY <4>1, <4>2
    <3>. QED  BY <1>2, <3>1 DEF LeaseRunsOut
  <2>5. TypeOK'
    BY <1>2, <2>3, <2>4 DEF LeaseRunsOut, QueueInv, TypeOK, queue, settings, tally, bounds
  <2>6. Listed'
    BY <1>2, <2>3, ListedKept DEF LeaseRunsOut
  <2>7. OneInDoubt' /\ Posting'
    BY <1>2, <2>3 DEF LeaseRunsOut, QueueInv, TypeOK, OneInDoubt, InDoubt, Posting
  <2>. QED  BY <2>5, <2>6, <2>7 DEF QueueInv
<1>3. CASE TallyStep(b)
  <2>1. delivered' \in [Batch -> Xml] /\ imports' \in [Batch -> Nat]
    <3>1. imports[b] + 1 \in Nat
      BY DEF QueueInv, TypeOK
    <3>2. CASE TallyImports(b)
      BY <3>1, <3>2 DEF TallyImports, QueueInv, TypeOK
    <3>3. CASE TallyDrops(b)
      BY <3>3 DEF TallyDrops, QueueInv, TypeOK
    <3>. QED  BY <1>3, <3>2, <3>3 DEF TallyStep
  <2>2. UNCHANGED <<db, queue, settings, todo, sess, lock, post, bounds>>
    BY <1>3 DEF TallyStep, TallyImports, TallyDrops
  <2>. QED
    BY <2>1, <2>2 DEF QueueInv, TypeOK, OneInDoubt, InDoubt, Posting, Listed,
                      queue, settings, bounds
<1>4. CASE Operator(b)
  <2>1. /\ lock' = NoThread /\ db[b].status = "REVIEW_REQUIRED"
        /\ UNCHANGED <<queue, settings, todo, sess, lock, post, tally, bounds>>
    BY <1>4 DEF Operator, Reconcile
  <2>2. /\ db' \in [Batch -> Row] /\ db'[b].status \in {"SYNCED", "PENDING_SYNC"}
        /\ \A a \in Batch \ {b} : db'[a] = db[a]
    <3>1. PICK s \in {"SYNCED", "PENDING_SYNC"} : \E n \in 0..MaxRetries :
             Write(b, s, n, db[b].xml, "none")
      BY <1>0, <1>4 DEF Operator, Reconcile
    <3>. QED  BY <1>0, <3>1 DEF QueueInv, TypeOK
  <2>3. TypeOK'
    BY <2>1, <2>2 DEF QueueInv, TypeOK, queue, settings, tally, bounds
  <2>4. Listed'
    BY <2>1, <2>2, ListedKept
  <2>5. OneInDoubt' /\ Posting'
    BY <2>1, <2>2 DEF QueueInv, TypeOK, OneInDoubt, InDoubt, Posting
  <2>. QED  BY <2>3, <2>4, <2>5 DEF QueueInv
<1>. QED  BY <1>1, <1>2, <1>3, <1>4

LEMMA QueueInvNext == QueueInv /\ [Next]_vars => QueueInv'
<1> SUFFICES ASSUME QueueInv, [Next]_vars PROVE QueueInv'
  OBVIOUS
<1>1. CASE \E c \in Config : EditConfig(c)
  BY <1>1 DEF EditConfig, QueueInv, TypeOK, OneInDoubt, InDoubt, Posting, Listed, queue, tally
<1>2. CASE ToggleTally
  BY <1>2 DEF ToggleTally, QueueInv, TypeOK, OneInDoubt, InDoubt, Posting, Listed, queue, tally
<1>3. CASE UNCHANGED vars
  BY <1>3 DEF vars, QueueInv, TypeOK, OneInDoubt, InDoubt, Posting, Listed
<1>. QED
  BY <1>1, <1>2, <1>3, QueueInvSyncBatch, QueueInvPostResult, QueueInvFault,
     QueueInvLoad, QueueInvEnvironment DEF Next

\* At every moment at most one voucher is being imported, was interrupted or
\* awaits reconciliation (sync_batch's guards under _SYNC_LOCK), for any
\* number of batches and threads, whatever fails.
THEOREM OneInDoubtHolds == Spec => []OneInDoubt
<1>1. QueueInv => OneInDoubt
  BY DEF QueueInv
<1>. QED  BY <1>1, QueueInvInit, QueueInvNext, PTL DEF Spec

\* The queue's variables keep their types.
THEOREM TypeCorrect == Spec => []TypeOK
<1>1. QueueInv => TypeOK
  BY DEF QueueInv
<1>. QED  BY <1>1, QueueInvInit, QueueInvNext, PTL DEF Spec

-----------------------------------------------------------------------------
(* ImportInv is kept by every step that leaves no old copy behind.         *)

\* A write sets the status of one row and leaves every other row alone.
LEMMA WriteEffect ==
    ASSUME QueueInv, NEW a \in Batch, NEW s, NEW n, NEW x, NEW l, Write(a, s, n, x, l)
    PROVE  db'[a].status = s /\ \A b \in Batch \ {a} : db'[b] = db[b]
  BY DEF QueueInv, TypeOK

\* What ImportedOnce says of each batch.
LEMMA ImportedOnceMeans ==
    ASSUME TypeOK
    PROVE  ImportedOnce <=>
             \A b \in Batch : imports[b] \in {0, 1} /\ (delivered[b] # NoXml => imports[b] = 0)
  BY DEF TypeOK, ImportedOnce

\* What a thread sees of a batch it is handed is its status, but for a
\* pending copy of an interrupted claim.
LEMMA InterruptedSeen ==
    ASSUME ImportInv, NEW t \in Thread, NEW a \in Batch, Handed(t, a)
    PROVE  \/ RowOf(t, a).status = db[a].status
           \/ RowOf(t, a).status = "PENDING_SYNC" /\ db[a].status = "SYNCING"
  BY HandedRow DEF ImportInv, CopiesOfClaims, Handed, Serving

\* The relation between rows and Tally is kept if, for every batch, Tally's
\* side is unchanged and the new status claims no more than the old one.
LEMMA TruthKept ==
    ASSUME ImportInv, QueueInv', UNCHANGED tally,
           \A b \in Batch :
              \/ db'[b].status = db[b].status
              \/ /\ db[b].status \in {"ABSENT", "PENDING_SYNC", "FAILED"}
                 /\ db'[b].status \in {"PENDING_SYNC", "FAILED", "SYNCING"}
              \/ (db[b].status = "SYNCING" /\ db'[b].status = "REVIEW_REQUIRED"),
           lock' = NoThread \/ (lock' = lock /\ post' = post)
             \/ db[post'.batch].status \in {"PENDING_SYNC", "FAILED"}
    PROVE  ImportedOnce' /\ StatusTrue' /\ Clean'
<1>1. imports' = imports /\ delivered' = delivered
  BY DEF tally
<1>2. ImportedOnce'
  BY <1>1 DEF ImportInv, ImportedOnce
<1>3. StatusTrue'
  BY <1>1 DEF ImportInv, StatusTrue, Clean
<1>4. post'.batch \in Batch
  BY DEF QueueInv, TypeOK
<1>5. Clean'
  BY <1>1, <1>4 DEF ImportInv, StatusTrue, Clean
<1>. QED  BY <1>2, <1>3, <1>5

LEMMA TruthSyncBatch ==
    ASSUME ImportInv, QueueInv', NEW t \in Thread, SyncBatch(t)
    PROVE  ImportedOnce' /\ StatusTrue' /\ Clean'
<1>1. UNCHANGED tally
  BY DEF SyncBatch, ReturnAtOnce, LeaseHeld, LeaseExpired, BuildFails, TallyDisabled,
         Claim, ClaimLost
<1>2. CASE ReturnAtOnce(t) \/ \E a \in Batch : LeaseHeld(t, a) \/ ClaimLost(t, a)
  <2>1. db' = db /\ lock' = lock /\ post' = post
    BY <1>2 DEF ReturnAtOnce, LeaseHeld, ClaimLost
  <2>. QED  BY <1>1, <2>1, TruthKept
<1>3. ASSUME NEW a \in Batch, LeaseExpired(t, a)
      PROVE  ImportedOnce' /\ StatusTrue' /\ Clean'
  <2>1. db[a].status = "SYNCING" /\ lock' = lock /\ post' = post
    BY <1>3, HandedRow DEF LeaseExpired, ImportInv
  <2>2. \A b \in Batch : \/ db'[b].status = db[b].status
                        \/ (db[b].status = "SYNCING" /\ db'[b].status = "REVIEW_REQUIRED")
    <3>1. db'[a].status = "REVIEW_REQUIRED" /\ \A b \in Batch \ {a} : db'[b] = db[b]
      BY <1>3, WriteEffect DEF LeaseExpired, ImportInv
    <3> TAKE b \in Batch
    <3>2. CASE b = a
      BY <2>1, <3>1, <3>2
    <3>3. CASE b # a
      BY <3>1, <3>3
    <3>. QED  BY <3>2, <3>3
  <2>. QED  BY <1>1, <2>1, <2>2, TruthKept
<1>4. ASSUME NEW a \in Batch, BuildFails(t, a) \/ TallyDisabled(t, a)
      PROVE  ImportedOnce' /\ StatusTrue' /\ Clean'
  <2>1. lock' = lock /\ post' = post
    BY <1>4 DEF BuildFails, TallyDisabled
  <2>2. \/ PendingIn(a, RowOf(t, a)) = db[a].status
        \/ /\ db[a].status \in {"PENDING_SYNC", "FAILED"}
           /\ PendingIn(a, RowOf(t, a)) \in {"PENDING_SYNC", "FAILED"}
    BY <1>4, HandedRow, InterruptedSeen DEF BuildFails, TallyDisabled, ImportInv, PendingIn
  <2>3. \A b \in Batch : \/ db'[b].status = db[b].status
                        \/ /\ db[b].status \in {"PENDING_SYNC", "FAILED"}
                           /\ db'[b].status \in {"PENDING_SYNC", "FAILED"}
    <3>1. \E n, x, l : Write(a, PendingIn(a, RowOf(t, a)), n, x, l)
      BY <1>4 DEF BuildFails, TallyDisabled
    <3>2. /\ db'[a].status = PendingIn(a, RowOf(t, a))
          /\ \A b \in Batch \ {a} : db'[b] = db[b]
      BY <3>1, WriteEffect DEF ImportInv
    <3>. QED  BY <2>2, <3>2
  <2>. QED  BY <1>1, <2>1, <2>3, TruthKept
<1>5. ASSUME NEW a \in Batch, Claim(t, a)
      PROVE  ImportedOnce' /\ StatusTrue' /\ Clean'
  <2>1. db[a].status \in {"PENDING_SYNC", "FAILED"} /\ post'.batch = a
    BY <1>5, HandedRow DEF Claim, ImportInv
  <2>2. \A b \in Batch : \/ db'[b].status = db[b].status
                        \/ /\ db[b].status \in {"PENDING_SYNC", "FAILED"}
                           /\ db'[b].status = "SYNCING"
    BY <1>5, <2>1 DEF Claim, ImportInv, QueueInv, TypeOK
  <2>. QED  BY <1>1, <2>1, <2>2, TruthKept
<1>. QED  BY <1>2, <1>3, <1>4, <1>5 DEF SyncBatch

LEMMA TruthPostResult ==
    ASSUME ImportInv, QueueInv', NEW t \in Thread, PostResult(t)
    PROVE  ImportedOnce' /\ StatusTrue' /\ Clean'
<1> DEFINE b == post.batch
<1>1. /\ b \in Batch /\ lock # NoThread
      /\ imports[b] = 0 /\ delivered[b] = NoXml
  BY DEF PostResult, PostRefused, PostRejected, PostUnknown, PostImported, Finish,
         ImportInv, QueueInv, TypeOK, Clean
<1>2. lock' = NoThread /\ \A a \in Batch \ {b} : db'[a] = db[a]
  BY <1>1 DEF PostResult, PostRefused, PostRejected, PostUnknown, PostImported, Finish,
              ImportInv, QueueInv, TypeOK
<1>3. \A a \in Batch \ {b} : imports'[a] = imports[a] /\ delivered'[a] = delivered[a]
  BY <1>1 DEF PostResult, PostRefused, PostRejected, PostUnknown, PostImported,
              MayBeDelivered, ImportInv, QueueInv, TypeOK, tally
<1>4. \/ /\ db'[b].status \in {"PENDING_SYNC", "FAILED"}
         /\ imports'[b] = 0 /\ delivered'[b] = NoXml
      \/ (db'[b].status = "REVIEW_REQUIRED" /\ imports'[b] = 0)
      \/ /\ db'[b].status = "SYNCED"
         /\ imports'[b] = 1 /\ delivered'[b] = NoXml
  <2>1. CASE PostRefused(t) \/ PostRejected(t)
    BY <1>1, <2>1 DEF PostRefused, PostRejected, Finish, tally, ImportInv, QueueInv, TypeOK
  <2>2. CASE PostUnknown(t)
    BY <1>1, <2>2 DEF PostUnknown, Finish, ImportInv, QueueInv, TypeOK
  <2>3. CASE PostImported(t)
    BY <1>1, <2>3 DEF PostImported, Finish, ImportInv, QueueInv, TypeOK
  <2>. QED  BY <2>1, <2>2, <2>3 DEF PostResult
<1>5. ImportedOnce'
  <2>1. TypeOK' /\ TypeOK
    BY DEF QueueInv, ImportInv
  <2>2. \A a \in Batch : /\ imports'[a] \in {0, 1}
                         /\ delivered'[a] # NoXml => imports'[a] = 0
    BY <1>3, <1>4, <2>1, ImportedOnceMeans DEF ImportInv
  <2>. QED  BY <2>1, <2>2 DEF TypeOK, ImportedOnce
<1>6. StatusTrue'
  BY <1>1, <1>2, <1>3, <1>4 DEF ImportInv, StatusTrue
<1>7. Clean'
  BY <1>1, <1>2, <1>3, <1>4 DEF ImportInv, Clean
<1>. QED  BY <1>5, <1>6, <1>7

LEMMA TruthOthers ==
    ASSUME ImportInv, QueueInv', [Next]_vars,
           ~ \E t \in Thread : SyncBatch(t) \/ PostResult(t)
    PROVE  ImportedOnce' /\ StatusTrue' /\ Clean'
<1>1. CASE UNCHANGED <<tally, lock, post>> /\ \A b \in Batch : db'[b].status = db[b].status
  BY <1>1, TruthKept
<1>2. CASE UNCHANGED vars \/ Scan \/ ToggleTally \/ (\E c \in Config : EditConfig(c))
             \/ \E t \in Console, b \in Batch : LoadForRetry(t, b)
  <2>1. UNCHANGED <<tally, lock, post, db>>
    BY <1>2 DEF vars, tally, Scan, ToggleTally, EditConfig, LoadForRetry
  <2>. QED  BY <1>1, <2>1
<1>3. ASSUME NEW b \in Batch, LeaseRunsOut(b)
      PROVE  ImportedOnce' /\ StatusTrue' /\ Clean'
  <2>1. Expire(db[b]).status = db[b].status
    BY DEF Expire, ImportInv, QueueInv, TypeOK, Row
  <2>2. UNCHANGED <<tally, lock, post>> /\ \A a \in Batch : db'[a].status = db[a].status
    BY <1>3, <2>1 DEF LeaseRunsOut, ImportInv, QueueInv, TypeOK
  <2>. QED  BY <1>1, <2>2
<1>4. ASSUME NEW b \in Batch, Enqueue(b)
      PROVE  ImportedOnce' /\ StatusTrue' /\ Clean'
  <2>1. UNCHANGED <<tally, lock, post>> /\ db[b].status = "ABSENT"
    BY <1>4 DEF Enqueue, Created
  <2>2. \A a \in Batch : \/ db'[a].status = db[a].status
                        \/ (db[a].status = "ABSENT" /\ db'[a].status = "PENDING_SYNC")
    <3>1. db'[b].status = "PENDING_SYNC" /\ \A a \in Batch \ {b} : db'[a] = db[a]
      BY <1>4, WriteEffect DEF Enqueue, ImportInv
    <3> TAKE a \in Batch
    <3>2. CASE a = b
      BY <2>1, <3>1, <3>2
    <3>3. CASE a # b
      BY <3>1, <3>3
    <3>. QED  BY <3>2, <3>3
  <2>. QED  BY <2>1, <2>2, TruthKept
<1>5. ASSUME NEW b \in Batch, TallyStep(b)
      PROVE  ImportedOnce' /\ StatusTrue' /\ Clean'
  <2>1. /\ delivered[b] # NoXml /\ imports[b] = 0
        /\ db' = db /\ lock' = lock /\ post' = post
        /\ delivered' = [delivered EXCEPT ![b] = NoXml]
        /\ imports' = imports \/ imports' = [imports EXCEPT ![b] = imports[b] + 1]
    BY <1>5, ImportedOnceMeans DEF TallyStep, TallyImports, TallyDrops, ImportInv, QueueInv
  <2>2. /\ delivered'[b] = NoXml /\ imports'[b] \in {0, 1}
        /\ \A a \in Batch \ {b} : imports'[a] = imports[a] /\ delivered'[a] = delivered[a]
    BY <2>1 DEF ImportInv, QueueInv, TypeOK
  <2>3. db[b].status \notin {"ABSENT", "PENDING_SYNC", "FAILED", "SYNCED"}
    BY <2>1 DEF ImportInv, StatusTrue, Clean
  <2>4. lock # NoThread => post.batch # b
    BY <2>1 DEF ImportInv, Clean
  <2>5. ImportedOnce'
    <3>1. \A a \in Batch : /\ imports'[a] \in {0, 1}
                           /\ delivered'[a] # NoXml => imports'[a] = 0
      BY <2>2, ImportedOnceMeans DEF ImportInv, QueueInv
    <3>. QED  BY <3>1 DEF QueueInv, TypeOK, ImportedOnce
  <2>6. StatusTrue'
    BY <2>1, <2>2, <2>3 DEF ImportInv, StatusTrue
  <2>7. Clean'
    BY <2>1, <2>2, <2>3, <2>4 DEF ImportInv, QueueInv, TypeOK, Clean
  <2>. QED  BY <2>5, <2>6, <2>7
<1>6. ASSUME NEW b \in Batch, Operator(b)
      PROVE  ImportedOnce' /\ StatusTrue' /\ Clean'
  <2>1. /\ imports' = imports /\ delivered' = delivered
        /\ lock' = NoThread /\ delivered[b] = NoXml
    BY <1>6 DEF Operator, Reconcile, tally
  <2>2. \/ (db'[b].status = "SYNCED" /\ imports[b] > 0)
        \/ (db'[b].status = "PENDING_SYNC" /\ ~(imports[b] > 0))
    <3>1. \/ (Write(b, "SYNCED", db[b].retries, db[b].xml, "none") /\ imports[b] > 0)
          \/ (Write(b, "PENDING_SYNC", 0, db[b].xml, "none") /\ ~(imports[b] > 0))
      BY <1>6 DEF Operator, Reconcile
    <3>. QED  BY <3>1, WriteEffect DEF ImportInv
  <2>3. imports[b] \in {0, 1} /\ \A a \in Batch \ {b} : db'[a] = db[a]
    BY <1>6, ImportedOnceMeans DEF Operator, Reconcile, ImportInv, QueueInv, TypeOK
  <2>4. ImportedOnce'
    BY <2>1 DEF ImportInv, ImportedOnce
  <2>5. StatusTrue'
    BY <2>1, <2>2, <2>3 DEF ImportInv, StatusTrue
  <2>6. Clean'
    BY <2>1, <2>2, <2>3 DEF ImportInv, Clean
  <2>. QED  BY <2>4, <2>5, <2>6
<1>7. CASE Crash \/ \E t \in Thread : ResultCommitFails(t)
  <2>1. db' = db /\ lock' = NoThread /\ imports' = imports
    BY <1>7 DEF Crash, ResultCommitFails
  <2>2. CASE delivered' = delivered
    BY <2>1, <2>2, TruthKept DEF tally
  <2>3. CASE lock # NoThread /\ MayBeDelivered
    <3>1. /\ post.batch \in Batch /\ imports[post.batch] = 0
          /\ db[post.batch].status = "SYNCING"
          /\ \A a \in Batch \ {post.batch} : delivered'[a] = delivered[a]
      BY <2>3 DEF MayBeDelivered, ImportInv, QueueInv, TypeOK, Posting, Clean
    <3>2. ImportedOnce'
      <4>1. \A a \in Batch : /\ imports'[a] \in {0, 1}
                             /\ delivered'[a] # NoXml => imports'[a] = 0
        BY <2>1, <3>1, ImportedOnceMeans DEF ImportInv, QueueInv
      <4>. QED  BY <4>1 DEF QueueInv, TypeOK, ImportedOnce
    <3>3. StatusTrue'
      BY <2>1, <3>1 DEF ImportInv, StatusTrue
    <3>4. Clean'
      BY <2>1, <3>1 DEF ImportInv, Clean
    <3>. QED  BY <3>2, <3>3, <3>4
  <2>4. ASSUME NEW t \in Thread, ResultCommitFails(t) PROVE lock # NoThread /\ MayBeDelivered
    BY <2>4, ConstantsOK DEF ResultCommitFails
  <2>. QED  BY <1>7, <2>2, <2>3, <2>4 DEF Crash
<1>. QED
  BY <1>2, <1>3, <1>4, <1>5, <1>6, <1>7 DEF Next

\* No copy of a claim becomes stale if no claim is made and every copy is
\* kept, dropped or agrees with the row.
LEMMA CopiesKept ==
    ASSUME ImportInv, lock = NoThread,
           \A b \in Batch : db'[b].status = "SYNCING" => db[b].status = "SYNCING",
           \A t \in Thread, b \in Batch :
              \/ sess'[t][b] = sess[t][b]
              \/ sess'[t][b] = NoRow
              \/ sess'[t][b].status = db[b].status
    PROVE  CopiesOfClaims'
  BY DEF ImportInv, CopiesOfClaims

LEMMA CopiesSyncBatch ==
    ASSUME ImportInv, NEW t \in Thread, SyncBatch(t)
    PROVE  CopiesOfClaims'
<1> DEFINE h == Head(todo[t])
<1>1. lock = NoThread /\ todo[t] # <<>>
  BY DEF SyncBatch, ReturnAtOnce, LeaseHeld, LeaseExpired, BuildFails, TallyDisabled,
         Claim, ClaimLost, Handed, Serving
<1>2. h \in Batch
  BY <1>1, HeadExists DEF ImportInv
<1>3. /\ Loaded(t, h) \in [Batch -> Row \cup {NoRow}]
      /\ \A b \in Batch : Loaded(t, h)[b] = sess[t][b] \/ Loaded(t, h)[b] = db[b]
  BY <1>2 DEF Loaded, Seen, ImportInv, QueueInv, TypeOK
<1>4. CASE ReturnAtOnce(t)
  <2>1. \A u \in Thread, b \in Batch : \/ sess'[u][b] = sess[u][b]
                                       \/ sess'[u][b] = NoRow
                                       \/ sess'[u][b].status = db[b].status
    <3>1. KeepCopies(t, Loaded(t, h))
      BY <1>4 DEF ReturnAtOnce
    <3>2. /\ \A u \in Thread \ {t} : sess'[u] = sess[u]
          /\ \A b \in Batch : sess'[t][b] # NoRow => sess'[t][b] = Loaded(t, h)[b]
      BY <1>1, <1>3, <3>1, KeepCopiesEffect DEF ImportInv
    <3>. QED  BY <1>3, <3>2
  <2>. QED  BY <1>1, <1>4, <2>1, CopiesKept DEF ReturnAtOnce
<1>5. ASSUME NEW a \in Batch, LeaseHeld(t, a)
      PROVE  CopiesOfClaims'
  <2> DEFINE copies == [Loaded(t, h) EXCEPT ![a] = RowOf(t, a)]
  <2>1. RowOf(t, a) \in Row /\ RowOf(t, a).status = db[a].status
    BY <1>5, HandedRow DEF LeaseHeld, ImportInv
  <2>2. /\ copies \in [Batch -> Row \cup {NoRow}]
        /\ \A b \in Batch : copies[b] = sess[t][b] \/ copies[b].status = db[b].status
    BY <1>3, <2>1
  <2>3. KeepCopies(t, copies) /\ db' = db
    BY <1>5 DEF LeaseHeld
  <2>4. /\ \A u \in Thread \ {t} : sess'[u] = sess[u]
        /\ \A b \in Batch : sess'[t][b] # NoRow => sess'[t][b] = copies[b]
    <3> HIDE DEF copies
    <3>. QED  BY <1>1, <2>2, <2>3, KeepCopiesEffect DEF ImportInv
  <2>5. \A u \in Thread, b \in Batch : \/ sess'[u][b] = sess[u][b]
                                       \/ sess'[u][b] = NoRow
                                       \/ sess'[u][b].status = db[b].status
    <3> HIDE DEF copies
    <3>. QED  BY <2>2, <2>4
  <2>. QED  BY <1>1, <2>3, <2>5, CopiesKept
<1>6. ASSUME NEW a \in Batch,
             LeaseExpired(t, a) \/ BuildFails(t, a) \/ TallyDisabled(t, a) \/ ClaimLost(t, a)
      PROVE  CopiesOfClaims'
  <2>1. ExpireCopies(t)
    BY <1>6 DEF LeaseExpired, BuildFails, TallyDisabled, ClaimLost
  <2>2. \A u \in Thread, b \in Batch : sess'[u][b] = sess[u][b] \/ sess'[u][b] = NoRow
    BY <1>1, <2>1, ExpireCopiesEffect DEF ImportInv
  <2>3. \A b \in Batch : db'[b].status = "SYNCING" => db[b].status = "SYNCING"
    <3>1. CASE ClaimLost(t, a)
      BY <3>1 DEF ClaimLost
    <3>2. CASE LeaseExpired(t, a)
      <4>1. db'[a].status = "REVIEW_REQUIRED" /\ \A b \in Batch \ {a} : db'[b] = db[b]
        BY <3>2, WriteEffect DEF LeaseExpired, ImportInv
      <4>. QED  BY <4>1
    <3>3. CASE BuildFails(t, a) \/ TallyDisabled(t, a)
      <4>1. PendingIn(a, RowOf(t, a)) \in {"PENDING_SYNC", db[a].status}
        BY DEF PendingIn
      <4>2. \E n, x, l : Write(a, PendingIn(a, RowOf(t, a)), n, x, l)
        BY <3>3 DEF BuildFails, TallyDisabled
      <4>3. /\ db'[a].status = PendingIn(a, RowOf(t, a))
            /\ \A b \in Batch \ {a} : db'[b] = db[b]
        BY <4>2, WriteEffect DEF ImportInv
      <4>. QED  BY <4>1, <4>3
    <3>. QED  BY <1>6, <3>1, <3>2, <3>3
  <2>. QED  BY <1>1, <2>2, <2>3, CopiesKept
<1>7. ASSUME NEW a \in Batch, Claim(t, a)
      PROVE  CopiesOfClaims'
  BY <1>7 DEF Claim, CopiesOfClaims
<1>. QED  BY <1>4, <1>5, <1>6, <1>7 DEF SyncBatch

LEMMA CopiesOthers ==
    ASSUME ImportInv, ~overtaken', [Next]_vars, ~ \E t \in Thread : SyncBatch(t)
    PROVE  CopiesOfClaims'
<1>1. ASSUME NEW t \in Thread, PostResult(t)
      PROVE  CopiesOfClaims'
  <2>1. post.batch \in Batch /\ db[post.batch].status = "SYNCING"
    BY <1>1 DEF PostResult, PostRefused, PostRejected, PostUnknown, PostImported, Finish,
                ImportInv, QueueInv, TypeOK, Posting
  <2>2. \E s \in {"PENDING_SYNC", "FAILED", "REVIEW_REQUIRED", "SYNCED"} : Finish(t, s)
    BY <1>1 DEF PostResult, PostRefused, PostRejected, PostUnknown, PostImported
  <2>3. db'[post.batch].status # "SYNCING" /\ \A b \in Batch \ {post.batch} : db'[b] = db[b]
    BY <2>1, <2>2 DEF Finish, ImportInv, QueueInv, TypeOK
  <2>4. \A b \in Batch : db'[b].status # "SYNCING"
    BY <2>1, <2>3 DEF ImportInv, QueueInv, OneInDoubt, InDoubt
  <2>. QED  BY <2>4 DEF CopiesOfClaims
<1>2. CASE Crash
  BY <1>2 DEF Crash, CopiesOfClaims, NoCopies
<1>3. CASE lock' # NoThread
  BY <1>3 DEF CopiesOfClaims
<1>4. CASE Scan \/ \E t \in Console, b \in Batch : LoadForRetry(t, b)
  <2>1. db' = db /\ lock' = lock
    BY <1>4 DEF Scan, LoadForRetry
  <2>2. \A u \in Thread, b \in Batch : \/ sess'[u][b] = sess[u][b]
                                       \/ sess'[u][b] = NoRow
                                       \/ sess'[u][b].status = db[b].status
    <3>1. CASE Scan
      <4>1. PICK S \in SUBSET Batch :
              sess' = [sess EXCEPT ![Worker] = [b \in Batch |-> IF b \in S THEN db[b] ELSE NoRow]]
        <5>1. PICK n \in 1..Limit : \E s \in [1..n -> Retryable] :
                sess' = [sess EXCEPT ![Worker] =
                           [b \in Batch |-> IF \E k \in 1..n : s[k] = b THEN db[b] ELSE NoRow]]
          BY <3>1 DEF Scan
        <5>2. PICK s \in [1..n -> Retryable] :
                sess' = [sess EXCEPT ![Worker] =
                           [b \in Batch |-> IF \E k \in 1..n : s[k] = b THEN db[b] ELSE NoRow]]
          BY <5>1
        <5>3. [b \in Batch |-> IF \E k \in 1..n : s[k] = b THEN db[b] ELSE NoRow]
                = [b \in Batch |-> IF b \in {c \in Batch : \E k \in 1..n : s[k] = c}
                                   THEN db[b] ELSE NoRow]
          OBVIOUS
        <5>. QED  BY <5>2, <5>3
      <4>. QED  BY <4>1 DEF ImportInv, QueueInv, TypeOK
    <3>2. CASE \E t \in Console, b \in Batch : LoadForRetry(t, b)
      BY <3>2 DEF LoadForRetry, NoCopies, ImportInv, QueueInv, TypeOK
    <3>. QED  BY <1>4, <3>1, <3>2
  <2>. QED  BY <1>3, <2>1, <2>2, CopiesKept
<1>5. ASSUME NEW b \in Batch, LeaseRunsOut(b)
      PROVE  CopiesOfClaims'
  <2>1. /\ lock' = lock
        /\ \A a \in Batch : db'[a].status = db[a].status
    <3>1. Expire(db[b]).status = db[b].status
      BY DEF Expire, ImportInv, QueueInv, TypeOK, Row
    <3>. QED  BY <1>5, <3>1 DEF LeaseRunsOut, ImportInv, QueueInv, TypeOK
  <2>2. ASSUME NEW u \in Thread, NEW a \in Batch
        PROVE  /\ sess'[u][a] # NoRow => sess[u][a] # NoRow
               /\ sess[u][a] # NoRow => sess'[u][a].status = sess[u][a].status
    <3>1. /\ Expire(sess[u][b]) # NoRow => sess[u][b] # NoRow
          /\ sess[u][b] # NoRow => Expire(sess[u][b]).status = sess[u][b].status
      BY DEF Expire, ImportInv, QueueInv, TypeOK, Row
    <3>2. sess'[u][a] = IF a = b THEN Expire(sess[u][b]) ELSE sess[u][a]
      BY <1>5 DEF LeaseRunsOut, ImportInv, QueueInv, TypeOK
    <3>. QED  BY <3>1, <3>2
  <2>. QED  BY <2>1, <2>2 DEF ImportInv, CopiesOfClaims
<1>6. ASSUME NEW b \in Batch, Enqueue(b) \/ Operator(b)
      PROVE  CopiesOfClaims'
  <2>1. sess' = sess /\ lock' = lock
    BY <1>6 DEF Enqueue, Operator, Reconcile
  <2>2. \E s \in {"PENDING_SYNC", "SYNCED"} : \E n, x : Write(b, s, n, x, "none")
    BY <1>6 DEF Enqueue, Operator, Reconcile
  <2>3. db'[b].status # "SYNCING" /\ \A a \in Batch \ {b} : db'[a] = db[a]
    BY <2>2 DEF ImportInv, QueueInv, TypeOK
  <2>. QED  BY <2>1, <2>3 DEF ImportInv, CopiesOfClaims
<1>7. CASE UNCHANGED <<db, sess, lock>>
  BY <1>7 DEF ImportInv, CopiesOfClaims
<1>8. ASSUME NEW t \in Thread, ResultCommitFails(t)
      PROVE  CopiesOfClaims'
  <2>1. /\ post.batch \in Batch /\ db[post.batch].status = "SYNCING"
        /\ db' = db /\ ~OldCopyElsewhere(t)
        /\ sess' = [sess EXCEPT ![t] = NoCopies]
    BY <1>8, ConstantsOK DEF ResultCommitFails, ImportInv, QueueInv, TypeOK, Posting
  <2>2. \A b \in Batch : db[b].status = "SYNCING" => b = post.batch
    BY <2>1 DEF ImportInv, QueueInv, OneInDoubt, InDoubt
  <2>3. \A u \in Thread \ {t} : sess[u][post.batch] # NoRow =>
          sess[u][post.batch].status \in {"PENDING_SYNC", "SYNCING"}
    BY <2>1 DEF OldCopyElsewhere
  <2>4. /\ \A u \in Thread \ {t} : sess'[u] = sess[u]
        /\ \A b \in Batch : sess'[t][b] = NoRow
    BY <2>1 DEF NoCopies, ImportInv, QueueInv, TypeOK
  <2>. QED  BY <2>1, <2>2, <2>3, <2>4 DEF CopiesOfClaims
<1>. QED
  BY <1>1, <1>2, <1>4, <1>5, <1>6, <1>7, <1>8
     DEF Next, vars, ToggleTally, EditConfig, TallyStep, TallyImports, TallyDrops

LEMMA ImportInvInit == Init => ImportInv
<1> SUFFICES ASSUME Init PROVE ImportInv
  OBVIOUS
<1>1. QueueInv
  BY QueueInvInit
<1>2. ImportedOnce /\ StatusTrue /\ Clean /\ CopiesOfClaims
  BY DEF Init, NewRow, ImportedOnce, StatusTrue, Clean, CopiesOfClaims
<1>. QED  BY <1>1, <1>2 DEF ImportInv

LEMMA ImportInvNext ==
    ASSUME ImportInv, [Next]_vars, ~overtaken'
    PROVE  ImportInv'
<1>1. QueueInv'
  BY QueueInvNext DEF ImportInv
<1>2. ImportedOnce' /\ StatusTrue' /\ Clean'
  BY <1>1, TruthSyncBatch, TruthPostResult, TruthOthers
<1>3. CopiesOfClaims'
  BY CopiesSyncBatch, CopiesOthers
<1>. QED  BY <1>1, <1>2, <1>3 DEF ImportInv

\* The history variable only grows.
LEMMA OvertakenStays ==
    ASSUME [Next]_vars, overtaken
    PROVE  overtaken'
<1>1. CASE \E t \in Thread : ResultCommitFails(t)
  BY <1>1, Zenon DEF ResultCommitFails
<1>2. CASE UNCHANGED overtaken
  BY <1>2
<1>3. UNCHANGED overtaken \/ \E t \in Thread : ResultCommitFails(t)
  <2>1. ASSUME NEW t \in Thread, SyncBatch(t) \/ PostResult(t) PROVE UNCHANGED overtaken
    BY <2>1 DEF bounds, SyncBatch, ReturnAtOnce, LeaseHeld, LeaseExpired, BuildFails,
                TallyDisabled, Claim, ClaimLost, PostResult, PostRefused, PostRejected,
                PostUnknown, PostImported
  <2>. QED  BY <2>1 DEF Next, vars, bounds, Enqueue, EditConfig, ToggleTally, Scan, LoadForRetry,
                       Crash, LeaseRunsOut, TallyStep, TallyImports, TallyDrops, Operator, Reconcile
<1>. QED  BY <1>1, <1>2, <1>3

LEMMA TruthInvNext == TruthInv /\ [Next]_vars => TruthInv'
  BY QueueInvNext, ImportInvNext, OvertakenStays DEF TruthInv

LEMMA TruthInvInit == Init => TruthInv
  BY QueueInvInit, ImportInvInit DEF TruthInv

\* If reconciliations are truthful, Tally imports a voucher at most once,
\* whatever the worker, the console, failed commits and restarts do, until a
\* commit fails while another session keeps an old copy of its row
\* (_sync_batch_locked).
THEOREM AtMostOneImportHolds == Spec => []AtMostOneImport
<1>1. TruthInv => AtMostOneImport
  BY DEF TruthInv, ImportInv, AtMostOneImport
<1>. QED  BY <1>1, TruthInvInit, TruthInvNext, PTL DEF Spec

\* Until then SYNCED means that Tally has the voucher, and a batch that will
\* be posted again has left nothing in Tally (sync_batch, reconcile_batch).
THEOREM StatusTellsTheTruthHolds == Spec => []StatusTellsTheTruth
<1>1. TruthInv => StatusTellsTheTruth
  BY DEF TruthInv, ImportInv, StatusTellsTheTruth
<1>. QED  BY <1>1, TruthInvInit, TruthInvNext, PTL DEF Spec

-----------------------------------------------------------------------------
(* The queue implements CentralQueue.                                      *)

Phase == [b \in Batch |-> PhaseOf(db[b].status)]

LEMMA PhaseValues ==
    /\ PhaseOf("ABSENT") = "absent"
    /\ PhaseOf("PENDING_SYNC") = "waiting" /\ PhaseOf("FAILED") = "waiting"
    /\ PhaseOf("SYNCING") = "doubt" /\ PhaseOf("REVIEW_REQUIRED") = "doubt"
    /\ PhaseOf("SYNCED") = "done"
  BY DEF PhaseOf

\* A write moves one batch to the phase of its new status.
LEMMA PhaseStep ==
    ASSUME NEW b \in Batch, \A a \in Batch \ {b} : db'[a] = db[a]
    PROVE  Phase' = [Phase EXCEPT ![b] = PhaseOf(db'[b].status)]
  BY DEF Phase

\* Steps that keep every phase and Tally's vouchers are invisible.
LEMMA PhaseStutter ==
    ASSUME imports' = imports,
           \A b \in Batch : PhaseOf(db'[b].status) = PhaseOf(db[b].status)
    PROVE  UNCHANGED CQ!vars
<1>1. Phase' = Phase
  BY DEF Phase
<1>. QED  BY <1>1 DEF CQ!vars, Phase

LEMMA RefineSyncBatch ==
    ASSUME ImportInv, NEW t \in Thread, SyncBatch(t)
    PROVE  [CQ!Next]_(CQ!vars)
<1>1. imports' = imports
  BY DEF SyncBatch, ReturnAtOnce, LeaseHeld, LeaseExpired, BuildFails, TallyDisabled,
         Claim, ClaimLost, tally
<1>2. CASE ReturnAtOnce(t) \/ \E a \in Batch : LeaseHeld(t, a) \/ ClaimLost(t, a)
  <2>1. db' = db
    BY <1>2 DEF ReturnAtOnce, LeaseHeld, ClaimLost
  <2>. QED  BY <1>1, <2>1, PhaseStutter
<1>3. ASSUME NEW a \in Batch, LeaseExpired(t, a)
      PROVE  UNCHANGED CQ!vars
  <2>1. db[a].status = "SYNCING"
    BY <1>3, HandedRow DEF LeaseExpired, ImportInv
  <2>2. db'[a].status = "REVIEW_REQUIRED" /\ \A b \in Batch \ {a} : db'[b] = db[b]
    BY <1>3, WriteEffect DEF LeaseExpired, ImportInv
  <2>3. PhaseOf(db'[a].status) = PhaseOf(db[a].status)
    BY <2>1, <2>2, PhaseValues
  <2>. QED  BY <1>1, <2>2, <2>3, PhaseStutter
<1>4. ASSUME NEW a \in Batch, BuildFails(t, a) \/ TallyDisabled(t, a)
      PROVE  UNCHANGED CQ!vars
  <2>1. \/ PendingIn(a, RowOf(t, a)) = db[a].status
        \/ /\ db[a].status \in {"PENDING_SYNC", "FAILED"}
           /\ PendingIn(a, RowOf(t, a)) \in {"PENDING_SYNC", "FAILED"}
    BY <1>4, HandedRow, InterruptedSeen DEF BuildFails, TallyDisabled, ImportInv, PendingIn
  <2>3. \E n, x, l : Write(a, PendingIn(a, RowOf(t, a)), n, x, l)
    BY <1>4 DEF BuildFails, TallyDisabled
  <2>4. /\ db'[a].status = PendingIn(a, RowOf(t, a))
        /\ \A b \in Batch \ {a} : db'[b] = db[b]
    BY <2>3, WriteEffect DEF ImportInv
  <2>5. PhaseOf(db'[a].status) = PhaseOf(db[a].status)
    BY <2>1, <2>4, PhaseValues
  <2>. QED  BY <1>1, <2>4, <2>5, PhaseStutter
<1>5. ASSUME NEW a \in Batch, Claim(t, a)
      PROVE  CQ!Begin(a)
  <2>1. db[a].status \in {"PENDING_SYNC", "FAILED"} /\ InDoubt = {}
    BY <1>5, HandedRow DEF Claim, ImportInv
  <2>2. db'[a].status = "SYNCING" /\ \A b \in Batch \ {a} : db'[b] = db[b]
    <3>1. \E n, x : Write(a, "SYNCING", n, x, "fresh")
      BY <1>5 DEF Claim
    <3>. QED  BY <3>1, WriteEffect DEF ImportInv
  <2>3. Phase' = [Phase EXCEPT ![a] = "doubt"]
    BY <2>2, PhaseStep, PhaseValues
  <2>4. Phase[a] = "waiting" /\ \A b \in Batch : Phase[b] # "doubt"
    <3>1. \A b \in Batch : db[b].status \in {"ABSENT", "PENDING_SYNC", "FAILED", "SYNCED"}
      BY <2>1 DEF InDoubt, ImportInv, QueueInv, TypeOK, Row, Status
    <3>. QED  BY <2>1, <3>1, PhaseValues DEF Phase
  <2>. QED  BY <1>1, <2>3, <2>4 DEF CQ!Begin, Phase
<1>. QED  BY <1>2, <1>3, <1>4, <1>5 DEF SyncBatch, CQ!Next

LEMMA RefinePostResult ==
    ASSUME ImportInv, NEW t \in Thread, PostResult(t)
    PROVE  [CQ!Next]_(CQ!vars)
<1> DEFINE b == post.batch
<1>1. /\ b \in Batch /\ db[b].status = "SYNCING" /\ imports[b] = 0
      /\ imports \in [Batch -> Nat]
  BY DEF PostResult, PostRefused, PostRejected, PostUnknown, PostImported, Finish,
         ImportInv, QueueInv, TypeOK, Posting, Clean
<1>2. Phase[b] = "doubt"
  BY <1>1, PhaseValues DEF Phase
<1>3. ASSUME NEW s, Finish(t, s)
      PROVE  db'[b].status = s /\ \A a \in Batch \ {b} : db'[a] = db[a]
  BY <1>1, <1>3, WriteEffect DEF Finish, ImportInv
<1>4. CASE PostRefused(t) \/ PostRejected(t)
  <2>1. imports' = imports /\ \E s \in {"PENDING_SYNC", "FAILED"} : Finish(t, s)
    BY <1>4 DEF PostRefused, PostRejected, tally
  <2>2. /\ db'[b].status \in {"PENDING_SYNC", "FAILED"}
        /\ \A a \in Batch \ {b} : db'[a] = db[a]
    BY <1>3, <2>1
  <2>3. Phase' = [Phase EXCEPT ![b] = "waiting"]
    BY <1>1, <2>2, PhaseStep, PhaseValues
  <2>4. CQ!GiveBack(b)
    BY <1>1, <1>2, <2>1, <2>3 DEF CQ!GiveBack, Phase
  <2>. QED  BY <1>1, <2>4 DEF CQ!Next
<1>5. CASE PostUnknown(t)
  <2>1. imports' = imports /\ Finish(t, "REVIEW_REQUIRED")
    BY <1>5 DEF PostUnknown
  <2>2. db'[b].status = "REVIEW_REQUIRED" /\ \A a \in Batch \ {b} : db'[a] = db[a]
    BY <1>3, <2>1
  <2>3. PhaseOf(db'[b].status) = PhaseOf(db[b].status)
    BY <1>1, <2>2, PhaseValues
  <2>. QED  BY <2>1, <2>2, <2>3, PhaseStutter
<1>6. CASE PostImported(t)
  <2>1. imports' = [imports EXCEPT ![b] = 1] /\ Finish(t, "SYNCED")
    BY <1>1, <1>6 DEF PostImported
  <2>2. db'[b].status = "SYNCED" /\ \A a \in Batch \ {b} : db'[a] = db[a]
    BY <1>3, <2>1
  <2>3. Phase' = [Phase EXCEPT ![b] = "done"]
    BY <1>1, <2>2, PhaseStep, PhaseValues
  <2>4. CQ!Done(b)
    BY <1>2, <2>1, <2>3 DEF CQ!Done, Phase
  <2>. QED  BY <1>1, <2>4 DEF CQ!Next
<1>. QED  BY <1>4, <1>5, <1>6 DEF PostResult

LEMMA RefineOthers ==
    ASSUME ImportInv, [Next]_vars,
           ~ \E t \in Thread : SyncBatch(t) \/ PostResult(t)
    PROVE  [CQ!Next]_(CQ!vars)
<1>1. CASE imports' = imports /\ \A b \in Batch : db'[b].status = db[b].status
  BY <1>1, PhaseStutter
<1>2. CASE \/ UNCHANGED vars \/ Scan \/ ToggleTally \/ Crash
           \/ \E c \in Config : EditConfig(c)
           \/ \E t \in Console, b \in Batch : LoadForRetry(t, b)
           \/ \E t \in Thread : ResultCommitFails(t)
           \/ \E b \in Batch : TallyDrops(b)
  <2>1. imports' = imports /\ db' = db
    BY <1>2 DEF vars, tally, Scan, ToggleTally, EditConfig, LoadForRetry, Crash,
                ResultCommitFails, TallyDrops
  <2>. QED  BY <1>1, <2>1
<1>3. ASSUME NEW b \in Batch, LeaseRunsOut(b)
      PROVE  [CQ!Next]_(CQ!vars)
  <2>1. Expire(db[b]).status = db[b].status
    BY DEF Expire, ImportInv, QueueInv, TypeOK, Row
  <2>2. imports' = imports /\ \A a \in Batch : db'[a].status = db[a].status
    BY <1>3, <2>1 DEF LeaseRunsOut, tally, ImportInv, QueueInv, TypeOK
  <2>. QED  BY <1>1, <2>2
<1>4. ASSUME NEW b \in Batch, Enqueue(b)
      PROVE  CQ!Submit(b)
  <2>1. imports' = imports /\ db[b].status = "ABSENT"
    BY <1>4 DEF Enqueue, Created, tally
  <2>2. db'[b].status = "PENDING_SYNC" /\ \A a \in Batch \ {b} : db'[a] = db[a]
    BY <1>4, WriteEffect DEF Enqueue, ImportInv
  <2>3. Phase[b] = "absent" /\ Phase' = [Phase EXCEPT ![b] = "waiting"]
    <3>1. Phase[b] = "absent"
      BY <2>1, PhaseValues DEF Phase
    <3>2. Phase' = [Phase EXCEPT ![b] = "waiting"]
      BY <2>2, PhaseStep, PhaseValues
    <3>. QED  BY <3>1, <3>2
  <2>. QED  BY <2>1, <2>3 DEF CQ!Submit, Phase
<1>5. ASSUME NEW b \in Batch, TallyImports(b)
      PROVE  CQ!Import(b)
  <2>1. imports[b] = 0 /\ imports' = [imports EXCEPT ![b] = 1] /\ db' = db
    <3>1. imports[b] = 0
      BY <1>5, ImportedOnceMeans DEF TallyImports, ImportInv, QueueInv
    <3>. QED  BY <1>5, <3>1 DEF TallyImports
  <2>2. db[b].status \in {"SYNCING", "REVIEW_REQUIRED"}
    BY <1>5, <2>1 DEF TallyImports, ImportInv, StatusTrue, Clean, QueueInv, TypeOK,
                      Row, Status
  <2>3. Phase[b] = "doubt" /\ Phase' = Phase
    BY <2>1, <2>2, PhaseValues DEF Phase
  <2>. QED  BY <2>1, <2>3 DEF CQ!Import, Phase
<1>6. ASSUME NEW b \in Batch, Operator(b)
      PROVE  CQ!Done(b) \/ CQ!GiveBack(b)
  <2>1. imports' = imports /\ db[b].status = "REVIEW_REQUIRED" /\ Phase[b] = "doubt"
    <3>1. imports' = imports /\ db[b].status = "REVIEW_REQUIRED"
      BY <1>6 DEF Operator, Reconcile, tally
    <3>. QED  BY <3>1, PhaseValues DEF Phase
  <2>2. imports \in [Batch -> Nat] /\ imports[b] \in {0, 1}
    BY ImportedOnceMeans DEF ImportInv, QueueInv, TypeOK
  <2>3. \/ (Write(b, "SYNCED", db[b].retries, db[b].xml, "none") /\ imports[b] > 0)
        \/ (Write(b, "PENDING_SYNC", 0, db[b].xml, "none") /\ ~(imports[b] > 0))
    BY <1>6 DEF Operator, Reconcile
  <2>4. CASE imports[b] = 1
    <3>1. Write(b, "SYNCED", db[b].retries, db[b].xml, "none")
      BY <2>4, <2>3
    <3>2. db'[b].status = "SYNCED" /\ \A a \in Batch \ {b} : db'[a] = db[a]
      BY <3>1, WriteEffect DEF ImportInv
    <3>3. Phase' = [Phase EXCEPT ![b] = "done"]
      BY <3>2, PhaseStep, PhaseValues
    <3>4. imports' = [imports EXCEPT ![b] = 1]
      BY <2>1, <2>2, <2>4
    <3>. QED  BY <2>1, <3>3, <3>4 DEF CQ!Done, Phase
  <2>5. CASE imports[b] = 0
    <3>1. Write(b, "PENDING_SYNC", 0, db[b].xml, "none")
      BY <2>5, <2>3
    <3>2. db'[b].status = "PENDING_SYNC" /\ \A a \in Batch \ {b} : db'[a] = db[a]
      BY <3>1, WriteEffect DEF ImportInv
    <3>3. Phase' = [Phase EXCEPT ![b] = "waiting"]
      BY <3>2, PhaseStep, PhaseValues
    <3>. QED  BY <2>1, <2>5, <3>3 DEF CQ!GiveBack, Phase
  <2>. QED  BY <2>2, <2>4, <2>5
<1>. QED
  BY <1>2, <1>3, <1>4, <1>5, <1>6 DEF Next, TallyStep, CQ!Next

\* If reconciliations are truthful, the queue of tally.py implements
\* CentralQueue until a commit fails under an old copy of its row: every
\* voucher is imported alone, exactly when its batch is SYNCED or in doubt,
\* and never again.
THEOREM QueueImplementsCentralQueue == Spec => ImplementsCentralQueue
<1>1. Init => CQ!Init
  <2> SUFFICES ASSUME Init PROVE CQ!Init
    OBVIOUS
  <2>1. Phase = [b \in Batch |-> "absent"]
    BY PhaseValues DEF Init, NewRow, Phase
  <2>. QED  BY <2>1 DEF Init, CQ!Init, Phase
<1>2. TruthInv /\ [Next]_vars => [overtaken' \/ CQ!Next]_(CQ!vars)
  BY RefineSyncBatch, RefinePostResult, RefineOthers, OvertakenStays DEF TruthInv
<1>. QED
  BY <1>1, <1>2, TruthInvInit, TruthInvNext, PTL DEF Spec, ImplementsCentralQueue
=============================================================================
