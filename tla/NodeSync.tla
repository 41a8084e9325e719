------------------------------ MODULE NodeSync ------------------------------
(***************************************************************************)
(* POST /api/v1/events between the franchises' Lite installations and      *)
(* Master: authentication (node_auth.py), the wait for the request's body  *)
(* (node_api.py) and the sequence and duplicate checks of ingest_events    *)
(* (network_ingest.py), with the console operations that replace a         *)
(* franchise's credential or disable it (master_console.py).               *)
(*                                                                         *)
(* Lite and the network are external: Lite numbers its events, posts from  *)
(* the oldest one that is not SENT and repeats a post it got no answer to; *)
(* requests and answers can be lost, and a repeated post can overtake or   *)
(* follow the original.  A Lite restored from a backup records new events  *)
(* under old numbers.                                                      *)
(*                                                                         *)
(* Abstractions.  An event is its id; its body never changes, so the       *)
(* payload hash differs exactly when the number does.  What an event does  *)
(* is NetworkIngest's subject: here it is accepted or, if its domain rules *)
(* refuse it (Refused), the whole request is rolled back.  Error answers   *)
(* carry nothing that Lite acts on except to try again.  Rate limiting     *)
(* drops requests like the network does.                                   *)
(***************************************************************************)
EXTENDS Naturals, Sequences, FiniteSets

CONSTANTS
    Node,         \* franchises
    Event,        \* event ids
    Refused,      \* events whose domain checks fail
    Admin,        \* console threads
    NoTask,       \* the thread serves no request
    MaxBatch,     \* events in one request
    MaxInFlight,  \* bound: requests on their way or being served
    MaxKeys,      \* bound: credentials issued to a franchise
    MaxIncidents  \* bound: rotations, disablings and restores of a Lite

ASSUME SyncConstants ==
    /\ Refused \subseteq Event
    /\ MaxBatch \in Nat \ {0}
    /\ MaxInFlight \in Nat
    /\ MaxKeys \in Nat \ {0}
    /\ MaxIncidents \in Nat

VARIABLES
    \* Lite (external)
    outbox,    \* its events, in the order of their numbers
    sent,      \* how many of them are SENT
    used,      \* event ids that exist
    liteKey,   \* the credential it is configured with
    restores,  \* how often it was restored
    \* the network (external)
    requests,  \* posts on their way to Master
    answers,   \* acknowledgements on their way to Lite
    \* Master
    serving,   \* authenticated requests whose body is awaited
    inbound,   \* inbound_events
    cursor,    \* franchise_nodes.last_sequence
    active,    \* franchise_nodes.active
    keys,      \* credentials that are not revoked
    issued,    \* how many credentials were issued
    task,      \* per console thread: what the running request has read
    begun,     \* how many rotations and disablings there were
    overlapped \* history: franchises whose last such request had read old rows

lite    == <<outbox, sent, used, liteKey, restores>>
network == <<requests, answers>>
journal == <<inbound, cursor>>
access  == <<active, keys, issued, task, begun, overlapped>>
vars    == <<lite, network, serving, journal, access>>

Key     == 1..MaxKeys
Request == [node : Node, key : Key, first : Nat \ {0}, events : Seq(Event)]
Answer  == [node : Node, first : Nat \ {0}, events : Seq(Event)]
Row     == [node : Node, seq : Nat \ {0}, event : Event]
Task    == [kind : {"rotate", "disable"}, node : Node,
            was : BOOLEAN, seen : SUBSET Key]

\* create_franchise has issued the first credential and Lite is connected.
Init ==
    /\ outbox = [n \in Node |-> <<>>]
    /\ sent = [n \in Node |-> 0]
    /\ used = {}
    /\ liteKey = [n \in Node |-> 1]
    /\ restores = [n \in Node |-> 0]
    /\ requests = {}
    /\ answers = {}
    /\ serving = {}
    /\ inbound = {}
    /\ cursor = [n \in Node |-> 0]
    /\ active = [n \in Node |-> TRUE]
    /\ keys = [n \in Node |-> {1}]
    /\ issued = [n \in Node |-> 1]
    /\ task = [a \in Admin |-> NoTask]
    /\ begun = 0
    /\ overlapped = {}

-----------------------------------------------------------------------------
(* Lite and the network.                                                   *)

\* A new event id.  Ids that are refused alike are interchangeable: they are
\* used up in a fixed order.
NewId(e) ==
    e = CHOOSE x \in Event : x \notin used /\ (x \in Refused <=> e \in Refused)

\* A local operation records an event under the next number.
LiteRecord(n, e) ==
    /\ e \notin used
    /\ NewId(e)
    /\ used' = used \cup {e}
    /\ outbox' = [outbox EXCEPT ![n] = Append(@, e)]
    /\ UNCHANGED <<sent, liteKey, restores, network, serving, journal, access>>

\* Lite posts events from the oldest one that is not SENT.
LitePost(n) ==
    /\ Cardinality(requests \cup serving) < MaxInFlight
    /\ \E last \in (sent[n] + 1)..Len(outbox[n]) :
          /\ last - sent[n] <= MaxBatch
          /\ requests' = requests \cup
                {[node |-> n, key |-> liteKey[n], first |-> sent[n] + 1,
                  events |-> SubSeq(outbox[n], sent[n] + 1, last)]}
    /\ UNCHANGED <<lite, answers, serving, journal, access>>

\* Lite reads an answer that acknowledges its oldest unsent events by id
\* and number.
LiteAck(a) ==
    LET n == a.node
        last == a.first + Len(a.events) - 1 IN
    /\ a \in answers
    /\ answers' = answers \ {a}
    /\ a.first <= sent[n] + 1 /\ sent[n] < last
    /\ \A i \in 1..Len(a.events) :
          a.first + i - 1 <= Len(outbox[n]) /\ outbox[n][a.first + i - 1] = a.events[i]
    /\ sent' = [sent EXCEPT ![n] = last]
    /\ UNCHANGED <<outbox, used, liteKey, restores, requests, serving, journal, access>>

\* The computer is restored from a backup that lacks the newest events.
LiteRestore(n, length) ==
    /\ begun + restores[n] < MaxIncidents
    /\ length < Len(outbox[n])
    /\ restores' = [restores EXCEPT ![n] = @ + 1]
    /\ outbox' = [outbox EXCEPT ![n] = SubSeq(@, 1, length)]
    /\ sent' = [sent EXCEPT ![n] = IF @ > length THEN length ELSE @]
    /\ UNCHANGED <<used, liteKey, network, serving, journal, access>>

\* Connection details that the console showed are pasted into Lite.
LiteConnect(n, k) ==
    /\ k \in 1..issued[n]
    /\ k # liteKey[n]
    /\ liteKey' = [liteKey EXCEPT ![n] = k]
    /\ UNCHANGED <<outbox, sent, used, restores, network, serving, journal, access>>

Lose ==
    \/ /\ \E r \in requests : requests' = requests \ {r}
       /\ UNCHANGED <<lite, answers, serving, journal, access>>
    \/ /\ \E a \in answers : answers' = answers \ {a}
       /\ UNCHANGED <<lite, requests, serving, journal, access>>

-----------------------------------------------------------------------------
(* post_events.                                                            *)

\* authenticate_bearer: the credential is not revoked and the node active.
\* The handler then waits for the body.
Authenticate(r) ==
    /\ r \in requests
    /\ requests' = requests \ {r}
    /\ IF r.key \in keys[r.node] /\ active[r.node]
       THEN serving' = serving \cup {r}
       ELSE UNCHANGED serving
    /\ UNCHANGED <<lite, answers, journal, access>>

\* The client goes away, or Master stops, before the body has arrived.
BodyLost(r) ==
    /\ r \in serving
    /\ serving' = serving \ {r}
    /\ UNCHANGED <<lite, network, journal, access>>

\* Mutants of RowOf: numbers from zero; a request's events in reverse order.
RowOfZeroBased(r, i) == [node |-> r.node, seq |-> r.first + i - 2, event |-> r.events[i]]

RowOfReversed(r, i) ==
    [node |-> r.node, seq |-> r.first + i - 1, event |-> r.events[Len(r.events) + 1 - i]]

RowOf(r, i) == [node |-> r.node, seq |-> r.first + i - 1, event |-> r.events[i]]

\* The events of the request that Master has not seen.
Fresh(r) == {i \in 1..Len(r.events) : \A row \in inbound : row.event # r.events[i]}

\* Mutant of DuplicatesAgree: an event that is known is an error.
DuplicatesRefused(r) == Fresh(r) = 1..Len(r.events)

\* A known event id is the same franchise's event with the same body, and
\* the request does not use an id under two numbers.
DuplicatesAgree(r) ==
    /\ \A i \in (1..Len(r.events)) \ Fresh(r) : RowOf(r, i) \in inbound
    /\ \A i, j \in Fresh(r) : r.events[i] = r.events[j] => i = j

\* Mutant of InSequence: numbers are not checked.
InSequenceUnchecked(r) == TRUE

\* The number of a new event is free and one more than the cursor, which
\* the new events before it in the request have moved: the new events are
\* neighbours and the first one follows the cursor.
InSequence(r) ==
    /\ \A row \in inbound, i \in Fresh(r) :
          row.node = r.node => row.seq # r.first + i - 1
    /\ \E lo \in 1..(Len(r.events) + 1), hi \in 0..Len(r.events) :
          /\ Fresh(r) = lo..hi
          /\ lo <= hi => r.first + lo - 1 = cursor[r.node] + 1

\* Mutant of Record: the transaction is not committed.
RecordLost(r) == UNCHANGED journal

\* The new events are journalled and the cursor is the last one's number.
Record(r) ==
    /\ inbound' = inbound \cup {RowOf(r, i) : i \in Fresh(r)}
    /\ \/ Fresh(r) = {} /\ UNCHANGED cursor
       \/ \E i \in Fresh(r) :
             /\ \A j \in Fresh(r) : j <= i
             /\ cursor' = [cursor EXCEPT ![r.node] = r.first + i - 1]

\* The body has arrived: ingest_events runs and commits, or rolls back.
Ingest(r) ==
    /\ r \in serving
    /\ serving' = serving \ {r}
    /\ IF /\ active[r.node]
          /\ DuplicatesAgree(r)
          /\ InSequence(r)
          /\ \A i \in Fresh(r) : r.events[i] \notin Refused
       THEN /\ Record(r)
            /\ answers' = answers \cup
                  {[node |-> r.node, first |-> r.first, events |-> r.events]}
       ELSE UNCHANGED <<journal, answers>>
    /\ UNCHANGED <<lite, requests, access>>

-----------------------------------------------------------------------------
(* The console.  Credentials are read before the write lock is taken.      *)

\* rotate_franchise_credential and set_franchise_status(false) up to their
\* first write.  Threads are interchangeable: the first free one is taken.
BeginTask(a, kind, n) ==
    /\ task[a] = NoTask
    /\ a = CHOOSE b \in Admin : task[b] = NoTask
    /\ begun + restores[n] < MaxIncidents
    /\ begun' = begun + 1
    /\ kind = "rotate" => active[n]
    /\ task' = [task EXCEPT ![a] = [kind |-> kind, node |-> n,
                                     was |-> active[n], seen |-> keys[n]]]
    /\ UNCHANGED <<lite, network, serving, journal, active, keys, issued, overlapped>>

\* Another request has changed the franchise or its credentials since this
\* one read them.
Stale(a) == LET n == task[a].node IN task[a].was # active[n] \/ task[a].seen # keys[n]

Remember(a) ==
    overlapped' = IF Stale(a) THEN overlapped \cup {task[a].node}
                              ELSE overlapped \ {task[a].node}

\* Mutant of RotateCredential: the old credentials stay valid.
RotateKeepsOld(a) ==
    LET n == task[a].node IN
    /\ task[a] # NoTask /\ task[a].kind = "rotate"
    /\ issued[n] < MaxKeys
    /\ issued' = [issued EXCEPT ![n] = @ + 1]
    /\ keys' = [keys EXCEPT ![n] = @ \cup {issued[n] + 1}]
    /\ task' = [task EXCEPT ![a] = NoTask]
    /\ Remember(a)
    /\ UNCHANGED <<lite, network, serving, journal, active, begun>>

\* The credentials that were seen are revoked and the new one is inserted.
RotateCredential(a) ==
    LET n == task[a].node IN
    /\ task[a] # NoTask /\ task[a].kind = "rotate"
    /\ issued[n] < MaxKeys
    /\ issued' = [issued EXCEPT ![n] = @ + 1]
    /\ keys' = [keys EXCEPT ![n] = (@ \ task[a].seen) \cup {issued[n] + 1}]
    /\ task' = [task EXCEPT ![a] = NoTask]
    /\ Remember(a)
    /\ UNCHANGED <<lite, network, serving, journal, active, begun>>

\* The franchise is disabled and the credentials that were seen are revoked;
\* a franchise that was read as disabled is not written again.
DisableFranchise(a) ==
    LET n == task[a].node IN
    /\ task[a] # NoTask /\ task[a].kind = "disable"
    /\ active' = [active EXCEPT ![n] = @ /\ ~task[a].was]
    /\ keys' = [keys EXCEPT ![n] = @ \ task[a].seen]
    /\ task' = [task EXCEPT ![a] = NoTask]
    /\ Remember(a)
    /\ UNCHANGED <<lite, network, serving, journal, issued, begun>>

EnableFranchise(a, n) ==
    /\ task[a] = NoTask
    /\ active' = [active EXCEPT ![n] = TRUE]
    /\ UNCHANGED <<lite, network, serving, journal, keys, issued, task, begun, overlapped>>

-----------------------------------------------------------------------------
Lite(n) ==
    \/ \E e \in Event : LiteRecord(n, e)
    \/ LitePost(n)
    \/ \E length \in 0..Len(outbox[n]) : LiteRestore(n, length)
    \/ \E k \in Key : LiteConnect(n, k)

Console(a) ==
    \/ \E kind \in {"rotate", "disable"}, n \in Node : BeginTask(a, kind, n)
    \/ RotateCredential(a)
    \/ DisableFranchise(a)
    \/ \E n \in Node : EnableFranchise(a, n)

Next ==
    \/ \E n \in Node : Lite(n)
    \/ \E a \in answers : LiteAck(a)
    \/ Lose
    \/ \E r \in requests : Authenticate(r)
    \/ \E r \in serving : BodyLost(r) \/ Ingest(r)
    \/ \E a \in Admin : Console(a)

Spec == Init /\ [][Next]_vars

\* Lite repeats its post, and a post or an answer that is sent again and
\* again gets through in the end.
AuthenticateOf(n) == \E r \in requests : r.node = n /\ Authenticate(r)
IngestOf(n)       == \E r \in serving : r.node = n /\ Ingest(r)
AckOf(n)          == \E a \in answers : a.node = n /\ LiteAck(a)

Fairness == \A n \in Node :
    /\ WF_vars(LitePost(n))
    /\ SF_vars(AuthenticateOf(n))
    /\ SF_vars(IngestOf(n))
    /\ SF_vars(AckOf(n))

FairSpec == Spec /\ Fairness

-----------------------------------------------------------------------------
(* Properties.                                                             *)

TypeOK ==
    /\ outbox \in [Node -> Seq(Event)]
    /\ sent \in [Node -> Nat]
    /\ used \subseteq Event
    /\ liteKey \in [Node -> Key]
    /\ restores \in [Node -> Nat]
    /\ requests \subseteq Request
    /\ answers \subseteq Answer
    /\ serving \subseteq Request
    /\ inbound \subseteq Row
    /\ cursor \in [Node -> Nat]
    /\ active \in [Node -> BOOLEAN]
    /\ keys \in [Node -> SUBSET Key]
    /\ issued \in [Node -> Key]
    /\ task \in [Admin -> Task \cup {NoTask}]
    /\ begun \in 0..MaxIncidents
    /\ overlapped \subseteq Node

\* Master's journal of a franchise has exactly the numbers up to its cursor,
\* each once, and no event twice: repeated, overtaken and overlapping posts
\* neither skip an event nor apply one again.
JournalGapFree ==
    /\ \A n \in Node : {row.seq : row \in {w \in inbound : w.node = n}} = 1..cursor[n]
    /\ \A v, w \in inbound :
          (v.node = w.node /\ v.seq = w.seq) \/ v.event = w.event => v = w

\* What Lite has marked SENT is in Master's journal under the same number,
\* also after a restore: Lite never drops an event that Master lacks.
SentIsAccepted == \A n \in Node : \A i \in 1..sent[n] :
    /\ i <= Len(outbox[n])
    /\ [node |-> n, seq |-> i, event |-> outbox[n][i]] \in inbound

\* As long as a Lite is not restored, Master's journal is a prefix of the
\* events it recorded, in its order.
JournalFollowsLite == \A row \in inbound :
    restores[row.node] = 0 =>
        row.seq <= Len(outbox[row.node]) /\ outbox[row.node][row.seq] = row.event

\* A franchise has at most one credential that is not revoked, and none
\* while it is disabled: "rotate a key, which immediately revokes every
\* prior active key for that franchise" and "deactivate a franchise, which
\* also revokes its active credentials"
\* (archive/legacy-node-api/docs/node-sync-v1.md:67-69).  The code keeps it
\* only for requests that do not overlap on one franchise; after requests
\* that did, the next one that has read the current rows restores it.
OneCredential == \A n \in Node \ overlapped :
    /\ \A k, l \in keys[n] : k = l
    /\ ~active[n] => keys[n] = {}

\* A refused event is so near the head of the outbox that every post of
\* Lite's may contain it.
HeldByRefused(n) ==
    \E i \in (sent[n] + 1)..Len(outbox[n]) :
        i <= sent[n] + MaxBatch /\ outbox[n][i] \in Refused

\* Every event reaches Master and its acknowledgement Lite, as long as the
\* franchise stays connected: only a refused event or a restored Lite can
\* hold up the others.
EventsArrive == \A n \in Node :
    []<>(\/ sent[n] = Len(outbox[n])
         \/ ~active[n] \/ liteKey[n] \notin keys[n]
         \/ HeldByRefused(n)
         \/ restores[n] > 0)

-----------------------------------------------------------------------------
(* The inductive invariant of the proofs in NodeSyncProofs.                *)

\* Master acknowledges only what is in its journal.
AnswersAreTrue == \A a \in answers : \A i \in 1..Len(a.events) :
    [node |-> a.node, seq |-> a.first + i - 1, event |-> a.events[i]] \in inbound

\* Requests hold what Lite recorded, under its numbers.
RequestsFollowLite == \A r \in requests \cup serving :
    restores[r.node] = 0 =>
        \A i \in 1..Len(r.events) :
            /\ r.first + i - 1 <= Len(outbox[r.node])
            /\ outbox[r.node][r.first + i - 1] = r.events[i]

\* Only an active franchise is given a credential.
RotatesActive == \A a \in Admin :
    task[a] # NoTask => (task[a].kind = "rotate" => task[a].was)

SyncInv ==
    /\ TypeOK
    /\ JournalGapFree
    /\ AnswersAreTrue
    /\ SentIsAccepted
    /\ RequestsFollowLite
    /\ JournalFollowsLite
=============================================================================
