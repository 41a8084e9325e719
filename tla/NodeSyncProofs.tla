--------------------------- MODULE NodeSyncProofs ---------------------------
(***************************************************************************)
(* Proofs about NodeSync for every set of franchises and events, every     *)
(* batch size and every number of requests in flight, credentials and      *)
(* restores.  The inductive invariant SyncInv adds to the three properties *)
(* that Master's answers are true and that requests carry what Lite        *)
(* recorded: both are what a late or repeated message relies on.           *)
(***************************************************************************)
EXTENDS NodeSync, SequenceTheorems, TLAPS

\* Initially nothing was recorded, sent or journalled.
LEMMA SyncInit == Init => SyncInv
<1> SUFFICES ASSUME Init PROVE SyncInv
  OBVIOUS
<1>1. TypeOK
  BY SyncConstants DEF Init, TypeOK, Key
<1>2. JournalGapFree
  BY DEF Init, JournalGapFree
<1>3. SentIsAccepted
  BY DEF Init, SentIsAccepted
<1>4. AnswersAreTrue /\ RequestsFollowLite /\ JournalFollowsLite
  BY DEF Init, AnswersAreTrue, RequestsFollowLite, JournalFollowsLite
<1>. QED  BY <1>1, <1>2, <1>3, <1>4 DEF SyncInv

\* A step that only drops messages or moves a request keeps the invariant.
LEMMA Frame ==
    ASSUME SyncInv, TypeOK', UNCHANGED <<outbox, sent, restores, journal>>,
           answers' \subseteq answers, (requests \cup serving)' \subseteq requests \cup serving
    PROVE  SyncInv'
<1>1. JournalGapFree'
  BY DEF SyncInv, JournalGapFree, journal
<1>2. AnswersAreTrue'
  BY DEF SyncInv, AnswersAreTrue, journal
<1>3. SentIsAccepted'
  BY DEF SyncInv, SentIsAccepted, journal
<1>4. RequestsFollowLite'
  BY DEF SyncInv, RequestsFollowLite
<1>5. JournalFollowsLite'
  BY DEF SyncInv, JournalFollowsLite, journal
<1>. QED  BY <1>1, <1>2, <1>3, <1>4, <1>5 DEF SyncInv

LEMMA InvLiteRecord ==
    ASSUME SyncInv, NEW n \in Node, NEW e \in Event, LiteRecord(n, e)
    PROVE  SyncInv'
<1> USE DEF LiteRecord, network, journal, access
<1>1. /\ outbox[n] \in Seq(Event)
      /\ outbox' = [outbox EXCEPT ![n] = Append(outbox[n], e)]
      /\ outbox \in [Node -> Seq(Event)]
  BY DEF SyncInv, TypeOK
<1>2. /\ Append(outbox[n], e) \in Seq(Event)
      /\ Len(Append(outbox[n], e)) = Len(outbox[n]) + 1
      /\ \A i \in 1..Len(outbox[n]) : Append(outbox[n], e)[i] = outbox[n][i]
  BY <1>1, AppendProperties
<1>3. \A m \in Node : /\ Len(outbox[m]) \in Nat
                      /\ Len(outbox'[m]) \in Nat
                      /\ Len(outbox[m]) <= Len(outbox'[m])
                      /\ \A i \in 1..Len(outbox[m]) : outbox'[m][i] = outbox[m][i]
  BY <1>1, <1>2, LenProperties
<1>4. TypeOK'
  BY <1>1, <1>2 DEF SyncInv, TypeOK
<1>5. JournalGapFree' /\ AnswersAreTrue'
  BY DEF SyncInv, JournalGapFree, AnswersAreTrue
<1>6. SentIsAccepted'
  <2> SUFFICES ASSUME NEW m \in Node, NEW i \in 1..sent[m]
               PROVE  /\ i <= Len(outbox'[m])
                      /\ [node |-> m, seq |-> i, event |-> outbox'[m][i]] \in inbound
    BY DEF SentIsAccepted
  <2>1. /\ i <= Len(outbox[m])
        /\ [node |-> m, seq |-> i, event |-> outbox[m][i]] \in inbound
    BY DEF SyncInv, SentIsAccepted
  <2>2. sent[m] \in Nat
    BY DEF SyncInv, TypeOK
  <2>3. i <= Len(outbox'[m]) /\ outbox'[m][i] = outbox[m][i]
    BY <1>3, <2>1, <2>2
  <2>. QED  BY <2>1, <2>3
<1>7. RequestsFollowLite'
  <2> SUFFICES ASSUME NEW r \in requests \cup serving, restores[r.node] = 0,
                      NEW i \in 1..Len(r.events)
               PROVE  /\ r.first + i - 1 <= Len(outbox'[r.node])
                      /\ outbox'[r.node][r.first + i - 1] = r.events[i]
    BY DEF RequestsFollowLite
  <2>1. r.node \in Node /\ r.first \in Nat \ {0} /\ r.events \in Seq(Event)
    BY DEF SyncInv, TypeOK, Request
  <2>2. /\ r.first + i - 1 <= Len(outbox[r.node])
        /\ outbox[r.node][r.first + i - 1] = r.events[i]
    BY DEF SyncInv, RequestsFollowLite
  <2>. QED  BY <2>1, <2>2, <1>3
<1>8. JournalFollowsLite'
  BY <1>3 DEF SyncInv, TypeOK, Row, JournalFollowsLite
<1>. QED  BY <1>4, <1>5, <1>6, <1>7, <1>8 DEF SyncInv

LEMMA InvLitePost ==
    ASSUME SyncInv, NEW n \in Node, LitePost(n)
    PROVE  SyncInv'
<1> USE DEF LitePost, lite, journal, access
<1>1. PICK last \in (sent[n] + 1)..Len(outbox[n]) :
         requests' = requests \cup
            {[node |-> n, key |-> liteKey[n], first |-> sent[n] + 1,
              events |-> SubSeq(outbox[n], sent[n] + 1, last)]}
  OBVIOUS
<1> DEFINE es == SubSeq(outbox[n], sent[n] + 1, last)
           req == [node |-> n, key |-> liteKey[n], first |-> sent[n] + 1, events |-> es]
<1>2. sent[n] \in Nat /\ liteKey[n] \in Key /\ outbox[n] \in Seq(Event)
  BY DEF SyncInv, TypeOK
<1>3. Len(outbox[n]) \in Nat /\ \A i \in 1..Len(outbox[n]) : outbox[n][i] \in Event
  BY <1>2, LenProperties
<1>4. \A i \in (sent[n] + 1)..last : outbox[n][i] \in Event
  BY <1>2, <1>3
<1>5. /\ es \in Seq(Event)
      /\ Len(es) = last - (sent[n] + 1) + 1
      /\ \A i \in 1..(last - (sent[n] + 1) + 1) : es[i] = outbox[n][(sent[n] + 1) + i - 1]
  <2>1. sent[n] + 1 \in Int /\ last \in Int /\ sent[n] + 1 <= last
    BY <1>2, <1>3
  <2>. QED  BY <2>1, <1>4, SubSeqProperties
<1>6. req \in Request
  BY <1>2, <1>5 DEF Request
<1>7. TypeOK'
  BY <1>1, <1>6 DEF SyncInv, TypeOK
<1>8. JournalGapFree' /\ AnswersAreTrue' /\ SentIsAccepted' /\ JournalFollowsLite'
  BY DEF SyncInv, JournalGapFree, AnswersAreTrue, SentIsAccepted, JournalFollowsLite
<1>9. RequestsFollowLite'
  <2>0. ASSUME NEW i \in 1..Len(es)
        PROVE  /\ sent[n] + 1 + i - 1 <= Len(outbox[n])
               /\ outbox[n][sent[n] + 1 + i - 1] = es[i]
    <3> HIDE DEF es, LitePost
    <3>1. i \in 1..(last - (sent[n] + 1) + 1)
      BY <1>5
    <3>2. outbox[n][sent[n] + 1 + i - 1] = es[i]
      BY <1>5, <3>1
    <3>. QED  BY <1>2, <1>3, <3>1, <3>2
  <2>1. \A i \in 1..Len(es) : /\ sent[n] + 1 + i - 1 <= Len(outbox[n])
                              /\ outbox[n][sent[n] + 1 + i - 1] = es[i]
    BY <2>0
  <2>2. \A i \in 1..Len(req.events) : /\ req.first + i - 1 <= Len(outbox[req.node])
                                      /\ outbox[req.node][req.first + i - 1] = req.events[i]
    BY <2>1
  <2> HIDE DEF req
  <2>. QED  BY <1>1, <2>2 DEF SyncInv, RequestsFollowLite, req
<1>. QED  BY <1>7, <1>8, <1>9 DEF SyncInv

LEMMA InvLiteAck ==
    ASSUME SyncInv, NEW a \in answers, LiteAck(a)
    PROVE  SyncInv'
<1> USE DEF LiteAck, journal, access
<1> DEFINE n == a.node
           last == a.first + Len(a.events) - 1
<1>1. n \in Node /\ a.first \in Nat \ {0} /\ a.events \in Seq(Event) /\ Len(a.events) \in Nat
  BY DEF SyncInv, TypeOK, Answer
<1>2. sent[n] \in Nat /\ a.first <= sent[n] + 1 /\ sent[n] < last /\ last \in Nat
  BY <1>1 DEF SyncInv, TypeOK
<1>3. sent' = [sent EXCEPT ![n] = last] /\ answers' \subseteq answers
  OBVIOUS
<1>4. TypeOK'
  BY <1>1, <1>2, <1>3 DEF SyncInv, TypeOK
<1>5. JournalGapFree' /\ AnswersAreTrue' /\ RequestsFollowLite' /\ JournalFollowsLite'
  BY DEF SyncInv, JournalGapFree, AnswersAreTrue, RequestsFollowLite, JournalFollowsLite
<1>6. ASSUME NEW i \in 1..last
      PROVE  /\ i <= Len(outbox[n])
             /\ [node |-> n, seq |-> i, event |-> outbox[n][i]] \in inbound
  <2>1. CASE i <= sent[n]
    BY <1>1, <1>2, <2>1 DEF SyncInv, SentIsAccepted
  <2>2. CASE i > sent[n]
    <3> DEFINE j == i - a.first + 1
    <3>0. /\ i \in Nat /\ i <= a.first + Len(a.events) - 1
          /\ i >= sent[n] + 1 /\ a.first <= sent[n] + 1
      BY <1>1, <1>2, <2>2
    <3>1. j \in 1..Len(a.events) /\ a.first + j - 1 = i
      <4>1. ASSUME NEW f \in Nat \ {0}, NEW l \in Nat, NEW x \in Nat, NEW k \in Nat,
                   k <= f + l - 1, k >= x + 1, f <= x + 1
            PROVE  k - f + 1 \in 1..l /\ f + (k - f + 1) - 1 = k
        BY <4>1
      <4>. QED  BY <1>1, <1>2, <3>0, <4>1
    <3>2. i <= Len(outbox[n]) /\ outbox[n][i] = a.events[j]
      BY <3>1
    <3>3. [node |-> n, seq |-> a.first + j - 1, event |-> a.events[j]] \in inbound
      BY <3>1 DEF SyncInv, AnswersAreTrue
    <3>. QED  BY <3>1, <3>2, <3>3
  <2>. QED  BY <1>2, <2>1, <2>2
<1>7. SentIsAccepted'
  BY <1>1, <1>2, <1>3, <1>6 DEF SyncInv, TypeOK, SentIsAccepted
<1>. QED  BY <1>4, <1>5, <1>7 DEF SyncInv

LEMMA InvLiteRestore ==
    ASSUME SyncInv, NEW n \in Node, NEW length \in 0..Len(outbox[n]), LiteRestore(n, length)
    PROVE  SyncInv'
<1> USE DEF LiteRestore, network, journal, access
<1> DEFINE es == SubSeq(outbox[n], 1, length)
<1>1. /\ outbox[n] \in Seq(Event) /\ sent[n] \in Nat /\ restores[n] \in Nat
      /\ outbox \in [Node -> Seq(Event)] /\ restores \in [Node -> Nat]
      /\ sent \in [Node -> Nat]
  BY DEF SyncInv, TypeOK
<1>2. length \in Nat /\ \A i \in 1..length : outbox[n][i] \in Event
  BY <1>1, LenProperties
<1>3. es \in Seq(Event) /\ Len(es) = length /\ \A i \in 1..length : es[i] = outbox[n][i]
  <2>1. /\ es \in Seq(Event)
        /\ Len(es) = IF 1 <= length THEN length - 1 + 1 ELSE 0
        /\ \A i \in 1..(length - 1 + 1) : es[i] = outbox[n][1 + i - 1]
    BY <1>2, SubSeqProperties
  <2>. QED  BY <1>2, <2>1
<1> HIDE DEF es
<1>4. /\ outbox' = [outbox EXCEPT ![n] = es]
      /\ restores' = [restores EXCEPT ![n] = restores[n] + 1]
      /\ sent' = [sent EXCEPT ![n] = IF sent[n] > length THEN length ELSE sent[n]]
  BY DEF es
<1>5. TypeOK'
  BY <1>1, <1>2, <1>3, <1>4 DEF SyncInv, TypeOK
<1>6. JournalGapFree' /\ AnswersAreTrue'
  BY DEF SyncInv, JournalGapFree, AnswersAreTrue
<1>7. SentIsAccepted'
  <2> SUFFICES ASSUME NEW m \in Node, NEW i \in 1..sent'[m]
               PROVE  /\ i <= Len(outbox'[m])
                      /\ [node |-> m, seq |-> i, event |-> outbox'[m][i]] \in inbound
    BY DEF SentIsAccepted
  <2>1. CASE m = n
    <3>1. sent'[n] <= length /\ sent'[n] <= sent[n] /\ sent'[n] \in Nat
      BY <1>1, <1>2, <1>4
    <3>2. i \in 1..sent[n] /\ i \in 1..length
      BY <1>1, <1>2, <2>1, <3>1
    <3>3. outbox'[n] = es
      BY <1>1, <1>4
    <3>. QED  BY <1>2, <1>3, <2>1, <3>2, <3>3 DEF SyncInv, SentIsAccepted
  <2>2. CASE m # n
    <3>1. outbox'[m] = outbox[m] /\ sent'[m] = sent[m]
      BY <1>1, <1>4, <2>2
    <3>. QED  BY <3>1 DEF SyncInv, SentIsAccepted
  <2>. QED  BY <2>1, <2>2
<1>8. \A m \in Node : restores'[m] = 0 => restores[m] = 0 /\ outbox'[m] = outbox[m]
  BY <1>1, <1>4
<1>9. RequestsFollowLite'
  BY <1>8 DEF SyncInv, TypeOK, Request, RequestsFollowLite
<1>10. JournalFollowsLite'
  BY <1>8 DEF SyncInv, TypeOK, Row, JournalFollowsLite
<1>. QED  BY <1>5, <1>6, <1>7, <1>9, <1>10 DEF SyncInv

\* The new events of a request that is accepted extend the journal by the
\* numbers that follow the cursor.
LEMMA RecordExtends ==
    ASSUME SyncInv, NEW r \in serving, DuplicatesAgree(r), InSequence(r), Record(r)
    PROVE  /\ cursor' \in [Node -> Nat]
           /\ cursor'[r.node] >= cursor[r.node]
           /\ \A m \in Node \ {r.node} : cursor'[m] = cursor[m]
           /\ \A i \in Fresh(r) : /\ r.first + i - 1 > cursor[r.node]
                                  /\ r.first + i - 1 <= cursor'[r.node]
           /\ \A k \in (cursor[r.node] + 1)..cursor'[r.node] :
                 \E i \in Fresh(r) : k = r.first + i - 1
<1> DEFINE n == r.node
<1>1. /\ n \in Node /\ r.first \in Nat \ {0} /\ r.events \in Seq(Event) /\ Len(r.events) \in Nat
      /\ cursor \in [Node -> Nat] /\ cursor[n] \in Nat
  BY LenProperties DEF SyncInv, TypeOK, Request
<1>2. PICK lo \in 1..(Len(r.events) + 1), hi \in 0..Len(r.events) :
         /\ Fresh(r) = lo..hi
         /\ lo <= hi => r.first + lo - 1 = cursor[n] + 1
  BY DEF InSequence
<1>3. CASE Fresh(r) = {}
  <2>1. cursor' = cursor
    BY <1>3 DEF Record
  <2>. QED  BY <1>1, <1>3, <2>1
<1>4. CASE Fresh(r) # {}
  <2>1. lo <= hi /\ lo \in Nat /\ hi \in Nat
    BY <1>1, <1>2, <1>4
  <2>2. PICK i \in Fresh(r) : /\ \A j \in Fresh(r) : j <= i
                              /\ cursor' = [cursor EXCEPT ![n] = r.first + i - 1]
    BY <1>4 DEF Record
  <2>3. i = hi
    <3>1. hi \in Fresh(r) /\ i \in lo..hi
      BY <1>2, <2>1
    <3>2. hi <= i
      BY <2>2, <3>1
    <3>. QED  BY <2>1, <3>1, <3>2
  <2>4. cursor'[n] = r.first + hi - 1 /\ cursor' = [cursor EXCEPT ![n] = r.first + hi - 1]
    BY <1>1, <2>2, <2>3
  <2>5. r.first + hi - 1 \in Nat /\ r.first + hi - 1 >= cursor[n] + 1
    BY <1>1, <1>2, <2>1
  <2>6. \A k \in (cursor[n] + 1)..cursor'[n] : \E j \in Fresh(r) : k = r.first + j - 1
    <3> SUFFICES ASSUME NEW k \in (cursor[n] + 1)..(r.first + hi - 1)
                 PROVE  k - r.first + 1 \in lo..hi /\ k = r.first + (k - r.first + 1) - 1
      BY <1>2, <2>4
    <3>1. /\ k \in Int /\ cursor[n] + 1 <= k /\ k <= r.first + hi - 1
          /\ r.first + lo - 1 = cursor[n] + 1
      BY <1>1, <1>2, <2>1
    <3>2. r.first \in Int /\ lo \in Int /\ hi \in Int /\ cursor[n] \in Int
      BY <1>1, <2>1
    <3>. QED  BY ONLY <3>1, <3>2
  <2>7. \A j \in Fresh(r) : r.first + j - 1 > cursor[n] /\ r.first + j - 1 <= cursor'[n]
    BY <1>1, <1>2, <2>1, <2>4
  <2>. QED  BY <1>1, <2>4, <2>5, <2>6, <2>7
<1>. QED  BY <1>3, <1>4

LEMMA InvIngest ==
    ASSUME SyncInv, NEW r \in serving, Ingest(r)
    PROVE  SyncInv'
<1> USE DEF Ingest, lite, access
<1> DEFINE n == r.node
           a == [node |-> r.node, first |-> r.first, events |-> r.events]
<1>1. /\ n \in Node /\ r.first \in Nat \ {0} /\ r.events \in Seq(Event) /\ Len(r.events) \in Nat
      /\ \A i \in 1..Len(r.events) : r.events[i] \in Event
  BY LenProperties DEF SyncInv, TypeOK, Request
<1>2. CASE UNCHANGED <<journal, answers>>
  <2>1. TypeOK'
    BY <1>2 DEF SyncInv, TypeOK, journal
  <2>. QED  BY <1>2, <2>1, Frame
<1>3. CASE /\ DuplicatesAgree(r) /\ InSequence(r) /\ Record(r)
           /\ answers' = answers \cup {a}
  <2>1. inbound' = inbound \cup {RowOf(r, i) : i \in Fresh(r)}
    BY <1>3 DEF Record
  <2>2. /\ cursor' \in [Node -> Nat]
        /\ cursor'[r.node] >= cursor[r.node]
        /\ \A m \in Node \ {r.node} : cursor'[m] = cursor[m]
        /\ \A i \in Fresh(r) : /\ r.first + i - 1 > cursor[r.node]
                               /\ r.first + i - 1 <= cursor'[r.node]
        /\ \A k \in (cursor[r.node] + 1)..cursor'[r.node] :
              \E i \in Fresh(r) : k = r.first + i - 1
    BY <1>3, RecordExtends
  <2>3. \A i \in 1..Len(r.events) :
           /\ RowOf(r, i) \in Row
           /\ RowOf(r, i).node = n /\ RowOf(r, i).seq = r.first + i - 1
           /\ RowOf(r, i).event = r.events[i]
    BY <1>1 DEF RowOf, Row
  <2>4. /\ Fresh(r) \subseteq 1..Len(r.events)
        /\ \A i \in Fresh(r) : \A w \in inbound : w.event # r.events[i]
    BY DEF Fresh
  <2>5. \A i \in 1..Len(r.events) : RowOf(r, i) \in inbound'
    BY <1>3, <2>1 DEF DuplicatesAgree
  <2>6. TypeOK'
    <3>1. inbound' \subseteq Row
      BY <2>1, <2>3, <2>4 DEF SyncInv, TypeOK
    <3>2. answers' \subseteq Answer
      BY <1>1, <1>3 DEF SyncInv, TypeOK, Answer
    <3>. QED  BY <2>2, <3>1, <3>2 DEF SyncInv, TypeOK
  <2>7. \A m \in Node : {row.seq : row \in {w \in inbound' : w.node = m}} = 1..cursor'[m]
    <3> SUFFICES ASSUME NEW m \in Node
                 PROVE  /\ \A w \in inbound' : w.node = m => w.seq \in 1..cursor'[m]
                        /\ \A k \in 1..cursor'[m] : \E w \in inbound' : w.node = m /\ w.seq = k
      OBVIOUS
    <3>1. cursor[m] \in Nat /\ cursor'[m] \in Nat /\ cursor'[m] >= cursor[m]
      <4>1. cursor[m] \in Nat /\ cursor'[m] \in Nat
        BY <2>2 DEF SyncInv, TypeOK
      <4>2. CASE m = r.node
        BY <2>2, <4>1, <4>2
      <4>3. CASE m # r.node
        BY <2>2, <4>1, <4>3
      <4>. QED  BY <4>1, <4>2, <4>3
    <3>2. /\ \A w \in inbound : w.node = m => w.seq \in 1..cursor[m]
          /\ \A k \in 1..cursor[m] : \E w \in inbound : w.node = m /\ w.seq = k
      BY DEF SyncInv, JournalGapFree
    <3>3. \A w \in inbound' : w.node = m => w.seq \in 1..cursor'[m]
      <4> SUFFICES ASSUME NEW w \in inbound', w.node = m
                   PROVE  w.seq \in 1..cursor'[m]
        OBVIOUS
      <4>1. CASE w \in inbound
        BY <3>1, <3>2, <4>1
      <4>2. CASE w \notin inbound
        <5>1. PICK i \in Fresh(r) : w = RowOf(r, i)
          BY <2>1, <4>2
        <5>2. w.node = n /\ w.seq = r.first + i - 1
          BY <2>3, <2>4, <5>1
        <5>3. i \in Nat /\ m = n
          BY <1>1, <2>4, <5>2
        <5>. QED  BY <1>1, <2>2, <3>1, <5>2, <5>3
      <4>. QED  BY <4>1, <4>2
    <3>4. \A k \in 1..cursor'[m] : \E w \in inbound' : w.node = m /\ w.seq = k
      <4> SUFFICES ASSUME NEW k \in 1..cursor'[m]
                   PROVE  \E w \in inbound' : w.node = m /\ w.seq = k
        OBVIOUS
      <4>1. CASE k <= cursor[m]
        <5>1. k \in 1..cursor[m]
          BY <3>1, <4>1
        <5>. QED  BY <2>1, <3>2, <5>1
      <4>2. CASE k > cursor[m]
        <5>1. m = n /\ k \in (cursor[n] + 1)..cursor'[n]
          BY <2>2, <3>1, <4>2
        <5>2. PICK i \in Fresh(r) : k = r.first + i - 1
          BY <2>2, <5>1
        <5>3. /\ RowOf(r, i) \in inbound' /\ RowOf(r, i).node = n
              /\ RowOf(r, i).seq = r.first + i - 1
          BY <2>1, <2>3, <2>4
        <5>. QED  BY <5>1, <5>2, <5>3
      <4>. QED  BY <3>1, <4>1, <4>2
    <3>. QED  BY <3>3, <3>4
  <2>8. \A v, w \in inbound' :
           (v.node = w.node /\ v.seq = w.seq) \/ v.event = w.event => v = w
    <3>1. \A v, w \in inbound :
             (v.node = w.node /\ v.seq = w.seq) \/ v.event = w.event => v = w
      BY DEF SyncInv, JournalGapFree
    <3>2. \A v \in inbound, i \in Fresh(r) :
             /\ v.event # RowOf(r, i).event
             /\ ~(v.node = RowOf(r, i).node /\ v.seq = RowOf(r, i).seq)
      <4> SUFFICES ASSUME NEW v \in inbound, NEW i \in Fresh(r)
                   PROVE  /\ v.event # RowOf(r, i).event
                          /\ ~(v.node = RowOf(r, i).node /\ v.seq = RowOf(r, i).seq)
        OBVIOUS
      <4>1. /\ RowOf(r, i).node = r.node /\ RowOf(r, i).seq = r.first + i - 1
            /\ RowOf(r, i).event = r.events[i]
        BY <2>3, <2>4
      <4>2. v.node = r.node => v.seq # r.first + i - 1
        BY <1>3 DEF InSequence
      <4>. QED  BY <2>4, <4>1, <4>2
    <3>3. \A i, j \in Fresh(r) :
             \/ RowOf(r, i).seq = RowOf(r, j).seq
             \/ RowOf(r, i).event = RowOf(r, j).event
             => i = j
      <4> SUFFICES ASSUME NEW i \in Fresh(r), NEW j \in Fresh(r),
                          \/ RowOf(r, i).seq = RowOf(r, j).seq
                          \/ RowOf(r, i).event = RowOf(r, j).event
                   PROVE  i = j
        OBVIOUS
      <4>1. r.first + i - 1 = r.first + j - 1 \/ r.events[i] = r.events[j]
        BY <2>3, <2>4
      <4>2. i \in Nat /\ j \in Nat
        BY <2>4
      <4>3. r.events[i] = r.events[j] => i = j
        BY <1>3 DEF DuplicatesAgree
      <4>. QED  BY <1>1, <4>1, <4>2, <4>3
    <3>. QED  BY <2>1, <3>1, <3>2, <3>3
  <2>9. JournalGapFree'
    BY <2>7, <2>8 DEF JournalGapFree
  <2>10. AnswersAreTrue'
    <3>1. \A i \in 1..Len(r.events) :
             [node |-> r.node, seq |-> r.first + i - 1, event |-> r.events[i]] \in inbound'
      BY <2>5 DEF RowOf
    <3>2. \A b \in answers : \A i \in 1..Len(b.events) :
             [node |-> b.node, seq |-> b.first + i - 1, event |-> b.events[i]] \in inbound'
      BY <2>1 DEF SyncInv, AnswersAreTrue
    <3>3. /\ a.node = r.node /\ a.first = r.first /\ a.events = r.events
          /\ answers' = answers \cup {a}
      BY <1>3
    <3> HIDE DEF a
    <3>. QED  BY <3>1, <3>2, <3>3 DEF AnswersAreTrue
  <2>11. SentIsAccepted'
    BY <2>1 DEF SyncInv, SentIsAccepted
  <2>12. RequestsFollowLite'
    BY DEF SyncInv, RequestsFollowLite
  <2>13. JournalFollowsLite'
    <3> SUFFICES ASSUME NEW w \in inbound', restores[w.node] = 0
                 PROVE  /\ w.seq <= Len(outbox[w.node])
                        /\ outbox[w.node][w.seq] = w.event
      BY DEF JournalFollowsLite
    <3>1. CASE w \in inbound
      BY <3>1 DEF SyncInv, JournalFollowsLite
    <3>2. CASE w \notin inbound
      <4>1. PICK i \in Fresh(r) : w = RowOf(r, i)
        BY <2>1, <3>2
      <4>2. w.node = r.node /\ w.seq = r.first + i - 1 /\ w.event = r.events[i]
        BY <2>3, <2>4, <4>1
      <4>3. r \in requests \cup serving /\ i \in 1..Len(r.events)
        BY <2>4
      <4>. QED  BY <4>2, <4>3 DEF SyncInv, RequestsFollowLite
    <3>. QED  BY <3>1, <3>2
  <2>. QED  BY <2>6, <2>9, <2>10, <2>11, <2>12, <2>13 DEF SyncInv
<1>. QED  BY <1>2, <1>3

\* The console changes nothing but credentials and activity.
LEMMA InvConsole ==
    ASSUME SyncInv, NEW c \in Admin, Console(c)
    PROVE  SyncInv'
<1>1. UNCHANGED <<lite, network, serving, journal>>
  BY DEF Console, BeginTask, RotateCredential, DisableFranchise, EnableFranchise
<1>2. /\ active' \in [Node -> BOOLEAN] /\ keys' \in [Node -> SUBSET Key]
      /\ issued' \in [Node -> Key] /\ task' \in [Admin -> Task \cup {NoTask}]
      /\ begun' \in 0..MaxIncidents /\ overlapped' \subseteq Node
  <2>1. CASE \E kind \in {"rotate", "disable"}, n \in Node : BeginTask(c, kind, n)
    <3>1. begun' \in 0..MaxIncidents
      BY <2>1, SyncConstants DEF BeginTask, SyncInv, TypeOK
    <3>. QED  BY <2>1, <3>1 DEF BeginTask, SyncInv, TypeOK, Task
  <2>2. CASE RotateCredential(c)
    <3>1. task[c] \in Task
      BY <2>2 DEF RotateCredential, SyncInv, TypeOK
    <3>2. task[c].node \in Node
      BY <3>1 DEF Task
    <3>3. issued[task[c].node] + 1 \in Key
      BY <2>2, <3>2, SyncConstants DEF RotateCredential, SyncInv, TypeOK, Key
    <3>4. begun' \in 0..MaxIncidents /\ overlapped' \subseteq Node
      BY <2>2, <3>2 DEF RotateCredential, Remember, SyncInv, TypeOK
    <3>. QED  BY <2>2, <3>2, <3>3, <3>4 DEF RotateCredential, SyncInv, TypeOK
  <2>3. CASE DisableFranchise(c)
    <3>1. task[c] \in Task
      BY <2>3 DEF DisableFranchise, SyncInv, TypeOK
    <3>2. task[c].node \in Node
      BY <3>1 DEF Task
    <3>4. begun' \in 0..MaxIncidents /\ overlapped' \subseteq Node
      BY <2>3, <3>2 DEF DisableFranchise, Remember, SyncInv, TypeOK
    <3>. QED  BY <2>3, <3>2, <3>4 DEF DisableFranchise, SyncInv, TypeOK
  <2>4. CASE \E n \in Node : EnableFranchise(c, n)
    BY <2>4 DEF EnableFranchise, SyncInv, TypeOK
  <2>. QED  BY <2>1, <2>2, <2>3, <2>4 DEF Console
<1>3. TypeOK'
  BY <1>1, <1>2 DEF SyncInv, TypeOK, lite, network, journal
<1>. QED  BY <1>1, <1>3, Frame DEF lite, network

LEMMA SyncNext == SyncInv /\ [Next]_vars => SyncInv'
<1> SUFFICES ASSUME SyncInv, [Next]_vars PROVE SyncInv'
  OBVIOUS
<1>1. ASSUME NEW n \in Node, Lite(n) PROVE SyncInv'
  <2>1. CASE \E e \in Event : LiteRecord(n, e)
    BY <2>1, InvLiteRecord
  <2>2. CASE LitePost(n)
    BY <2>2, InvLitePost
  <2>3. CASE \E length \in 0..Len(outbox[n]) : LiteRestore(n, length)
    BY <2>3, InvLiteRestore
  <2>4. CASE \E k \in Key : LiteConnect(n, k)
    <3>1. TypeOK'
      BY <2>4 DEF LiteConnect, SyncInv, TypeOK, network, journal, access
    <3>. QED  BY <2>4, <3>1, Frame DEF LiteConnect, network, journal
  <2>. QED  BY <1>1, <2>1, <2>2, <2>3, <2>4 DEF Lite
<1>2. ASSUME NEW a \in answers, LiteAck(a) PROVE SyncInv'
  BY <1>2, InvLiteAck
<1>3. CASE Lose
  <2>1. TypeOK'
    BY <1>3 DEF Lose, SyncInv, TypeOK, lite, journal, access
  <2>. QED  BY <1>3, <2>1, Frame DEF Lose, lite, journal
<1>4. ASSUME NEW r \in requests, Authenticate(r) PROVE SyncInv'
  <2>1. TypeOK'
    BY <1>4 DEF Authenticate, SyncInv, TypeOK, lite, journal, access
  <2>. QED  BY <1>4, <2>1, Frame DEF Authenticate, lite, journal
<1>5. ASSUME NEW r \in serving, BodyLost(r) PROVE SyncInv'
  <2>1. TypeOK'
    BY <1>5 DEF BodyLost, SyncInv, TypeOK, lite, network, journal, access
  <2>. QED  BY <1>5, <2>1, Frame DEF BodyLost, lite, network, journal
<1>6. ASSUME NEW r \in serving, Ingest(r) PROVE SyncInv'
  BY <1>6, InvIngest
<1>7. ASSUME NEW c \in Admin, Console(c) PROVE SyncInv'
  BY <1>7, InvConsole
<1>8. CASE UNCHANGED vars
  <2>1. TypeOK'
    BY <1>8 DEF vars, SyncInv, TypeOK, lite, network, journal, access
  <2>. QED  BY <1>8, <2>1, Frame DEF vars, lite, network, journal
<1>. QED  BY <1>1, <1>2, <1>3, <1>4, <1>5, <1>6, <1>7, <1>8 DEF Next

\* The invariant of the three theorems below holds in every reachable state.
THEOREM SyncInvHolds == Spec => []SyncInv
BY SyncInit, SyncNext, PTL DEF Spec

\* Master's journal of each franchise has the numbers up to its cursor, each
\* once, and no event twice (the checks of ingest_events suffice).
THEOREM JournalGapFreeHolds == Spec => []JournalGapFree
<1>1. SyncInv => JournalGapFree
  BY DEF SyncInv
<1>. QED  BY <1>1, SyncInvHolds, PTL

\* What Lite has marked SENT is in Master's journal: a stored result that is
\* returned for a repeated event is as good as the first answer.
THEOREM SentIsAcceptedHolds == Spec => []SentIsAccepted
<1>1. SyncInv => SentIsAccepted
  BY DEF SyncInv
<1>. QED  BY <1>1, SyncInvHolds, PTL

\* The journal of a Lite that was never restored is a prefix of its outbox.
THEOREM JournalFollowsLiteHolds == Spec => []JournalFollowsLite
<1>1. SyncInv => JournalFollowsLite
  BY DEF SyncInv
<1>. QED  BY <1>1, SyncInvHolds, PTL

\* Type correctness of the outboxes, the network and Master's journal (every
\* step of a Lite, of ingest_events and of the console).
THEOREM TypeCorrect == Spec => []TypeOK
<1>1. SyncInv => TypeOK
  BY DEF SyncInv
<1>. QED  BY <1>1, SyncInvHolds, PTL
-----------------------------------------------------------------------------
(* Credentials.  The console reads them before it takes the write lock.    *)

CredentialInv == OneCredential /\ RotatesActive

LEMMA CredentialInit == Init => CredentialInv
  BY DEF Init, CredentialInv, OneCredential, RotatesActive

LEMMA CredentialConsole ==
    ASSUME SyncInv, CredentialInv, NEW c \in Admin, Console(c)
    PROVE  CredentialInv'
<1>1. ASSUME NEW kind \in {"rotate", "disable"}, NEW n \in Node, BeginTask(c, kind, n)
      PROVE  CredentialInv'
  <2>1. UNCHANGED <<active, keys, overlapped>> /\ (kind = "rotate" => active[n])
    BY <1>1 DEF BeginTask
  <2>2. OneCredential'
    BY <2>1 DEF CredentialInv, OneCredential
  <2>3. RotatesActive'
    BY <1>1, <2>1 DEF BeginTask, CredentialInv, RotatesActive, SyncInv, TypeOK
  <2>. QED  BY <2>2, <2>3 DEF CredentialInv
<1>2. ASSUME RotateCredential(c) \/ DisableFranchise(c)
      PROVE  CredentialInv'
  <2> DEFINE n == task[c].node
  <2>1. task[c] \in Task /\ task[c] # NoTask /\ n \in Node
    BY <1>2 DEF RotateCredential, DisableFranchise, SyncInv, TypeOK, Task
  <2>2. /\ task' = [task EXCEPT ![c] = NoTask]
        /\ Remember(c)
        /\ \A m \in Node \ {n} : keys'[m] = keys[m] /\ active'[m] = active[m]
    BY <1>2, <2>1 DEF RotateCredential, DisableFranchise, SyncInv, TypeOK
  <2>3. RotatesActive'
    BY <2>2 DEF CredentialInv, RotatesActive, SyncInv, TypeOK
  <2>4. CASE Stale(c)
    <3>1. overlapped' = overlapped \cup {n}
      BY <2>4 , <2>2 DEF Remember
    <3>. QED  BY <2>2, <2>3, <3>1 DEF CredentialInv, OneCredential
  <2>5. CASE ~Stale(c)
    <3>1. /\ task[c].was = active[n] /\ task[c].seen = keys[n]
          /\ overlapped' = overlapped \ {n}
      BY <2>5, <2>2 DEF Remember, Stale
    <3>2. CASE RotateCredential(c)
      <4>1. active'[n] /\ keys'[n] = {issued[n] + 1}
        BY <2>1, <3>1, <3>2 DEF RotateCredential, CredentialInv, RotatesActive, SyncInv, TypeOK
      <4>. QED  BY <2>2, <2>3, <3>1, <4>1 DEF CredentialInv, OneCredential
    <3>3. CASE DisableFranchise(c)
      <4>1. keys'[n] = {}
        BY <2>1, <3>1, <3>3 DEF DisableFranchise, SyncInv, TypeOK
      <4>. QED  BY <2>2, <2>3, <3>1, <4>1 DEF CredentialInv, OneCredential
    <3>. QED  BY <1>2, <3>2, <3>3
  <2>. QED  BY <2>4, <2>5
<1>3. ASSUME NEW n \in Node, EnableFranchise(c, n)
      PROVE  CredentialInv'
  <2>1. UNCHANGED <<keys, task, overlapped>> /\ active' = [active EXCEPT ![n] = TRUE]
    BY <1>3 DEF EnableFranchise
  <2>. QED  BY <2>1 DEF CredentialInv, OneCredential, RotatesActive, SyncInv, TypeOK
<1>. QED  BY <1>1, <1>2, <1>3 DEF Console

LEMMA CredentialNext ==
    ASSUME SyncInv, CredentialInv, [Next]_vars
    PROVE  CredentialInv'
<1>1. ASSUME UNCHANGED access
      PROVE  CredentialInv'
  BY <1>1 DEF access, CredentialInv, OneCredential, RotatesActive
<1>2. ASSUME NEW n \in Node, Lite(n)
      PROVE  UNCHANGED access
  BY <1>2 DEF Lite, LiteRecord, LitePost, LiteRestore, LiteConnect
<1>3. CASE \/ \E a \in answers : LiteAck(a)
           \/ Lose
           \/ \E r \in requests : Authenticate(r)
           \/ \E r \in serving : BodyLost(r) \/ Ingest(r)
           \/ UNCHANGED vars
  <2>1. UNCHANGED access
    BY <1>3 DEF LiteAck, Lose, Authenticate, BodyLost, Ingest, vars
  <2>. QED  BY <1>1, <2>1
<1>. QED  BY <1>1, <1>2, <1>3, CredentialConsole DEF Next

\* For any number of administrators: a franchise has at most one credential
\* that is not revoked, and none while it is disabled, unless the last
\* rotation or disabling committed on rows another had changed since
\* (rotate_franchise_credential and set_franchise_status).
THEOREM OneCredentialHolds == Spec => []OneCredential
<1>1. SyncInv /\ CredentialInv /\ [Next]_vars => CredentialInv'
  BY CredentialNext
<1>2. CredentialInv => OneCredential
  BY DEF CredentialInv
<1>. QED  BY <1>1, <1>2, SyncInit, SyncNext, CredentialInit, PTL DEF Spec
=============================================================================
