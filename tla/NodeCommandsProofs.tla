------------------------- MODULE NodeCommandsProofs -------------------------
(***************************************************************************)
(* Proofs about NodeCommands for every set of franchises, receipts and     *)
(* administrators, every response budget and limit and every length of the *)
(* queue.  The argument is that commands which are withheld together are   *)
(* applied in the order of their ids (InOrder): a poll's answer is closed  *)
(* under older commands that are not acknowledged, what is acknowledged is *)
(* applied, and Lite works the answer off in order.                        *)
(***************************************************************************)
EXTENDS NodeCommands, FiniteSetTheorems, SequenceTheorems, TLAPS

\* Nothing is queued at first.
LEMMA CommandInit == Init => CommandInv
<1> SUFFICES ASSUME Init PROVE CommandInv
  OBVIOUS
<1>1. Ids = {} /\ commands \in Seq(Command)
  BY DEF Init, Ids
<1>2. TypeOK
  BY <1>1 DEF Init, TypeOK, Status
<1>3. VerdictsForOwner /\ OwnCommands /\ AckedIsApplied /\ InOrder
  BY <1>1 DEF Init, VerdictsForOwner, OwnCommands, AckedIsApplied, InOrder
<1>4. NewestVerdict /\ NewestApplied
  BY <1>1, CommandConstants DEF Init, NewestVerdict, NewestApplied, Decision
<1>. QED  BY <1>2, <1>3, <1>4 DEF CommandInv

\* A step that leaves the queue and the receipts alone, applies nothing and
\* drops acknowledgements or parts of an answer that follow the rest.
LEMMA Frame ==
    ASSUME CommandInv, TypeOK',
           UNCHANGED <<commands, applied, details, verdict>>,
           \A n \in Node : inbox'[n] \in {{}, inbox[n]},
           patches' \subseteq patches,
           \A id \in acked' : id \in applied[commands[id].node],
           \A r \in Receipt : receipt'[r] \in Decision => receipt'[r] = receipt[r]
    PROVE  CommandInv'
<1>1. Ids' = Ids
  BY DEF Ids
<1>2. VerdictsForOwner'
  BY <1>1 DEF CommandInv, VerdictsForOwner, OptIn
<1>3. OwnCommands'
  BY DEF CommandInv, OwnCommands
<1>4. AckedIsApplied'
  BY DEF AckedIsApplied
<1>5. \A id : Before(id)' = Before(id)
  BY <1>1 DEF Before, OptIn
<1>6. InOrder'
  BY <1>5 DEF CommandInv, InOrder
<1>7. NewestVerdict'
  BY <1>1 DEF CommandInv, NewestVerdict
<1>8. NewestApplied'
  BY DEF CommandInv, NewestApplied, OptIn
<1>. QED  BY <1>2, <1>3, <1>4, <1>6, <1>7, <1>8 DEF CommandInv

\* A new command is the newest one and changes no other.
LEMMA QueueKeeps ==
    ASSUME TypeOK, NEW c \in Command, Queue(c)
    PROVE  /\ commands' \in Seq(Command)
           /\ Len(commands) \in Nat
           /\ Ids' = Ids \cup {Len(commands) + 1}
           /\ Len(commands) + 1 \notin Ids
           /\ \A id \in Ids : commands'[id] = commands[id] /\ id < Len(commands) + 1
           /\ commands'[Len(commands) + 1] = c
<1>1. commands \in Seq(Command) /\ commands' = Append(commands, c)
  BY DEF TypeOK, Queue
<1>2. Len(commands) \in Nat
  BY <1>1, LenProperties
<1>3. /\ Append(commands, c) \in Seq(Command)
      /\ Len(Append(commands, c)) = Len(commands) + 1
      /\ \A i \in 1..Len(commands) : Append(commands, c)[i] = commands[i]
      /\ Append(commands, c)[Len(commands) + 1] = c
  BY <1>1, AppendProperties
<1>. QED  BY <1>1, <1>2, <1>3 DEF Ids

\* Queueing a command that is no verdict, or a verdict for the franchise of
\* the receipt whose status it becomes.
LEMMA InvQueue ==
    ASSUME CommandInv, NEW c \in Command, Queue(c),
           UNCHANGED <<acked, lite, patches>>,
           receipt' \in [Receipt -> Status],
           task' \in [Admin -> Review \cup {NoTask}],
           \A r \in c.about : /\ c.node = Owner[r]
                              /\ c.type # "PRODUCT_UPSERT"
                              /\ receipt'[r] = c.status,
           \A r \in Receipt \ c.about : receipt'[r] = receipt[r]
    PROVE  CommandInv'
<1> USE DEF lite
<1> DEFINE new == Len(commands) + 1
<1>1. /\ commands' \in Seq(Command)
      /\ Ids' = Ids \cup {new}
      /\ new \in Nat
      /\ new \notin Ids
      /\ \A id \in Ids : id \in Nat /\ commands'[id] = commands[id] /\ id < new
      /\ commands'[new] = c
  BY QueueKeeps DEF CommandInv, Ids
<1> HIDE DEF new
<1>2. /\ acked \subseteq Ids
      /\ \A n \in Node : inbox[n] \subseteq Ids /\ applied[n] \subseteq Ids
      /\ \A id \in Ids : commands[id] \in Command
  <2>1. commands \in Seq(Command)
    BY DEF CommandInv, TypeOK
  <2>2. \A id \in 1..Len(commands) : commands[id] \in Command
    BY <2>1, ElementOfSeq
  <2>. QED  BY <2>2 DEF CommandInv, TypeOK, Ids
<1>3. TypeOK'
  <2>1. inbox' \in [Node -> SUBSET Ids'] /\ applied' \in [Node -> SUBSET Ids']
    BY <1>1 DEF CommandInv, TypeOK
  <2>. QED  BY <1>1, <1>2, <2>1 DEF CommandInv, TypeOK
<1>4. VerdictsForOwner'
  BY <1>1 DEF CommandInv, VerdictsForOwner, OptIn
<1>5. OwnCommands'
  BY <1>1, <1>2 DEF CommandInv, OwnCommands
<1>6. AckedIsApplied'
  BY <1>1, <1>2 DEF CommandInv, AckedIsApplied
<1>7. \A id \in Ids : Before(id)' = Before(id)
  BY <1>1 DEF Before, OptIn
<1>8. InOrder'
  BY <1>2, <1>7 DEF CommandInv, InOrder
<1>9. NewestVerdict'
  <2> SUFFICES ASSUME NEW r \in Receipt, receipt'[r] \in Decision
               PROVE  \E id \in Ids' :
                         /\ r \in commands'[id].about
                         /\ commands'[id].status = receipt'[r]
                         /\ \A j \in Ids' : r \in commands'[j].about => j <= id
    BY DEF NewestVerdict
  <2>1. CASE r \in c.about
    <3>1. new \in Ids' /\ r \in commands'[new].about
      BY <1>1, <2>1
    <3>2. commands'[new].status = receipt'[r]
      BY <1>1, <2>1
    <3>3. \A j \in Ids' : j <= new
      BY <1>1
    <3>. QED  BY <3>1, <3>2, <3>3
  <2>2. CASE r \notin c.about
    <3>1. PICK id \in Ids : /\ r \in commands[id].about
                            /\ commands[id].status = receipt[r]
                            /\ \A j \in Ids : r \in commands[j].about => j <= id
      BY <2>2 DEF CommandInv, NewestVerdict
    <3>. QED  BY <1>1, <2>2, <3>1
  <2>. QED  BY <2>1, <2>2
<1>10. NewestApplied'
  BY <1>1, <1>2, CommandConstants DEF CommandInv, NewestApplied, OptIn
<1>. QED  BY <1>3, <1>4, <1>5, <1>6, <1>8, <1>9, <1>10 DEF CommandInv

\* An answer is closed under older commands that are not acknowledged.
LEMMA ListedClosed ==
    ASSUME TypeOK, NEW n \in Node, NEW id \in Listed(n), NEW j \in Before(id), j \notin acked
    PROVE  j \in Listed(n)
<1>1. id \in Window(n) /\ id \in Waiting(n) /\ id \in Ids /\ commands[id].node = n
  BY DEF Listed, Window, Waiting
<1>2. j \in Ids /\ j < id /\ commands[j].node = n /\ (OptIn(j) <=> OptIn(id))
  BY <1>1 DEF Before
<1>3. j \in Waiting(n)
  BY <1>1, <1>2 DEF Waiting, Withheld, OptIn
<1>4. Len(commands) \in Nat /\ id \in Nat /\ j \in Nat
  BY <1>1, <1>2, LenProperties DEF TypeOK, Ids
<1>5. IsFiniteSet(Ids)
  BY <1>4, FS_Interval DEF Ids
<1>6. IsFiniteSet({k \in Waiting(n) : k < id})
  BY <1>5, FS_Subset DEF Waiting
<1>7. {k \in Waiting(n) : k < j} \subseteq {k \in Waiting(n) : k < id}
  BY <1>2, <1>4 DEF Waiting, Ids
<1>8. /\ Cardinality({k \in Waiting(n) : k < j}) <= Cardinality({k \in Waiting(n) : k < id})
      /\ Cardinality({k \in Waiting(n) : k < j}) \in Nat
      /\ Cardinality({k \in Waiting(n) : k < id}) \in Nat
  BY <1>6, <1>7, FS_Subset, FS_CardinalityType
<1>9. Cardinality({k \in Waiting(n) : k < id}) < PollLimit
  BY <1>1 DEF Window
<1>10. j \in Window(n)
  BY <1>3, <1>8, <1>9, CommandConstants DEF Window
<1>11. \A k \in Window(n) : k \in Nat
  BY <1>4 DEF Window, Waiting, Ids
<1>12. Reached(n, j) /\ Used(n, j) <= ResponseBudget
  BY <1>2, <1>4, <1>10, <1>11 DEF Listed, Reached
<1>. QED  BY <1>10, <1>12 DEF Listed

LEMMA InvPoll ==
    ASSUME CommandInv, NEW n \in Node, Poll(n)
    PROVE  CommandInv'
<1> USE DEF Poll, master
<1>1. inbox' = [inbox EXCEPT ![n] = Listed(n)] /\ inbox \in [Node -> SUBSET Ids]
  BY DEF CommandInv, TypeOK
<1>2. \A id \in Listed(n) : id \in Ids /\ commands[id].node = n
  BY DEF Listed, Window, Waiting
<1>3. Ids' = Ids
  BY DEF Ids
<1>4. TypeOK'
  <2>1. inbox' \in [Node -> SUBSET Ids]
    BY <1>1, <1>2
  <2>. QED  BY <1>3, <2>1 DEF CommandInv, TypeOK
<1>5. VerdictsForOwner' /\ AckedIsApplied' /\ NewestVerdict' /\ NewestApplied'
  BY <1>3 DEF CommandInv, VerdictsForOwner, AckedIsApplied, NewestVerdict, NewestApplied, OptIn
<1>6. OwnCommands'
  BY <1>1, <1>2 DEF CommandInv, OwnCommands
<1>7. \A id : Before(id)' = Before(id)
  BY <1>3 DEF Before, OptIn
<1>8. ASSUME NEW id \in Listed(n) PROVE Before(id) \subseteq applied[n] \cup Listed(n)
  <2> SUFFICES ASSUME NEW j \in Before(id), j \notin Listed(n) PROVE j \in applied[n]
    OBVIOUS
  <2>1. j \in acked
    BY ListedClosed DEF CommandInv
  <2>2. commands[j].node = n
    BY <1>2 DEF Before
  <2>. QED  BY <2>1, <2>2 DEF CommandInv, AckedIsApplied
<1>9. InOrder'
  BY <1>1, <1>7, <1>8 DEF CommandInv, InOrder
<1>. QED  BY <1>4, <1>5, <1>6, <1>9 DEF CommandInv

LEMMA InvLiteApply ==
    ASSUME CommandInv, NEW n \in Node, NEW id \in inbox[n], LiteApply(n, id)
    PROVE  CommandInv'
<1> USE DEF LiteApply, master
<1>1. /\ inbox \in [Node -> SUBSET Ids] /\ applied \in [Node -> SUBSET Ids]
      /\ inbox' = [inbox EXCEPT ![n] = inbox[n] \ {id}]
      /\ applied' = [applied EXCEPT ![n] = applied[n] \cup {id}]
      /\ details \in [Node -> Nat] /\ verdict \in [Receipt -> Status]
      /\ id \in Ids
  BY DEF CommandInv, TypeOK
<1>2. Ids' = Ids /\ Ids \subseteq Nat
  BY DEF Ids
<1>3. /\ commands \in Seq(Command)
      /\ commands[id] \in Command
  BY <1>1, ElementOfSeq DEF CommandInv, TypeOK, Ids
<1>4. commands[id].node = n /\ commands[id].status \in Status
  BY <1>3 DEF CommandInv, OwnCommands, Command
<1>5. TypeOK'
  <2>1. details' \in [Node -> Nat] /\ verdict' \in [Receipt -> Status]
    BY <1>1, <1>2, <1>4
  <2>2. inbox' \in [Node -> SUBSET Ids] /\ applied' \in [Node -> SUBSET Ids]
    BY <1>1
  <2>3. patches' \subseteq [node : Node, id : Nat]
    BY <1>1, <1>2 DEF CommandInv, TypeOK
  <2>. QED  BY <1>2, <2>1, <2>2, <2>3 DEF CommandInv, TypeOK
<1>6. VerdictsForOwner' /\ NewestVerdict'
  BY <1>2 DEF CommandInv, VerdictsForOwner, NewestVerdict, OptIn
<1>7. OwnCommands'
  <2>1. \A m \in Node : \A j \in inbox'[m] \cup applied'[m] : commands[j].node = m
    BY <1>1, <1>4 DEF CommandInv, OwnCommands
  <2>2. \A p \in patches : p.node \in Node /\ p.id \in applied[p.node]
    BY DEF CommandInv, OwnCommands, TypeOK
  <2>3. \A p \in patches' : p.id \in applied'[p.node]
    BY <1>1, <2>2
  <2>. QED  BY <2>1, <2>3 DEF OwnCommands
<1>8. AckedIsApplied'
  BY <1>1 DEF CommandInv, AckedIsApplied
<1>9. \A j : Before(j)' = Before(j)
  BY <1>2 DEF Before, OptIn
<1>10. Before(id) \subseteq applied[n]
  <2> SUFFICES ASSUME NEW j \in Before(id) PROVE j \in applied[n]
    OBVIOUS
  <2>1. j \in applied[n] \cup inbox[n] /\ j < id /\ j \in Nat /\ id \in Nat
    BY <1>1, <1>2 DEF CommandInv, InOrder, Before
  <2>. QED  BY <2>1
<1>11. InOrder'
  BY <1>1, <1>9, <1>10 DEF CommandInv, InOrder
<1>12. NewestApplied'
  <2>1. CASE id \in applied[n]
    <3>1. applied' = applied /\ UNCHANGED <<details, verdict>>
      BY <1>1, <2>1
    <3>. QED  BY <3>1 DEF CommandInv, NewestApplied, OptIn
  <2>2. CASE id \notin applied[n]
    <3>1. ASSUME NEW j \in applied[n], OptIn(j) <=> OptIn(id) PROVE j < id
      <4>1. j \in Ids /\ j # id /\ commands[j].node = n
        BY <1>1, <2>2 DEF CommandInv, OwnCommands
      <4>2. ~(id < j)
        BY <1>1, <1>4, <2>2, <3>1, <4>1 DEF CommandInv, InOrder, Before
      <4>. QED  BY <1>1, <1>2, <4>1, <4>2
    <3>2. ASSUME NEW m \in Node, NEW j \in applied'[m], OptIn(j)
          PROVE  j <= details'[m]
      <4>1. CASE m # n
        BY <1>1, <2>2, <3>2, <4>1 DEF CommandInv, NewestApplied
      <4>2. CASE m = n /\ OptIn(id)
        <5>1. details'[n] = id
          BY <1>1, <2>2, <4>2 DEF OptIn
        <5>. QED  BY <1>1, <1>2, <3>1, <3>2, <4>2, <5>1
      <4>3. CASE m = n /\ ~OptIn(id)
        BY <1>1, <2>2, <3>2, <4>3 DEF CommandInv, NewestApplied, OptIn
      <4>. QED  BY <4>1, <4>2, <4>3
    <3>3. ASSUME NEW r \in Receipt, NEW j \in applied'[Owner[r]], r \in commands[j].about,
                 verdict'[r] # commands[j].status
          PROVE  \E k \in applied'[Owner[r]] : r \in commands[k].about /\ j < k
      <4>0. Owner[r] \in Node /\ j \in Ids
        BY <1>1, CommandConstants
      <4>1. CASE r \in commands[id].about
        <5>1. verdict'[r] = commands[id].status /\ Owner[r] = n /\ ~OptIn(id)
          BY <1>1, <1>4, <2>2, <4>1 DEF CommandInv, VerdictsForOwner
        <5>2. j \in applied[n] /\ ~OptIn(j)
          BY <1>1, <3>3, <4>0, <5>1 DEF CommandInv, VerdictsForOwner
        <5>. QED  BY <1>1, <3>1, <4>1, <5>1, <5>2
      <4>2. CASE r \notin commands[id].about
        <5>1. verdict'[r] = verdict[r] /\ j \in applied[Owner[r]]
          BY <1>1, <2>2, <3>3, <4>0, <4>2
        <5>2. PICK k \in applied[Owner[r]] : r \in commands[k].about /\ j < k
          BY <3>3, <5>1 DEF CommandInv, NewestApplied
        <5>. QED  BY <1>1, <4>0, <5>2
      <4>. QED  BY <4>1, <4>2
    <3>. QED  BY <3>2, <3>3 DEF NewestApplied, OptIn
  <2>. QED  BY <2>1, <2>2
<1>. QED  BY <1>5, <1>6, <1>7, <1>8, <1>11, <1>12 DEF CommandInv

\* review_receipt queues the verdict that it stores, for the right franchise.
LEMMA InvCommitReview ==
    ASSUME CommandInv, NEW a \in Admin, CommitReview(a)
    PROVE  CommandInv'
<1> DEFINE r == task[a].receipt
           decision == task[a].decision
           c == [node |-> Owner[r], type |-> "RECEIPT_REVIEWED", size |-> 1,
                 about |-> {r}, status |-> decision]
<1>1. task[a] \in Review
  BY DEF CommandInv, TypeOK, CommitReview
<1>2. r \in Receipt /\ decision \in Decision
  BY <1>1 DEF Review
<1>3. c \in Command
  BY <1>2, CommandConstants DEF Command, Type, Status
<1>4. receipt \in [Receipt -> Status]
  BY DEF CommandInv, TypeOK
<1>5. receipt' = [receipt EXCEPT ![r] = decision]
  BY DEF CommitReview
<1>6. receipt' \in [Receipt -> Status]
  BY <1>2, <1>4, <1>5 DEF Status
<1>7. receipt'[r] = decision
  BY <1>2, <1>4, <1>5
<1>8. \A s \in Receipt \ {r} : receipt'[s] = receipt[s]
  BY <1>4, <1>5
<1>9. task' \in [Admin -> Review \cup {NoTask}]
  BY DEF CommandInv, TypeOK, CommitReview
<1>10. Queue(c) /\ UNCHANGED <<acked, lite, patches>>
  BY DEF CommitReview
<1>11. /\ \A s \in c.about : c.node = Owner[s] /\ receipt'[s] = c.status
       /\ c.type # "PRODUCT_UPSERT"
       /\ c.about = {r}
  BY <1>7
<1> HIDE DEF c
<1>. QED  BY <1>3, <1>6, <1>8, <1>9, <1>10, <1>11, InvQueue

LEMMA CommandNext == CommandInv /\ [Next]_vars => CommandInv'
<1> SUFFICES ASSUME CommandInv, [Next]_vars PROVE CommandInv'
  OBVIOUS
<1> USE DEF master, lite
<1>1. ASSUME NEW n \in Node, NEW size \in Sizes, QueueStock(n, size) PROVE CommandInv'
  <2> DEFINE c == [node |-> n, type |-> "STOCK", size |-> size, about |-> {}, status |-> "NONE"]
  <2>1. c \in Command /\ c.about = {}
    BY CommandConstants DEF Command, Type, Status
  <2>2. Queue(c) /\ UNCHANGED <<acked, receipt, task, lite, patches>>
    BY <1>1 DEF QueueStock
  <2> HIDE DEF c
  <2>. QED  BY <2>1, <2>2, InvQueue DEF CommandInv, TypeOK
<1>2. ASSUME NEW n \in Node, QueueProduct(n) PROVE CommandInv'
  <2> DEFINE c == [node |-> n, type |-> "PRODUCT_UPSERT", size |-> 1, about |-> {},
                   status |-> "NONE"]
  <2>1. c \in Command /\ c.about = {}
    BY DEF Command, Type, Status
  <2>2. Queue(c) /\ UNCHANGED <<acked, receipt, task, lite, patches>>
    BY <1>2 DEF QueueProduct
  <2> HIDE DEF c
  <2>. QED  BY <2>1, <2>2, InvQueue DEF CommandInv, TypeOK
<1>3. ASSUME NEW r \in Receipt, SubmitReceipt(r) PROVE CommandInv'
  <2>1. receipt \in [Receipt -> Status]
    BY DEF CommandInv, TypeOK
  <2>2. /\ receipt' \in [Receipt -> Status]
        /\ \A s \in Receipt : receipt'[s] \in Decision => receipt'[s] = receipt[s]
    BY <1>3, <2>1 DEF SubmitReceipt, Status, Decision
  <2>3. TypeOK'
    BY <1>3, <2>2 DEF SubmitReceipt, CommandInv, TypeOK, Ids
  <2>. QED  BY <1>3, <2>2, <2>3, Frame DEF SubmitReceipt, CommandInv, AckedIsApplied
<1>4. ASSUME NEW a \in Admin, Console(a) PROVE CommandInv'
  <2>1. CASE \E r \in Receipt, decision \in Decision : BeginReview(a, r, decision)
    <3>1. TypeOK'
      BY <2>1 DEF BeginReview, CommandInv, TypeOK, Ids, Review
    <3>. QED  BY <2>1, <3>1, Frame DEF BeginReview, CommandInv, AckedIsApplied
  <2>2. CASE CommitReview(a)
    BY <2>2, InvCommitReview
  <2>. QED  BY <1>4, <2>1, <2>2 DEF Console
<1>5. ASSUME NEW n \in Node, Lite(n) PROVE CommandInv'
  <2>1. CASE Poll(n)
    BY <2>1, InvPoll
  <2>2. CASE \E id \in inbox[n] : LiteApply(n, id)
    BY <2>2, InvLiteApply
  <2>3. CASE \E known \in BOOLEAN : LiteRestart(n, known)
    <3>1. TypeOK'
      BY <2>3 DEF LiteRestart, CommandInv, TypeOK, Ids
    <3>2. \A m \in Node : inbox'[m] \in {{}, inbox[m]}
      BY <2>3 DEF LiteRestart, CommandInv, TypeOK
    <3>. QED  BY <2>3, <3>1, <3>2, Frame DEF LiteRestart, CommandInv, AckedIsApplied
  <2>. QED  BY <1>5, <2>1, <2>2, <2>3 DEF Lite
<1>6. ASSUME NEW p \in patches, PatchCommand(p) PROVE CommandInv'
  <2>1. TypeOK'
    BY <1>6 DEF PatchCommand, AcknowledgeCommand, CommandInv, TypeOK, Ids
  <2>2. \A id \in acked' : id \in applied[commands[id].node]
    BY <1>6 DEF PatchCommand, AcknowledgeCommand, CommandInv, AckedIsApplied, OwnCommands
  <2>. QED  BY <1>6, <2>1, <2>2, Frame DEF PatchCommand, AcknowledgeCommand
<1>7. CASE Lose
  <2>1. TypeOK'
    BY <1>7 DEF Lose, CommandInv, TypeOK, Ids
  <2>. QED  BY <1>7, <2>1, Frame DEF Lose, CommandInv, AckedIsApplied
<1>8. CASE UNCHANGED vars
  <2>1. TypeOK'
    BY <1>8 DEF vars, CommandInv, TypeOK, Ids
  <2>. QED  BY <1>8, <2>1, Frame DEF vars, CommandInv, AckedIsApplied
<1>. QED  BY <1>1, <1>2, <1>3, <1>4, <1>5, <1>6, <1>7, <1>8 DEF Next

\* The inductive invariant holds in every reachable state.
THEOREM CommandInvHolds == Spec => []CommandInv
BY CommandInit, CommandNext, PTL DEF Spec

\* Master stops sending a command only after its franchise has applied it.
THEOREM AckedIsAppliedHolds == Spec => []AckedIsApplied
<1>1. CommandInv => AckedIsApplied
  BY DEF CommandInv
<1>. QED  BY <1>1, CommandInvHolds, PTL

\* A Lite that has worked its queue off has the newest product details and
\* the verdicts that Master stores.
THEOREM LiteAgreesHolds == Spec => []LiteAgrees
<1>1. CommandInv => LiteAgrees
  <2> SUFFICES ASSUME CommandInv, NEW n \in Node, Drained(n)
               PROVE  /\ \A id \in Ids :
                            commands[id].node = n /\ commands[id].type = "PRODUCT_UPSERT"
                                => id <= details[n]
                      /\ \A r \in Receipt : Owner[r] = n /\ receipt[r] \in Decision
                            => verdict[r] = receipt[r]
    BY DEF LiteAgrees
  <2>1. \A id \in Ids : commands[id].node = n => id \in applied[n]
    BY DEF Drained, CommandInv, AckedIsApplied
  <2>2. \A id \in Ids : commands[id].node = n /\ commands[id].type = "PRODUCT_UPSERT"
            => id <= details[n]
    BY <2>1 DEF CommandInv, NewestApplied, OptIn
  <2>3. ASSUME NEW r \in Receipt, Owner[r] = n, receipt[r] \in Decision
        PROVE  verdict[r] = receipt[r]
    <3>1. PICK id \in Ids : /\ r \in commands[id].about
                            /\ commands[id].status = receipt[r]
                            /\ \A j \in Ids : r \in commands[j].about => j <= id
      BY <2>3 DEF CommandInv, NewestVerdict
    <3>2. id \in applied[n]
      BY <2>1, <2>3, <3>1 DEF CommandInv, VerdictsForOwner
    <3>3. applied[n] \subseteq Ids /\ Ids \subseteq Nat
      BY DEF CommandInv, TypeOK, Ids
    <3>4. ASSUME NEW j \in applied[n], r \in commands[j].about PROVE ~(id < j)
      <4>1. j <= id
        BY <3>1, <3>3, <3>4
      <4>2. j \in Nat /\ id \in Nat
        BY <3>3
      <4>. QED  BY <4>1, <4>2
    <3>. QED  BY <2>3, <3>1, <3>2, <3>4 DEF CommandInv, NewestApplied
  <2>. QED  BY <2>2, <2>3
<1>. QED  BY <1>1, CommandInvHolds, PTL

\* Type correctness of the commands, the verdicts and the copies on the
\* network (every step of node_api's command routes and of a Lite).
THEOREM TypeCorrect == Spec => []TypeOK
<1>1. CommandInv => TypeOK
  BY DEF CommandInv
<1>. QED  BY <1>1, CommandInvHolds, PTL
=============================================================================
