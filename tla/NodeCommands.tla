---------------------------- MODULE NodeCommands ----------------------------
(***************************************************************************)
(* The command queue from Master to the franchises' Lite installations:    *)
(* queue_node_command, GET /api/v1/commands and PATCH                      *)
(* /api/v1/commands/{id} (network_ingest.py, node_api.py), with the review *)
(* of payment receipts (receipts.py), whose verdict is such a command.     *)
(*                                                                         *)
(* Lite is external, from the contract Master relies on: it works through  *)
(* a poll's answer in order, stores a command by its id, applies it in one *)
(* local transaction, only then acknowledges it, and stops at the first    *)
(* command of a type it does not know.  Answers and acknowledgements can   *)
(* be lost, and acknowledgements delayed.                                  *)
(*                                                                         *)
(* Abstractions.  A command is its place in node_commands.  Types that no  *)
(* property tells apart (QR_ALLOCATED, QR_REPLACEMENT, TRANSFER_AVAILABLE, *)
(* TRANSFER_RECEIPT) are STOCK.  Sizes are in units of which a response    *)
(* holds ResponseBudget.  Authentication is NodeSync's subject: here a     *)
(* poll that fails is no step.                                             *)
(***************************************************************************)
EXTENDS Naturals, Sequences, FiniteSets, FiniteSetsExt

CONSTANTS
    Node,            \* franchises
    Receipt,         \* receipts Lite installations can submit
    Owner,           \* the franchise of each receipt
    Admin,           \* console threads
    NoTask,          \* the thread reviews nothing
    Sizes,           \* sizes a STOCK command can have
    ResponseBudget,  \* what one response may hold
    PollLimit,       \* commands in one response
    MaxCommands      \* bound: commands that are queued

ASSUME CommandConstants ==
    /\ Owner \in [Receipt -> Node]
    /\ Sizes \subseteq Nat \ {0}
    /\ ResponseBudget \in Nat \ {0}
    /\ PollLimit \in Nat \ {0}
    /\ MaxCommands \in Nat

VARIABLES
    \* Master
    commands,  \* node_commands in the order of their ids
    acked,     \* ids whose acknowledged_at is set
    receipt,   \* status of the receipts, NONE before they are submitted
    task,      \* per console thread: the review whose receipt it has read
    \* Lite and the network (external)
    supports,  \* whether it declares PRODUCT_UPSERT
    inbox,     \* ids of the last answer that it has not worked through
    applied,   \* ids it has stored and applied
    details,   \* the PRODUCT_UPSERT applied last, 0 for none
    verdict,   \* what it knows of its receipts
    patches    \* acknowledgements on their way

master == <<commands, acked, receipt, task>>
lite   == <<supports, inbox, applied, details, verdict>>
vars   == <<master, lite, patches>>

Decision == {"APPROVED", "DENIED"}
Status   == {"NONE", "PENDING"} \cup Decision
Type     == {"STOCK", "PRODUCT_UPSERT", "RECEIPT_REVIEWED"}
Command  == [node : Node, type : Type, size : Nat \ {0}, about : SUBSET Receipt, status : Status]
Review   == [receipt : Receipt, decision : Decision]
Ids      == 1..Len(commands)

Init ==
    /\ commands = <<>>
    /\ acked = {}
    /\ receipt = [r \in Receipt |-> "NONE"]
    /\ task = [a \in Admin |-> NoTask]
    /\ supports = [n \in Node |-> FALSE]
    /\ inbox = [n \in Node |-> {}]
    /\ applied = [n \in Node |-> {}]
    /\ details = [n \in Node |-> 0]
    /\ verdict = [r \in Receipt |-> "PENDING"]
    /\ patches = {}

-----------------------------------------------------------------------------
(* Master queues commands, each in the transaction that is its reason.     *)

\* queue_node_command: the command is the newest one.
Queue(c) ==
    /\ Len(commands) < MaxCommands
    /\ commands' = Append(commands, c)

\* Labels are allocated or replaced, goods dispatched or received.
QueueStock(n, size) ==
    /\ Queue([node |-> n, type |-> "STOCK", size |-> size, about |-> {}, status |-> "NONE"])
    /\ UNCHANGED <<acked, receipt, task, lite, patches>>

\* A product is imported from Tally or changes there.
QueueProduct(n) ==
    /\ Queue([node |-> n, type |-> "PRODUCT_UPSERT", size |-> 1, about |-> {}, status |-> "NONE"])
    /\ UNCHANGED <<acked, receipt, task, lite, patches>>

\* Mutant of SubmitReceipt: a status that the review does not know.
SubmitUnknownStatus(r) ==
    /\ receipt[r] = "NONE"
    /\ receipt' = [receipt EXCEPT ![r] = "SUBMITTED"]
    /\ UNCHANGED <<commands, acked, task, lite, patches>>

\* RECEIPT_SUBMITTED is ingested.
SubmitReceipt(r) ==
    /\ receipt[r] = "NONE"
    /\ receipt' = [receipt EXCEPT ![r] = "PENDING"]
    /\ UNCHANGED <<commands, acked, task, lite, patches>>

\* review_receipt up to its first write: the receipt is read as PENDING.
BeginReview(a, r, decision) ==
    /\ task[a] = NoTask
    /\ receipt[r] = "PENDING"
    /\ task' = [task EXCEPT ![a] = [receipt |-> r, decision |-> decision]]
    /\ UNCHANGED <<commands, acked, receipt, lite, patches>>

\* The rest of review_receipt, in one transaction.  The status is written
\* over whatever it is by now.
CommitReview(a) ==
    LET r == task[a].receipt
        decision == task[a].decision IN
    /\ task[a] # NoTask
    /\ receipt' = [receipt EXCEPT ![r] = decision]
    /\ Queue([node |-> Owner[r], type |-> "RECEIPT_REVIEWED", size |-> 1,
              about |-> {r}, status |-> decision])
    /\ task' = [task EXCEPT ![a] = NoTask]
    /\ UNCHANGED <<acked, lite, patches>>

-----------------------------------------------------------------------------
(* GET /commands.                                                          *)

\* Opt-in types the Lite does not declare.
Withheld(n) == IF supports[n] THEN {} ELSE {"PRODUCT_UPSERT"}

Waiting(n) ==
    {id \in Ids \ acked : commands[id].node = n /\ commands[id].type \notin Withheld(n)}

\* Mutant of Window: the newest commands first.
WindowNewest(n) ==
    {id \in Waiting(n) : Cardinality({j \in Waiting(n) : j > id}) < PollLimit}

\* Mutant of Window: opt-in types are left out after the limit.
WindowFilteredLate(n) ==
    LET queued == {id \in Ids \ acked : commands[id].node = n} IN
    {id \in Waiting(n) : Cardinality({j \in queued : j < id}) < PollLimit}

\* ORDER BY id LIMIT.
Window(n) ==
    {id \in Waiting(n) : Cardinality({j \in Waiting(n) : j < id}) < PollLimit}

\* used_bytes after the command.
Used(n, id) ==
    MapThenSumSet(LAMBDA j : commands[j].size, {j \in Window(n) : j <= id})

\* The loop reaches the command.
Reached(n, id) == \A j \in Window(n) : j < id => Used(n, j) <= ResponseBudget

\* 413 COMMAND_TOO_LARGE.
TooLarge(n) ==
    \E id \in Window(n) : Reached(n, id) /\ commands[id].size > ResponseBudget

\* The commands of the answer.
Listed(n) == {id \in Window(n) : Reached(n, id) /\ Used(n, id) <= ResponseBudget}

\* A poll whose answer reaches Lite.
Poll(n) ==
    /\ inbox[n] = {}
    /\ ~TooLarge(n)
    /\ inbox' = [inbox EXCEPT ![n] = Listed(n)]
    /\ UNCHANGED <<master, supports, applied, details, verdict, patches>>

-----------------------------------------------------------------------------
(* Lite.                                                                   *)

\* The oldest command of the answer is applied unless that has happened
\* before, and acknowledged.  Lite stops at a type it does not know.
LiteApply(n, id) ==
    LET c == commands[id] IN
    /\ id \in inbox[n]
    /\ \A j \in inbox[n] : id <= j
    /\ c.type = "PRODUCT_UPSERT" => supports[n]
    /\ inbox' = [inbox EXCEPT ![n] = @ \ {id}]
    /\ applied' = [applied EXCEPT ![n] = @ \cup {id}]
    /\ IF id \in applied[n]
       THEN UNCHANGED <<details, verdict>>
       ELSE /\ details' = IF c.type = "PRODUCT_UPSERT"
                          THEN [details EXCEPT ![n] = id] ELSE details
            /\ verdict' = [r \in Receipt |-> IF r \in c.about THEN c.status ELSE verdict[r]]
    /\ patches' = patches \cup {[node |-> n, id |-> id]}
    /\ UNCHANGED <<master, supports>>

\* Lite is stopped and started, perhaps in another version.
LiteRestart(n, known) ==
    /\ supports' = [supports EXCEPT ![n] = known]
    /\ inbox' = [inbox EXCEPT ![n] = {}]
    /\ UNCHANGED <<master, applied, details, verdict, patches>>

\* Mutant of AcknowledgeCommand: older commands are taken to be done as well.
AcknowledgeUpTo(n, id) ==
    /\ id \in Ids /\ commands[id].node = n
    /\ acked' = acked \cup {j \in 1..id : commands[j].node = n}

\* The franchise's own command is acknowledged; a repetition changes nothing.
AcknowledgeCommand(n, id) ==
    /\ id \in Ids /\ commands[id].node = n
    /\ acked' = acked \cup {id}

\* PATCH /commands/{id}.
PatchCommand(p) ==
    /\ p \in patches
    /\ patches' = patches \ {p}
    /\ AcknowledgeCommand(p.node, p.id)
    /\ UNCHANGED <<commands, receipt, task, lite>>

Lose ==
    /\ \E p \in patches : patches' = patches \ {p}
    /\ UNCHANGED <<master, lite>>

-----------------------------------------------------------------------------
Console(a) ==
    \/ \E r \in Receipt, decision \in Decision : BeginReview(a, r, decision)
    \/ CommitReview(a)

Lite(n) ==
    \/ Poll(n)
    \/ \E id \in inbox[n] : LiteApply(n, id)
    \/ \E known \in BOOLEAN : LiteRestart(n, known)

Next ==
    \/ \E n \in Node, size \in Sizes : QueueStock(n, size)
    \/ \E n \in Node : QueueProduct(n)
    \/ \E r \in Receipt : SubmitReceipt(r)
    \/ \E a \in Admin : Console(a)
    \/ \E n \in Node : Lite(n)
    \/ \E p \in patches : PatchCommand(p)
    \/ Lose

Spec == Init /\ [][Next]_vars

\* Lite polls and works its answers off; of an acknowledgement that is sent
\* again and again one gets through.
ApplyOf(n) == \E id \in inbox[n] : LiteApply(n, id)

Fairness == \A n \in Node :
    /\ SF_vars(Poll(n) /\ inbox'[n] # {})
    /\ SF_vars(ApplyOf(n))
    /\ \A id \in 1..MaxCommands : SF_vars(PatchCommand([node |-> n, id |-> id]))

FairSpec == Spec /\ Fairness

-----------------------------------------------------------------------------
(* Properties.                                                             *)

TypeOK ==
    /\ commands \in Seq(Command)
    /\ acked \subseteq Ids
    /\ receipt \in [Receipt -> Status]
    /\ task \in [Admin -> Review \cup {NoTask}]
    /\ supports \in [Node -> BOOLEAN]
    /\ inbox \in [Node -> SUBSET Ids]
    /\ applied \in [Node -> SUBSET Ids]
    /\ details \in [Node -> Nat]
    /\ verdict \in [Receipt -> Status]
    /\ patches \subseteq [node : Node, id : Nat]

\* "Commands remain queued while Lite is offline and are acknowledged after
\* Lite applies them" (README.md:18): what Master no longer sends has been
\* applied by the franchise it is for, also when answers and acknowledgements
\* are lost, delayed and repeated and types are withheld for a while.
AckedIsApplied == \A id \in acked : id \in applied[commands[id].node]

\* Nothing is left to do for a franchise.
Drained(n) == \A id \in Ids : commands[id].node = n => id \in acked

\* A Lite whose queue is empty agrees with Master: it has the newest details
\* of its products and the verdict Master stores for each reviewed receipt,
\* although commands are repeated, withheld and caught up with later, and
\* two administrators review the same receipt at the same time.
LiteAgrees == \A n \in Node : Drained(n) =>
    /\ \A id \in Ids : commands[id].node = n /\ commands[id].type = "PRODUCT_UPSERT"
           => id <= details[n]
    /\ \A r \in Receipt : Owner[r] = n /\ receipt[r] \in Decision
           => verdict[r] = receipt[r]

\* "Command delivery: at least once until acknowledged"
\* (archive/legacy-node-api/docs/node-sync-v1.md:26): a Lite that keeps
\* polling works off every command of a type it knows.
CommandsArrive == \A n \in Node :
    []<>(\A id \in Ids : commands[id].node = n
            => id \in acked \/ (commands[id].type = "PRODUCT_UPSERT" /\ ~supports[n]))

-----------------------------------------------------------------------------
(* The inductive invariant of the proofs in NodeCommandsProofs.            *)

OptIn(id) == commands[id].type = "PRODUCT_UPSERT"

\* The older commands of the same franchise that are withheld or sent
\* together with a command.
Before(id) == {j \in Ids : /\ j < id
                           /\ commands[j].node = commands[id].node
                           /\ OptIn(j) <=> OptIn(id)}

\* A verdict goes to the franchise of the receipt.
VerdictsForOwner == \A id \in Ids : \A r \in commands[id].about :
    /\ commands[id].node = Owner[r]
    /\ ~OptIn(id)

\* A Lite sees its own commands and acknowledges what it has applied.
OwnCommands ==
    /\ \A n \in Node : \A id \in inbox[n] \cup applied[n] : commands[id].node = n
    /\ \A p \in patches : p.id \in applied[p.node]

\* Commands are applied in the order of the queue.
InOrder == \A n \in Node :
    /\ \A id \in applied[n] : Before(id) \subseteq applied[n]
    /\ \A id \in inbox[n] : Before(id) \subseteq applied[n] \cup inbox[n]

\* The receipt has the status of its newest verdict.
NewestVerdict == \A r \in Receipt :
    receipt[r] \in Decision =>
        \E id \in Ids : /\ r \in commands[id].about
                        /\ commands[id].status = receipt[r]
                        /\ \A j \in Ids : r \in commands[j].about => j <= id

\* Lite holds what it applied last.
NewestApplied ==
    /\ \A n \in Node : \A id \in applied[n] : OptIn(id) => id <= details[n]
    /\ \A r \in Receipt : \A id \in applied[Owner[r]] :
          \/ r \notin commands[id].about
          \/ verdict[r] = commands[id].status
          \/ \E j \in applied[Owner[r]] : r \in commands[j].about /\ id < j

CommandInv ==
    /\ TypeOK
    /\ VerdictsForOwner
    /\ OwnCommands
    /\ AckedIsApplied
    /\ InOrder
    /\ NewestVerdict
    /\ NewestApplied
=============================================================================
