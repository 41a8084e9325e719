--------------------------- MODULE NetworkIngest ---------------------------
(***************************************************************************)
(* What an accepted franchise event does to Master's stock, transfers, QR  *)
(* replacement reservations and node commands                              *)
(* (app/services/network_ingest.py), together with the console operations  *)
(* that write the same tables: QR allocation (qr_allocation.py), QR        *)
(* replacement requests (qr_replacement_intent.py) and enabling or         *)
(* disabling a franchise (master_console.py).                              *)
(*                                                                         *)
(* An event is one step.  ingest_events runs on the event loop, inserts    *)
(* the inbound row first and so holds SQLite's write lock while it reads   *)
(* and writes everything else; any error rolls the request back, so a      *)
(* rejected event is no step.  A replacement request runs on a pool thread *)
(* and reads before it takes the write lock: it is two steps.              *)
(*                                                                         *)
(* Abstractions.  Sequence numbers and retransmission are not modelled     *)
(* here: an event is one that ingest_events found new and next in order.   *)
(* Products are left out (an event whose items do not match their product  *)
(* is rejected).  A transfer's reference is its id, as Lite sends it.      *)
(***************************************************************************)
EXTENDS Integers, FiniteSets

CONSTANTS
    Node,       \* franchises
    Serial,     \* serial numbers
    Transfer,   \* ids of transfers
    Admin,      \* threads that serve "Replace a QR code" requests
    NoNode,
    NoSerial,
    NoIntent,   \* no replacement has been reserved for the serial
    NoRequest   \* the thread serves no request

ASSUME IngestConstants ==
    /\ NoNode \notin Node
    /\ NoSerial \notin Serial

\* The values of SerialStatus that some code path stores, and "UNKNOWN" for
\* a serial number that has no row.
StockStatus == {"UNKNOWN", "GENERATED", "IN_STOCK", "SOLD", "RETURNED", "DAMAGED",
                "PURCHASE_RETURN", "ISSUED", "IN_TRANSIT", "INVALID"}

AVAILABLE_STOCK_STATUSES     == {"IN_STOCK", "RETURNED"}
SNAPSHOT_ENROLLMENT_STATUSES == {"GENERATED", "IN_STOCK"}
REPLACEABLE_STATUSES         == {"GENERATED", "IN_STOCK", "RETURNED", "DAMAGED"}
TransferStatus               == {"NONE", "DISPATCHED", "PARTIALLY_RECEIVED", "RECEIVED"}

StockRow    == [owner  : Node \cup {NoNode},
                origin : Node \cup {NoNode},
                status : StockStatus]
SerialRow   == [status : StockStatus, active : BOOLEAN, replacedBy : Serial \cup {NoSerial}]
TransferRow == [status : TransferStatus, source : Node \cup {NoNode}, dest : Node \cup {NoNode},
                items : SUBSET Serial, received : SUBSET Serial]
Intent      == [node : Node, old : Serial, new : Serial, expected : StockStatus,
                completed : BOOLEAN]

ASSUME NoIntentAssumption == NoIntent \notin Intent

Command     ==
    [type : {"TRANSFER_AVAILABLE"}, to : Node, transfer : Transfer, items : SUBSET Serial]
    \cup [type : {"TRANSFER_RECEIPT"}, to : Node, transfer : Transfer,
          items : SUBSET Serial, complete : BOOLEAN]
    \cup [type : {"QR_ALLOCATED"}, to : Node, items : SUBSET Serial]
    \cup [type : {"QR_REPLACE"}, to : Node, old : Serial, new : Serial,
          expected : StockStatus]

VARIABLES
    stock,      \* network_stock: who has the serial, where it came from, its status
    serial,     \* serials: Master's own copy of the status, active, replaced_by
    sold,       \* SALE minus SALES_RETURN vouchers that list the serial
    transfers,  \* stock_transfers with their items
    intents,    \* qr_replacement_intents, by old serial (it is unique)
    commands,   \* node_commands
    requests,   \* per thread: what a replacement request has read
    active,     \* franchise_nodes.active
    last        \* per node: kind of the last accepted event

vars == <<stock, serial, sold, transfers, intents, commands, requests, active, last>>

goods   == <<stock, serial, sold, transfers>>
console == <<requests, active>>

-----------------------------------------------------------------------------
NoStock     == [owner |-> NoNode, origin |-> NoNode, status |-> "UNKNOWN"]
NoSerialRow == [status |-> "UNKNOWN", active |-> FALSE, replacedBy |-> NoSerial]
NoTransfer  == [status |-> "NONE", source |-> NoNode, dest |-> NoNode,
                items |-> {}, received |-> {}]

Init ==
    /\ stock = [s \in Serial |-> NoStock]
    /\ serial = [s \in Serial |-> NoSerialRow]
    /\ sold = [s \in Serial |-> 0]
    /\ transfers = [t \in Transfer |-> NoTransfer]
    /\ intents = [s \in Serial |-> NoIntent]
    /\ commands = {}
    /\ requests = [a \in Admin |-> NoRequest]
    /\ active = [n \in Node |-> TRUE]
    /\ last = [n \in Node |-> "NONE"]

Known(s) == stock[s].status # "UNKNOWN"

Owned(n, S) == \A s \in S : stock[s].owner = n

Reserved == {intents[s].new : s \in {o \in Serial : intents[o] # NoIntent}}

\* Mutant of Taken: serials that are already in use may be issued again.
TakenIfReserved == Reserved

\* Serial numbers that new_qr_serial cannot return again: a uuid4 does not
\* repeat.
Taken == {s \in Serial : Known(s)} \cup Reserved
            \cup {requests[a].new : a \in {b \in Admin : requests[b] # NoRequest}}

\* Mutant of SetStatus: Master's own copy is forgotten.
SetStatusOfStock(S, status) ==
    /\ stock' = [s \in Serial |->
                   IF s \in S THEN [stock[s] EXCEPT !.status = status[s]] ELSE stock[s]]
    /\ UNCHANGED serial

\* Set the status of the serials S in network_stock and in serials.
SetStatus(S, status) ==
    /\ stock' = [s \in Serial |->
                   IF s \in S THEN [stock[s] EXCEPT !.status = status[s]] ELSE stock[s]]
    /\ serial' = [s \in Serial |->
                   IF s \in S THEN [serial[s] EXCEPT !.status = status[s]] ELSE serial[s]]

\* Create rows for the serials S of node n.
CreateSerials(n, S, status) ==
    /\ stock' = [s \in Serial |->
                   IF s \in S THEN [owner |-> n, origin |-> n, status |-> status[s]]
                   ELSE stock[s]]
    /\ serial' = [s \in Serial |->
                   IF s \in S
                   THEN [status |-> status[s], active |-> TRUE, replacedBy |-> NoSerial]
                   ELSE serial[s]]

\* The rest of an accepted event: the node is active and its cursor moves.
Accept(n, kind) ==
    /\ active[n]
    /\ last' = [last EXCEPT ![n] = kind]

\* Mutant of QueueNodeCommand: only the newest command of a node is kept.
QueueLatestCommand(c) == commands' = {e \in commands : e.to # c.to} \cup {c}

QueueNodeCommand(c) == commands' = commands \cup {c}

-----------------------------------------------------------------------------
(* Franchise events.                                                       *)

\* HEARTBEAT and RECEIPT_SUBMITTED.
EventWithoutStock(n) ==
    /\ Accept(n, "OTHER")
    /\ UNCHANGED <<goods, intents, commands, console>>

\* The initial enrollment continues if this is the node's first event or
\* the one before it was tagged as a part of the enrollment.
EnrollmentContinues(n) == last[n] \in {"NONE", "ENROLLMENT"}

\* STOCK_SNAPSHOT.  Known serials must be the node's and keep their status;
\* unknown ones are created, only by a part of the initial enrollment.
SnapshotEvent(n, S, kind) ==
    LET new == {s \in S : ~Known(s)} IN
    /\ S # {}
    /\ Accept(n, kind)
    /\ new # {} => kind = "ENROLLMENT" /\ EnrollmentContinues(n)
    /\ Owned(n, S \ new)
    /\ \E status \in [S -> StockStatus \ {"UNKNOWN"}] :
          /\ \A s \in new : status[s] \in SNAPSHOT_ENROLLMENT_STATUSES
          /\ \A s \in S \ new : status[s] = stock[s].status
          /\ stock' = [s \in Serial |->
                         IF s \in new
                         THEN [owner |-> n, origin |-> n, status |-> status[s]]
                         ELSE stock[s]]
          /\ serial' = [s \in Serial |->
                          IF s \in new
                          THEN [status |-> status[s], active |-> TRUE, replacedBy |-> NoSerial]
                          ELSE [serial[s] EXCEPT !.status =
                                  IF s \in S THEN stock[s].status ELSE @]]
    /\ UNCHANGED <<sold, transfers, intents, commands, console>>

\* STOCK_SNAPSHOT with reason QR_REPLACEMENT: the label old becomes INVALID
\* and new takes its place, as reserved by the command the event names.
ReplacementSnapshotEvent(n, old, new) ==
    LET target == IF stock[old].status = "GENERATED" THEN "GENERATED" ELSE "IN_STOCK" IN
    /\ Known(old) /\ ~Known(new)
    /\ stock[old].owner = n
    /\ serial[old].active
    /\ stock[old].status \in REPLACEABLE_STATUSES
    /\ intents[old] # NoIntent
    /\ ~intents[old].completed
    /\ intents[old].node = n
    /\ intents[old].new = new
    /\ intents[old].expected = stock[old].status
    /\ Accept(n, "OTHER")
    /\ stock' = [stock EXCEPT ![old] = [stock[old] EXCEPT !.status = "INVALID"],
                              ![new] = [owner |-> n, origin |-> stock[old].origin,
                                        status |-> target]]
    /\ serial' = [serial EXCEPT ![old] = [status |-> "INVALID", active |-> FALSE,
                                          replacedBy |-> new],
                                ![new] = [status |-> target, active |-> TRUE,
                                          replacedBy |-> NoSerial]]
    /\ intents' = [intents EXCEPT ![old] = [intents[old] EXCEPT !.completed = TRUE]]
    /\ UNCHANGED <<sold, transfers, commands, console>>

\* Mutants of TransitionFrom: goods on their way can be sold; what is in
\* stock can be returned.
TransitionFromTransit(type) ==
    CASE type \in {"PURCHASE", "RECEIVE"}     -> {"GENERATED", "PURCHASE_RETURN"}
      [] type \in {"SALE", "PURCHASE_RETURN"} -> AVAILABLE_STOCK_STATUSES \cup {"IN_TRANSIT"}
      [] type = "SALES_RETURN"                -> {"SOLD"}
      [] type = "ISSUE"                       -> {"IN_STOCK"}
      [] type = "AUDIT"                       -> StockStatus \ {"UNKNOWN"}

TransitionFromStock(type) ==
    CASE type \in {"PURCHASE", "RECEIVE"}     -> {"GENERATED", "PURCHASE_RETURN"}
      [] type \in {"SALE", "PURCHASE_RETURN"} -> AVAILABLE_STOCK_STATUSES
      [] type = "SALES_RETURN"                -> {"SOLD", "IN_STOCK"}
      [] type = "ISSUE"                       -> {"IN_STOCK"}
      [] type = "AUDIT"                       -> StockStatus \ {"UNKNOWN"}

\* The statuses an inventory event may start from.
TransitionFrom(type) ==
    CASE type \in {"PURCHASE", "RECEIVE"}     -> {"GENERATED", "PURCHASE_RETURN"}
      [] type \in {"SALE", "PURCHASE_RETURN"} -> AVAILABLE_STOCK_STATUSES
      [] type = "SALES_RETURN"                -> {"SOLD"}
      [] type = "ISSUE"                       -> {"IN_STOCK"}
      [] type = "AUDIT"                       -> StockStatus \ {"UNKNOWN"}

\* Mutant of TransitionTo: RECEIVE stores the status RECEIVED, which no
\* other event starts from.
TransitionToReceived(type, damaged, status) ==
    CASE type = "PURCHASE"        -> "IN_STOCK"
      [] type = "RECEIVE"         -> "RECEIVED"
      [] type = "SALE"            -> "SOLD"
      [] type = "SALES_RETURN"    -> IF damaged THEN "DAMAGED" ELSE "IN_STOCK"
      [] type = "PURCHASE_RETURN" -> "PURCHASE_RETURN"
      [] type = "ISSUE"           -> "ISSUED"
      [] type = "AUDIT"           -> status

\* The status it leads to.
TransitionTo(type, damaged, status) ==
    CASE type \in {"PURCHASE", "RECEIVE"} -> "IN_STOCK"
      [] type = "SALE"                    -> "SOLD"
      [] type = "SALES_RETURN"            -> IF damaged THEN "DAMAGED" ELSE "IN_STOCK"
      [] type = "PURCHASE_RETURN"         -> "PURCHASE_RETURN"
      [] type = "ISSUE"                   -> "ISSUED"
      [] type = "AUDIT"                   -> status

INVENTORY_EVENT_TYPES == {"PURCHASE", "RECEIVE", "SALE", "SALES_RETURN", "PURCHASE_RETURN",
                          "ISSUE", "AUDIT"}

\* A purchase, sale, return, issue or audit: every item must be the node's
\* and in a status the event may start from.  The event's batch lists them.
InventoryEvent(n, type, S, damaged) ==
    /\ S # {}
    /\ Accept(n, "OTHER")
    /\ \A s \in S : Known(s)
    /\ Owned(n, S)
    /\ \A s \in S : stock[s].status \in TransitionFrom(type)
    /\ SetStatus(S, [s \in S |-> TransitionTo(type, damaged, stock[s].status)])
    /\ sold' = [s \in Serial |-> CASE s \in S /\ type = "SALE"         -> sold[s] + 1
                                   [] s \in S /\ type = "SALES_RETURN" -> sold[s] - 1
                                   [] OTHER                            -> sold[s]]
    /\ UNCHANGED <<transfers, intents, commands, console>>

\* TRANSFER_DISPATCHED: the goods leave n but stay n's until received.
DispatchTransfer(n, d, t, S) ==
    /\ S # {}
    /\ Accept(n, "OTHER")
    /\ active[d]
    /\ d # n
    /\ transfers[t].status = "NONE"
    /\ Owned(n, S)
    /\ \A s \in S : /\ serial[s].active
                    /\ serial[s].status \in AVAILABLE_STOCK_STATUSES
                    /\ stock[s].status \in AVAILABLE_STOCK_STATUSES
    /\ transfers' = [transfers EXCEPT ![t] =
                       [status |-> "DISPATCHED", source |-> n, dest |-> d,
                        items |-> S, received |-> {}]]
    /\ SetStatus(S, [s \in S |-> "IN_TRANSIT"])
    /\ QueueNodeCommand([type |-> "TRANSFER_AVAILABLE", to |-> d, transfer |-> t, items |-> S])
    /\ UNCHANGED <<sold, intents, console>>

\* TRANSFER_RECEIVED: the destination takes over some of the goods.
ReceiveTransfer(n, t, S, status) ==
    LET row      == transfers[t]
        complete == row.items = row.received \cup S
    IN
    /\ S # {}
    /\ Accept(n, "OTHER")
    /\ row.status \notin {"NONE", "RECEIVED"}
    /\ row.dest = n
    /\ S \subseteq row.items \ row.received
    /\ \A s \in S : stock[s].owner = row.source /\ stock[s].status = "IN_TRANSIT"
    /\ transfers' = [transfers EXCEPT ![t] =
                       [row EXCEPT !.received = row.received \cup S,
                                   !.status = IF complete THEN "RECEIVED"
                                              ELSE "PARTIALLY_RECEIVED"]]
    /\ stock' = [s \in Serial |->
                   IF s \in S THEN [stock[s] EXCEPT !.owner = n, !.status = status[s]]
                   ELSE stock[s]]
    /\ serial' = [s \in Serial |->
                    IF s \in S THEN [serial[s] EXCEPT !.status = status[s]] ELSE serial[s]]
    /\ QueueNodeCommand([type |-> "TRANSFER_RECEIPT", to |-> row.source, transfer |-> t,
                         items |-> S, complete |-> complete])
    /\ UNCHANGED <<sold, intents, console>>

-----------------------------------------------------------------------------
(* Console operations.                                                     *)

\* allocate_qr_serials: new labels for an active franchise.
AllocateQrSerials(n, S) ==
    /\ active[n]
    /\ S # {}
    /\ S \cap Taken = {}
    /\ CreateSerials(n, S, [s \in S |-> "GENERATED"])
    /\ QueueNodeCommand([type |-> "QR_ALLOCATED", to |-> n, items |-> S])
    /\ UNCHANGED <<sold, transfers, intents, console, last>>

\* request_qr_replacement up to its first write: what it has read may be
\* stale when it writes.
ReadForReplacement(a, n, old, new) ==
    /\ requests[a] = NoRequest
    /\ active[n]
    /\ Known(old)
    /\ stock[old].owner = n
    /\ serial[old].active
    /\ serial[old].replacedBy = NoSerial
    /\ stock[old].status \in REPLACEABLE_STATUSES
    /\ serial[old].status = stock[old].status
    /\ intents[old] = NoIntent
    /\ new \notin Taken
    /\ requests' = [requests EXCEPT ![a] =
                      [node |-> n, old |-> old, new |-> new,
                       expected |-> stock[old].status, completed |-> FALSE]]
    /\ UNCHANGED <<goods, intents, commands, active, last>>

\* The command and the reservation are inserted, unless the unique indexes
\* on old and new serials refuse.
ReserveReplacement(a) ==
    LET r == requests[a] IN
    /\ r # NoRequest
    /\ requests' = [requests EXCEPT ![a] = NoRequest]
    /\ IF intents[r.old] = NoIntent /\ r.new \notin Reserved
       THEN /\ intents' = [intents EXCEPT ![r.old] = r]
            /\ QueueNodeCommand([type |-> "QR_REPLACE", to |-> r.node, old |-> r.old,
                                 new |-> r.new, expected |-> r.expected])
       ELSE UNCHANGED <<intents, commands>>
    /\ UNCHANGED <<goods, active, last>>

\* set_franchise_status.
SetFranchiseStatus(n) ==
    /\ active' = [active EXCEPT ![n] = ~@]
    /\ UNCHANGED <<goods, intents, commands, requests, last>>

-----------------------------------------------------------------------------
NodeEvent(n) ==
    \/ EventWithoutStock(n)
    \/ \E S \in SUBSET Serial :
          \/ \E kind \in {"ENROLLMENT", "OTHER"} : SnapshotEvent(n, S, kind)
          \/ \E type \in INVENTORY_EVENT_TYPES, damaged \in BOOLEAN :
                InventoryEvent(n, type, S, damaged)
          \/ \E d \in Node, t \in Transfer : DispatchTransfer(n, d, t, S)
          \/ \E t \in Transfer, status \in [S -> AVAILABLE_STOCK_STATUSES] :
                ReceiveTransfer(n, t, S, status)
    \/ \E old, new \in Serial : ReplacementSnapshotEvent(n, old, new)

Console ==
    \/ \E n \in Node, S \in SUBSET Serial : AllocateQrSerials(n, S)
    \/ \E a \in Admin, n \in Node, old, new \in Serial : ReadForReplacement(a, n, old, new)
    \/ \E a \in Admin : ReserveReplacement(a)
    \/ \E n \in Node : SetFranchiseStatus(n)

Next == (\E n \in Node : NodeEvent(n)) \/ Console

Spec == Init /\ [][Next]_vars

-----------------------------------------------------------------------------
(* Properties.                                                             *)

TypeOK ==
    /\ stock \in [Serial -> StockRow]
    /\ serial \in [Serial -> SerialRow]
    /\ sold \in [Serial -> Int]
    /\ transfers \in [Transfer -> TransferRow]
    /\ intents \in [Serial -> Intent \cup {NoIntent}]
    /\ commands \subseteq Command
    /\ requests \in [Admin -> Intent \cup {NoRequest}]
    /\ active \in [Node -> BOOLEAN]
    /\ last \in [Node -> {"NONE", "ENROLLMENT", "OTHER"}]

\* The transfers that still have to deliver s.
OpenTransfers(s) == {t \in Transfer : s \in transfers[t].items \ transfers[t].received}

\* A serial is IN_TRANSIT exactly while one transfer still has to deliver
\* it, and it belongs to that transfer's source until then: goods are never
\* lost between franchises, sold on the way or delivered by two transfers.
InTransitMatchesTransfers == \A s \in Serial :
    /\ \A t, u \in OpenTransfers(s) : t = u
    /\ stock[s].status = "IN_TRANSIT" <=> OpenTransfers(s) # {}
    /\ \A t \in OpenTransfers(s) : /\ stock[s].owner = transfers[t].source
                                   /\ transfers[t].source # transfers[t].dest
                                   /\ transfers[t].status # "RECEIVED"

\* Tally's vouchers and the stock agree: the serial is SOLD exactly when it
\* has one more SALE voucher than SALES_RETURN vouchers, through transfers,
\* audits, snapshots and replacements.
VouchersMatchStock == \A s \in Serial :
    sold[s] = IF stock[s].status = "SOLD" THEN 1 ELSE 0

\* A replaced label is dead for ever and its successor is unique: the
\* reservation that named it is used up, no other label has the same
\* successor, and the chain of successors of any label ends in a live one.
ReplacementChains ==
    LET next(s) == serial[s].replacedBy IN
    /\ \A s \in Serial :
          /\ stock[s].status = "INVALID" <=> next(s) # NoSerial
          /\ next(s) # NoSerial =>
                /\ Known(next(s)) /\ next(s) # s
                /\ ~serial[s].active
                /\ intents[s] # NoIntent /\ intents[s].completed /\ intents[s].new = next(s)
                /\ stock[next(s)].origin = stock[s].origin
    /\ \A s, u \in Serial : next(s) # NoSerial /\ next(s) = next(u) => s = u
    /\ \A S \in SUBSET Serial : S # {} => \E s \in S : next(s) \notin S

\* Master's two records of a serial's status never differ: the copy in
\* serials, which reports and replacement requests read, follows the
\* authoritative network_stock, and only a replaced label is inactive.
MirrorAgrees == \A s \in Serial :
    /\ serial[s].status = stock[s].status
    /\ Known(s) => (serial[s].active <=> stock[s].status # "INVALID")

Receipts(t) == {c \in commands : c.type = "TRANSFER_RECEIPT" /\ c.transfer = t}

\* The source of a transfer can learn its state from its commands alone: the
\* receipts queued for it name every received serial exactly once, and one
\* of them says "complete" exactly if the transfer is RECEIVED.
SourceIsTold == \A t \in Transfer :
    /\ \A c \in Receipts(t) : c.to = transfers[t].source
    /\ UNION {c.items : c \in Receipts(t)} = transfers[t].received
    /\ \A c, e \in Receipts(t) : c = e \/ c.items \cap e.items = {}
    /\ transfers[t].status = "RECEIVED" <=> \E c \in Receipts(t) : c.complete

-----------------------------------------------------------------------------
(* The stock records implement StockLedger.                                *)

Place(s) ==
    CASE stock[s].status = "UNKNOWN"    -> [state |-> "new"]
      [] stock[s].status = "INVALID"    -> [state |-> "retired"]
      [] stock[s].status = "IN_TRANSIT" ->
            [state |-> "moving", node |-> stock[s].owner,
             to |-> transfers[CHOOSE t \in OpenTransfers(s) : TRUE].dest]
      [] OTHER                          -> [state |-> "at", node |-> stock[s].owner]

Ledger == INSTANCE StockLedger WITH Item <- Serial, place <- [s \in Serial |-> Place(s)]

\* Every event and console operation is a step of StockLedger or changes
\* nothing it can see: a serial changes hands only by a dispatch and a
\* receipt of the same transfer, and a retired label never comes back.
ImplementsStockLedger == Ledger!Spec

-----------------------------------------------------------------------------
(* The inductive invariant of the proofs in NetworkIngestProofs.           *)

\* An id that is not in use has no items; any other has a source and a
\* destination; only items can be received.
TransferRows == \A t \in Transfer :
    /\ transfers[t].status = "NONE" => transfers[t].items = {}
    /\ transfers[t].status # "NONE" => transfers[t].source \in Node /\ transfers[t].dest \in Node
    /\ transfers[t].received \subseteq transfers[t].items

StockInv == TypeOK /\ TransferRows /\ InTransitMatchesTransfers /\ VouchersMatchStock
=============================================================================
