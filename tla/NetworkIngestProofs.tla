------------------------ MODULE NetworkIngestProofs ------------------------
(* Proofs that franchise events keep stock, transfers and vouchers in      *)
(* agreement, for any number of franchises, serials and transfers.         *)
EXTENDS NetworkIngest, TLAPS

USE IngestConstants

-----------------------------------------------------------------------------
(* Facts shared by the actions.                                            *)

\* Events that move no transfer keep the transfers in agreement with stock
\* if nothing enters or leaves IN_TRANSIT or changes hands on the way.
LEMMA InTransitKept ==
    ASSUME StockInv, transfers' = transfers,
           \A s \in Serial :
              /\ stock'[s].status = "IN_TRANSIT" <=> stock[s].status = "IN_TRANSIT"
              /\ stock[s].status = "IN_TRANSIT" => stock'[s].owner = stock[s].owner
    PROVE  TransferRows' /\ InTransitMatchesTransfers'
<1>1. TransferRows'
  BY DEF StockInv, TransferRows
<1>2. \A s \in Serial : OpenTransfers(s)' = OpenTransfers(s)
  BY DEF OpenTransfers
<1>3. InTransitMatchesTransfers'
  BY <1>2 DEF StockInv, InTransitMatchesTransfers
<1>. QED  BY <1>1, <1>3

\* What setting the status of some serials does to both tables.
LEMMA SetStatusEffect ==
    ASSUME TypeOK, NEW S \in SUBSET Serial,
           NEW status \in [S -> StockStatus], SetStatus(S, status)
    PROVE  /\ stock' \in [Serial -> StockRow]
           /\ serial' \in [Serial -> SerialRow]
           /\ \A s \in S : stock'[s].status = status[s] /\ stock'[s].owner = stock[s].owner
           /\ \A s \in Serial \ S : stock'[s] = stock[s]
<1>1. ASSUME NEW s \in S
      PROVE  /\ stock'[s] = [stock[s] EXCEPT !.status = status[s]] /\ stock'[s] \in StockRow
             /\ serial'[s] = [serial[s] EXCEPT !.status = status[s]] /\ serial'[s] \in SerialRow
  <2>1. /\ stock'[s] = [stock[s] EXCEPT !.status = status[s]]
        /\ serial'[s] = [serial[s] EXCEPT !.status = status[s]]
    BY DEF SetStatus
  <2>2. stock[s] \in StockRow /\ serial[s] \in SerialRow /\ status[s] \in StockStatus
    BY DEF TypeOK
  <2>3. [stock[s] EXCEPT !.status = status[s]] \in StockRow
    BY <2>2 DEF StockRow
  <2>4. [serial[s] EXCEPT !.status = status[s]] \in SerialRow
    BY <2>2 DEF SerialRow
  <2>. QED  BY <2>1, <2>3, <2>4
<1>2. \A s \in Serial \ S : stock'[s] = stock[s] /\ serial'[s] = serial[s]
  BY DEF SetStatus
<1>3. stock' = [s \in Serial |-> stock'[s]] /\ serial' = [s \in Serial |-> serial'[s]]
  BY DEF SetStatus
<1>4. \A s \in Serial : stock'[s] \in StockRow /\ serial'[s] \in SerialRow
  BY <1>1, <1>2 DEF TypeOK
<1>5. stock' \in [Serial -> StockRow] /\ serial' \in [Serial -> SerialRow]
  BY <1>3, <1>4
<1>6. \A s \in S : stock'[s].status = status[s] /\ stock'[s].owner = stock[s].owner
  BY <1>1 DEF TypeOK, StockRow
<1>. QED  BY <1>2, <1>5, <1>6

\* An accepted event leaves a well-formed cursor.
LEMMA AcceptType ==
    ASSUME TypeOK, NEW n \in Node, NEW kind \in {"ENROLLMENT", "OTHER"}, Accept(n, kind)
    PROVE  last' \in [Node -> {"NONE", "ENROLLMENT", "OTHER"}]
  BY DEF TypeOK, Accept

-----------------------------------------------------------------------------
LEMMA StockInvInit == Init => StockInv
<1> SUFFICES ASSUME Init PROVE StockInv
  OBVIOUS
<1>1. TypeOK
  BY DEF Init, TypeOK, NoStock, NoSerialRow, NoTransfer, StockRow, SerialRow, TransferRow,
         StockStatus, TransferStatus
<1>2. TransferRows /\ InTransitMatchesTransfers /\ VouchersMatchStock
  BY DEF Init, NoStock, NoTransfer, TransferRows, InTransitMatchesTransfers, OpenTransfers,
         VouchersMatchStock
<1>. QED  BY <1>1, <1>2 DEF StockInv

LEMMA StockInvSnapshot ==
    ASSUME StockInv, NEW n \in Node, NEW S \in SUBSET Serial,
           NEW kind \in {"ENROLLMENT", "OTHER"}, SnapshotEvent(n, S, kind)
    PROVE  StockInv'
<1> DEFINE new == {s \in S : ~Known(s)}
<1>1. PICK status \in [S -> StockStatus \ {"UNKNOWN"}] :
        /\ \A s \in new : status[s] \in SNAPSHOT_ENROLLMENT_STATUSES
        /\ stock' = [s \in Serial |->
                       IF s \in new
                       THEN [owner |-> n, origin |-> n, status |-> status[s]]
                       ELSE stock[s]]
        /\ serial' = [s \in Serial |->
                        IF s \in new
                        THEN [status |-> status[s], active |-> TRUE, replacedBy |-> NoSerial]
                        ELSE [serial[s] EXCEPT !.status =
                                IF s \in S THEN stock[s].status ELSE @]]
  BY DEF SnapshotEvent
<1>2. /\ UNCHANGED <<sold, transfers, intents, commands, console>>
      /\ Accept(n, kind)
  BY DEF SnapshotEvent
<1>3. \A s \in new : /\ stock[s].status = "UNKNOWN"
                     /\ stock'[s].status \in {"GENERATED", "IN_STOCK"}
  BY <1>1 DEF Known, SNAPSHOT_ENROLLMENT_STATUSES
<1>4. \A s \in Serial \ new : stock'[s] = stock[s]
  BY <1>1
<1>5. TypeOK'
  <2>1. stock' \in [Serial -> StockRow]
    BY <1>1 DEF StockInv, TypeOK, StockRow, StockStatus
  <2>2. serial' \in [Serial -> SerialRow]
    BY <1>1, SMTT(60) DEF StockInv, TypeOK, StockRow, SerialRow, StockStatus
  <2>. QED  BY <1>2, <2>1, <2>2, AcceptType DEF StockInv, TypeOK, console
<1>6. TransferRows' /\ InTransitMatchesTransfers'
  BY <1>2, <1>3, <1>4, InTransitKept
<1>7. VouchersMatchStock'
  BY <1>2, <1>3, <1>4 DEF StockInv, VouchersMatchStock
<1>. QED  BY <1>5, <1>6, <1>7 DEF StockInv

LEMMA StockInvReplacement ==
    ASSUME StockInv, NEW n \in Node, NEW old \in Serial, NEW new \in Serial,
           ReplacementSnapshotEvent(n, old, new)
    PROVE  StockInv'
<1>1. /\ stock[old].status \in REPLACEABLE_STATUSES
      /\ stock[new].status = "UNKNOWN" /\ old # new
      /\ UNCHANGED <<sold, transfers, commands, console>>
      /\ Accept(n, "OTHER")
  BY DEF ReplacementSnapshotEvent, Known
<1>2. PICK target \in {"GENERATED", "IN_STOCK"} :
        /\ stock' = [stock EXCEPT ![old] = [stock[old] EXCEPT !.status = "INVALID"],
                                  ![new] = [owner |-> n, origin |-> stock[old].origin,
                                            status |-> target]]
        /\ serial' = [serial EXCEPT ![old] = [status |-> "INVALID", active |-> FALSE,
                                              replacedBy |-> new],
                                    ![new] = [status |-> target, active |-> TRUE,
                                              replacedBy |-> NoSerial]]
  BY DEF ReplacementSnapshotEvent
<1>3. /\ stock'[old].status = "INVALID"
      /\ stock'[new].status = target
      /\ \A s \in Serial \ {old, new} : stock'[s] = stock[s]
  BY <1>1, <1>2 DEF StockInv, TypeOK, StockRow
<1>4. TypeOK'
  <2>1. stock' \in [Serial -> StockRow]
    <3>1. stock[old] \in StockRow /\ stock \in [Serial -> StockRow]
      BY DEF StockInv, TypeOK
    <3>2. /\ [stock[old] EXCEPT !.status = "INVALID"] \in StockRow
          /\ [owner |-> n, origin |-> stock[old].origin, status |-> target] \in StockRow
      BY <3>1 DEF StockRow, StockStatus
    <3>. QED  BY <1>2, <3>1, <3>2
  <2>2. serial' \in [Serial -> SerialRow]
    BY <1>2 DEF StockInv, TypeOK, SerialRow, StockStatus
  <2>3. intents' \in [Serial -> Intent \cup {NoIntent}]
    <3>1. intents[old] \in Intent
      BY DEF ReplacementSnapshotEvent, StockInv, TypeOK
    <3>2. [intents[old] EXCEPT !.completed = TRUE] \in Intent
      BY <3>1 DEF Intent
    <3>. QED  BY <3>2 DEF ReplacementSnapshotEvent, StockInv, TypeOK
  <2>. QED  BY <1>1, <2>1, <2>2, <2>3, AcceptType DEF StockInv, TypeOK, console
<1>5. TransferRows' /\ InTransitMatchesTransfers'
  BY <1>1, <1>3, InTransitKept DEF REPLACEABLE_STATUSES
<1>6. VouchersMatchStock'
  BY <1>1, <1>3 DEF StockInv, VouchersMatchStock, REPLACEABLE_STATUSES
<1>. QED  BY <1>4, <1>5, <1>6 DEF StockInv

LEMMA StockInvInventory ==
    ASSUME StockInv, NEW n \in Node, NEW type \in INVENTORY_EVENT_TYPES,
           NEW S \in SUBSET Serial, NEW damaged \in BOOLEAN,
           InventoryEvent(n, type, S, damaged)
    PROVE  StockInv'
<1> DEFINE status == [s \in S |-> TransitionTo(type, damaged, stock[s].status)]
<1>1. /\ UNCHANGED <<transfers, intents, commands, console>>
      /\ Accept(n, "OTHER") /\ SetStatus(S, status)
  BY DEF InventoryEvent
<1>2. \A s \in S : /\ stock[s].status \in StockStatus \ {"UNKNOWN"}
                   /\ stock[s].status \in TransitionFrom(type)
  BY DEF InventoryEvent, Known, StockInv, TypeOK, StockRow
<1>3. status \in [S -> StockStatus]
  <2>1. \A s \in S : TransitionTo(type, damaged, stock[s].status) \in StockStatus
    BY <1>2 DEF TransitionTo, INVENTORY_EVENT_TYPES, StockStatus
  <2>. QED  BY <2>1
<1>4. /\ stock' \in [Serial -> StockRow] /\ serial' \in [Serial -> SerialRow]
      /\ \A s \in S : /\ stock'[s].status = TransitionTo(type, damaged, stock[s].status)
                      /\ stock'[s].owner = stock[s].owner
      /\ \A s \in Serial \ S : stock'[s] = stock[s]
  BY <1>1, <1>3, SetStatusEffect DEF StockInv
<1>5. \A s \in S : /\ type = "SALE" => sold'[s] = sold[s] + 1
                   /\ type = "SALES_RETURN" => sold'[s] = sold[s] - 1
                   /\ type \notin {"SALE", "SALES_RETURN"} => sold'[s] = sold[s]
  BY DEF InventoryEvent
<1>6. \A s \in Serial \ S : sold'[s] = sold[s]
  BY DEF InventoryEvent
<1>7. sold' \in [Serial -> Int]
  <2>1. sold' = [s \in Serial |-> sold'[s]]
    BY DEF InventoryEvent
  <2>2. \A s \in Serial : sold'[s] \in Int
    BY <1>5, <1>6 DEF StockInv, TypeOK
  <2>. QED  BY <2>1, <2>2
<1>8. TypeOK'
  BY <1>1, <1>4, <1>7, AcceptType DEF StockInv, TypeOK, console
<1>9. TransferRows' /\ InTransitMatchesTransfers'
  <2>1. \A s \in S : stock'[s].status = "IN_TRANSIT" <=> stock[s].status = "IN_TRANSIT"
    BY <1>2, <1>4 DEF TransitionTo, TransitionFrom, INVENTORY_EVENT_TYPES,
                      AVAILABLE_STOCK_STATUSES
  <2>. QED  BY <1>1, <1>4, <2>1, InTransitKept
<1>10. VouchersMatchStock'
  <2>1. ASSUME NEW s \in S
        PROVE  sold'[s] = IF stock'[s].status = "SOLD" THEN 1 ELSE 0
    <3>1. sold[s] = IF stock[s].status = "SOLD" THEN 1 ELSE 0
      BY DEF StockInv, VouchersMatchStock
    <3>2. CASE type = "SALE"
      BY <1>2, <1>4, <1>5, <3>1, <3>2 DEF TransitionTo, TransitionFrom, AVAILABLE_STOCK_STATUSES
    <3>3. CASE type = "SALES_RETURN"
      BY <1>2, <1>4, <1>5, <3>1, <3>3 DEF TransitionTo, TransitionFrom
    <3>4. CASE type \notin {"SALE", "SALES_RETURN"}
      <4>1. stock'[s].status = "SOLD" <=> stock[s].status = "SOLD"
        BY <1>2, <1>4, <3>4 DEF TransitionTo, TransitionFrom, INVENTORY_EVENT_TYPES,
                                AVAILABLE_STOCK_STATUSES
      <4>. QED  BY <1>5, <3>1, <3>4, <4>1
    <3>. QED  BY <3>2, <3>3, <3>4
  <2>. QED  BY <1>4, <1>6, <2>1 DEF StockInv, VouchersMatchStock
<1>. QED  BY <1>8, <1>9, <1>10 DEF StockInv

\* A dispatch opens its transfer for its items and changes no other.
LEMMA DispatchOpens ==
    ASSUME StockInv, NEW n \in Node, NEW d \in Node, NEW t \in Transfer,
           NEW S \in SUBSET Serial, DispatchTransfer(n, d, t, S)
    PROVE  /\ transfers'[t] = [status |-> "DISPATCHED", source |-> n, dest |-> d,
                               items |-> S, received |-> {}]
           /\ \A u \in Transfer \ {t} : transfers'[u] = transfers[u]
           /\ \A s \in Serial : t \notin OpenTransfers(s)
           /\ \A s \in Serial : OpenTransfers(s)' = IF s \in S THEN {t} ELSE OpenTransfers(s)
<1> DEFINE row == [status |-> "DISPATCHED", source |-> n, dest |-> d,
                   items |-> S, received |-> {}]
<1>1. /\ transfers[t].status = "NONE"
      /\ \A s \in S : stock[s].status \in {"IN_STOCK", "RETURNED"}
      /\ transfers' = [transfers EXCEPT ![t] = row]
  BY DEF DispatchTransfer, AVAILABLE_STOCK_STATUSES
<1>2. transfers'[t] = row /\ \A u \in Transfer \ {t} : transfers'[u] = transfers[u]
  BY <1>1 DEF StockInv, TypeOK
<1>3. \A s \in Serial : t \notin OpenTransfers(s)
  BY <1>1 DEF StockInv, TransferRows, OpenTransfers
<1>4. ASSUME NEW s \in Serial
      PROVE  OpenTransfers(s)' = IF s \in S THEN {t} ELSE OpenTransfers(s)
  <2>1. s \in S => OpenTransfers(s) = {}
    BY <1>1 DEF StockInv, InTransitMatchesTransfers
  <2>2. t \in OpenTransfers(s)' <=> s \in S
    BY <1>2 DEF OpenTransfers
  <2>3. \A u \in Transfer \ {t} : u \in OpenTransfers(s)' <=> u \in OpenTransfers(s)
    BY <1>2 DEF OpenTransfers
  <2>4. OpenTransfers(s) \subseteq Transfer /\ OpenTransfers(s)' \subseteq Transfer
    BY DEF OpenTransfers
  <2>. QED  BY <1>3, <2>1, <2>2, <2>3, <2>4
<1>. QED  BY <1>2, <1>3, <1>4

LEMMA StockInvDispatch ==
    ASSUME StockInv, NEW n \in Node, NEW d \in Node, NEW t \in Transfer,
           NEW S \in SUBSET Serial, DispatchTransfer(n, d, t, S)
    PROVE  StockInv'
<1> DEFINE row == [status |-> "DISPATCHED", source |-> n, dest |-> d,
                   items |-> S, received |-> {}]
<1>1. /\ UNCHANGED <<sold, intents, console>>
      /\ Accept(n, "OTHER") /\ SetStatus(S, [s \in S |-> "IN_TRANSIT"])
      /\ d # n /\ transfers[t].status = "NONE" /\ Owned(n, S)
      /\ \A s \in S : stock[s].status \in {"IN_STOCK", "RETURNED"}
      /\ transfers' = [transfers EXCEPT ![t] = row]
  BY DEF DispatchTransfer, AVAILABLE_STOCK_STATUSES
<1>2. /\ stock' \in [Serial -> StockRow] /\ serial' \in [Serial -> SerialRow]
      /\ \A s \in S : stock'[s].status = "IN_TRANSIT" /\ stock'[s].owner = n
      /\ \A s \in Serial \ S : stock'[s] = stock[s]
  <2>1. [s \in S |-> "IN_TRANSIT"] \in [S -> StockStatus]
    BY DEF StockStatus
  <2>. QED  BY <1>1, <2>1, SetStatusEffect DEF StockInv, Owned
<1>3. row \in TransferRow
  BY DEF TransferRow, TransferStatus
<1>4. transfers'[t] = row /\ \A u \in Transfer \ {t} : transfers'[u] = transfers[u]
  BY DispatchOpens
<1>5. TypeOK'
  <2>1. transfers' \in [Transfer -> TransferRow]
    BY <1>1, <1>3 DEF StockInv, TypeOK
  <2>2. commands' \subseteq Command
    BY DEF DispatchTransfer, QueueNodeCommand, Command, StockInv, TypeOK
  <2>. QED  BY <1>1, <1>2, <2>1, <2>2, AcceptType DEF StockInv, TypeOK, console
<1>6. TransferRows'
  BY <1>4 DEF StockInv, TransferRows
<1>7. /\ \A s \in Serial : t \notin OpenTransfers(s)
      /\ \A s \in Serial : OpenTransfers(s)' = IF s \in S THEN {t} ELSE OpenTransfers(s)
  BY DispatchOpens
<1>8. InTransitMatchesTransfers'
  <2> SUFFICES ASSUME NEW s \in Serial
               PROVE  /\ \A u, v \in OpenTransfers(s)' : u = v
                      /\ stock'[s].status = "IN_TRANSIT" <=> OpenTransfers(s)' # {}
                      /\ \A u \in OpenTransfers(s)' :
                            /\ stock'[s].owner = transfers'[u].source
                            /\ transfers'[u].source # transfers'[u].dest
                            /\ transfers'[u].status # "RECEIVED"
    BY DEF InTransitMatchesTransfers
  <2>1. CASE s \in S
    <3>1. OpenTransfers(s)' = {t}
      BY <1>7, <2>1
    <3>2. stock'[s].status = "IN_TRANSIT" /\ stock'[s].owner = n
      BY <1>2, <2>1
    <3>3. /\ transfers'[t].source = n /\ transfers'[t].dest = d
          /\ transfers'[t].status = "DISPATCHED"
      BY <1>4
    <3>. QED  BY <1>1, <3>1, <3>2, <3>3
  <2>2. CASE s \notin S
    <3>1. \A u \in OpenTransfers(s) : transfers'[u] = transfers[u]
      BY <1>4, <1>7 DEF OpenTransfers
    <3>. QED  BY <1>2, <1>7, <2>2, <3>1 DEF StockInv, InTransitMatchesTransfers
  <2>. QED  BY <2>1, <2>2
<1>9. VouchersMatchStock'
  BY <1>1, <1>2 DEF StockInv, VouchersMatchStock
<1>. QED  BY <1>5, <1>6, <1>8, <1>9 DEF StockInv

\* A receipt closes its transfer for the received items only.
LEMMA ReceiveCloses ==
    ASSUME StockInv, NEW n \in Node, NEW t \in Transfer, NEW S \in SUBSET Serial,
           NEW status \in [S -> AVAILABLE_STOCK_STATUSES], ReceiveTransfer(n, t, S, status)
    PROVE  /\ transfers'[t] \in TransferRow
           /\ transfers'[t].items = transfers[t].items
           /\ transfers'[t].received = transfers[t].received \cup S
           /\ transfers'[t].source = transfers[t].source
           /\ transfers'[t].dest = transfers[t].dest
           /\ transfers'[t].status = IF transfers[t].items = transfers[t].received \cup S
                                     THEN "RECEIVED" ELSE "PARTIALLY_RECEIVED"
           /\ \A u \in Transfer \ {t} : transfers'[u] = transfers[u]
           /\ \A s \in Serial : OpenTransfers(s)' = IF s \in S THEN {} ELSE OpenTransfers(s)
<1> DEFINE row == transfers[t]
           new == [row EXCEPT !.received = row.received \cup S,
                              !.status = IF row.items = row.received \cup S
                                         THEN "RECEIVED" ELSE "PARTIALLY_RECEIVED"]
<1>1. /\ S \subseteq row.items \ row.received
      /\ \A s \in S : stock[s].status = "IN_TRANSIT"
      /\ transfers' = [transfers EXCEPT ![t] = new]
  BY DEF ReceiveTransfer
<1>2. row \in TransferRow
  BY DEF StockInv, TypeOK
<1>3. /\ new \in TransferRow
      /\ new.items = row.items /\ new.received = row.received \cup S
      /\ new.source = row.source /\ new.dest = row.dest
      /\ new.status = IF row.items = row.received \cup S THEN "RECEIVED" ELSE "PARTIALLY_RECEIVED"
  BY <1>2 DEF TransferRow, TransferStatus
<1>4. transfers'[t] = new /\ \A u \in Transfer \ {t} : transfers'[u] = transfers[u]
  BY <1>1 DEF StockInv, TypeOK
<1> HIDE DEF new
<1>5. ASSUME NEW s \in Serial
      PROVE  OpenTransfers(s)' = IF s \in S THEN {} ELSE OpenTransfers(s)
  <2>1. s \in S => OpenTransfers(s) = {t}
    BY <1>1 DEF StockInv, InTransitMatchesTransfers, OpenTransfers
  <2>2. t \in OpenTransfers(s)' <=> t \in OpenTransfers(s) /\ s \notin S
    BY <1>3, <1>4 DEF OpenTransfers
  <2>3. \A u \in Transfer \ {t} : u \in OpenTransfers(s)' <=> u \in OpenTransfers(s)
    BY <1>4 DEF OpenTransfers
  <2>4. OpenTransfers(s) \subseteq Transfer /\ OpenTransfers(s)' \subseteq Transfer
    BY DEF OpenTransfers
  <2>. QED  BY <2>1, <2>2, <2>3, <2>4
<1>. QED  BY <1>3, <1>4, <1>5

LEMMA StockInvReceive ==
    ASSUME StockInv, NEW n \in Node, NEW t \in Transfer, NEW S \in SUBSET Serial,
           NEW status \in [S -> AVAILABLE_STOCK_STATUSES], ReceiveTransfer(n, t, S, status)
    PROVE  StockInv'
<1> DEFINE row == transfers[t]
           complete == row.items = row.received \cup S
<1>1. /\ UNCHANGED <<sold, intents, console>>
      /\ Accept(n, "OTHER")
      /\ S \subseteq row.items \ row.received
      /\ \A s \in S : stock[s].status = "IN_TRANSIT"
  BY DEF ReceiveTransfer
<1>2. row \in TransferRow /\ row.source \in Node
  BY DEF ReceiveTransfer, StockInv, TypeOK, TransferRows
<1>3. /\ transfers'[t] \in TransferRow
      /\ transfers'[t].items = row.items /\ transfers'[t].received = row.received \cup S
      /\ transfers'[t].source = row.source /\ transfers'[t].dest = row.dest
      /\ transfers'[t].status = IF complete THEN "RECEIVED" ELSE "PARTIALLY_RECEIVED"
  BY ReceiveCloses
<1>4. \A u \in Transfer \ {t} : transfers'[u] = transfers[u]
  BY ReceiveCloses
<1>5. /\ \A s \in S : stock'[s].status \in AVAILABLE_STOCK_STATUSES
      /\ \A s \in Serial \ S : stock'[s] = stock[s]
      /\ stock' \in [Serial -> StockRow] /\ serial' \in [Serial -> SerialRow]
  <2>1. ASSUME NEW s \in S
        PROVE  /\ stock'[s] \in StockRow /\ stock'[s].status = status[s]
               /\ serial'[s] \in SerialRow
    <3>1. /\ stock'[s] = [stock[s] EXCEPT !.owner = n, !.status = status[s]]
          /\ serial'[s] = [serial[s] EXCEPT !.status = status[s]]
      BY DEF ReceiveTransfer
    <3>2. stock[s] \in StockRow /\ serial[s] \in SerialRow /\ status[s] \in StockStatus
      BY DEF StockInv, TypeOK, AVAILABLE_STOCK_STATUSES, StockStatus
    <3>3. /\ [stock[s] EXCEPT !.owner = n, !.status = status[s]] \in StockRow
          /\ [stock[s] EXCEPT !.owner = n, !.status = status[s]].status = status[s]
      BY <3>2 DEF StockRow
    <3>4. [serial[s] EXCEPT !.status = status[s]] \in SerialRow
      BY <3>2 DEF SerialRow
    <3>. QED  BY <3>1, <3>3, <3>4
  <2>2. \A s \in Serial \ S : stock'[s] = stock[s] /\ serial'[s] = serial[s]
    BY DEF ReceiveTransfer
  <2>3. stock' = [s \in Serial |-> stock'[s]] /\ serial' = [s \in Serial |-> serial'[s]]
    BY DEF ReceiveTransfer
  <2>4. \A s \in Serial : stock'[s] \in StockRow /\ serial'[s] \in SerialRow
    BY <2>1, <2>2 DEF StockInv, TypeOK
  <2>5. stock' \in [Serial -> StockRow] /\ serial' \in [Serial -> SerialRow]
    BY <2>3, <2>4
  <2>. QED  BY <2>1, <2>2, <2>5
<1>6. TypeOK'
  <2>1. transfers' \in [Transfer -> TransferRow]
    <3>1. transfers' = [u \in Transfer |-> transfers'[u]]
      BY DEF ReceiveTransfer, StockInv, TypeOK
    <3>2. \A u \in Transfer : transfers'[u] \in TransferRow
      BY <1>3, <1>4 DEF StockInv, TypeOK
    <3>. QED  BY <3>1, <3>2
  <2>2. commands' \subseteq Command
    <3>1. complete \in BOOLEAN
      OBVIOUS
    <3>2. commands' = commands \cup {[type |-> "TRANSFER_RECEIPT", to |-> row.source,
                                      transfer |-> t, items |-> S, complete |-> complete]}
      BY DEF ReceiveTransfer, QueueNodeCommand
    <3> HIDE DEF complete
    <3>. QED  BY <1>2, <3>1, <3>2 DEF Command, StockInv, TypeOK
  <2>. QED  BY <1>1, <1>5, <2>1, <2>2, AcceptType DEF StockInv, TypeOK, console
<1>7. TransferRows'
  <2>1. row.received \cup S \subseteq row.items /\ row.source \in Node /\ row.dest \in Node
    BY <1>1 DEF ReceiveTransfer, StockInv, TransferRows
  <2>. QED  BY <1>3, <1>4, <2>1 DEF StockInv, TransferRows
<1>8. \A s \in Serial : OpenTransfers(s)' = IF s \in S THEN {} ELSE OpenTransfers(s)
  BY ReceiveCloses
<1>9. InTransitMatchesTransfers'
  <2> SUFFICES ASSUME NEW s \in Serial
               PROVE  /\ \A u, v \in OpenTransfers(s)' : u = v
                      /\ stock'[s].status = "IN_TRANSIT" <=> OpenTransfers(s)' # {}
                      /\ \A u \in OpenTransfers(s)' :
                            /\ stock'[s].owner = transfers'[u].source
                            /\ transfers'[u].source # transfers'[u].dest
                            /\ transfers'[u].status # "RECEIVED"
    BY DEF InTransitMatchesTransfers
  <2>1. CASE s \in S
    BY <1>5, <1>8, <2>1 DEF AVAILABLE_STOCK_STATUSES
  <2>2. CASE s \notin S
    <3>1. OpenTransfers(s)' = OpenTransfers(s) /\ stock'[s] = stock[s]
      BY <1>5, <1>8, <2>2
    <3>2. ASSUME NEW u \in OpenTransfers(s)
          PROVE  /\ transfers'[u].source = transfers[u].source
                 /\ transfers'[u].dest = transfers[u].dest
                 /\ transfers'[u].status # "RECEIVED"
      <4>1. CASE u = t
        <5>1. ~complete
          BY <2>2, <4>1 DEF OpenTransfers
        <5>. QED  BY <1>3, <1>4, <4>1, <5>1
      <4>2. CASE u # t
        BY <1>4, <4>2 DEF OpenTransfers, StockInv, InTransitMatchesTransfers
      <4>. QED  BY <4>1, <4>2
    <3>. QED  BY <3>1, <3>2 DEF StockInv, InTransitMatchesTransfers
  <2>. QED  BY <2>1, <2>2
<1>10. VouchersMatchStock'
  BY <1>1, <1>5 DEF StockInv, VouchersMatchStock, AVAILABLE_STOCK_STATUSES
<1>. QED  BY <1>6, <1>7, <1>9, <1>10 DEF StockInv

LEMMA StockInvAllocate ==
    ASSUME StockInv, NEW n \in Node, NEW S \in SUBSET Serial, AllocateQrSerials(n, S)
    PROVE  StockInv'
<1>1. /\ UNCHANGED <<sold, transfers, intents, console, last>>
      /\ \A s \in S : stock[s].status = "UNKNOWN"
  BY DEF AllocateQrSerials, Taken, Known
<1>2. /\ stock' = [s \in Serial |->
                     IF s \in S THEN [owner |-> n, origin |-> n, status |-> "GENERATED"]
                     ELSE stock[s]]
      /\ serial' = [s \in Serial |->
                      IF s \in S
                      THEN [status |-> "GENERATED", active |-> TRUE, replacedBy |-> NoSerial]
                      ELSE serial[s]]
  BY DEF AllocateQrSerials, CreateSerials
<1>3. TypeOK'
  <2>1. stock' \in [Serial -> StockRow] /\ serial' \in [Serial -> SerialRow]
    BY <1>2 DEF StockInv, TypeOK, StockRow, SerialRow, StockStatus
  <2>2. commands' \subseteq Command
    BY DEF AllocateQrSerials, QueueNodeCommand, Command, StockInv, TypeOK
  <2>. QED  BY <1>1, <2>1, <2>2 DEF StockInv, TypeOK, console
<1>4. TransferRows' /\ InTransitMatchesTransfers'
  BY <1>1, <1>2, InTransitKept
<1>5. VouchersMatchStock'
  BY <1>1, <1>2 DEF StockInv, VouchersMatchStock
<1>. QED  BY <1>3, <1>4, <1>5 DEF StockInv

\* Steps that touch neither stock nor transfers.
LEMMA StockInvOthers ==
    ASSUME StockInv, UNCHANGED goods, TypeOK'
    PROVE  StockInv'
<1>1. TransferRows' /\ InTransitMatchesTransfers'
  BY InTransitKept DEF goods
<1>2. VouchersMatchStock'
  BY DEF StockInv, VouchersMatchStock, goods
<1>. QED  BY <1>1, <1>2 DEF StockInv

LEMMA StockInvNext == StockInv /\ [Next]_vars => StockInv'
<1> SUFFICES ASSUME StockInv, [Next]_vars PROVE StockInv'
  OBVIOUS
<1> USE DEF StockInv
<1>1. CASE UNCHANGED vars
  <2>1. TypeOK' /\ UNCHANGED goods
    BY <1>1 DEF TypeOK, vars, goods
  <2>. QED  BY <2>1, StockInvOthers
<1>2. ASSUME NEW n \in Node, EventWithoutStock(n)
      PROVE  StockInv'
  <2>1. UNCHANGED <<goods, intents, commands, console>> /\ Accept(n, "OTHER")
    BY <1>2 DEF EventWithoutStock
  <2>2. TypeOK'
    BY <2>1, AcceptType DEF TypeOK, goods, console
  <2>. QED  BY <2>1, <2>2, StockInvOthers
<1>3. ASSUME NEW a \in Admin, NEW n \in Node, NEW old \in Serial, NEW new \in Serial,
             ReadForReplacement(a, n, old, new)
      PROVE  StockInv'
  <2>1. UNCHANGED <<goods, intents, commands, active, last>>
    BY <1>3 DEF ReadForReplacement
  <2>2. [node |-> n, old |-> old, new |-> new, expected |-> stock[old].status,
         completed |-> FALSE] \in Intent
    BY DEF Intent, TypeOK, StockRow
  <2>3. requests' \in [Admin -> Intent \cup {NoRequest}]
    BY <1>3, <2>2 DEF ReadForReplacement, TypeOK
  <2>4. TypeOK'
    BY <2>1, <2>3 DEF TypeOK, goods
  <2>. QED  BY <2>1, <2>4, StockInvOthers
<1>4. ASSUME NEW a \in Admin, ReserveReplacement(a)
      PROVE  StockInv'
  <2> DEFINE r == requests[a]
  <2>1. UNCHANGED <<goods, active, last>> /\ r \in Intent
    BY <1>4 DEF ReserveReplacement, TypeOK
  <2>2. requests' \in [Admin -> Intent \cup {NoRequest}]
    BY <1>4 DEF ReserveReplacement, TypeOK
  <2>3. intents' \in [Serial -> Intent \cup {NoIntent}]
    BY <1>4, <2>1 DEF ReserveReplacement, TypeOK
  <2>4. commands' \subseteq Command
    <3>1. [type |-> "QR_REPLACE", to |-> r.node, old |-> r.old, new |-> r.new,
           expected |-> r.expected] \in Command
      BY <2>1 DEF Intent, Command
    <3>. QED  BY <1>4, <3>1 DEF ReserveReplacement, QueueNodeCommand, TypeOK
  <2>5. TypeOK'
    BY <2>1, <2>2, <2>3, <2>4 DEF TypeOK, goods
  <2>. QED  BY <2>1, <2>5, StockInvOthers
<1>5. ASSUME NEW n \in Node, SetFranchiseStatus(n)
      PROVE  StockInv'
  <2>1. UNCHANGED <<goods, intents, commands, requests, last>>
    BY <1>5 DEF SetFranchiseStatus
  <2>2. active' \in [Node -> BOOLEAN]
    BY <1>5 DEF SetFranchiseStatus, TypeOK
  <2>3. TypeOK'
    BY <2>1, <2>2 DEF TypeOK, goods
  <2>. QED  BY <2>1, <2>3, StockInvOthers
<1>6. ASSUME NEW n \in Node, NodeEvent(n)
      PROVE  StockInv'
  BY <1>2, <1>6, StockInvSnapshot, StockInvInventory, StockInvDispatch, StockInvReceive,
     StockInvReplacement DEF NodeEvent
<1>. QED
  BY <1>1, <1>3, <1>4, <1>5, <1>6, StockInvAllocate DEF Next, Console

\* In every reachable state a serial is IN_TRANSIT exactly while one
\* transfer still has to deliver it, and its owner is that transfer's source
\* (_dispatch_transfer, _receive_transfer and every other stock event).
THEOREM InTransitMatchesTransfersHolds == Spec => []InTransitMatchesTransfers
<1>1. StockInv => InTransitMatchesTransfers
  BY DEF StockInv
<1>. QED  BY <1>1, StockInvInit, StockInvNext, PTL DEF Spec

\* In every reachable state the vouchers queued for Tally and the stock
\* agree on which serials are sold (_inventory_event).
THEOREM VouchersMatchStockHolds == Spec => []VouchersMatchStock
<1>1. StockInv => VouchersMatchStock
  BY DEF StockInv
<1>. QED  BY <1>1, StockInvInit, StockInvNext, PTL DEF Spec

\* Type correctness of the ingestion state (every event and console step).
THEOREM TypeCorrect == Spec => []TypeOK
<1>1. StockInv => TypeOK
  BY DEF StockInv
<1>. QED  BY <1>1, StockInvInit, StockInvNext, PTL DEF Spec

-----------------------------------------------------------------------------
(* Labels: the two status records agree, and replacements form chains.     *)

LabelInv == MirrorAgrees /\ ReplacementChains

Next1(s) == serial[s].replacedBy

\* ReplacementChains in parts: a label and its successor, and no cycle.
LinkOf(s) ==
    /\ stock[s].status = "INVALID" <=> Next1(s) # NoSerial
    /\ Next1(s) # NoSerial =>
          /\ Known(Next1(s)) /\ Next1(s) # s
          /\ ~serial[s].active
          /\ intents[s] # NoIntent /\ intents[s].completed /\ intents[s].new = Next1(s)
          /\ stock[Next1(s)].origin = stock[s].origin
OneBefore == \A s, u \in Serial : Next1(s) # NoSerial /\ Next1(s) = Next1(u) => s = u
NoCycle   == \A S \in SUBSET Serial : S # {} => \E s \in S : Next1(s) \notin S

LEMMA ChainParts == ReplacementChains <=> (\A s \in Serial : LinkOf(s)) /\ OneBefore /\ NoCycle
  BY DEF ReplacementChains, LinkOf, OneBefore, NoCycle, Next1

\* The same, in the next state.
LEMMA ChainPartsNext ==
    ReplacementChains' <=> (\A s \in Serial : LinkOf(s)') /\ OneBefore' /\ NoCycle'
  BY DEF ReplacementChains, LinkOf, OneBefore, NoCycle, Next1

LEMMA LabelInvInit == Init => LabelInv
<1> SUFFICES ASSUME Init PROVE LabelInv
  OBVIOUS
<1>1. \A s \in Serial : stock[s] = NoStock /\ serial[s] = NoSerialRow
  BY DEF Init
<1>2. MirrorAgrees
  BY <1>1 DEF MirrorAgrees, NoStock, NoSerialRow, Known
<1>3. \A s \in Serial : Next1(s) = NoSerial /\ stock[s].status = "UNKNOWN"
  BY <1>1 DEF Next1, NoStock, NoSerialRow
<1>4. (\A s \in Serial : LinkOf(s)) /\ OneBefore
  BY <1>3 DEF LinkOf, OneBefore
<1>5. NoCycle
  BY <1>3 DEF NoCycle
<1>. QED  BY <1>2, <1>4, <1>5, ChainParts DEF LabelInv

\* A step that replaces no label keeps every chain if it writes both records,
\* keeps what a known label is, and brings in only live labels.
LEMMA LabelsKept ==
    ASSUME LabelInv, TypeOK,
           \A s \in Serial :
              /\ serial'[s].status = stock'[s].status
              /\ intents[s] # NoIntent => intents'[s] = intents[s]
              /\ Known(s) => /\ stock'[s].origin = stock[s].origin
                             /\ stock'[s].status # "UNKNOWN"
                             /\ stock'[s].status = "INVALID" <=> stock[s].status = "INVALID"
                             /\ serial'[s].active = serial[s].active
                             /\ serial'[s].replacedBy = serial[s].replacedBy
              /\ ~Known(s) => /\ stock'[s].status # "INVALID"
                              /\ serial'[s].replacedBy = NoSerial
                              /\ stock'[s].status # "UNKNOWN" => serial'[s].active
    PROVE  LabelInv'
<1>1. MirrorAgrees'
  BY DEF LabelInv, MirrorAgrees, Known
<1>2. (\A s \in Serial : LinkOf(s)) /\ OneBefore /\ NoCycle
  BY ChainParts DEF LabelInv
<1>3. \A s \in Serial : Next1(s)' = Next1(s)
  BY <1>2 DEF LinkOf, Next1, Known
<1>4. ASSUME NEW s \in Serial PROVE LinkOf(s)'
  <2>1. CASE Next1(s) = NoSerial
    <3>1. stock[s].status # "INVALID" /\ stock'[s].status # "INVALID"
      BY <1>2, <2>1 DEF LinkOf, Known
    <3>. QED  BY <1>3, <2>1, <3>1 DEF LinkOf
  <2>2. CASE Next1(s) # NoSerial
    <3>1. Next1(s) \in Serial /\ Known(Next1(s)) /\ Known(s)
      BY <1>2, <2>2 DEF LinkOf, Known, TypeOK, SerialRow, Next1
    <3>. QED  BY <1>2, <1>3, <2>2, <3>1 DEF LinkOf, Known
  <2>. QED  BY <2>1, <2>2
<1>5. OneBefore' /\ NoCycle'
  BY <1>2, <1>3 DEF OneBefore, NoCycle
<1>6. ReplacementChains'
  BY <1>4, <1>5, ChainPartsNext
<1>. QED  BY <1>1, <1>6 DEF LabelInv

\* Steps that write no label and drop no reservation.
LEMMA LabelInvOthers ==
    ASSUME LabelInv, TypeOK, UNCHANGED <<stock, serial>>,
           \A s \in Serial : intents[s] # NoIntent => intents'[s] = intents[s]
    PROVE  LabelInv'
<1>1. \A s \in Serial : ~Known(s) => Next1(s) = NoSerial
  BY ChainParts DEF LabelInv, LinkOf, Known
<1>2. \A s \in Serial : serial[s].status = stock[s].status
  BY DEF LabelInv, MirrorAgrees
<1>. QED  BY <1>1, <1>2, LabelsKept DEF Known, Next1

LEMMA LabelInvSnapshot ==
    ASSUME StockInv, LabelInv, NEW n \in Node, NEW S \in SUBSET Serial,
           NEW kind \in {"ENROLLMENT", "OTHER"}, SnapshotEvent(n, S, kind)
    PROVE  LabelInv'
<1> DEFINE new == {s \in S : ~Known(s)}
<1>1. TypeOK /\ UNCHANGED intents
  BY DEF StockInv, SnapshotEvent
<1>2. PICK status \in [S -> StockStatus \ {"UNKNOWN"}] :
         /\ \A s \in new : status[s] \in SNAPSHOT_ENROLLMENT_STATUSES
         /\ stock' = [s \in Serial |->
                        IF s \in new
                        THEN [owner |-> n, origin |-> n, status |-> status[s]]
                        ELSE stock[s]]
         /\ serial' = [s \in Serial |->
                         IF s \in new
                         THEN [status |-> status[s], active |-> TRUE, replacedBy |-> NoSerial]
                         ELSE [serial[s] EXCEPT !.status =
                                 IF s \in S THEN stock[s].status ELSE @]]
  BY DEF SnapshotEvent
<1>3. \A s \in Serial : /\ serial[s].status = stock[s].status
                        /\ ~Known(s) => Next1(s) = NoSerial
  BY ChainParts DEF LabelInv, LinkOf, Known, MirrorAgrees
<1>4. ASSUME NEW s \in new
      PROVE  /\ stock'[s].status = status[s] /\ status[s] \in {"GENERATED", "IN_STOCK"}
             /\ serial'[s].status = status[s] /\ serial'[s].active
             /\ serial'[s].replacedBy = NoSerial
  BY <1>2 DEF SNAPSHOT_ENROLLMENT_STATUSES
<1>5. \A s \in Serial \ new :
         /\ stock'[s] = stock[s]
         /\ serial'[s].status = stock[s].status
         /\ serial'[s].active = serial[s].active
         /\ serial'[s].replacedBy = serial[s].replacedBy
  BY <1>1, <1>2, <1>3 DEF TypeOK, SerialRow
<1>6. \A s \in new : ~Known(s)
  OBVIOUS
<1> HIDE DEF new
<1>7. ASSUME NEW s \in Serial
      PROVE  serial'[s].status = stock'[s].status /\ intents'[s] = intents[s]
  <2>1. CASE s \in new
    BY <1>1, <1>4, <2>1
  <2>2. CASE s \notin new
    BY <1>1, <1>5, <2>2
  <2>. QED  BY <2>1, <2>2
<1>8. \A s \in Serial : Known(s) =>
         /\ stock'[s] = stock[s]
         /\ serial'[s].active = serial[s].active
         /\ serial'[s].replacedBy = serial[s].replacedBy
  BY <1>5, <1>6
<1>9. ASSUME NEW s \in Serial, ~Known(s)
      PROVE  /\ stock'[s].status # "INVALID"
             /\ serial'[s].replacedBy = NoSerial
             /\ stock'[s].status # "UNKNOWN" => serial'[s].active
  <2>1. CASE s \in new
    BY <1>4, <2>1
  <2>2. CASE s \notin new
    BY <1>3, <1>5, <1>9, <2>2 DEF Known, Next1
  <2>. QED  BY <2>1, <2>2
<1>10. \A s \in Serial : Known(s) => stock[s].status # "UNKNOWN"
  BY DEF Known
<1>. QED  BY <1>1, <1>7, <1>8, <1>9, <1>10, LabelsKept

\* An event that moves known labels between live statuses, or leaves a dead
\* one dead.
LEMMA LabelInvStatus ==
    ASSUME StockInv, LabelInv, UNCHANGED intents, NEW S \in SUBSET Serial,
           \A s \in Serial \ S : stock'[s] = stock[s] /\ serial'[s] = serial[s],
           \A s \in S :
              /\ Known(s)
              /\ stock'[s].origin = stock[s].origin
              /\ stock'[s].status # "UNKNOWN"
              /\ stock'[s].status = "INVALID" <=> stock[s].status = "INVALID"
              /\ serial'[s].status = stock'[s].status
              /\ serial'[s].active = serial[s].active
              /\ serial'[s].replacedBy = serial[s].replacedBy
    PROVE  LabelInv'
<1>1. TypeOK
  BY DEF StockInv
<1>2. \A s \in Serial : /\ serial[s].status = stock[s].status
                        /\ ~Known(s) => Next1(s) = NoSerial
  BY ChainParts DEF LabelInv, LinkOf, Known, MirrorAgrees
<1>. QED  BY <1>1, <1>2, LabelsKept DEF Known, Next1

LEMMA LabelInvInventory ==
    ASSUME StockInv, LabelInv, NEW n \in Node, NEW type \in INVENTORY_EVENT_TYPES,
           NEW S \in SUBSET Serial, NEW damaged \in BOOLEAN,
           InventoryEvent(n, type, S, damaged)
    PROVE  LabelInv'
<1>1. /\ UNCHANGED intents
      /\ \A s \in S : Known(s) /\ stock[s].status \in TransitionFrom(type)
      /\ SetStatus(S, [s \in S |-> TransitionTo(type, damaged, stock[s].status)])
  BY DEF InventoryEvent
<1>2. ASSUME NEW s \in S
      PROVE  /\ TransitionTo(type, damaged, stock[s].status) # "UNKNOWN"
             /\ TransitionTo(type, damaged, stock[s].status) = "INVALID"
                   <=> stock[s].status = "INVALID"
  BY <1>1 DEF TransitionTo, TransitionFrom, INVENTORY_EVENT_TYPES, Known,
              AVAILABLE_STOCK_STATUSES
<1>3. \A s \in S :
         /\ stock'[s] = [stock[s] EXCEPT !.status =
                           TransitionTo(type, damaged, stock[s].status)]
         /\ serial'[s] = [serial[s] EXCEPT !.status =
                            TransitionTo(type, damaged, stock[s].status)]
  BY <1>1 DEF SetStatus
<1>4. \A s \in Serial \ S : stock'[s] = stock[s] /\ serial'[s] = serial[s]
  BY <1>1 DEF SetStatus
<1>5. \A s \in S : /\ stock'[s].origin = stock[s].origin
                   /\ stock'[s].status = TransitionTo(type, damaged, stock[s].status)
                   /\ serial'[s].status = stock'[s].status
                   /\ serial'[s].active = serial[s].active
                   /\ serial'[s].replacedBy = serial[s].replacedBy
  <2>1. \A s \in S : stock[s] \in StockRow /\ serial[s] \in SerialRow
    BY DEF StockInv, TypeOK
  <2>2. \A s \in S : /\ stock'[s].origin = stock[s].origin
                     /\ stock'[s].status = TransitionTo(type, damaged, stock[s].status)
    BY <1>3, <2>1 DEF StockRow
  <2>3. \A s \in S : /\ serial'[s].status = TransitionTo(type, damaged, stock[s].status)
                     /\ serial'[s].active = serial[s].active
                     /\ serial'[s].replacedBy = serial[s].replacedBy
    BY <1>3, <2>1 DEF SerialRow
  <2>. QED  BY <2>2, <2>3
<1>6. \A s \in S :
         /\ stock'[s].status # "UNKNOWN"
         /\ stock'[s].status = "INVALID" <=> stock[s].status = "INVALID"
  BY <1>2, <1>5
<1>. QED  BY <1>1, <1>4, <1>5, <1>6, LabelInvStatus

LEMMA LabelInvDispatch ==
    ASSUME StockInv, LabelInv, NEW n \in Node, NEW d \in Node, NEW t \in Transfer,
           NEW S \in SUBSET Serial, DispatchTransfer(n, d, t, S)
    PROVE  LabelInv'
<1>1. /\ UNCHANGED intents
      /\ \A s \in S : stock[s].status \in AVAILABLE_STOCK_STATUSES
      /\ SetStatus(S, [s \in S |-> "IN_TRANSIT"])
  BY DEF DispatchTransfer
<1>2. \A s \in S : /\ stock'[s] = [stock[s] EXCEPT !.status = "IN_TRANSIT"]
                   /\ serial'[s] = [serial[s] EXCEPT !.status = "IN_TRANSIT"]
  BY <1>1 DEF SetStatus
<1>3. \A s \in Serial \ S : stock'[s] = stock[s] /\ serial'[s] = serial[s]
  BY <1>1 DEF SetStatus
<1>4. ASSUME NEW s \in S
      PROVE  /\ stock'[s].origin = stock[s].origin
             /\ stock'[s].status = "IN_TRANSIT" /\ serial'[s].status = "IN_TRANSIT"
             /\ serial'[s].active = serial[s].active
             /\ serial'[s].replacedBy = serial[s].replacedBy
  <2>1. stock[s] \in StockRow /\ serial[s] \in SerialRow
    BY DEF StockInv, TypeOK
  <2>2. /\ [stock[s] EXCEPT !.status = "IN_TRANSIT"].origin = stock[s].origin
        /\ [stock[s] EXCEPT !.status = "IN_TRANSIT"].status = "IN_TRANSIT"
    BY <2>1 DEF StockRow
  <2>3. /\ [serial[s] EXCEPT !.status = "IN_TRANSIT"].status = "IN_TRANSIT"
        /\ [serial[s] EXCEPT !.status = "IN_TRANSIT"].active = serial[s].active
        /\ [serial[s] EXCEPT !.status = "IN_TRANSIT"].replacedBy = serial[s].replacedBy
    BY <2>1 DEF SerialRow
  <2>. QED  BY <1>2, <2>2, <2>3
<1>5. \A s \in S : Known(s) /\ stock[s].status # "INVALID"
  BY <1>1 DEF Known, AVAILABLE_STOCK_STATUSES
<1>6. \A s \in S : /\ stock'[s].status # "UNKNOWN"
                   /\ stock'[s].status = "INVALID" <=> stock[s].status = "INVALID"
                   /\ serial'[s].status = stock'[s].status
  BY <1>4, <1>5
<1>. QED  BY <1>1, <1>3, <1>4, <1>5, <1>6, LabelInvStatus

LEMMA LabelInvReceive ==
    ASSUME StockInv, LabelInv, NEW n \in Node, NEW t \in Transfer,
           NEW S \in SUBSET Serial, NEW status \in [S -> AVAILABLE_STOCK_STATUSES],
           ReceiveTransfer(n, t, S, status)
    PROVE  LabelInv'
<1>1. /\ UNCHANGED intents
      /\ \A s \in S : stock[s].status = "IN_TRANSIT"
      /\ stock' = [s \in Serial |->
                     IF s \in S THEN [stock[s] EXCEPT !.owner = n, !.status = status[s]]
                     ELSE stock[s]]
      /\ serial' = [s \in Serial |->
                      IF s \in S THEN [serial[s] EXCEPT !.status = status[s]] ELSE serial[s]]
  BY DEF ReceiveTransfer
<1>2. \A s \in S : /\ stock'[s] = [stock[s] EXCEPT !.owner = n, !.status = status[s]]
                   /\ serial'[s] = [serial[s] EXCEPT !.status = status[s]]
                   /\ status[s] \in {"IN_STOCK", "RETURNED"}
  BY <1>1 DEF AVAILABLE_STOCK_STATUSES
<1>3. \A s \in Serial \ S : stock'[s] = stock[s] /\ serial'[s] = serial[s]
  BY <1>1
<1>4. ASSUME NEW s \in S
      PROVE  /\ stock'[s].origin = stock[s].origin
             /\ stock'[s].status = status[s] /\ serial'[s].status = status[s]
             /\ serial'[s].active = serial[s].active
             /\ serial'[s].replacedBy = serial[s].replacedBy
  <2>1. stock[s] \in StockRow /\ serial[s] \in SerialRow
    BY DEF StockInv, TypeOK
  <2>2. /\ [stock[s] EXCEPT !.owner = n, !.status = status[s]].origin = stock[s].origin
        /\ [stock[s] EXCEPT !.owner = n, !.status = status[s]].status = status[s]
    BY <2>1 DEF StockRow
  <2>3. /\ [serial[s] EXCEPT !.status = status[s]].status = status[s]
        /\ [serial[s] EXCEPT !.status = status[s]].active = serial[s].active
        /\ [serial[s] EXCEPT !.status = status[s]].replacedBy = serial[s].replacedBy
    BY <2>1 DEF SerialRow
  <2>. QED  BY <1>2, <2>2, <2>3
<1>5. \A s \in S : Known(s) /\ stock[s].status # "INVALID"
  BY <1>1 DEF Known
<1>6. \A s \in S : /\ stock'[s].status # "UNKNOWN"
                   /\ stock'[s].status = "INVALID" <=> stock[s].status = "INVALID"
                   /\ serial'[s].status = stock'[s].status
  BY <1>2, <1>4, <1>5
<1>. QED  BY <1>1, <1>3, <1>4, <1>5, <1>6, LabelInvStatus

LEMMA LabelInvAllocate ==
    ASSUME StockInv, LabelInv, NEW n \in Node, NEW S \in SUBSET Serial,
           AllocateQrSerials(n, S)
    PROVE  LabelInv'
<1>1. TypeOK /\ UNCHANGED intents /\ \A s \in S : ~Known(s)
  BY DEF StockInv, AllocateQrSerials, Taken
<1>2. \A s \in Serial : /\ serial[s].status = stock[s].status
                        /\ ~Known(s) => Next1(s) = NoSerial
  BY ChainParts DEF LabelInv, LinkOf, Known, MirrorAgrees
<1>3. \A s \in S : /\ stock'[s].status = "GENERATED"
                   /\ serial'[s] = [status |-> "GENERATED", active |-> TRUE,
                                    replacedBy |-> NoSerial]
  BY DEF AllocateQrSerials, CreateSerials
<1>4. \A s \in Serial \ S : stock'[s] = stock[s] /\ serial'[s] = serial[s]
  BY DEF AllocateQrSerials, CreateSerials
<1>. QED  BY <1>1, <1>2, <1>3, <1>4, LabelsKept DEF Known, Next1

\* The new label extends the chain that ended in the old one.
LEMMA LabelInvReplacement ==
    ASSUME StockInv, LabelInv, NEW n \in Node, NEW old \in Serial, NEW new \in Serial,
           ReplacementSnapshotEvent(n, old, new)
    PROVE  LabelInv'
<1> DEFINE target == IF stock[old].status = "GENERATED" THEN "GENERATED" ELSE "IN_STOCK"
<1>1. /\ Known(old) /\ ~Known(new) /\ old # new
      /\ stock[old].status # "INVALID"
      /\ intents[old] # NoIntent /\ intents[old].new = new
      /\ target \in {"GENERATED", "IN_STOCK"}
  BY DEF ReplacementSnapshotEvent, Known, REPLACEABLE_STATUSES
<1>2. /\ stock'[old].status = "INVALID" /\ stock'[old].origin = stock[old].origin
      /\ stock'[new].status = target /\ stock'[new].origin = stock[old].origin
      /\ \A s \in Serial \ {old, new} : stock'[s] = stock[s]
  <2>1. stock' = [stock EXCEPT ![old] = [stock[old] EXCEPT !.status = "INVALID"],
                               ![new] = [owner |-> n, origin |-> stock[old].origin,
                                         status |-> target]]
    BY DEF ReplacementSnapshotEvent
  <2>. QED  BY <1>1, <2>1 DEF StockInv, TypeOK, StockRow
<1>3. /\ serial'[old] = [status |-> "INVALID", active |-> FALSE, replacedBy |-> new]
      /\ serial'[new] = [status |-> target, active |-> TRUE, replacedBy |-> NoSerial]
      /\ \A s \in Serial \ {old, new} : serial'[s] = serial[s]
  <2>1. serial' = [serial EXCEPT ![old] = [status |-> "INVALID", active |-> FALSE,
                                           replacedBy |-> new],
                                 ![new] = [status |-> target, active |-> TRUE,
                                           replacedBy |-> NoSerial]]
    BY DEF ReplacementSnapshotEvent
  <2>. QED  BY <1>1, <2>1 DEF StockInv, TypeOK
<1>4. /\ intents'[old] = [intents[old] EXCEPT !.completed = TRUE]
      /\ \A s \in Serial \ {old} : intents'[s] = intents[s]
  BY DEF ReplacementSnapshotEvent, StockInv, TypeOK
<1>5. intents[old] \in Intent /\ intents'[old] \in Intent
  <2>1. intents[old] \in Intent
    BY <1>1 DEF StockInv, TypeOK
  <2>. QED  BY <1>4, <2>1 DEF Intent
<1>6. intents'[old] # NoIntent /\ intents'[old].completed /\ intents'[old].new = new
  <2>1. intents'[old].completed /\ intents'[old].new = new
    BY <1>1, <1>4, <1>5 DEF Intent
  <2>. QED  BY <1>5, <2>1, NoIntentAssumption
<1> HIDE DEF target
<1>7. \A s \in Serial : LinkOf(s)
  BY ChainParts DEF LabelInv
<1>8. OneBefore /\ NoCycle
  BY ChainParts DEF LabelInv
<1>9. Next1(old) = NoSerial /\ Next1(new) = NoSerial /\ \A s \in Serial : Next1(s) # new
  BY <1>1, <1>7, IngestConstants DEF LinkOf, Known
<1>10. /\ Next1(old)' = new /\ Next1(new)' = NoSerial
       /\ \A s \in Serial \ {old, new} : Next1(s)' = Next1(s)
  BY <1>3 DEF Next1
<1>11. MirrorAgrees'
  BY <1>1, <1>2, <1>3 DEF LabelInv, MirrorAgrees, Known
<1>12. ASSUME NEW s \in Serial PROVE LinkOf(s)'
  <2>1. CASE s = old
    BY <1>1, <1>2, <1>3, <1>6, <1>10, <2>1, IngestConstants DEF LinkOf, Known
  <2>2. CASE s = new
    BY <1>1, <1>2, <1>10, <2>2 DEF LinkOf
  <2>3. CASE s \notin {old, new}
    <3>1. CASE Next1(s) = NoSerial
      BY <1>2, <1>7, <1>10, <2>3, <3>1 DEF LinkOf
    <3>2. CASE Next1(s) # NoSerial
      <4>1. /\ Next1(s) \in Serial /\ Next1(s) # new
            /\ Known(Next1(s)) /\ stock'[Next1(s)].origin = stock[Next1(s)].origin
            /\ stock'[Next1(s)].status # "UNKNOWN"
        BY <1>2, <1>7, <1>9, <3>2 DEF LinkOf, Known, Next1, StockInv, TypeOK, SerialRow
      <4>. QED  BY <1>2, <1>3, <1>4, <1>7, <1>10, <2>3, <3>2, <4>1 DEF LinkOf, Known
    <3>. QED  BY <3>1, <3>2
  <2>. QED  BY <2>1, <2>2, <2>3
<1>13. OneBefore'
  BY <1>8, <1>9, <1>10 DEF OneBefore
<1>14. NoCycle'
  <2> SUFFICES ASSUME NEW S \in SUBSET Serial, S # {}
               PROVE  \E s \in S : Next1(s)' \notin S
    BY DEF NoCycle
  <2>1. CASE new \in S
    BY <1>10, <2>1, IngestConstants
  <2>2. CASE new \notin S /\ old \in S
    BY <1>10, <2>2
  <2>3. CASE new \notin S /\ old \notin S
    <3>1. PICK s \in S : Next1(s) \notin S
      BY <1>8 DEF NoCycle
    <3>. QED  BY <1>10, <2>3, <3>1
  <2>. QED  BY <2>1, <2>2, <2>3
<1>. QED  BY <1>11, <1>12, <1>13, <1>14, ChainPartsNext DEF LabelInv

LEMMA LabelInvNext == StockInv /\ LabelInv /\ [Next]_vars => LabelInv'
<1> SUFFICES ASSUME StockInv, LabelInv, [Next]_vars PROVE LabelInv'
  OBVIOUS
<1>0. TypeOK
  BY DEF StockInv
<1>1. CASE UNCHANGED vars
  BY <1>0, <1>1, LabelInvOthers DEF vars
<1>2. ASSUME NEW n \in Node, EventWithoutStock(n)
      PROVE  LabelInv'
  BY <1>0, <1>2, LabelInvOthers DEF EventWithoutStock, goods
<1>3. ASSUME NEW a \in Admin, NEW n \in Node, NEW old \in Serial, NEW new \in Serial,
             ReadForReplacement(a, n, old, new)
      PROVE  LabelInv'
  BY <1>0, <1>3, LabelInvOthers DEF ReadForReplacement, goods
<1>4. ASSUME NEW a \in Admin, ReserveReplacement(a)
      PROVE  LabelInv'
  <2>1. UNCHANGED <<stock, serial>>
    BY <1>4 DEF ReserveReplacement, goods
  <2>2. \A s \in Serial : intents[s] # NoIntent => intents'[s] = intents[s]
    BY <1>0, <1>4 DEF ReserveReplacement, TypeOK
  <2>. QED  BY <1>0, <2>1, <2>2, LabelInvOthers
<1>5. ASSUME NEW n \in Node, SetFranchiseStatus(n)
      PROVE  LabelInv'
  BY <1>0, <1>5, LabelInvOthers DEF SetFranchiseStatus, goods
<1>6. ASSUME NEW n \in Node, NodeEvent(n)
      PROVE  LabelInv'
  BY <1>2, <1>6, LabelInvSnapshot, LabelInvInventory, LabelInvDispatch, LabelInvReceive,
     LabelInvReplacement DEF NodeEvent
<1>. QED
  BY <1>1, <1>3, <1>4, <1>5, <1>6, LabelInvAllocate DEF Next, Console

\* In every reachable state Master's two records of a serial's status are
\* the same, and only a replaced label is inactive (every event of
\* network_ingest.py and allocate_qr_serials).
THEOREM MirrorAgreesHolds == Spec => []MirrorAgrees
<1>1. LabelInv => MirrorAgrees
  BY DEF LabelInv
<1>. QED  BY <1>1, StockInvInit, StockInvNext, LabelInvInit, LabelInvNext, PTL DEF Spec

\* In every reachable state the replaced labels form chains: each has one
\* successor, the one its reservation names, which no other label has, and
\* no chain closes into a cycle (_qr_replacement_snapshot_event).
THEOREM ReplacementChainsHolds == Spec => []ReplacementChains
<1>1. LabelInv => ReplacementChains
  BY DEF LabelInv
<1>. QED  BY <1>1, StockInvInit, StockInvNext, LabelInvInit, LabelInvNext, PTL DEF Spec

-----------------------------------------------------------------------------
(* Receipts: what the source of a transfer is told.                        *)

\* SourceIsTold is kept by a dispatch only because an id that is not in use
\* has no receipts that the new transfer could inherit.
ToldInv ==
    /\ SourceIsTold
    /\ \A t \in Transfer : transfers[t].status = "NONE" => Receipts(t) = {}

\* SourceIsTold and the strengthening for one transfer.
ToldOf(t) ==
    /\ \A c \in Receipts(t) : c.to = transfers[t].source
    /\ UNION {c.items : c \in Receipts(t)} = transfers[t].received
    /\ \A c, e \in Receipts(t) : c = e \/ c.items \cap e.items = {}
    /\ transfers[t].status = "RECEIVED" <=> \E c \in Receipts(t) : c.complete
    /\ transfers[t].status = "NONE" => Receipts(t) = {}

LEMMA ToldParts == ToldInv <=> \A t \in Transfer : ToldOf(t)
  BY DEF ToldInv, SourceIsTold, ToldOf

LEMMA ToldPartsNext == ToldInv' <=> \A t \in Transfer : ToldOf(t)'
  BY DEF ToldInv, SourceIsTold, ToldOf

LEMMA ToldInvInit == Init => ToldInv
<1> SUFFICES ASSUME Init, NEW t \in Transfer PROVE ToldOf(t)
  BY ToldParts
<1>1. Receipts(t) = {}
  BY DEF Init, Receipts
<1>2. transfers[t] = NoTransfer
  BY DEF Init
<1>. QED  BY <1>1, <1>2 DEF ToldOf, NoTransfer

\* A transfer stays as reported while it and its receipts do not change.
LEMMA ToldKept ==
    ASSUME NEW t \in Transfer, ToldOf(t),
           transfers'[t] = transfers[t], Receipts(t)' = Receipts(t)
    PROVE  ToldOf(t)'
  BY DEF ToldOf

\* Queueing a command of another type, or nothing, changes no receipts.
LEMMA ReceiptsKept ==
    ASSUME NEW t \in Transfer, NEW c, commands' = commands \/ QueueNodeCommand(c),
           c.type = "TRANSFER_RECEIPT" => c.transfer # t
    PROVE  Receipts(t)' = Receipts(t)
  BY DEF Receipts, QueueNodeCommand

LEMMA ToldInvDispatch ==
    ASSUME StockInv, ToldInv, NEW n \in Node, NEW d \in Node, NEW t \in Transfer,
           NEW S \in SUBSET Serial, DispatchTransfer(n, d, t, S)
    PROVE  ToldInv'
<1> DEFINE c == [type |-> "TRANSFER_AVAILABLE", to |-> d, transfer |-> t, items |-> S]
<1> SUFFICES ASSUME NEW u \in Transfer PROVE ToldOf(u)'
  BY ToldPartsNext
<1>1. ToldOf(u) /\ ToldOf(t)
  BY ToldParts
<1>2. QueueNodeCommand(c) /\ c.type # "TRANSFER_RECEIPT" /\ transfers[t].status = "NONE"
  BY DEF DispatchTransfer
<1> HIDE DEF c
<1>3. Receipts(u)' = Receipts(u)
  BY <1>2, ReceiptsKept
<1>4. CASE u # t
  <2>1. \A v \in Transfer \ {t} : transfers'[v] = transfers[v]
    BY DispatchOpens
  <2>. QED  BY <1>1, <1>3, <1>4, <2>1, ToldKept
<1>5. CASE u = t
  <2>1. Receipts(t)' = {}
    BY <1>1, <1>2, <1>3, <1>5 DEF ToldOf
  <2>2. transfers'[t] = [status |-> "DISPATCHED", source |-> n, dest |-> d,
                         items |-> S, received |-> {}]
    BY DispatchOpens
  <2>. QED  BY <1>5, <2>1, <2>2 DEF ToldOf
<1>. QED  BY <1>4, <1>5

LEMMA ToldInvReceive ==
    ASSUME StockInv, ToldInv, NEW n \in Node, NEW t \in Transfer, NEW S \in SUBSET Serial,
           NEW status \in [S -> AVAILABLE_STOCK_STATUSES], ReceiveTransfer(n, t, S, status)
    PROVE  ToldInv'
<1> DEFINE row == transfers[t]
           complete == row.items = row.received \cup S
           c == [type |-> "TRANSFER_RECEIPT", to |-> row.source, transfer |-> t,
                 items |-> S, complete |-> complete]
<1> SUFFICES ASSUME NEW u \in Transfer PROVE ToldOf(u)'
  BY ToldPartsNext
<1>1. ToldOf(u) /\ ToldOf(t)
  BY ToldParts
<1>2. /\ QueueNodeCommand(c)
      /\ row.status \notin {"NONE", "RECEIVED"}
      /\ S \subseteq row.items \ row.received
  BY DEF ReceiveTransfer
<1>3. /\ c.type = "TRANSFER_RECEIPT" /\ c.transfer = t /\ c.to = row.source
      /\ c.items = S /\ c.complete = complete
  OBVIOUS
<1>4. /\ transfers'[t].received = row.received \cup S
      /\ transfers'[t].source = row.source
      /\ transfers'[t].status = IF complete THEN "RECEIVED" ELSE "PARTIALLY_RECEIVED"
  BY ReceiveCloses
<1> HIDE DEF complete, c
<1>5. CASE u # t
  <2>1. Receipts(u)' = Receipts(u)
    BY <1>2, <1>3, <1>5, ReceiptsKept
  <2>. QED  BY <1>1, <1>5, <2>1, ReceiveCloses, ToldKept
<1>6. CASE u = t
  <2>1. Receipts(t)' = Receipts(t) \cup {c}
    BY <1>2, <1>3 DEF Receipts, QueueNodeCommand
  <2>2. \A e \in Receipts(t) : e.items \subseteq row.received
    BY <1>1 DEF ToldOf
  <2>3. \A e \in Receipts(t)' : e.to = transfers'[t].source
    BY <1>1, <1>3, <1>4, <2>1 DEF ToldOf
  <2>4. UNION {e.items : e \in Receipts(t)'} = transfers'[t].received
    <3>1. UNION {e.items : e \in Receipts(t)} = row.received
      BY <1>1 DEF ToldOf
    <3>2. ASSUME NEW x
          PROVE  x \in UNION {e.items : e \in Receipts(t)'}
                   <=> x \in UNION {e.items : e \in Receipts(t)} \/ x \in c.items
      <4>1. x \in UNION {e.items : e \in Receipts(t)'} <=> \E e \in Receipts(t)' : x \in e.items
        OBVIOUS
      <4>2. x \in UNION {e.items : e \in Receipts(t)} <=> \E e \in Receipts(t) : x \in e.items
        OBVIOUS
      <4>. QED  BY <2>1, <4>1, <4>2
    <3>. QED  BY <1>3, <1>4, <3>1, <3>2
  <2>5. \A e, f \in Receipts(t)' : e = f \/ e.items \cap f.items = {}
    <3>1. \A e \in Receipts(t) : e.items \cap c.items = {}
      BY <1>2, <1>3, <2>2
    <3>. QED  BY <1>1, <2>1, <3>1 DEF ToldOf
  <2>6. transfers'[t].status = "RECEIVED" <=> \E e \in Receipts(t)' : e.complete
    <3>1. \A e \in Receipts(t) : ~e.complete
      BY <1>1, <1>2 DEF ToldOf
    <3>2. (\E e \in Receipts(t)' : e.complete) <=> complete
      BY <1>3, <2>1, <3>1
    <3>3. transfers'[t].status = "RECEIVED" <=> complete
      BY <1>4
    <3>. QED  BY <3>2, <3>3
  <2>7. transfers'[t].status # "NONE"
    BY <1>4
  <2>. QED  BY <1>6, <2>3, <2>4, <2>5, <2>6, <2>7 DEF ToldOf
<1>. QED  BY <1>5, <1>6

\* Steps that leave the transfers and their receipts alone.
LEMMA ToldInvOthers ==
    ASSUME ToldInv, transfers' = transfers, \A t \in Transfer : Receipts(t)' = Receipts(t)
    PROVE  ToldInv'
<1> SUFFICES ASSUME NEW t \in Transfer PROVE ToldOf(t)'
  BY ToldPartsNext
<1>1. ToldOf(t)
  BY ToldParts
<1>. QED  BY <1>1, ToldKept

LEMMA ToldInvNext == StockInv /\ ToldInv /\ [Next]_vars => ToldInv'
<1> SUFFICES ASSUME StockInv, ToldInv, [Next]_vars PROVE ToldInv'
  OBVIOUS
<1>1. ASSUME UNCHANGED <<transfers, commands>>
      PROVE  ToldInv'
  BY <1>1, ToldInvOthers DEF Receipts
<1>2. ASSUME NEW n \in Node, NEW S \in SUBSET Serial, AllocateQrSerials(n, S)
      PROVE  ToldInv'
  <2> DEFINE c == [type |-> "QR_ALLOCATED", to |-> n, items |-> S]
  <2>1. transfers' = transfers /\ QueueNodeCommand(c) /\ c.type # "TRANSFER_RECEIPT"
    BY <1>2 DEF AllocateQrSerials
  <2> HIDE DEF c
  <2>. QED  BY <2>1, ReceiptsKept, ToldInvOthers
<1>3. ASSUME NEW a \in Admin, ReserveReplacement(a)
      PROVE  ToldInv'
  <2> DEFINE r == requests[a]
             c == [type |-> "QR_REPLACE", to |-> r.node, old |-> r.old, new |-> r.new,
                   expected |-> r.expected]
  <2>1. /\ transfers' = transfers /\ c.type # "TRANSFER_RECEIPT"
        /\ commands' = commands \/ QueueNodeCommand(c)
    BY <1>3 DEF ReserveReplacement, goods
  <2> HIDE DEF c
  <2>. QED  BY <2>1, ReceiptsKept, ToldInvOthers
<1>4. ASSUME NEW n \in Node, NodeEvent(n)
      PROVE  ToldInv'
  <2>1. EventWithoutStock(n) => UNCHANGED <<transfers, commands>>
    BY DEF EventWithoutStock, goods
  <2>2. \A S \in SUBSET Serial, kind \in {"ENROLLMENT", "OTHER"} :
           SnapshotEvent(n, S, kind) => UNCHANGED <<transfers, commands>>
    BY DEF SnapshotEvent
  <2>3. \A S \in SUBSET Serial, type \in INVENTORY_EVENT_TYPES, damaged \in BOOLEAN :
           InventoryEvent(n, type, S, damaged) => UNCHANGED <<transfers, commands>>
    BY DEF InventoryEvent
  <2>4. \A old, new \in Serial :
           ReplacementSnapshotEvent(n, old, new) => UNCHANGED <<transfers, commands>>
    BY DEF ReplacementSnapshotEvent
  <2>. QED
    BY <1>1, <1>4, <2>1, <2>2, <2>3, <2>4, ToldInvDispatch, ToldInvReceive DEF NodeEvent
<1>5. ASSUME Console
      PROVE  ToldInv'
  <2>1. \A a \in Admin, n \in Node, old, new \in Serial :
           ReadForReplacement(a, n, old, new) => UNCHANGED <<transfers, commands>>
    BY DEF ReadForReplacement, goods
  <2>2. \A n \in Node : SetFranchiseStatus(n) => UNCHANGED <<transfers, commands>>
    BY DEF SetFranchiseStatus, goods
  <2>. QED  BY <1>1, <1>2, <1>3, <1>5, <2>1, <2>2 DEF Console
<1>6. CASE UNCHANGED vars
  BY <1>1, <1>6 DEF vars
<1>. QED  BY <1>4, <1>5, <1>6 DEF Next

\* In every reachable state the receipts queued for the source of a transfer
\* name every received serial exactly once, and one of them says "complete"
\* exactly if the transfer is RECEIVED (_receive_transfer and
\* queue_node_command), for any number of partial receipts.
THEOREM SourceIsToldHolds == Spec => []SourceIsTold
<1>1. ToldInv => SourceIsTold
  BY DEF ToldInv
<1>. QED  BY <1>1, StockInvInit, StockInvNext, ToldInvInit, ToldInvNext, PTL DEF Spec

-----------------------------------------------------------------------------
(* The stock records implement StockLedger.                                *)

Places == [s \in Serial |-> Place(s)]

\* Where StockLedger sees a serial, by its status.
LEMMA PlaceOf ==
    ASSUME StockInv, NEW s \in Serial
    PROVE  /\ stock[s].status = "UNKNOWN" => Place(s) = Ledger!New
           /\ stock[s].status = "INVALID" => Place(s) = Ledger!Retired
           /\ stock[s].status \notin {"UNKNOWN", "INVALID", "IN_TRANSIT"} =>
                 Place(s) = Ledger!At(stock[s].owner)
           /\ \A t \in OpenTransfers(s) :
                 Place(s) = Ledger!Moving(stock[s].owner, transfers[t].dest)
<1>1. \A t \in OpenTransfers(s) : (CHOOSE u \in OpenTransfers(s) : TRUE) = t
  BY DEF StockInv, InTransitMatchesTransfers
<1>2. \A t \in OpenTransfers(s) : stock[s].status = "IN_TRANSIT"
  BY DEF StockInv, InTransitMatchesTransfers
<1>3. \A t \in OpenTransfers(s) :
         Place(s) = Ledger!Moving(stock[s].owner, transfers[t].dest)
  BY <1>1, <1>2 DEF Place, Ledger!Moving
<1>4. stock[s].status = "UNKNOWN" => Place(s) = Ledger!New
  BY DEF Place, Ledger!New
<1>5. stock[s].status = "INVALID" => Place(s) = Ledger!Retired
  BY DEF Place, Ledger!Retired
<1>6. stock[s].status \notin {"UNKNOWN", "INVALID", "IN_TRANSIT"} =>
         Place(s) = Ledger!At(stock[s].owner)
  BY DEF Place, Ledger!At
<1>. QED  BY <1>3, <1>4, <1>5, <1>6

\* The same, in the next state.
LEMMA PlaceOfNext ==
    ASSUME StockInv', NEW s \in Serial
    PROVE  /\ stock'[s].status = "UNKNOWN" => Place(s)' = Ledger!New
           /\ stock'[s].status = "INVALID" => Place(s)' = Ledger!Retired
           /\ stock'[s].status \notin {"UNKNOWN", "INVALID", "IN_TRANSIT"} =>
                 Place(s)' = Ledger!At(stock'[s].owner)
           /\ \A t \in OpenTransfers(s)' :
                 Place(s)' = Ledger!Moving(stock'[s].owner, transfers'[t].dest)
<1>1. \A t \in OpenTransfers(s)' : (CHOOSE u \in OpenTransfers(s)' : TRUE) = t
  BY DEF StockInv, InTransitMatchesTransfers
<1>2. \A t \in OpenTransfers(s)' : stock'[s].status = "IN_TRANSIT"
  BY DEF StockInv, InTransitMatchesTransfers
<1>3. \A t \in OpenTransfers(s)' :
         Place(s)' = Ledger!Moving(stock'[s].owner, transfers'[t].dest)
  BY <1>1, <1>2 DEF Place, Ledger!Moving
<1>4. stock'[s].status = "UNKNOWN" => Place(s)' = Ledger!New
  BY DEF Place, Ledger!New
<1>5. stock'[s].status = "INVALID" => Place(s)' = Ledger!Retired
  BY DEF Place, Ledger!Retired
<1>6. stock'[s].status \notin {"UNKNOWN", "INVALID", "IN_TRANSIT"} =>
         Place(s)' = Ledger!At(stock'[s].owner)
  BY DEF Place, Ledger!At
<1>. QED  BY <1>3, <1>4, <1>5, <1>6

\* A serial whose row and open transfers do not change stays where it is.
LEMMA PlaceKept ==
    ASSUME StockInv, StockInv', NEW s \in Serial,
           stock'[s] = stock[s], OpenTransfers(s)' = OpenTransfers(s),
           \A t \in OpenTransfers(s) : transfers'[t].dest = transfers[t].dest
    PROVE  Place(s)' = Place(s)
<1>1. CASE stock[s].status = "IN_TRANSIT"
  <2>1. PICK t \in OpenTransfers(s) : TRUE
    BY <1>1 DEF StockInv, InTransitMatchesTransfers
  <2>2. /\ Place(s) = Ledger!Moving(stock[s].owner, transfers[t].dest)
        /\ Place(s)' = Ledger!Moving(stock'[s].owner, transfers'[t].dest)
    BY PlaceOf, PlaceOfNext
  <2>. QED  BY <2>2
<1>2. CASE stock[s].status # "IN_TRANSIT"
  BY <1>2 DEF Place
<1>. QED  BY <1>1, <1>2

LEMMA RefineIssue ==
    ASSUME StockInv, StockInv', NEW n \in Node, NEW S \in SUBSET Serial,
           transfers' = transfers,
           \A s \in S : /\ stock[s].status = "UNKNOWN"
                        /\ stock'[s].status \in {"GENERATED", "IN_STOCK"}
                        /\ stock'[s].owner = n,
           \A s \in Serial \ S : stock'[s] = stock[s]
    PROVE  Ledger!Next
<1>1. \A s \in S : Place(s) = Ledger!New /\ Place(s)' = Ledger!At(n)
  BY PlaceOf, PlaceOfNext
<1>2. \A s \in Serial \ S : Place(s)' = Place(s)
  BY PlaceKept DEF OpenTransfers
<1>3. Ledger!Issue(n, S)
  BY <1>1, <1>2 DEF Ledger!Issue
<1>. QED  BY <1>3 DEF Ledger!Next

LEMMA RefineDispatch ==
    ASSUME StockInv, StockInv', NEW n \in Node, NEW d \in Node, NEW t \in Transfer,
           NEW S \in SUBSET Serial, DispatchTransfer(n, d, t, S)
    PROVE  Ledger!Next
<1>1. /\ d # n
      /\ \A s \in S : /\ stock[s].status \in {"IN_STOCK", "RETURNED"}
                      /\ stock[s].owner = n
      /\ \A s \in Serial \ S : stock'[s] = stock[s]
  BY DEF DispatchTransfer, AVAILABLE_STOCK_STATUSES, SetStatus, Owned
<1>2. /\ transfers'[t].source = n /\ transfers'[t].dest = d
      /\ \A u \in Transfer \ {t} : transfers'[u] = transfers[u]
  <2>1. /\ transfers'[t] = [status |-> "DISPATCHED", source |-> n, dest |-> d,
                            items |-> S, received |-> {}]
        /\ \A u \in Transfer \ {t} : transfers'[u] = transfers[u]
    BY DispatchOpens
  <2>. QED  BY <2>1
<1>3. /\ \A s \in Serial : t \notin OpenTransfers(s)
      /\ \A s \in Serial : OpenTransfers(s)' = IF s \in S THEN {t} ELSE OpenTransfers(s)
  BY DispatchOpens
<1>4. \A s \in S : Place(s) = Ledger!At(n)
  BY <1>1, PlaceOf
<1>5. ASSUME NEW s \in S
      PROVE  Place(s)' = Ledger!Moving(n, d)
  <2>1. t \in OpenTransfers(s)'
    BY <1>3
  <2>2. stock'[s].owner = n
    BY <1>2, <2>1 DEF StockInv, InTransitMatchesTransfers
  <2>. QED  BY <1>2, <2>1, <2>2, PlaceOfNext
<1>6. ASSUME NEW s \in Serial \ S
      PROVE  Place(s)' = Place(s)
  <2>1. OpenTransfers(s)' = OpenTransfers(s)
    BY <1>3
  <2>2. \A u \in OpenTransfers(s) : transfers'[u].dest = transfers[u].dest
    BY <1>2, <1>3 DEF OpenTransfers
  <2>. QED  BY <1>1, <2>1, <2>2, PlaceKept
<1>7. Ledger!Send(n, d, S)
  BY <1>1, <1>4, <1>5, <1>6 DEF Ledger!Send
<1>. QED  BY <1>7 DEF Ledger!Next

LEMMA RefineReceive ==
    ASSUME StockInv, StockInv', NEW n \in Node, NEW t \in Transfer, NEW S \in SUBSET Serial,
           NEW status \in [S -> AVAILABLE_STOCK_STATUSES], ReceiveTransfer(n, t, S, status)
    PROVE  Ledger!Next
<1> DEFINE m == transfers[t].source
<1>1. /\ transfers[t].dest = n /\ m \in Node
      /\ S \subseteq transfers[t].items \ transfers[t].received
      /\ \A s \in S : stock[s].owner = m
      /\ \A s \in Serial \ S : stock'[s] = stock[s]
  BY DEF ReceiveTransfer, StockInv, TransferRows
<1>2. ASSUME NEW s \in S
      PROVE  stock'[s].owner = n /\ stock'[s].status \in AVAILABLE_STOCK_STATUSES
  <2>1. stock'[s] = [stock[s] EXCEPT !.owner = n, !.status = status[s]]
    BY DEF ReceiveTransfer
  <2>2. stock[s] \in StockRow
    BY DEF StockInv, TypeOK
  <2>. QED  BY <2>1, <2>2 DEF StockRow
<1>3. /\ transfers'[t].dest = transfers[t].dest
      /\ \A u \in Transfer \ {t} : transfers'[u] = transfers[u]
  BY ReceiveCloses
<1>4. \A s \in Serial : OpenTransfers(s)' = IF s \in S THEN {} ELSE OpenTransfers(s)
  BY ReceiveCloses
<1>5. ASSUME NEW s \in S
      PROVE  Place(s) = Ledger!Moving(m, n)
  <2>1. t \in OpenTransfers(s)
    BY <1>1 DEF OpenTransfers
  <2>. QED  BY <1>1, <2>1, PlaceOf
<1>6. \A s \in S : Place(s)' = Ledger!At(n)
  BY <1>2, PlaceOfNext DEF AVAILABLE_STOCK_STATUSES
<1>7. ASSUME NEW s \in Serial \ S
      PROVE  Place(s)' = Place(s)
  <2>1. OpenTransfers(s)' = OpenTransfers(s)
    BY <1>4
  <2>2. \A u \in OpenTransfers(s) : transfers'[u].dest = transfers[u].dest
    BY <1>3 DEF OpenTransfers
  <2>. QED  BY <1>1, <2>1, <2>2, PlaceKept
<1>8. Ledger!Arrive(m, n, S)
  BY <1>5, <1>6, <1>7 DEF Ledger!Arrive
<1>. QED  BY <1>1, <1>8 DEF Ledger!Next

LEMMA RefineReplacement ==
    ASSUME StockInv, StockInv', NEW n \in Node, NEW old \in Serial, NEW new \in Serial,
           ReplacementSnapshotEvent(n, old, new)
    PROVE  Ledger!Next
<1>1. /\ stock[old].status \in REPLACEABLE_STATUSES /\ stock[old].owner = n
      /\ stock[new].status = "UNKNOWN" /\ old # new /\ transfers' = transfers
  BY DEF ReplacementSnapshotEvent, Known
<1>2. /\ stock'[old].status = "INVALID"
      /\ stock'[new].status \in {"GENERATED", "IN_STOCK"} /\ stock'[new].owner = n
      /\ \A s \in Serial \ {old, new} : stock'[s] = stock[s]
  BY <1>1 DEF ReplacementSnapshotEvent, StockInv, TypeOK, StockRow
<1>3. /\ Place(old) = Ledger!At(n) /\ Place(new) = Ledger!New
      /\ Place(old)' = Ledger!Retired /\ Place(new)' = Ledger!At(n)
  BY <1>1, <1>2, PlaceOf, PlaceOfNext DEF REPLACEABLE_STATUSES
<1>4. \A s \in Serial \ {old, new} : Place(s)' = Place(s)
  BY <1>1, <1>2, PlaceKept DEF OpenTransfers
<1>5. Places' = [Places EXCEPT ![old] = Ledger!Retired, ![new] = Ledger!At(n)]
  BY <1>1, <1>3, <1>4 DEF Places
<1>6. Ledger!Relabel(n, old, new)
  BY <1>3, <1>5 DEF Ledger!Relabel, Places
<1>. QED  BY <1>6 DEF Ledger!Next

LEMMA RefineInventory ==
    ASSUME StockInv, StockInv', NEW n \in Node, NEW type \in INVENTORY_EVENT_TYPES,
           NEW S \in SUBSET Serial, NEW damaged \in BOOLEAN,
           InventoryEvent(n, type, S, damaged)
    PROVE  UNCHANGED Ledger!vars
<1>1. /\ transfers' = transfers
      /\ \A s \in Serial \ S : stock'[s] = stock[s]
  BY DEF InventoryEvent, SetStatus
<1>2. ASSUME NEW s \in S
      PROVE  /\ stock[s].status \in TransitionFrom(type) /\ stock[s].status # "UNKNOWN"
             /\ stock'[s].status = TransitionTo(type, damaged, stock[s].status)
             /\ stock'[s].owner = stock[s].owner
             /\ type = "AUDIT" => stock'[s] = stock[s]
  <2>1. stock'[s] = [stock[s] EXCEPT !.status = TransitionTo(type, damaged, stock[s].status)]
    BY DEF InventoryEvent, SetStatus
  <2>2. stock[s] \in StockRow
    BY DEF StockInv, TypeOK
  <2>3. type = "AUDIT" => TransitionTo(type, damaged, stock[s].status) = stock[s].status
    BY DEF TransitionTo
  <2>. QED  BY <2>1, <2>2, <2>3 DEF InventoryEvent, Known, StockRow
<1>3. CASE type = "AUDIT"
  <2>1. \A s \in Serial : Place(s)' = Place(s)
    BY <1>1, <1>2, <1>3, PlaceKept DEF OpenTransfers
  <2>. QED  BY <2>1 DEF Ledger!vars
<1>4. CASE type # "AUDIT"
  <2>1. ASSUME NEW s \in S
        PROVE  Place(s)' = Place(s)
    <3>1. /\ stock[s].status \notin {"UNKNOWN", "INVALID", "IN_TRANSIT"}
          /\ stock'[s].status \notin {"UNKNOWN", "INVALID", "IN_TRANSIT"}
      BY <1>2, <1>4 DEF TransitionFrom, TransitionTo, INVENTORY_EVENT_TYPES,
                        AVAILABLE_STOCK_STATUSES
    <3>. QED  BY <1>2, <3>1, PlaceOf, PlaceOfNext
  <2>2. \A s \in Serial \ S : Place(s)' = Place(s)
    BY <1>1, PlaceKept DEF OpenTransfers
  <2>. QED  BY <2>1, <2>2 DEF Ledger!vars
<1>. QED  BY <1>3, <1>4

LEMMA RefineNext ==
    ASSUME StockInv, StockInv', [Next]_vars
    PROVE  [Ledger!Next]_(Ledger!vars)
<1>1. CASE UNCHANGED goods
  <2>1. \A s \in Serial : Place(s)' = Place(s)
    BY <1>1, PlaceKept DEF goods, OpenTransfers
  <2>. QED  BY <2>1 DEF Ledger!vars
<1>2. ASSUME NEW n \in Node, NEW S \in SUBSET Serial, NEW kind \in {"ENROLLMENT", "OTHER"},
             SnapshotEvent(n, S, kind)
      PROVE  Ledger!Next
  <2> DEFINE new == {s \in S : ~Known(s)}
  <2>1. transfers' = transfers /\ new \in SUBSET Serial
    BY <1>2 DEF SnapshotEvent
  <2>2. /\ \A s \in new : /\ stock[s].status = "UNKNOWN"
                          /\ stock'[s].status \in {"GENERATED", "IN_STOCK"}
                          /\ stock'[s].owner = n
        /\ \A s \in Serial \ new : stock'[s] = stock[s]
    BY <1>2 DEF SnapshotEvent, Known, SNAPSHOT_ENROLLMENT_STATUSES
  <2> HIDE DEF new
  <2>. QED  BY <2>1, <2>2, RefineIssue
<1>3. ASSUME NEW n \in Node, NEW S \in SUBSET Serial, AllocateQrSerials(n, S)
      PROVE  Ledger!Next
  <2>1. /\ transfers' = transfers
        /\ \A s \in S : /\ stock[s].status = "UNKNOWN"
                        /\ stock'[s].status \in {"GENERATED", "IN_STOCK"}
                        /\ stock'[s].owner = n
        /\ \A s \in Serial \ S : stock'[s] = stock[s]
    BY <1>3 DEF AllocateQrSerials, CreateSerials, Taken, Known
  <2>. QED  BY <2>1, RefineIssue
<1>4. ASSUME NEW n \in Node, NodeEvent(n)
      PROVE  [Ledger!Next]_(Ledger!vars)
  <2>1. CASE EventWithoutStock(n)
    BY <1>1, <2>1 DEF EventWithoutStock
  <2>. QED
    BY <1>2, <1>4, <2>1, RefineInventory, RefineDispatch, RefineReceive, RefineReplacement
       DEF NodeEvent
<1>5. CASE Console
  <2>1. CASE \/ \E a \in Admin, n \in Node, old, new \in Serial :
                   ReadForReplacement(a, n, old, new)
             \/ \E a \in Admin : ReserveReplacement(a)
             \/ \E n \in Node : SetFranchiseStatus(n)
    <3>1. UNCHANGED goods
      BY <2>1 DEF ReadForReplacement, ReserveReplacement, SetFranchiseStatus
    <3>. QED  BY <1>1, <3>1
  <2>. QED  BY <1>3, <1>5, <2>1 DEF Console
<1>6. CASE UNCHANGED vars
  BY <1>1, <1>6 DEF vars, goods
<1>. QED  BY <1>4, <1>5, <1>6 DEF Next

\* Whatever the franchises send and the console does, Master's stock records
\* behave like StockLedger: one place per serial, handed over only by a
\* dispatch and the receipt of the same transfer, never back from retirement.
THEOREM StockImplementsLedger == Spec => ImplementsStockLedger
<1>1. Init => Ledger!Init
  <2> SUFFICES ASSUME Init PROVE Ledger!Init
    OBVIOUS
  <2>1. \A s \in Serial : Place(s) = Ledger!New
    BY StockInvInit, PlaceOf DEF Init, NoStock
  <2>. QED  BY <2>1 DEF Ledger!Init
<1>2. StockInv /\ StockInv' /\ [Next]_vars => [Ledger!Next]_(Ledger!vars)
  BY RefineNext
<1>. QED
  BY <1>1, <1>2, StockInvInit, StockInvNext, PTL DEF Spec, ImplementsStockLedger, Ledger!Spec
=============================================================================
