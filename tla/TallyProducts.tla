--------------------------- MODULE TallyProducts ----------------------------
(***************************************************************************)
(* Products from Tally (tally_products.py, its worker and its router): the *)
(* import of stock items, the live sync that follows Tally's item master,  *)
(* the history of replaced details and the check of the details an event   *)
(* carries (network_ingest.py).                                            *)
(*                                                                         *)
(* Tally is read outside a transaction; the products are read afterwards,  *)
(* and the first write takes SQLite's lock later still.  A thread          *)
(* therefore works on two copies, of Tally and of the products, that may   *)
(* both be old when it writes, and it writes only the columns that differ  *)
(* from its copy.                                                          *)
(*                                                                         *)
(* Abstractions.  One franchise: products of two franchises never meet.    *)
(* Details are the Tally name (the product name follows it) and tax, which *)
(* stands for HSN, unit and GST rate; NoTax is an item without a GST rate. *)
(* Names differ by more than case.  An import of several items is as many  *)
(* imports of one.  Lite is external: it applies PRODUCT_UPSERT in order   *)
(* and freezes the details it has into its events.                         *)
(***************************************************************************)
EXTENDS Naturals, Sequences

CONSTANTS
    Item,      \* stock items of Tally
    Guids,     \* items whose export carries a GUID
    Name,      \* names a stock item can have
    Tax,       \* tax details an item can have
    NoTax,     \* the item has no GST rate
    Gone,      \* the item is not in Tally
    NoItem,    \* no GUID, no match
    Product,   \* product codes of the franchise
    CodeFor,   \* code an item of a name gets: that of stock held through a
               \* transfer, or one made from the name
    HandMade,  \* products that may be made by hand, with their details
    NoRow,     \* no product of this code
    Worker,    \* the worker's thread
    Console,   \* threads of administrators' requests
    MaxTurns   \* bound: changes of Tally's item master and presses of "Sync now"

ASSUME ProductConstants ==
    /\ Guids \subseteq Item
    /\ NoItem \notin Item
    /\ NoTax \notin Tax
    /\ CodeFor \in [Name -> Product]
    /\ HandMade \subseteq Product \X [name : Name, tax : Tax]
    /\ Worker \notin Console
    /\ MaxTurns \in Nat

VARIABLES
    tally,     \* Tally's item master (external)
    edits,     \* changes of it so far
    presses,   \* "Sync now" so far
    product,   \* products
    history,   \* product_identity_history: details that were replaced
    syncing,   \* the interval of live sync is not 0
    thread,    \* what each thread has read
    upserts,   \* PRODUCT_UPSERT commands of a product Lite has not applied
    lite,      \* details Lite has (external), NoRow before it has any
    frozen,    \* details Lite's events may carry (external, history variable)
    overlapped \* history: products whose details a sync replaced unread

vars == <<tally, edits, presses, product, history, syncing, thread, upserts, lite, frozen, overlapped>>

Detail   == [name : Name, tax : Tax]
Entry    == [name : Name, tax : Tax \cup {NoTax}]
Master   == [Item -> Entry \cup {Gone}]
Row      == [name : Name, tax : Tax, guid : Item \cup {NoItem}, linked : BOOLEAN]
Table    == [Product -> Row \cup {NoRow}]
Thread   == {Worker} \cup Console
Idle     == [step |-> "idle"]
Fetched  == [step : {"fetched"}, job : {"sync", "import"}, items : Master]
Read     == [step : {"read"}, job : {"sync", "import"}, items : Master, rows : Table]

ASSUME MarkerAssumption == NoRow \notin Row /\ Gone \notin Entry

Rows(table) == {p \in Product : table[p] # NoRow}
DetailOf(r) == [name |-> r.name, tax |-> r.tax]
GuidOf(i)   == IF i \in Guids THEN i ELSE NoItem
Linked      == {p \in Rows(product) : product[p].linked}

Init ==
    /\ tally \in [Item -> Entry]
    /\ \A i, j \in Item : tally[i].name = tally[j].name => i = j
    /\ edits = 0
    /\ presses = 0
    /\ product = [p \in Product |-> NoRow]
    /\ history = [p \in Product |-> {}]
    /\ syncing = TRUE
    /\ thread = [t \in Thread |-> Idle]
    /\ upserts = [p \in Product |-> <<>>]
    /\ lite = [p \in Product |-> NoRow]
    /\ frozen = [p \in Product |-> {}]
    /\ overlapped = {}

-----------------------------------------------------------------------------
(* Tally, where names of items are unique, and Lite.                       *)

EditTally(i, e) ==
    /\ edits + presses < MaxTurns
    /\ e # tally[i]
    /\ e # Gone => \A j \in Item \ {i} : tally[j] # Gone => tally[j].name # e.name
    /\ tally' = [tally EXCEPT ![i] = e]
    /\ edits' = edits + 1
    /\ UNCHANGED <<presses, product, history, syncing, thread, upserts, lite, frozen, overlapped>>

LiteApplies(p) ==
    /\ upserts[p] # <<>>
    /\ upserts' = [upserts EXCEPT ![p] = Tail(@)]
    /\ lite' = [lite EXCEPT ![p] = Head(upserts[p])]
    /\ frozen' = [frozen EXCEPT ![p] = @ \cup {Head(upserts[p])}]
    /\ UNCHANGED <<tally, edits, presses, product, history, syncing, thread, overlapped>>

-----------------------------------------------------------------------------
(* Products that do not come from Tally.                                   *)

NewRow(d, i, linked) ==
    [name |-> d.name, tax |-> d.tax, guid |-> GuidOf(i), linked |-> linked]

\* An administrator creates the product for new labels; the command that
\* carries the labels carries the details.
GetOrCreateFranchiseProduct(p, d) ==
    /\ product[p] = NoRow
    /\ product' = [product EXCEPT ![p] = NewRow(d, NoItem, FALSE)]
    /\ upserts' = [upserts EXCEPT ![p] = Append(@, d)]
    /\ UNCHANGED <<tally, edits, presses, history, syncing, thread, lite, frozen, overlapped>>

\* An event of Lite brings stock of a product Master does not know.
EnsureProduct(p, d) ==
    /\ product[p] = NoRow
    /\ product' = [product EXCEPT ![p] = NewRow(d, NoItem, FALSE)]
    /\ lite' = [lite EXCEPT ![p] = d]
    /\ frozen' = [frozen EXCEPT ![p] = @ \cup {d}]
    /\ UNCHANGED <<tally, edits, presses, history, syncing, thread, upserts, overlapped>>

-----------------------------------------------------------------------------
(* Reading Tally, then the products.                                       *)

SaveSyncSettings(on) ==
    /\ syncing # on
    /\ syncing' = on
    /\ UNCHANGED <<tally, edits, presses, product, history, thread, upserts, lite, frozen, overlapped>>

\* sync_is_due, once the interval has passed.
SyncIsDue == syncing /\ Linked # {}

\* The worker syncs when it is due; an administrator imports, or presses
\* "Sync now".
MayStart(t, job) ==
    IF t = Worker THEN job = "sync" /\ SyncIsDue
    ELSE job = "sync" => edits + presses < MaxTurns

\* fetch_tally_stock_items answers; when it raises, nothing happens.
Fetch(t, job) ==
    /\ thread[t] = Idle
    /\ MayStart(t, job)
    /\ presses' = IF t \in Console /\ job = "sync" THEN presses + 1 ELSE presses
    /\ thread' = [thread EXCEPT ![t] = [step |-> "fetched", job |-> job, items |-> tally]]
    /\ UNCHANGED <<tally, edits, product, history, syncing, upserts, lite, frozen, overlapped>>

ReadProducts(t) ==
    /\ thread[t].step = "fetched"
    /\ thread' = [thread EXCEPT ![t] = [step |-> "read", job |-> thread[t].job,
                                        items |-> thread[t].items, rows |-> product]]
    /\ UNCHANGED <<tally, edits, presses, product, history, syncing, upserts, lite, frozen, overlapped>>

-----------------------------------------------------------------------------
(* apply_tally_stock_items.                                                *)

\* The item of a product: by GUID, then by name.
Match(r, items) ==
    LET named == {i \in Item : items[i] # Gone /\ items[i].name = r.name} IN
    IF r.guid \in Item /\ items[r.guid] # Gone THEN r.guid
    ELSE IF named # {} THEN CHOOSE i \in named : TRUE
    ELSE NoItem

\* Mutant of Target: a missing GST rate is taken over.
TargetUnchecked(r, e) == [name |-> e.name, tax |-> e.tax]

\* The details the item gives the product; without a GST rate it keeps its own.
Target(r, e) == [name |-> e.name, tax |-> IF e.tax = NoTax THEN r.tax ELSE e.tax]

\* Products to bring in line, from the copies: linked, and still in Tally.
Found(rows, items) ==
    {p \in Rows(rows) : rows[p].linked /\ Match(rows[p], items) # NoItem}

TargetOf(rows, items, p) == Target(rows[p], items[Match(rows[p], items)])

Changed(rows, items) ==
    {p \in Found(rows, items) : TargetOf(rows, items, p) # DetailOf(rows[p])}

\* Mutant of Replaced: only the first replaced details are kept.
ReplacedFirst(rows, items) ==
    [p \in Product |-> IF p \in Changed(rows, items) /\ history[p] = {}
                       THEN {DetailOf(rows[p])} ELSE history[p]]

\* The history after the sync: with the details that the thread has read.
Replaced(rows, items) ==
    [p \in Product |-> IF p \in Changed(rows, items)
                       THEN history[p] \cup {DetailOf(rows[p])} ELSE history[p]]

\* The row after the sync: columns that differ from the copy are written.
Written(rows, items, p) ==
    LET new  == TargetOf(rows, items, p)
        guid == GuidOf(Match(rows[p], items)) IN
    [product[p] EXCEPT
        !.name = IF new.name # rows[p].name THEN new.name ELSE @,
        !.tax  = IF new.tax # rows[p].tax THEN new.tax ELSE @,
        !.guid = IF rows[p].guid = NoItem /\ guid # NoItem THEN guid ELSE @]

\* Products whose details have changed since the thread read them and are
\* replaced nevertheless.
Unread(rows, items) ==
    {p \in Changed(rows, items) : DetailOf(product[p]) # DetailOf(rows[p])}

ApplyTallyStockItems(t) ==
    LET rows  == thread[t].rows
        items == thread[t].items IN
    /\ thread[t].step = "read"
    /\ thread[t].job = "sync"
    /\ history' = Replaced(rows, items)
    /\ product' = [p \in Product |-> IF p \in Found(rows, items) THEN Written(rows, items, p)
                                     ELSE product[p]]
    /\ upserts' = [p \in Product |-> IF p \in Changed(rows, items)
                                     THEN Append(upserts[p], TargetOf(rows, items, p))
                                     ELSE upserts[p]]
    /\ thread' = [thread EXCEPT ![t] = Idle]
    /\ overlapped' = overlapped \cup Unread(rows, items)
    /\ UNCHANGED <<tally, edits, presses, syncing, lite, frozen>>

-----------------------------------------------------------------------------
(* import_tally_products, with one ticked item.                            *)

ImportBlocker(e) == e.tax = NoTax

\* Items that can be ticked and imported: still in Tally and not blocked.
Importable(items) == {i \in Item : items[i] # Gone /\ ~ImportBlocker(items[i])}

\* The products the item is already: by code, else by its Tally name.
Existing(rows, e) ==
    IF rows[CodeFor[e.name]] # NoRow THEN {CodeFor[e.name]}
    ELSE {p \in Rows(rows) : rows[p].name = e.name}

\* Link a product that exists, so that live sync maintains it.
Link(t, i) ==
    /\ \E p \in Existing(thread[t].rows, thread[t].items[i]) :
          product' = [product EXCEPT ![p].linked = TRUE,
                                     ![p].guid = IF thread[t].rows[p].guid = NoItem /\ i \in Guids
                                                 THEN i ELSE @]
    /\ UNCHANGED upserts

\* Mutant of Create: the franchise is not told.
CreateSilently(t, i) ==
    LET e == thread[t].items[i] IN
    /\ Existing(thread[t].rows, e) = {}
    /\ product[CodeFor[e.name]] = NoRow
    /\ product' = [product EXCEPT ![CodeFor[e.name]] = NewRow(e, i, TRUE)]
    /\ UNCHANGED upserts

Create(t, i) ==
    LET e == thread[t].items[i]
        p == CodeFor[e.name] IN
    /\ Existing(thread[t].rows, e) = {}
    /\ product[p] = NoRow
    /\ product' = [product EXCEPT ![p] = NewRow(e, i, TRUE)]
    /\ upserts' = [upserts EXCEPT ![p] = Append(@, e)]

\* Somebody else created a product of this code: the commit is refused.
CreateConflicts(t, i) ==
    /\ Existing(thread[t].rows, thread[t].items[i]) = {}
    /\ product[CodeFor[thread[t].items[i].name]] # NoRow
    /\ UNCHANGED <<product, upserts>>

ImportTallyProducts(t, i) ==
    /\ thread[t].step = "read"
    /\ thread[t].job = "import"
    /\ i \in Importable(thread[t].items)
    /\ Link(t, i) \/ Create(t, i) \/ CreateConflicts(t, i)
    /\ thread' = [thread EXCEPT ![t] = Idle]
    /\ UNCHANGED <<tally, edits, presses, history, syncing, lite, frozen, overlapped>>

\* Nothing that was ticked can be imported (any more).
ImportNothing(t) ==
    /\ thread[t].step = "read"
    /\ thread[t].job = "import"
    /\ Importable(thread[t].items) # Item
    /\ thread' = [thread EXCEPT ![t] = Idle]
    /\ UNCHANGED <<tally, edits, presses, product, history, syncing, upserts, lite, frozen, overlapped>>

-----------------------------------------------------------------------------
Next ==
    \/ \E i \in Item, e \in Entry \cup {Gone} : EditTally(i, e)
    \/ \E p \in Product : LiteApplies(p)
    \/ \E h \in HandMade : GetOrCreateFranchiseProduct(h[1], h[2]) \/ EnsureProduct(h[1], h[2])
    \/ \E on \in BOOLEAN : SaveSyncSettings(on)
    \/ \E t \in Thread, job \in {"sync", "import"} : Fetch(t, job)
    \/ \E t \in Thread : ReadProducts(t) \/ ApplyTallyStockItems(t) \/ ImportNothing(t)
    \/ \E t \in Thread, i \in Item : ImportTallyProducts(t, i)

Spec == Init /\ [][Next]_vars

\* The worker's loop goes on for ever, an interval passes, and Tally answers
\* in the end; Lite polls.
Fairness ==
    /\ WF_vars(Fetch(Worker, "sync"))
    /\ WF_vars(ReadProducts(Worker) \/ ApplyTallyStockItems(Worker))
    /\ \A t \in Console : WF_vars(ReadProducts(t) \/ ApplyTallyStockItems(t) \/ ImportNothing(t)
                                  \/ \E i \in Item : ImportTallyProducts(t, i))
    /\ \A p \in Product : WF_vars(LiteApplies(p))

FairSpec == Spec /\ Fairness

-----------------------------------------------------------------------------
(* Properties.                                                             *)

\* Tables, what threads have read, commands and Lite's copies have their types;
\* a product always has tax details, even if Tally's item has none.
TypeOK ==
    /\ tally \in Master
    /\ edits \in 0..MaxTurns
    /\ presses \in 0..MaxTurns
    /\ product \in Table
    /\ history \in [Product -> SUBSET Detail]
    /\ syncing \in BOOLEAN
    /\ thread \in [Thread -> {Idle} \cup Fetched \cup Read]
    /\ upserts \in [Product -> Seq(Detail)]
    /\ lite \in [Product -> Detail \cup {NoRow}]
    /\ frozen \in [Product -> SUBSET Detail]
    /\ overlapped \subseteq Product

\* _validate_snapshot_product_identity: current or replaced details.
Accepts(p, d) ==
    /\ product[p] # NoRow
    /\ DetailOf(product[p]) = d \/ d \in history[p]

\* "Master records the previous details and still accepts events that carry
\* them, so events queued before Lite applied the change are not rejected"
\* (docs/architecture/central-tally-topology.md:25).
EventsNotRejected == \A p \in Product : \A d \in frozen[p] : Accepts(p, d)

\* What the code keeps of it: the worker's sync, syncs that administrators
\* start, imports, renames and events interleave as they like, and whatever
\* details Master ever sent are current or in the history, unless a sync
\* replaced details of the product that changed after it had read them.
EventsAccepted == \A p \in Product \ overlapped : \A d \in frozen[p] : Accepts(p, d)

\* What Lite is to end with: the details of the item the product came from.
Follows(p) ==
    LET i == product[p].guid IN
    i \in Item /\ tally[i] # Gone => lite[p] = Target(product[p], tally[i])

\* If live sync stays on, every product that is linked to an item by GUID
\* ends at Lite with that item's details, however imports, renames and
\* hand-made products went before.
LiteFollowsTally == <>[]syncing => <>[](\A p \in Linked \ overlapped : Follows(p))

-----------------------------------------------------------------------------
(* The inductive invariants of the proofs in TallyProductsProofs.          *)

\* A product that a thread has read is still there when the thread writes.
RowsStay == \A t \in Thread : thread[t].step = "read" =>
    Rows(thread[t].rows) \subseteq Rows(product)

\* Details that Lite has, has had or will have.
Sent(p) == frozen[p] \cup {upserts[p][k] : k \in 1..Len(upserts[p])}

SentAccepted == \A p \in Product \ overlapped : \A d \in Sent(p) : Accepts(p, d)
=============================================================================
