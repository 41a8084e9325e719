------------------------ MODULE TallyProductsProofs -------------------------
(***************************************************************************)
(* Proofs about TallyProducts: the tables keep their types whatever copies *)
(* the threads work on, and every event of Lite carries details that       *)
(* Master accepts unless a sync replaced details of its product that       *)
(* changed after it had read them, for any number of items, products,      *)
(* names and console threads.                                              *)
(***************************************************************************)
EXTENDS TallyProducts, TLAPS

ProductsInv == TypeOK /\ RowsStay

-----------------------------------------------------------------------------
(* What a thread works on.                                                 *)

LEMMA ThreadSteps ==
    ASSUME TypeOK, NEW t \in Thread
    PROVE  /\ thread[t].step = "read" => thread[t] \in Read
           /\ thread[t].step = "fetched" => thread[t] \in Fetched
           /\ thread[t].step = "idle" <=> thread[t] = Idle
<1>1. thread[t] = Idle \/ thread[t] \in Fetched \/ thread[t] \in Read
  BY DEF TypeOK
<1>2. Idle.step = "idle"
  BY DEF Idle
<1>3. thread[t] \in Fetched => thread[t].step = "fetched"
  BY DEF Fetched
<1>4. thread[t] \in Read => thread[t].step = "read"
  BY DEF Read
<1>. QED  BY <1>1, <1>2, <1>3, <1>4

\* The product of a thread's row is a row of the table.
LEMMA CopiedRow ==
    ASSUME ProductsInv, NEW t \in Thread, thread[t].step = "read"
    PROVE  /\ thread[t].rows \in Table /\ thread[t].items \in Master
           /\ thread[t].job \in {"sync", "import"}
           /\ \A p \in Rows(thread[t].rows) :
                 p \in Product /\ thread[t].rows[p] \in Row /\ product[p] \in Row
<1>1. thread[t] \in Read
  BY ThreadSteps DEF ProductsInv
<1>2. /\ thread[t].rows \in Table /\ thread[t].items \in Master
      /\ thread[t].job \in {"sync", "import"}
  BY <1>1 DEF Read
<1>3. Rows(thread[t].rows) \subseteq Rows(product)
  BY DEF ProductsInv, RowsStay
<1>. QED  BY <1>2, <1>3 DEF Rows, Table, ProductsInv, TypeOK

-----------------------------------------------------------------------------
(* What a sync computes.                                                   *)

\* A match is an item that the copy of Tally has.
LEMMA MatchIsThere ==
    ASSUME NEW r \in Row, NEW items \in Master
    PROVE  /\ Match(r, items) \in Item \cup {NoItem}
           /\ Match(r, items) # NoItem => items[Match(r, items)] \in Entry
<1> DEFINE named == {i \in Item : items[i] # Gone /\ items[i].name = r.name}
<1>1. \A i \in Item : items[i] # Gone => items[i] \in Entry
  BY DEF Master
<1>2. Match(r, items) = IF r.guid \in Item /\ items[r.guid] # Gone THEN r.guid
                        ELSE IF named # {} THEN CHOOSE i \in named : TRUE
                        ELSE NoItem
  BY DEF Match
<1>3. named # {} => (CHOOSE i \in named : TRUE) \in named
  OBVIOUS
<1>. QED  BY <1>1, <1>2, <1>3

\* The details a product is to get always have tax details.
LEMMA TargetIsDetail ==
    ASSUME NEW rows \in Table, NEW items \in Master, NEW p \in Found(rows, items)
    PROVE  /\ p \in Product /\ p \in Rows(rows) /\ rows[p] \in Row
           /\ TargetOf(rows, items, p) \in Detail
           /\ DetailOf(rows[p]) \in Detail
           /\ GuidOf(Match(rows[p], items)) \in Item \cup {NoItem}
<1>1. p \in Product /\ p \in Rows(rows) /\ rows[p] \in Row /\ Match(rows[p], items) # NoItem
  BY DEF Found, Rows, Table
<1>2. Match(rows[p], items) \in Item /\ items[Match(rows[p], items)] \in Entry
  BY <1>1, MatchIsThere
<1>3. rows[p].name \in Name /\ rows[p].tax \in Tax
  BY <1>1 DEF Row
<1>4. \A e \in Entry : e.name \in Name /\ (e.tax = NoTax \/ e.tax \in Tax)
  BY DEF Entry
<1>5. TargetOf(rows, items, p) \in Detail
  BY <1>2, <1>3, <1>4 DEF TargetOf, Target, Detail
<1>6. DetailOf(rows[p]) \in Detail
  BY <1>3 DEF DetailOf, Detail
<1>. QED  BY <1>1, <1>2, <1>5, <1>6, ProductConstants DEF GuidOf

\* A written row is a row; if the copy's details are current, it gets the
\* item's details, and if the copy has the item's details, it keeps its own.
LEMMA WrittenRow ==
    ASSUME NEW rows \in Table, NEW items \in Master, NEW p \in Found(rows, items),
           product[p] \in Row
    PROVE  /\ Written(rows, items, p) \in Row
           /\ DetailOf(product[p]) = DetailOf(rows[p]) =>
                 DetailOf(Written(rows, items, p)) = TargetOf(rows, items, p)
           /\ TargetOf(rows, items, p) = DetailOf(rows[p]) =>
                 DetailOf(Written(rows, items, p)) = DetailOf(product[p])
<1> DEFINE new  == TargetOf(rows, items, p)
           guid == GuidOf(Match(rows[p], items))
           old  == product[p]
           n    == IF new.name # rows[p].name THEN new.name ELSE old.name
           x    == IF new.tax # rows[p].tax THEN new.tax ELSE old.tax
           g    == IF rows[p].guid = NoItem /\ guid # NoItem THEN guid ELSE old.guid
           w    == [old EXCEPT !.name = n, !.tax = x, !.guid = g]
<1>1. Written(rows, items, p) = w
  BY DEF Written
<1>2. new \in Detail /\ guid \in Item \cup {NoItem}
  BY TargetIsDetail
<1>3. new.name \in Name /\ new.tax \in Tax /\ new = [name |-> new.name, tax |-> new.tax]
  BY <1>2 DEF Detail
<1>4. n \in Name /\ x \in Tax /\ g \in Item \cup {NoItem}
  BY <1>2, <1>3 DEF Row
<1>5. DetailOf(old) = DetailOf(rows[p]) => old.name = rows[p].name /\ old.tax = rows[p].tax
  BY DEF DetailOf
<1>6. DetailOf(old) = DetailOf(rows[p]) => n = new.name /\ x = new.tax
  BY <1>5
<1>10. new = DetailOf(rows[p]) => n = old.name /\ x = old.tax
  BY DEF DetailOf
<1> HIDE DEF new, guid, n, x, g
<1>7. w \in Row /\ w.name = n /\ w.tax = x
  BY <1>4 DEF Row
<1> HIDE DEF w
<1>8. DetailOf(w) = [name |-> n, tax |-> x]
  BY <1>7 DEF DetailOf
<1>9. DetailOf(old) = DetailOf(rows[p]) => DetailOf(w) = new
  BY <1>3, <1>6, <1>8
<1>11. new = DetailOf(rows[p]) => DetailOf(w) = DetailOf(old)
  BY <1>8, <1>10 DEF DetailOf
<1>. QED  BY <1>1, <1>7, <1>9, <1>11 DEF new

-----------------------------------------------------------------------------
(* Types, and rows that stay.                                              *)

LEMMA ProductsInit == Init => ProductsInv
<1> SUFFICES ASSUME Init PROVE ProductsInv
  OBVIOUS
<1>1. TypeOK
  BY ProductConstants DEF Init, TypeOK, Master, Table
<1>2. RowsStay
  BY DEF Init, RowsStay, Idle
<1>. QED  BY <1>1, <1>2 DEF ProductsInv

\* No product disappears, and a thread keeps its copy or gives it up.
LEMMA RowsStayKept ==
    ASSUME RowsStay, Rows(product) \subseteq Rows(product'),
           \A t \in Thread : thread'[t].step = "read" => thread'[t] = thread[t]
    PROVE  RowsStay'
  BY DEF RowsStay

LEMMA RowsUnchanged ==
    ASSUME UNCHANGED product
    PROVE  Rows(product) \subseteq Rows(product')
  OBVIOUS

\* One row is written, with a row.
LEMMA OneRow ==
    ASSUME TypeOK, NEW p \in Product, NEW row \in Row, product' = [product EXCEPT ![p] = row]
    PROVE  /\ product' \in Table /\ Rows(product) \subseteq Rows(product')
           /\ product'[p] = row /\ \A q \in Product \ {p} : product'[q] = product[q]
<1>1. product \in [Product -> Row \cup {NoRow}]
  BY DEF TypeOK, Table
<1>2. product'[p] = row /\ \A q \in Product \ {p} : product'[q] = product[q]
  BY <1>1
<1>3. product' \in Table
  BY <1>1 DEF Table
<1>4. row # NoRow
  BY MarkerAssumption
<1>. QED  BY <1>2, <1>3, <1>4 DEF Rows

\* A new product has the details it was made with.
LEMMA NewRowDetails ==
    ASSUME NEW d \in Detail, NEW i \in Item \cup {NoItem}, NEW linked \in BOOLEAN
    PROVE  NewRow(d, i, linked) \in Row /\ DetailOf(NewRow(d, i, linked)) = d
<1>1. d.name \in Name /\ d.tax \in Tax /\ d = [name |-> d.name, tax |-> d.tax]
  BY DEF Detail
<1>2. GuidOf(i) \in Item \cup {NoItem}
  BY DEF GuidOf
<1>3. NewRow(d, i, linked) \in Row
  BY <1>1, <1>2 DEF NewRow, Row
<1>4. DetailOf(NewRow(d, i, linked)) = [name |-> d.name, tax |-> d.tax]
  BY DEF NewRow, DetailOf
<1>. QED  BY <1>1, <1>3, <1>4

LEMMA HandMadeDetail ==
    ASSUME NEW h \in HandMade
    PROVE  h[1] \in Product /\ h[2] \in Detail
  BY ProductConstants DEF Detail

LEMMA InvLite ==
    ASSUME ProductsInv, NEW p \in Product, LiteApplies(p)
    PROVE  ProductsInv'
<1>1. /\ upserts[p] # <<>> /\ upserts[p] \in Seq(Detail)
      /\ UNCHANGED <<tally, edits, presses, product, history, syncing, thread, overlapped>>
  BY DEF LiteApplies, ProductsInv, TypeOK
<1>2. Head(upserts[p]) \in Detail /\ Tail(upserts[p]) \in Seq(Detail)
  BY <1>1
<1>3. /\ upserts' \in [Product -> Seq(Detail)]
      /\ lite' \in [Product -> Detail \cup {NoRow}]
      /\ frozen' \in [Product -> SUBSET Detail]
  BY <1>2 DEF LiteApplies, ProductsInv, TypeOK
<1>4. TypeOK'
  BY <1>1, <1>3 DEF ProductsInv, TypeOK
<1>5. RowsStay'
  BY <1>1, RowsStayKept DEF ProductsInv
<1>. QED  BY <1>4, <1>5 DEF ProductsInv

LEMMA InvByHand ==
    ASSUME ProductsInv, NEW p \in Product, NEW d \in Detail,
           GetOrCreateFranchiseProduct(p, d) \/ EnsureProduct(p, d)
    PROVE  ProductsInv'
<1>1. /\ product' = [product EXCEPT ![p] = NewRow(d, NoItem, FALSE)]
      /\ UNCHANGED <<tally, edits, presses, history, syncing, thread, overlapped>>
  BY DEF GetOrCreateFranchiseProduct, EnsureProduct
<1>2. NewRow(d, NoItem, FALSE) \in Row
  BY NewRowDetails
<1>3. product' \in Table /\ Rows(product) \subseteq Rows(product')
  BY <1>1, <1>2, OneRow DEF ProductsInv
<1>4. /\ upserts' \in [Product -> Seq(Detail)]
      /\ lite' \in [Product -> Detail \cup {NoRow}]
      /\ frozen' \in [Product -> SUBSET Detail]
  <2>1. Append(upserts[p], d) \in Seq(Detail)
    BY DEF ProductsInv, TypeOK
  <2>2. CASE GetOrCreateFranchiseProduct(p, d)
    BY <2>1, <2>2 DEF GetOrCreateFranchiseProduct, ProductsInv, TypeOK
  <2>3. CASE EnsureProduct(p, d)
    BY <2>3 DEF EnsureProduct, ProductsInv, TypeOK
  <2>. QED  BY <2>2, <2>3
<1>5. TypeOK'
  BY <1>1, <1>3, <1>4 DEF ProductsInv, TypeOK
<1>6. RowsStay'
  BY <1>1, <1>3, RowsStayKept DEF ProductsInv
<1>. QED  BY <1>5, <1>6 DEF ProductsInv

LEMMA InvFetch ==
    ASSUME ProductsInv, NEW t \in Thread, NEW job \in {"sync", "import"}, Fetch(t, job)
    PROVE  ProductsInv'
<1> DEFINE new == [step |-> "fetched", job |-> job, items |-> tally]
<1>1. /\ UNCHANGED <<tally, edits, product, history, syncing, upserts, lite, frozen, overlapped>>
      /\ thread' = [thread EXCEPT ![t] = new]
  BY DEF Fetch
<1>2. new \in Fetched /\ new.step = "fetched"
  BY DEF Fetched, ProductsInv, TypeOK
<1> HIDE DEF new
<1>6. presses' \in 0..MaxTurns
  <2>1. presses' = presses \/ (presses' = presses + 1 /\ edits + presses < MaxTurns)
    BY ProductConstants DEF Fetch, MayStart
  <2>. QED  BY <2>1, ProductConstants DEF ProductsInv, TypeOK
<1>3. TypeOK'
  BY <1>1, <1>2, <1>6 DEF ProductsInv, TypeOK
<1>4. \A s \in Thread : thread'[s].step = "read" => thread'[s] = thread[s]
  BY <1>1, <1>2 DEF ProductsInv, TypeOK
<1>5. RowsStay'
  BY <1>1, <1>4, RowsStayKept DEF ProductsInv
<1>. QED  BY <1>3, <1>5 DEF ProductsInv

LEMMA InvRead ==
    ASSUME ProductsInv, NEW t \in Thread, ReadProducts(t)
    PROVE  ProductsInv'
<1> DEFINE new == [step |-> "read", job |-> thread[t].job,
                   items |-> thread[t].items, rows |-> product]
<1>1. /\ UNCHANGED <<tally, edits, presses, product, history, syncing, upserts, lite, frozen,
                  overlapped>>
      /\ thread' = [thread EXCEPT ![t] = new] /\ thread[t].step = "fetched"
  BY DEF ReadProducts
<1>2. thread[t] \in Fetched
  BY <1>1, ThreadSteps DEF ProductsInv
<1>3. new \in Read /\ new.rows = product
  BY <1>2 DEF Fetched, Read, ProductsInv, TypeOK
<1> HIDE DEF new
<1>4. TypeOK'
  BY <1>1, <1>3 DEF ProductsInv, TypeOK
<1>5. thread'[t] = new /\ \A s \in Thread \ {t} : thread'[s] = thread[s]
  BY <1>1 DEF ProductsInv, TypeOK
<1>6. RowsStay'
  BY <1>1, <1>3, <1>5 DEF ProductsInv, RowsStay
<1>. QED  BY <1>4, <1>6 DEF ProductsInv

\* A thread that is done gives up its copy.
LEMMA ThreadDone ==
    ASSUME TypeOK, NEW t \in Thread, thread' = [thread EXCEPT ![t] = Idle]
    PROVE  /\ thread' \in [Thread -> {Idle} \cup Fetched \cup Read]
           /\ thread'[t] = Idle /\ \A s \in Thread \ {t} : thread'[s] = thread[s]
           /\ \A s \in Thread : thread'[s].step = "read" => thread'[s] = thread[s]
<1>1. thread'[t] = Idle /\ \A s \in Thread \ {t} : thread'[s] = thread[s]
  BY DEF TypeOK
<1>2. Idle.step = "idle"
  BY DEF Idle
<1>3. thread' \in [Thread -> {Idle} \cup Fetched \cup Read]
  BY DEF TypeOK
<1>. QED  BY <1>1, <1>2, <1>3

\* What a sync does to the tables, row by row.
LEMMA SyncEffect ==
    ASSUME ProductsInv, NEW t \in Thread, ApplyTallyStockItems(t)
    PROVE  LET rows  == thread[t].rows
               items == thread[t].items IN
           /\ rows \in Table /\ items \in Master /\ thread[t].job = "sync"
           /\ \A p \in Found(rows, items) : product[p] \in Row
           /\ product' \in Table /\ Rows(product) \subseteq Rows(product')
           /\ \A p \in Product :
                 product'[p] = IF p \in Found(rows, items) THEN Written(rows, items, p)
                               ELSE product[p]
           /\ history' \in [Product -> SUBSET Detail]
           /\ \A p \in Product :
                 history'[p] = IF p \in Changed(rows, items)
                               THEN history[p] \cup {DetailOf(rows[p])} ELSE history[p]
           /\ upserts' \in [Product -> Seq(Detail)]
           /\ \A p \in Product :
                 upserts'[p] = IF p \in Changed(rows, items)
                               THEN Append(upserts[p], TargetOf(rows, items, p))
                               ELSE upserts[p]
<1> DEFINE rows  == thread[t].rows
           items == thread[t].items
<1>1. thread[t].step = "read" /\ thread[t].job = "sync"
  BY DEF ApplyTallyStockItems
<1>2. rows \in Table /\ items \in Master /\ \A p \in Rows(rows) : product[p] \in Row
  BY <1>1, CopiedRow
<1>3. /\ product' = [p \in Product |-> IF p \in Found(rows, items)
                                       THEN Written(rows, items, p) ELSE product[p]]
      /\ history' = [p \in Product |-> IF p \in Changed(rows, items)
                                       THEN history[p] \cup {DetailOf(rows[p])}
                                       ELSE history[p]]
      /\ upserts' = [p \in Product |-> IF p \in Changed(rows, items)
                                       THEN Append(upserts[p], TargetOf(rows, items, p))
                                       ELSE upserts[p]]
  BY DEF ApplyTallyStockItems, Replaced
<1>4. Changed(rows, items) \subseteq Found(rows, items)
  BY DEF Changed
<1> HIDE DEF rows, items
<1>5. ASSUME NEW p \in Found(rows, items)
      PROVE  /\ product[p] \in Row /\ Written(rows, items, p) \in Row
             /\ DetailOf(rows[p]) \in Detail /\ TargetOf(rows, items, p) \in Detail
  <2>1. p \in Rows(rows) /\ DetailOf(rows[p]) \in Detail /\ TargetOf(rows, items, p) \in Detail
    BY <1>2, TargetIsDetail
  <2>2. product[p] \in Row
    BY <1>2, <2>1
  <2>. QED  BY <1>2, <2>1, <2>2, WrittenRow
<1>6. product' \in Table
  BY <1>3, <1>5 DEF Table, ProductsInv, TypeOK
<1>7. Rows(product) \subseteq Rows(product')
  BY <1>3, <1>5, MarkerAssumption DEF Rows
<1>8. history' \in [Product -> SUBSET Detail]
  <2>1. \A p \in Product : history[p] \in SUBSET Detail
    BY DEF ProductsInv, TypeOK
  <2>2. \A p \in Changed(rows, items) : DetailOf(rows[p]) \in Detail
    BY <1>4, <1>5
  <2>3. \A p \in Product : (IF p \in Changed(rows, items)
                            THEN history[p] \cup {DetailOf(rows[p])}
                            ELSE history[p]) \in SUBSET Detail
    BY <2>1, <2>2
  <2>. QED  BY <1>3, <2>3
<1>9. upserts' \in [Product -> Seq(Detail)]
  <2>1. \A p \in Product : upserts[p] \in Seq(Detail)
    BY DEF ProductsInv, TypeOK
  <2>2. \A p \in Product : p \in Changed(rows, items) =>
           Append(upserts[p], TargetOf(rows, items, p)) \in Seq(Detail)
    BY <1>4, <1>5, <2>1
  <2>. QED  BY <1>3, <2>1, <2>2
<1>10. \A p \in Product :
          /\ product'[p] = IF p \in Found(rows, items) THEN Written(rows, items, p)
                           ELSE product[p]
          /\ history'[p] = IF p \in Changed(rows, items)
                           THEN history[p] \cup {DetailOf(rows[p])} ELSE history[p]
          /\ upserts'[p] = IF p \in Changed(rows, items)
                           THEN Append(upserts[p], TargetOf(rows, items, p)) ELSE upserts[p]
  BY <1>3
<1>. QED  BY <1>1, <1>2, <1>5, <1>6, <1>7, <1>8, <1>9, <1>10 DEF rows, items

LEMMA InvSync ==
    ASSUME ProductsInv, NEW t \in Thread, ApplyTallyStockItems(t)
    PROVE  ProductsInv'
<1>1. /\ thread' = [thread EXCEPT ![t] = Idle]
      /\ UNCHANGED <<tally, edits, presses, syncing, lite, frozen>>
      /\ overlapped' = overlapped \cup Unread(thread[t].rows, thread[t].items)
  BY DEF ApplyTallyStockItems
<1>2. /\ product' \in Table /\ Rows(product) \subseteq Rows(product')
      /\ history' \in [Product -> SUBSET Detail] /\ upserts' \in [Product -> Seq(Detail)]
  BY SyncEffect
<1>3. /\ thread' \in [Thread -> {Idle} \cup Fetched \cup Read]
      /\ \A s \in Thread : thread'[s].step = "read" => thread'[s] = thread[s]
  BY <1>1, ThreadDone DEF ProductsInv
<1>6. overlapped' \subseteq Product
  <2>1. Unread(thread[t].rows, thread[t].items) \subseteq Product
    BY DEF Unread, Changed, Found, Rows
  <2>. QED  BY <1>1, <2>1 DEF ProductsInv, TypeOK
<1>4. TypeOK'
  BY <1>1, <1>2, <1>3, <1>6 DEF ProductsInv, TypeOK
<1>5. RowsStay'
  BY <1>2, <1>3, RowsStayKept DEF ProductsInv
<1>. QED  BY <1>4, <1>5 DEF ProductsInv

\* An item that can be imported has tax details.
LEMMA ImportableDetail ==
    ASSUME NEW items \in Master, NEW i \in Importable(items)
    PROVE  i \in Item /\ items[i] \in Detail /\ CodeFor[items[i].name] \in Product
<1>1. i \in Item /\ items[i] \in Entry /\ items[i].tax # NoTax
  BY DEF Importable, ImportBlocker, Master
<1>2. items[i] \in Detail /\ items[i].name \in Name
  BY <1>1 DEF Entry, Detail
<1>. QED  BY <1>1, <1>2, ProductConstants

\* A link keeps the details of the product it links.
LEMMA LinkEffect ==
    ASSUME ProductsInv, NEW t \in Thread, NEW i \in Item, thread[t].step = "read",
           i \in Importable(thread[t].items), Link(t, i)
    PROVE  \E p \in Product, row \in Row :
              /\ product' = [product EXCEPT ![p] = row]
              /\ product[p] # NoRow /\ DetailOf(row) = DetailOf(product[p])
<1> DEFINE rows == thread[t].rows
           e == thread[t].items[i]
<1>1. /\ rows \in Table /\ thread[t].items \in Master
      /\ \A p \in Rows(rows) : p \in Product /\ product[p] \in Row
  BY CopiedRow
<1>2. e \in Detail /\ CodeFor[e.name] \in Product
  BY <1>1, ImportableDetail
<1>3. PICK p \in Existing(rows, e) :
         product' = [product EXCEPT ![p].linked = TRUE,
                                    ![p].guid = IF rows[p].guid = NoItem /\ i \in Guids
                                                THEN i ELSE @]
  BY DEF Link
<1>4. p \in Rows(rows)
  BY <1>2 DEF Existing, Rows
<1>5. p \in Product /\ product[p] \in Row /\ product \in [Product -> Row \cup {NoRow}]
  BY <1>1, <1>4 DEF ProductsInv, TypeOK, Table
<1> DEFINE g == IF rows[p].guid = NoItem /\ i \in Guids THEN i ELSE product[p].guid
           row == [product[p] EXCEPT !.linked = TRUE, !.guid = g]
<1>6. product' = [product EXCEPT ![p] = row]
  <2>1. [product EXCEPT ![p].linked = TRUE][p].guid = product[p].guid
    BY <1>5 DEF Row
  <2>. QED  BY <1>3, <1>5, <2>1
<1>7. g \in Item \cup {NoItem}
  BY <1>5 DEF Row
<1> HIDE DEF g
<1>8. row \in Row /\ row.name = product[p].name /\ row.tax = product[p].tax
  BY <1>5, <1>7 DEF Row
<1> HIDE DEF row
<1>9. DetailOf(row) = DetailOf(product[p])
  BY <1>8 DEF DetailOf
<1>. QED  BY <1>5, <1>6, <1>8, <1>9, MarkerAssumption

\* A product that is created is a new row with the item's details, and Lite
\* is told.
LEMMA CreateEffect ==
    ASSUME ProductsInv, NEW t \in Thread, NEW i \in Item, thread[t].step = "read",
           i \in Importable(thread[t].items), Create(t, i)
    PROVE  \E p \in Product, d \in Detail :
              /\ product[p] = NoRow
              /\ product' = [product EXCEPT ![p] = NewRow(d, i, TRUE)]
              /\ upserts' = [upserts EXCEPT ![p] = Append(upserts[p], d)]
<1>1. thread[t].items \in Master
  BY CopiedRow
<1>2. thread[t].items[i] \in Detail /\ CodeFor[thread[t].items[i].name] \in Product
  BY <1>1, ImportableDetail
<1>. QED  BY <1>2 DEF Create

LEMMA InvImport ==
    ASSUME ProductsInv, NEW t \in Thread, NEW i \in Item, ImportTallyProducts(t, i)
    PROVE  ProductsInv'
<1>1. /\ thread[t].step = "read" /\ i \in Importable(thread[t].items)
      /\ thread' = [thread EXCEPT ![t] = Idle]
      /\ UNCHANGED <<tally, edits, presses, history, syncing, lite, frozen, overlapped>>
  BY DEF ImportTallyProducts
<1>2. /\ product' \in Table /\ Rows(product) \subseteq Rows(product')
      /\ upserts' \in [Product -> Seq(Detail)]
  <2>1. CASE Link(t, i)
    <3>1. PICK p \in Product, row \in Row : product' = [product EXCEPT ![p] = row]
      BY <1>1, <2>1, LinkEffect
    <3>2. upserts' \in [Product -> Seq(Detail)]
      BY <2>1 DEF Link, ProductsInv, TypeOK
    <3>. QED  BY <3>1, <3>2, OneRow DEF ProductsInv
  <2>2. CASE Create(t, i)
    <3>1. PICK p \in Product, d \in Detail :
             /\ product[p] = NoRow
             /\ product' = [product EXCEPT ![p] = NewRow(d, i, TRUE)]
             /\ upserts' = [upserts EXCEPT ![p] = Append(upserts[p], d)]
      BY <1>1, <2>2, CreateEffect
    <3>2. NewRow(d, i, TRUE) \in Row
      BY NewRowDetails
    <3>3. upserts' \in [Product -> Seq(Detail)]
      BY <3>1 DEF ProductsInv, TypeOK
    <3>. QED  BY <3>1, <3>2, <3>3, OneRow DEF ProductsInv
  <2>3. CASE CreateConflicts(t, i)
    BY <2>3 DEF CreateConflicts, ProductsInv, TypeOK
  <2>. QED  BY <2>1, <2>2, <2>3 DEF ImportTallyProducts
<1>3. /\ thread' \in [Thread -> {Idle} \cup Fetched \cup Read]
      /\ \A s \in Thread : thread'[s].step = "read" => thread'[s] = thread[s]
  BY <1>1, ThreadDone DEF ProductsInv
<1>4. TypeOK'
  BY <1>1, <1>2, <1>3 DEF ProductsInv, TypeOK
<1>5. RowsStay'
  BY <1>2, <1>3, RowsStayKept DEF ProductsInv
<1>. QED  BY <1>4, <1>5 DEF ProductsInv

LEMMA ProductsNext == ProductsInv /\ [Next]_vars => ProductsInv'
<1> SUFFICES ASSUME ProductsInv, [Next]_vars PROVE ProductsInv'
  OBVIOUS
<1>1. ASSUME TypeOK', UNCHANGED <<product, thread>>
      PROVE  ProductsInv'
  BY <1>1, RowsStayKept DEF ProductsInv
<1>2. CASE UNCHANGED vars
  <2>1. TypeOK'
    BY <1>2 DEF vars, ProductsInv, TypeOK
  <2>. QED  BY <1>1, <1>2, <2>1 DEF vars
<1>3. ASSUME NEW i \in Item, NEW e \in Entry \cup {Gone}, EditTally(i, e)
      PROVE  ProductsInv'
  <2>1. tally' \in Master /\ edits' \in 0..MaxTurns
    BY <1>3, ProductConstants DEF EditTally, ProductsInv, TypeOK, Master
  <2>2. TypeOK'
    BY <1>3, <2>1 DEF EditTally, ProductsInv, TypeOK
  <2>. QED  BY <1>1, <1>3, <2>2 DEF EditTally
<1>4. ASSUME NEW on \in BOOLEAN, SaveSyncSettings(on)
      PROVE  ProductsInv'
  <2>1. TypeOK'
    BY <1>4 DEF SaveSyncSettings, ProductsInv, TypeOK
  <2>. QED  BY <1>1, <1>4, <2>1 DEF SaveSyncSettings
<1>5. ASSUME NEW h \in HandMade,
             GetOrCreateFranchiseProduct(h[1], h[2]) \/ EnsureProduct(h[1], h[2])
      PROVE  ProductsInv'
  BY <1>5, HandMadeDetail, InvByHand
<1>6. ASSUME NEW t \in Thread, ImportNothing(t)
      PROVE  ProductsInv'
  <2>1. /\ thread' \in [Thread -> {Idle} \cup Fetched \cup Read]
        /\ \A s \in Thread : thread'[s].step = "read" => thread'[s] = thread[s]
    BY <1>6, ThreadDone DEF ImportNothing, ProductsInv
  <2>2. TypeOK'
    BY <1>6, <2>1 DEF ImportNothing, ProductsInv, TypeOK
  <2>3. RowsStay'
    BY <1>6, <2>1, RowsStayKept DEF ImportNothing, ProductsInv
  <2>. QED  BY <2>2, <2>3 DEF ProductsInv
<1>. QED
  BY <1>2, <1>3, <1>4, <1>5, <1>6, InvLite, InvFetch, InvRead, InvSync, InvImport DEF Next

\* Type correctness, also with old copies of Tally and of the products: no
\* product loses its tax details and no write hits a row that is gone
\* (apply_tally_stock_items and import_tally_products).
THEOREM TypeCorrect == Spec => []TypeOK
<1>1. ProductsInv => TypeOK
  BY DEF ProductsInv
<1>. QED  BY <1>1, ProductsInit, ProductsNext, PTL DEF Spec

-----------------------------------------------------------------------------
(* Accepted events.                                                        *)

LEMMA AcceptInit == Init => SentAccepted
<1> SUFFICES ASSUME Init PROVE SentAccepted
  OBVIOUS
<1>1. \A p \in Product : Sent(p) = {}
  BY DEF Init, Sent
<1>. QED  BY <1>1 DEF SentAccepted

\* One product's upserts grow by the details d.
LEMMA SentOneMore ==
    ASSUME TypeOK, NEW p \in Product, NEW d \in Detail,
           upserts'[p] = Append(upserts[p], d), frozen'[p] = frozen[p]
    PROVE  \A c \in Sent(p)' : c \in Sent(p) \/ c = d
<1>1. upserts[p] \in Seq(Detail)
  BY DEF TypeOK
<1>2. /\ Len(upserts'[p]) = Len(upserts[p]) + 1 /\ Len(upserts[p]) \in Nat
      /\ \A k \in 1..Len(upserts[p]) : upserts'[p][k] = upserts[p][k]
      /\ upserts'[p][Len(upserts[p]) + 1] = d
  BY <1>1
<1>3. \A k \in 1..Len(upserts'[p]) : k \in 1..Len(upserts[p]) \/ k = Len(upserts[p]) + 1
  BY <1>2
<1>. QED  BY <1>2, <1>3 DEF Sent

LEMMA SentUnchanged ==
    ASSUME NEW p \in Product, upserts'[p] = upserts[p], frozen'[p] = frozen[p]
    PROVE  Sent(p)' = Sent(p)
  BY DEF Sent

\* A product that keeps its details and its history accepts what it did.
LEMMA AcceptsKept ==
    ASSUME NEW p \in Product, NEW d, Accepts(p, d), product'[p] # NoRow,
           history[p] \subseteq history'[p],
           DetailOf(product'[p]) = DetailOf(product[p])
              \/ DetailOf(product[p]) \in history'[p]
    PROVE  Accepts(p, d)'
  BY DEF Accepts

\* Nothing is sent and no row changes its details.
LEMMA AcceptOthers ==
    ASSUME SentAccepted, UNCHANGED <<product, history, upserts, frozen, overlapped>>
    PROVE  SentAccepted'
  BY DEF SentAccepted, Sent, Accepts

LEMMA AcceptLite ==
    ASSUME ProductsInv, SentAccepted, NEW p \in Product, LiteApplies(p)
    PROVE  SentAccepted'
<1>1. /\ UNCHANGED <<product, history, overlapped>>
      /\ upserts[p] # <<>> /\ upserts[p] \in Seq(Detail)
  BY DEF LiteApplies, ProductsInv, TypeOK
<1>2. ASSUME NEW q \in Product
      PROVE  Sent(q)' \subseteq Sent(q)
  <2>1. CASE q # p
    BY <2>1 DEF LiteApplies, Sent, ProductsInv, TypeOK
  <2>2. CASE q = p
    <3>1. /\ upserts'[p] = Tail(upserts[p])
          /\ frozen'[p] = frozen[p] \cup {Head(upserts[p])}
      BY DEF LiteApplies, ProductsInv, TypeOK
    <3>2. Head(upserts[p]) = upserts[p][1] /\ 1 \in 1..Len(upserts[p])
      BY <1>1
    <3>3. \A k \in 1..Len(Tail(upserts[p])) :
             Tail(upserts[p])[k] = upserts[p][k + 1] /\ k + 1 \in 1..Len(upserts[p])
      BY <1>1
    <3>. QED  BY <2>2, <3>1, <3>2, <3>3 DEF Sent
  <2>. QED  BY <2>1, <2>2
<1>. QED  BY <1>1, <1>2 DEF SentAccepted, Accepts

\* A product is made with the details d; Lite has them or is told.
LEMMA AcceptNewProduct ==
    ASSUME ProductsInv, SentAccepted, NEW p \in Product, NEW d \in Detail,
           NEW i \in Item \cup {NoItem}, NEW linked \in BOOLEAN,
           product[p] = NoRow, product' = [product EXCEPT ![p] = NewRow(d, i, linked)],
           UNCHANGED <<history, overlapped>>,
           \A q \in Product : \A c \in Sent(q)' : c \in Sent(q) \/ (q = p /\ c = d)
    PROVE  SentAccepted'
<1>1. NewRow(d, i, linked) \in Row /\ DetailOf(NewRow(d, i, linked)) = d
  BY NewRowDetails
<1>2. /\ product'[p] = NewRow(d, i, linked) /\ product'[p] # NoRow
      /\ \A q \in Product \ {p} : product'[q] = product[q]
  BY <1>1, OneRow, MarkerAssumption DEF ProductsInv
<1>3. ASSUME NEW q \in Product \ overlapped, NEW c \in Sent(q)'
      PROVE  Accepts(q, c)'
  <2>1. CASE c \in Sent(q)
    <3>1. Accepts(q, c)
      BY <2>1 DEF SentAccepted
    <3>2. q # p
      BY <3>1 DEF Accepts
    <3>. QED  BY <1>2, <3>1, <3>2 DEF Accepts
  <2>2. CASE q = p /\ c = d
    BY <1>1, <1>2, <2>2 DEF Accepts
  <2>. QED  BY <2>1, <2>2
<1>. QED  BY <1>3 DEF SentAccepted

LEMMA AcceptByHand ==
    ASSUME ProductsInv, SentAccepted, NEW p \in Product, NEW d \in Detail,
           GetOrCreateFranchiseProduct(p, d) \/ EnsureProduct(p, d)
    PROVE  SentAccepted'
<1>1. /\ product[p] = NoRow /\ product' = [product EXCEPT ![p] = NewRow(d, NoItem, FALSE)]
      /\ UNCHANGED <<history, overlapped>>
  BY DEF GetOrCreateFranchiseProduct, EnsureProduct
<1>2. ASSUME NEW q \in Product, NEW c \in Sent(q)'
      PROVE  c \in Sent(q) \/ (q = p /\ c = d)
  <2>1. CASE GetOrCreateFranchiseProduct(p, d)
    <3>1. /\ upserts'[p] = Append(upserts[p], d) /\ frozen' = frozen
          /\ \A r \in Product \ {p} : upserts'[r] = upserts[r]
      BY <2>1 DEF GetOrCreateFranchiseProduct, ProductsInv, TypeOK
    <3>2. CASE q = p
      <4>1. \A e \in Sent(p)' : e \in Sent(p) \/ e = d
        BY <3>1, SentOneMore DEF ProductsInv
      <4>. QED  BY <1>2, <3>2, <4>1
    <3>3. CASE q # p
      <4>1. Sent(q)' = Sent(q)
        BY <3>1, <3>3, SentUnchanged
      <4>. QED  BY <1>2, <4>1
    <3>. QED  BY <3>2, <3>3
  <2>2. CASE EnsureProduct(p, d)
    <3>1. /\ frozen'[p] = frozen[p] \cup {d} /\ upserts' = upserts
          /\ \A r \in Product \ {p} : frozen'[r] = frozen[r]
      BY <2>2 DEF EnsureProduct, ProductsInv, TypeOK
    <3>. QED  BY <1>2, <3>1 DEF Sent
  <2>. QED  BY <2>1, <2>2
<1>. QED  BY <1>1, <1>2, AcceptNewProduct

LEMMA AcceptImport ==
    ASSUME ProductsInv, SentAccepted, NEW t \in Thread, NEW i \in Item, ImportTallyProducts(t, i)
    PROVE  SentAccepted'
<1>1. /\ thread[t].step = "read" /\ i \in Importable(thread[t].items)
      /\ UNCHANGED <<history, frozen, overlapped>>
  BY DEF ImportTallyProducts
<1>3. CASE Link(t, i)
  <2>1. PICK p \in Product, row \in Row :
           /\ product' = [product EXCEPT ![p] = row]
           /\ product[p] # NoRow /\ DetailOf(row) = DetailOf(product[p])
    BY <1>1, <1>3, LinkEffect
  <2>2. product'[p] = row /\ \A q \in Product \ {p} : product'[q] = product[q]
    BY <2>1, OneRow DEF ProductsInv
  <2>3. \A q \in Product : /\ product[q] # NoRow => product'[q] # NoRow
                           /\ DetailOf(product'[q]) = DetailOf(product[q])
    BY <2>1, <2>2, MarkerAssumption
  <2>4. upserts' = upserts
    BY <1>3 DEF Link
  <2>5. ASSUME NEW q \in Product \ overlapped, NEW d \in Sent(q)' PROVE Accepts(q, d)'
    <3>1. Sent(q)' = Sent(q)
      BY <1>1, <2>4, SentUnchanged
    <3>2. Accepts(q, d)
      BY <2>5, <3>1 DEF SentAccepted
    <3>. QED  BY <1>1, <2>3, <3>2 DEF Accepts
  <2>. QED  BY <1>1, <2>5 DEF SentAccepted
<1>4. CASE Create(t, i)
  <2>1. PICK p \in Product, d \in Detail :
           /\ product[p] = NoRow
           /\ product' = [product EXCEPT ![p] = NewRow(d, i, TRUE)]
           /\ upserts' = [upserts EXCEPT ![p] = Append(upserts[p], d)]
    BY <1>1, <1>4, CreateEffect
  <2>2. /\ upserts'[p] = Append(upserts[p], d)
        /\ \A q \in Product \ {p} : upserts'[q] = upserts[q]
    BY <2>1 DEF ProductsInv, TypeOK
  <2>3. \A c \in Sent(p)' : c \in Sent(p) \/ c = d
    BY <1>1, <2>2, SentOneMore DEF ProductsInv
  <2>4. \A q \in Product \ {p} : Sent(q)' = Sent(q)
    BY <1>1, <2>2, SentUnchanged
  <2>5. \A q \in Product : \A c \in Sent(q)' : c \in Sent(q) \/ (q = p /\ c = d)
    BY <2>3, <2>4
  <2>. QED  BY <1>1, <2>1, <2>5, AcceptNewProduct
<1>5. CASE CreateConflicts(t, i)
  BY <1>1, <1>5, AcceptOthers DEF CreateConflicts
<1>. QED  BY <1>3, <1>4, <1>5 DEF ImportTallyProducts

\* A sync that replaces details it has read right puts them into the history
\* and tells Lite the ones it writes; a product whose details it replaces
\* unread is overlapped from then on.
LEMMA AcceptSync ==
    ASSUME ProductsInv, SentAccepted, NEW t \in Thread, ApplyTallyStockItems(t)
    PROVE  SentAccepted'
<1> DEFINE rows  == thread[t].rows
           items == thread[t].items
<1>1. frozen' = frozen /\ overlapped' = overlapped \cup Unread(rows, items)
  BY DEF ApplyTallyStockItems
<1>2. /\ rows \in Table /\ items \in Master
      /\ \A p \in Found(rows, items) : product[p] \in Row
      /\ Rows(product) \subseteq Rows(product')
  BY SyncEffect
<1>3. /\ \A p \in Product :
            product'[p] = IF p \in Found(rows, items) THEN Written(rows, items, p)
                          ELSE product[p]
      /\ \A p \in Product :
            history'[p] = IF p \in Changed(rows, items)
                          THEN history[p] \cup {DetailOf(rows[p])} ELSE history[p]
      /\ \A p \in Product :
            upserts'[p] = IF p \in Changed(rows, items)
                          THEN Append(upserts[p], TargetOf(rows, items, p)) ELSE upserts[p]
  BY SyncEffect
<1>4. \A p \in Product \ overlapped' :
         p \in Changed(rows, items) => DetailOf(product[p]) = DetailOf(rows[p])
  BY <1>1 DEF Unread
<1> HIDE DEF rows, items
<1>6. ASSUME NEW p \in Product \ overlapped'
      PROVE  /\ history[p] \subseteq history'[p]
             /\ DetailOf(product'[p]) = DetailOf(product[p])
                   \/ DetailOf(product[p]) \in history'[p]
             /\ p \in Changed(rows, items) =>
                   /\ TargetOf(rows, items, p) \in Detail
                   /\ DetailOf(product'[p]) = TargetOf(rows, items, p)
                   /\ p \in Rows(product)
  <2>1. history[p] \subseteq history'[p]
    BY <1>3
  <2>2. CASE p \in Found(rows, items) /\ p \notin Changed(rows, items)
    <3>1. TargetOf(rows, items, p) = DetailOf(rows[p]) /\ product[p] \in Row
      BY <1>2, <2>2 DEF Changed
    <3>2. DetailOf(product'[p]) = DetailOf(product[p])
      BY <1>2, <1>3, <2>2, <3>1, WrittenRow
    <3>. QED  BY <2>1, <2>2, <3>2
  <2>4. CASE p \in Changed(rows, items)
    <3>0. p \in Found(rows, items)
      BY <2>4 DEF Changed
    <3>1. p \in Rows(rows) /\ TargetOf(rows, items, p) \in Detail
      BY <1>2, <3>0, TargetIsDetail
    <3>2. DetailOf(product[p]) = DetailOf(rows[p]) /\ product[p] \in Row
      BY <1>2, <1>4, <2>4, <3>0
    <3>3. DetailOf(product'[p]) = TargetOf(rows, items, p)
      BY <1>2, <1>3, <3>0, <3>2, WrittenRow
    <3>5. DetailOf(rows[p]) \in history'[p]
      BY <1>3, <2>4
    <3>6. p \in Rows(product)
      BY <3>2, MarkerAssumption DEF Rows
    <3>. QED  BY <2>1, <3>1, <3>2, <3>3, <3>5, <3>6
  <2>3. CASE p \notin Found(rows, items)
    <3>1. product'[p] = product[p] /\ p \notin Changed(rows, items)
      BY <1>3, <2>3 DEF Changed
    <3>. QED  BY <2>1, <3>1
  <2>. QED  BY <2>2, <2>3, <2>4
<1>7. ASSUME NEW p \in Product \ overlapped', NEW d \in Sent(p)'
      PROVE  Accepts(p, d)'
  <2>0. p \notin overlapped
    BY <1>1
  <2>1. CASE d \in Sent(p)
    <3>1. Accepts(p, d)
      BY <2>0, <2>1 DEF SentAccepted
    <3>2. product'[p] # NoRow
      BY <1>2, <3>1 DEF Accepts, Rows
    <3>. QED  BY <1>6, <3>1, <3>2, AcceptsKept
  <2>2. CASE d \notin Sent(p)
    <3>1. p \in Changed(rows, items)
      <4>1. ASSUME p \notin Changed(rows, items) PROVE FALSE
        <5>1. upserts'[p] = upserts[p] /\ frozen'[p] = frozen[p]
          BY <1>1, <1>3, <4>1
        <5>. QED  BY <1>7, <2>2, <5>1, SentUnchanged
      <4>. QED  BY <4>1
    <3>2. upserts'[p] = Append(upserts[p], TargetOf(rows, items, p)) /\ frozen'[p] = frozen[p]
      BY <1>1, <1>3, <3>1
    <3>3. TargetOf(rows, items, p) \in Detail
      BY <1>6, <3>1
    <3>4. \A c \in Sent(p)' : c \in Sent(p) \/ c = TargetOf(rows, items, p)
      BY <3>2, <3>3, SentOneMore DEF ProductsInv
    <3>5. d = TargetOf(rows, items, p)
      BY <1>7, <2>2, <3>4
    <3>6. DetailOf(product'[p]) = d /\ product'[p] # NoRow
      BY <1>2, <1>6, <3>1, <3>5 DEF Rows
    <3>. QED  BY <3>6 DEF Accepts
  <2>. QED  BY <2>1, <2>2
<1>. QED  BY <1>7 DEF SentAccepted

LEMMA AcceptNext ==
    ASSUME ProductsInv, SentAccepted, [Next]_vars
    PROVE  SentAccepted'
<1>1. ASSUME NEW h \in HandMade,
             GetOrCreateFranchiseProduct(h[1], h[2]) \/ EnsureProduct(h[1], h[2])
      PROVE  SentAccepted'
  BY <1>1, HandMadeDetail, AcceptByHand
<1>2. CASE \/ UNCHANGED vars
           \/ \E i \in Item, e \in Entry \cup {Gone} : EditTally(i, e)
           \/ \E on \in BOOLEAN : SaveSyncSettings(on)
           \/ \E t \in Thread, job \in {"sync", "import"} : Fetch(t, job)
           \/ \E t \in Thread : ReadProducts(t) \/ ImportNothing(t)
  <2>1. UNCHANGED <<product, history, upserts, frozen, overlapped>>
    BY <1>2 DEF vars, EditTally, SaveSyncSettings, Fetch, ReadProducts, ImportNothing
  <2>. QED  BY <2>1, AcceptOthers
<1>. QED  BY <1>1, <1>2, AcceptLite, AcceptSync, AcceptImport DEF Next

\* Whatever details Master ever sent Lite are current or in the history, so an
\* event that Lite froze before it applied a change is accepted
\* (apply_tally_stock_items and _validate_snapshot_product_identity), unless a
\* sync replaced details of the product that changed after it had read them.
THEOREM EventsAcceptedHolds == Spec => []EventsAccepted
<1>1. ProductsInv /\ SentAccepted /\ [Next]_vars => SentAccepted'
  BY AcceptNext
<1>2. SentAccepted => EventsAccepted
  BY DEF SentAccepted, Sent, EventsAccepted
<1>. QED  BY <1>1, <1>2, ProductsInit, ProductsNext, AcceptInit, PTL DEF Spec
=============================================================================
