------------------------------- MODULE Catalog -------------------------------
(***************************************************************************)
(* The loose products of one batch and their prices: ProductsService (what  *)
(* admins do and what the storefront shows), ProductsImportService,         *)
(* SupplierSyncService.reconcile, and the part of OrdersService that takes  *)
(* a loose item into an order.                                              *)
(*                                                                          *)
(* An edit of a product and applyPricingPolicy read rows, change them in    *)
(* memory and save them; save reads the rows again and updates the columns  *)
(* that differ.  An import previews, then commits.  One statement, or one   *)
(* transaction that reads nothing before it begins, is one step.            *)
(*                                                                          *)
(* A product is named by its SKU, and a SKU has one name.  Quantity limits, *)
(* categories, images and the prices of the products table are left out.    *)
(***************************************************************************)
EXTENDS PricingPolicy, Sequences

CONSTANTS
  Requests,  \* admin requests in flight
  Products,  \* SKUs
  Names,     \* product names, which are also the slugs made of them
  NameOf,    \* the name of each SKU
  Offers,    \* bound: Offers[p] is what an admin publishes for p
  Files,     \* bound: the files that are imported
  Snapshots  \* bound: what the supplier's snapshots say of Products

ASSUME NamesAssumption ==
  NameOf \in [Products -> Names] /\ Names \cap Products = {}

PoStatus == {"available", "limited", "sold_out", "hidden"}

\* A price row; the market price is 0 where it is null.
PriceRows ==
  [basePrice : Nat, margin : Nat, market : Nat, poStatus : PoStatus]

NoPrice == [basePrice |-> 0, margin |-> 0, market |-> 0, poStatus |-> "none"]

\* A row of a file, valid but for what the database says.
FileRows == [sku : Products, basePrice : Nat, margin : Nat,
             poStatus : PoStatus]

\* A row of a snapshot; a margin the supplier does not send is -1.
Unset == -1

SnapshotRows ==
  [available : BOOLEAN, basePrice : Nat, margin : Nat \cup {Unset}]

ASSUME BoundAssumption ==
  /\ \A p \in Products : Offers[p] \subseteq PriceRows
  /\ Files \subseteq Seq(FileRows)
  /\ \A s \in Snapshots :
       /\ DOMAIN s \subseteq Products
       /\ \A p \in DOMAIN s : s[p] \in SnapshotRows

VARIABLES
  product,  \* the products table
  price,    \* the batch's rows of product_batch_prices
  task,     \* task[r]: what request r holds across an await
  inStock,  \* history: what the last snapshot called available
  torn,     \* history: products an edit had in memory at the last sync
  reopened, \* history: prices written after the last sync, or over it
  calm      \* history: requests since whose read nobody wrote

vars == <<product, price, task, inStock, torn, reopened, calm>>

history == <<inStock, torn, reopened>>

-----------------------------------------------------------------------------
(* Data *)

ProductRows ==
  [state             : {"none", "live", "deleted"}, \* deleted_at, once inserted
   isActive          : BOOLEAN,
   external          : BOOLEAN,   \* has a supplier_external_id
   supplierAvailable : BOOLEAN,
   slug              : Names \cup Products] \* with the SKU after a collision

NoProduct(p) == [state |-> "none", isActive |-> FALSE, external |-> FALSE,
                 supplierAvailable |-> TRUE, slug |-> NameOf[p]]

ProductColumns == {"state", "isActive", "external", "supplierAvailable", "slug"}

PriceColumns == {"basePrice", "margin", "market", "poStatus"}

Idle == [kind |-> "idle"]

EditTasks ==
  [kind : {"edit"}, stage : {"save", "write"}, product : Products,
   mem  : ProductRows,           \* the entity
   cols : SUBSET ProductColumns] \* the columns save found to differ

PolicyTasks ==
  [kind  : {"policy"}, stage : {"save", "write"},
   mem   : [Products -> PriceRows \cup {NoPrice}],
   cells : [Products -> SUBSET PriceColumns]]

ImportTasks ==
  [kind    : {"import"}, file : Files,
   valid   : SUBSET Nat,  \* the rows the preview did not flag
   creates : SUBSET Nat]  \* and those it shows as new products

Exists(p) == product[p].state # "none"

Live(p) == product[p].state = "live"

Priced(p) == price[p] # NoPrice

Edits(r, p) == task[r].kind = "edit" /\ task[r].product = p

\* Request r runs applyPricingPolicy and holds p's row.
Reprices(r, p) == task[r].kind = "policy" /\ task[r].mem[p] # NoPrice

Init ==
  /\ product = [p \in Products |-> NoProduct(p)]
  /\ price = [p \in Products |-> NoPrice]
  /\ task = [r \in Requests |-> Idle]
  /\ inStock = {} /\ torn = {} /\ reopened = {}
  /\ calm = {}

-----------------------------------------------------------------------------
(* What customers see, and what checkout takes *)

\* The joins leave deleted products out.
OnShelf(p) ==
  Priced(p) /\ Live(p) /\ product[p].isActive /\ price[p].poStatus # "hidden"

\* The subquery that hides a manual product behind its supplier twin is SQL
\* text: it does not leave deleted twins out.
Supersedes(q, p) ==
  /\ q # p /\ Exists(q) /\ Priced(q)
  /\ product[q].isActive /\ price[q].poStatus # "hidden"
  /\ product[q].external /\ ~product[p].external
  /\ NameOf[q] = NameOf[p]

Listed(p) == OnShelf(p) /\ \A q \in Products : ~Supersedes(q, p)

\* Faulty: the supplier's word is not asked.
AcceptsUnsupplied(p) ==
  Priced(p) /\ Live(p) /\ product[p].isActive
    /\ price[p].poStatus \notin {"sold_out", "hidden"}

\* resolveLines takes p as a loose item.
Accepts(p) ==
  /\ Priced(p) /\ Live(p)
  /\ product[p].isActive /\ product[p].supplierAvailable
  /\ price[p].poStatus \notin {"sold_out", "hidden"}

-----------------------------------------------------------------------------
(* ProductsService *)

\* A product is made by hand; deleted ones keep their SKU and slug.
Create(p, active) ==
  /\ ~Exists(p)
  /\ \A q \in Products : Exists(q) => product[q].slug # NameOf[p]
  /\ product' = [product EXCEPT ![p] =
                   [NoProduct(p) EXCEPT !.state = "live", !.isActive = active]]
  /\ calm' = {}
  /\ UNCHANGED <<price, task, history>>

SoftRemove(p) ==
  /\ Live(p)
  /\ product' = [product EXCEPT ![p].state = "deleted"]
  /\ calm' = {}
  /\ UNCHANGED <<price, task, history>>

\* update: findOne, and the entity changed in memory.
Update(r, p, active) ==
  /\ task[r] = Idle
  /\ Live(p)
  /\ task' = [task EXCEPT ![r] =
                [kind |-> "edit", stage |-> "save", product |-> p,
                 mem |-> [product[p] EXCEPT !.isActive = active],
                 cols |-> {}]]
  /\ UNCHANGED <<product, price, history, calm>>

\* save reads the row again, deleted or not.
CompareProduct(r) ==
  LET t == task[r]
  IN  /\ t.kind = "edit" /\ t.stage = "save"
      /\ task' = [task EXCEPT
                    ![r].stage = "write",
                    ![r].cols = {c \in ProductColumns :
                                   t.mem[c] # product[t.product][c]}]
      /\ UNCHANGED <<product, price, history, calm>>

\* The row with the columns cols taken from the entity.
MergedProduct(mem, row, cols) ==
  LET Column(c) == IF c \in cols THEN mem[c] ELSE row[c]
  IN  [state |-> Column("state"), isActive |-> Column("isActive"),
       external |-> Column("external"),
       supplierAvailable |-> Column("supplierAvailable"),
       slug |-> Column("slug")]

SaveProduct(r) ==
  LET t == task[r]
      p == t.product
  IN  /\ t.kind = "edit" /\ t.stage = "write"
      /\ product' = [product EXCEPT ![p] = MergedProduct(t.mem, product[p],
                                                         t.cols)]
      /\ task' = [task EXCEPT ![r] = Idle]
      /\ calm' = {}
      /\ UNCHANGED <<price, history>>

\* upsertBatchPrices, of one of its rows.
Publish(p, offer) ==
  /\ Exists(p)
  /\ price' = [price EXCEPT ![p] = offer]
  /\ reopened' = reopened \cup {p}
  /\ calm' = {}
  /\ UNCHANGED <<product, task, inStock, torn>>

\* Faulty: the ceiling of the market is forgotten.
RepricedByPolicy(row) ==
  [row EXCEPT !.margin = PolicySellingPrice(row.basePrice) - row.basePrice]

Repriced(row) ==
  [row EXCEPT !.margin = SuggestedMargin(row.basePrice, row.market)]

\* applyPricingPolicy reads the batch's rows; it saves only if one changes.
ApplyPricingPolicy(r) ==
  LET rows == [p \in Products |->
                 IF Priced(p) THEN Repriced(price[p]) ELSE NoPrice]
  IN  /\ task[r] = Idle
      /\ rows # price
      /\ task' = [task EXCEPT ![r] =
                    [kind |-> "policy", stage |-> "save", mem |-> rows,
                     cells |-> [p \in Products |-> {}]]]
      /\ calm' = calm \cup {r}
      /\ UNCHANGED <<product, price, history>>

ComparePrices(r) ==
  LET t == task[r]
      Differing(p) == {c \in PriceColumns : t.mem[p][c] # price[p][c]}
  IN  /\ t.kind = "policy" /\ t.stage = "save"
      /\ task' = [task EXCEPT
                    ![r].stage = "write",
                    ![r].cells = [p \in Products |->
                                    IF Reprices(r, p) THEN Differing(p)
                                    ELSE {}]]
      /\ UNCHANGED <<product, price, history, calm>>

MergedPrice(mem, row, cols) ==
  LET Column(c) == IF c \in cols THEN mem[c] ELSE row[c]
  IN  [basePrice |-> Column("basePrice"), margin |-> Column("margin"),
       market |-> Column("market"), poStatus |-> Column("poStatus")]

SavePrices(r) ==
  LET t == task[r]
  IN  /\ t.kind = "policy" /\ t.stage = "write"
      /\ price' = [p \in Products |->
                     IF Reprices(r, p)
                     THEN MergedPrice(t.mem[p], price[p], t.cells[p])
                     ELSE price[p]]
      /\ task' = [task EXCEPT ![r] = Idle]
      /\ calm' = {}
      /\ UNCHANGED <<product, history>>

-----------------------------------------------------------------------------
(* ProductsImportService *)

\* The product that has p's generated slug, other than p itself.
OwnsSlugOf(q, p) == q # p /\ Live(q) /\ product[q].slug = NameOf[p]

\* Faulty: the file is checked against itself only.
UniqueInFile(file, i) == \A j \in 1..(i - 1) : file[j].sku # file[i].sku

\* validateRow: of two rows of a SKU the second is flagged, and so is a row
\* whose slug is another SKU's.
IsValid(file, i) ==
  /\ \A j \in 1..(i - 1) : file[j].sku # file[i].sku
  /\ \A q \in Products : ~OwnsSlugOf(q, file[i].sku)

\* commit validates the file again: this is the preview it acts upon.
Preview(r, file) ==
  LET valid == {i \in DOMAIN file : IsValid(file, i)}
  IN  /\ task[r] = Idle
      /\ valid # {}
      /\ task' = [task EXCEPT ![r] =
                    [kind |-> "import", file |-> file, valid |-> valid,
                     creates |-> {i \in valid : ~Live(file[i].sku)}]]
      /\ calm' = calm \cup {r}
      /\ UNCHANGED <<product, price, history>>

\* What findOne can return for a row before the commit inserts anything.
LiveMatches(sku) ==
  {p \in Products : Live(p) /\ (p = sku \/ product[p].slug = NameOf[sku])}

SameName(t, i, j) == NameOf[t.file[i].sku] = NameOf[t.file[j].sku]

\* Row i of t becomes a product: nothing matches, and no row before it has been
\* inserted under its slug.
Inserts(t, i) ==
  /\ LiveMatches(t.file[i].sku) = {}
  /\ \A j \in t.valid : j < i /\ SameName(t, i, j) =>
       LiveMatches(t.file[j].sku) # {}

\* What each row writes to: the product it becomes, or one that it finds.
IsMatch(t, match) ==
  \A i \in t.valid :
    IF Inserts(t, i) THEN match[i] = t.file[i].sku
    ELSE match[i] \in LiveMatches(t.file[i].sku)
           \cup {t.file[j].sku : j \in {k \in t.valid :
                   k < i /\ Inserts(t, k) /\ SameName(t, i, k)}}

\* Faulty: the status of the price row stays.
ImportedWithoutStatus(f, row) ==
  [basePrice |-> f.basePrice, margin |-> f.margin, market |-> row.market,
   poStatus |-> row.poStatus]

\* The price row as row f of the file leaves it; upsert keeps the market price.
Imported(f, row) ==
  [basePrice |-> f.basePrice, margin |-> f.margin, market |-> row.market,
   poStatus |-> f.poStatus]

\* One transaction: if an insert meets a SKU or slug that is taken by a deleted
\* product nothing of it remains (Abandon).
Commit(r, publishToBatch) ==
  LET t == task[r]
      created == {t.file[i].sku : i \in {j \in t.valid : Inserts(t, j)}}
  IN  /\ t.kind = "import"
      /\ \A p \in created, q \in Products :
           Exists(q) => q # p /\ product[q].slug # NameOf[p]
      /\ product' = [p \in Products |->
           IF p \in created
           THEN [NoProduct(p) EXCEPT !.state = "live", !.isActive = TRUE]
           ELSE product[p]]
      /\ IF publishToBatch
         THEN \E match \in [t.valid -> Products] :
              \E last \in [{match[i] : i \in t.valid} -> t.valid] :
                /\ IsMatch(t, match)
                /\ \A p \in DOMAIN last :
                     /\ match[last[p]] = p
                     /\ \A i \in t.valid : match[i] = p => i <= last[p]
                /\ price' = [p \in Products |->
                     IF p \in DOMAIN last
                     THEN Imported(t.file[last[p]], price[p]) ELSE price[p]]
                /\ reopened' = reopened \cup DOMAIN last
         ELSE UNCHANGED <<price, reopened>>
      /\ task' = [task EXCEPT ![r] = Idle]
      /\ calm' = {}
      /\ UNCHANGED <<inStock, torn>>

-----------------------------------------------------------------------------
(* SupplierSyncService.reconcile *)

Found(p) == Live(p) /\ product[p].external

\* What the snapshot s is taken to say of p's availability.
Available(s, p) == p \in DOMAIN s /\ s[p].available

\* A new product whose plain slug is taken, by a live product or by one that a
\* row before it inserted, gets its SKU added.
PlainSlugs(inserted, plain) ==
  \A p \in inserted :
    p \in plain <=> /\ \A q \in Products : ~OwnsSlugOf(q, p)
                    /\ \A q \in plain \ {p} : NameOf[q] # NameOf[p]

\* An external product that a snapshot leaves out becomes unavailable, deleted
\* or not.
Synced(s, plain, p) ==
  IF p \in DOMAIN s /\ ~Found(p)
  THEN [state |-> "live", isActive |-> TRUE, external |-> TRUE,
        supplierAvailable |-> Available(s, p),
        slug |-> IF p \in plain THEN NameOf[p] ELSE p]
  ELSE IF product[p].external
       THEN [product[p] EXCEPT !.supplierAvailable = Available(s, p)]
       ELSE product[p]

MarginOf(snap) ==
  IF snap.margin = Unset THEN SuggestedMargin(snap.basePrice, 0)
  ELSE snap.margin

\* Faulty: what the snapshot leaves out keeps its status.
MissingKeepStatus(s, p) ==
  IF p \in DOMAIN s
  THEN [basePrice |-> s[p].basePrice, margin |-> MarginOf(s[p]),
        market |-> price[p].market,
        poStatus |-> IF s[p].available THEN "available" ELSE "sold_out"]
  ELSE price[p]

SyncedPrice(s, p) ==
  IF p \in DOMAIN s
  THEN [basePrice |-> s[p].basePrice, margin |-> MarginOf(s[p]),
        market |-> price[p].market,
        poStatus |-> IF s[p].available THEN "available" ELSE "sold_out"]
  ELSE IF Priced(p) /\ product[p].external
       THEN [price[p] EXCEPT !.poStatus = "sold_out"]
       ELSE price[p]

\* One transaction.  An insert that meets a deleted product, or a manual one of
\* the SKU, fails it: then this step is not taken.
Reconcile(s) ==
  LET inserted == {p \in DOMAIN s : ~Found(p)}
  IN  /\ \A p \in inserted : ~Exists(p)
      /\ \E plain \in SUBSET inserted :
           /\ PlainSlugs(inserted, plain)
           /\ \A p \in plain, q \in Products :
                Exists(q) => product[q].slug # NameOf[p]
           /\ product' = [p \in Products |-> Synced(s, plain, p)]
      /\ price' = [p \in Products |-> SyncedPrice(s, p)]
      /\ inStock' = {p \in DOMAIN s : s[p].available}
      /\ torn' = {p \in Products : \E r \in Requests : Edits(r, p)}
      /\ reopened' = {p \in Products : \E r \in Requests : Reprices(r, p)}
      /\ calm' = {}
      /\ UNCHANGED task

-----------------------------------------------------------------------------

\* A statement fails or the process dies: nothing was written.
Abandon(r) ==
  /\ task[r] # Idle
  /\ task' = [task EXCEPT ![r] = Idle]
  /\ calm' = calm \ {r}
  /\ UNCHANGED <<product, price, history>>

Next ==
  \/ \E p \in Products, active \in BOOLEAN : Create(p, active)
  \/ \E p \in Products : SoftRemove(p)
  \/ \E p \in Products : \E offer \in Offers[p] : Publish(p, offer)
  \/ \E s \in Snapshots : Reconcile(s)
  \/ \E r \in Requests, p \in Products, active \in BOOLEAN :
       Update(r, p, active)
  \/ \E r \in Requests : CompareProduct(r) \/ SaveProduct(r)
  \/ \E r \in Requests :
       ApplyPricingPolicy(r) \/ ComparePrices(r) \/ SavePrices(r)
  \/ \E r \in Requests, file \in Files : Preview(r, file)
  \/ \E r \in Requests, publish \in BOOLEAN : Commit(r, publish)
  \/ \E r \in Requests : Abandon(r)

Spec == Init /\ [][Next]_vars

-----------------------------------------------------------------------------
(* Properties *)

\* The rows have the shape of the tables and requests hold such rows.
TypeOK ==
  /\ product \in [Products -> ProductRows]
  /\ price \in [Products -> PriceRows \cup {NoPrice}]
  /\ task \in [Requests -> {Idle} \cup EditTasks \cup PolicyTasks
                             \cup ImportTasks]
  /\ inStock \subseteq Products /\ torn \subseteq Products
  /\ reopened \subseteq Products /\ calm \subseteq Requests

\* Checkout takes a supplier's product only while the last snapshot had it in
\* stock, however its price was published, imported or repriced since and
\* whatever was deleted and brought back; except a product that an edit had in
\* memory while that snapshot was reconciled, which the edit's save may undo.
SuppliedWhenSold ==
  \A p \in Products \ torn : product[p].external /\ Accepts(p) => p \in inStock

\* What the shop shows as orderable checkout takes, but for one case: a
\* supplier's product that the last snapshot called out of stock, or left out,
\* and whose price was since published, imported or repriced, or which an edit
\* or policy run had in memory at that snapshot.  No other product, by hand or
\* the supplier's, is shown and then refused.
Orderable(row) == row.poStatus \in {"available", "limited"}

ShownIsTaken ==
  \A p \in Products :
    Listed(p) /\ Orderable(price[p]) /\ ~Accepts(p) =>
      /\ product[p].external /\ ~product[p].supplierAvailable
      /\ p \in torn \cup reopened

DistinctNames(file) ==
  \A i, j \in DOMAIN file :
    NameOf[file[i].sku] = NameOf[file[j].sku] => file[i].sku = file[j].sku

\* "What you approve is what you get": of a file whose names are distinct, with
\* nothing written between, the commit makes the products the preview showed
\* as new and no other, and prices no SKU that is not in the file.
ImportAsPreviewed ==
  [][\A r \in Requests :
       LET t == task[r]
           listed == {t.file[i].sku : i \in t.valid}
       IN  /\ t.kind = "import" /\ r \in calm /\ DistinctNames(t.file)
           /\ task'[r] = Idle /\ <<product, price>>' # <<product, price>>
           => /\ \A p \in Products \ listed :
                   product'[p] = product[p] /\ price'[p] = price[p]
              /\ \A i \in t.valid :
                   i \in t.creates <=> product'[t.file[i].sku]
                                         # product[t.file[i].sku]]_vars

\* A policy run that no other write overlaps leaves every row with a margin that
\* is sane, as the rounding allows, and the rest of it as it was.
PolicyPricesAreSane ==
  [][\A r \in Requests :
       /\ task[r].kind = "policy" /\ r \in calm
       /\ task'[r] = Idle /\ price' # price
       => \A p \in Products :
            /\ [price'[p] EXCEPT !.margin = price[p].margin] = price[p]
            /\ Priced(p) => IsSane(price[p].basePrice, price[p].market,
                                   price'[p].margin)]_vars

\* "When a market reference is known, allow at most Rp1.000 convenience premium":
\* of the rows that a policy run which no other write overlaps has saved.
PremiumIsLimited ==
  [][\A r \in Requests :
       /\ task[r].kind = "policy" /\ r \in calm
       /\ task'[r] = Idle /\ price' # price
       => \A p \in Products :
            Priced(p) => WithinPremium(price[p].basePrice, price[p].market,
                                       price'[p].margin)]_vars

-----------------------------------------------------------------------------
(* The inductive invariant *)

\* Availability in the table and in memory goes back to the last snapshot.
StockIsKnown ==
  \A p \in Products :
    /\ product[p].external /\ product[p].supplierAvailable /\ p \notin torn
         => p \in inStock
    /\ ~product[p].external => product[p].supplierAvailable

\* An edit of a product that no sync overtook holds its availability.
EditsAreCurrent ==
  \A r \in Requests, p \in Products :
    Edits(r, p) =>
      /\ Exists(p) /\ task[r].mem.state # "none"
      /\ task[r].mem.external = product[p].external
      /\ p \notin torn \/ ~product[p].external
           => task[r].mem.supplierAvailable = product[p].supplierAvailable

\* A row that is shown as orderable, or about to be, is of what is available.
StatusIsKnown ==
  \A p \in Products \ (torn \cup reopened) :
    product[p].external /\ ~product[p].supplierAvailable =>
      /\ ~Orderable(price[p])
      /\ \A r \in Requests : task[r].kind = "policy" =>
           ~Orderable(task[r].mem[p])

\* A task that nothing was written since holds what is in the tables.
CalmIsCurrent(r) ==
  LET t == task[r]
  IN  /\ t.kind \in {"policy", "import"}
      /\ t.kind = "import" =>
           /\ t.valid = {i \in DOMAIN t.file : IsValid(t.file, i)}
           /\ t.creates = {i \in t.valid : ~Live(t.file[i].sku)}
      /\ t.kind = "policy" => \A p \in Products :
           /\ t.mem[p] = IF Priced(p) THEN Repriced(price[p]) ELSE NoPrice
           /\ t.stage = "write" /\ Priced(p) =>
                t.cells[p] = {c \in PriceColumns : t.mem[p][c] # price[p][c]}

\* What a task holds exists, and rows of its file were found valid.
TasksAreOfRows ==
  \A r \in Requests :
    /\ \A p \in Products : Reprices(r, p) => Priced(p)
    /\ task[r].kind = "import" => task[r].valid \subseteq DOMAIN task[r].file

IInv ==
  /\ TypeOK
  /\ StockIsKnown /\ EditsAreCurrent /\ StatusIsKnown
  /\ TasksAreOfRows
  /\ \A r \in calm : CalmIsCurrent(r)
=============================================================================
