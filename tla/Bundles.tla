------------------------------- MODULE Bundles -------------------------------
(***************************************************************************)
(* Bundles ("paket"): BundlesAdminService, by which admins make and edit    *)
(* them, BundlesService, which prices them against the current batch, and   *)
(* the part of OrdersService that turns one into order lines.               *)
(*                                                                          *)
(* The catalog is the environment: at any time it changes what a bundle     *)
(* finds of a member.  An edit reads the bundle, checks its margin, and     *)
(* saves it in a transaction; an order reads the bundle and its members,    *)
(* and then both again.  A bundle is one slug; names, plans but for their   *)
(* missing items, and the loose price shown beside the bundle's are left    *)
(* out.                                                                     *)
(***************************************************************************)
EXTENDS BundlePricing

CONSTANTS
  Requests, \* requests of admins and customers in flight
  Bundles,
  Products,
  Drafts,   \* bound: the new bundles that are sent
  Patches,  \* bound: the edits that are sent
  Views,    \* bound: Views[p] is what the catalog makes of p
  Profits,  \* bound: the margins of the products table
  MostQty   \* bound: bundles in one order

Items == [product : Products, qty : Nat \ {0}]

\* What bundles are made of: two items or more, no product twice.
Contents ==
  {d.items : d \in Drafts} \cup
  {patch["items"] : patch \in {e \in Patches : "items" \in DOMAIN e}}

ASSUME ContentsAssumption ==
  /\ Contents \subseteq Seq(Items)
  /\ \A c \in Contents : Len(c) >= 2
  /\ \A c \in Contents : \A i, j \in DOMAIN c :
       c[i].product = c[j].product => i = j

PoStatus == {"available", "limited", "sold_out", "hidden"}

\* Whose a product is, and if a merchant's, whether it is approved now.
Sellers == {"shop", "approved", "unapproved"}

\* What loadMembers finds of a product, and the seller, which it does not ask
\* for.  Gone is inactive, deleted or out of the supplier's stock; an unpublished
\* product has no row of this batch.
MemberViews ==
  [gone : BOOLEAN, published : BOOLEAN, poStatus : PoStatus, maxQty : Nat,
   basePrice : Nat, seller : Sellers]

\* A PATCH names some of these.
Fields == {"isActive", "margin", "maxQty", "complete", "items"}

ASSUME BoundAssumption ==
  /\ \A p \in Products : Views[p] \subseteq MemberViews
  /\ Profits \subseteq Nat /\ MostQty \in Nat
  /\ \A d \in Drafts : d.margin \in Nat /\ d.maxQty \in Nat /\ d.complete \in BOOLEAN
  /\ \A patch \in Patches :
       /\ DOMAIN patch \subseteq Fields
       /\ "isActive" \in DOMAIN patch => patch["isActive"] \in BOOLEAN
       /\ "complete" \in DOMAIN patch => patch["complete"] \in BOOLEAN
       /\ "margin" \in DOMAIN patch => patch["margin"] \in Nat
       /\ "maxQty" \in DOMAIN patch => patch["maxQty"] \in Nat
       /\ "items" \in DOMAIN patch => patch["items"] \in Contents

VARIABLES
  bundle,  \* the bundles table
  items,   \* items[b]: the rows of bundle_items, in their order
  member,  \* member[p]: what the catalog shows of p
  profit,  \* profit[p]: the margin of p in the products table
  task,    \* task[r]: what request r holds across an await
  calm,    \* history: requests since whose first read nobody wrote
  checked  \* history: bundles whose last margin check still stands

tables == <<bundle, items, member, profit>>

vars == <<bundle, items, member, profit, task, calm, checked>>

-----------------------------------------------------------------------------
(* Data *)

BundleRows ==
  [state    : {"none", "live", "deleted"},
   isActive : BOOLEAN,
   margin   : Nat,
   maxQty   : Nat,
   complete : BOOLEAN]  \* its plan has no missing items

Columns == {"state", "isActive", "margin", "maxQty", "complete"}

NoBundle == [state |-> "none", isActive |-> FALSE, margin |-> 0,
             maxQty |-> 0, complete |-> TRUE]

Idle == [kind |-> "idle"]

EditTasks ==
  [kind : {"edit"}, stage : {"check", "save", "write", "insert"},
   bundle : Bundles, mem : BundleRows, cols : SUBSET Columns,
   items : Contents \cup {<<>>}]

Live(b) == bundle[b].state = "live"

Init ==
  /\ bundle = [b \in Bundles |-> NoBundle]
  /\ items = [b \in Bundles |-> <<>>]
  /\ member \in [Products -> UNION {Views[p] : p \in Products}]
  /\ \A p \in Products : member[p] \in Views[p]
  /\ profit \in [Products -> Profits]
  /\ task = [r \in Requests |-> Idle]
  /\ calm = {} /\ checked = {}

-----------------------------------------------------------------------------
(* The catalog *)

CatalogChanges(p, view) ==
  /\ view # member[p]
  /\ member' = [member EXCEPT ![p] = view]
  /\ calm' = {r \in calm : task[r].kind = "edit"}
  /\ UNCHANGED <<bundle, items, profit, task, checked>>

ProfitChanges(p, margin) ==
  /\ margin # profit[p]
  /\ profit' = [profit EXCEPT ![p] = margin]
  /\ calm' = {r \in calm : task[r].kind # "edit"}
  /\ checked' = {}
  /\ UNCHANGED <<bundle, items, member, task>>

-----------------------------------------------------------------------------
(* BundlesAdminService *)

\* What the members earn when bought loose, if a product earns that much.
LooseMargin(earns, content) ==
  Total([i \in DOMAIN content |-> earns[content[i].product] * content[i].qty])

\* assertMarginSane.
IsSane(earns, content, margin) == margin <= LooseMargin(earns, content)

\* create: the slug is free, deleted bundles counted, and the margin sane.
Create(r, b, draft) ==
  /\ task[r] = Idle
  /\ bundle[b].state = "none"
  /\ IsSane(profit, draft.items, draft.margin)
  /\ task' = [task EXCEPT ![r] =
                [kind |-> "edit", stage |-> "insert", bundle |-> b,
                 mem |-> [state |-> "live", isActive |-> TRUE,
                          margin |-> draft.margin, maxQty |-> draft.maxQty,
                          complete |-> draft.complete],
                 cols |-> Columns, items |-> draft.items]]
  /\ calm' = calm \cup {r}
  /\ UNCHANGED <<tables, checked>>

SoftRemove(b) ==
  /\ Live(b)
  /\ bundle' = [bundle EXCEPT ![b].state = "deleted"]
  /\ calm' = {}
  /\ UNCHANGED <<items, member, profit, task, checked>>

Field(row, patch, f) == IF f \in DOMAIN patch THEN patch[f] ELSE row[f]

Patched(row, patch) ==
  [row EXCEPT !.isActive = Field(row, patch, "isActive"),
              !.margin = Field(row, patch, "margin"),
              !.maxQty = Field(row, patch, "maxQty"),
              !.complete = Field(row, patch, "complete")]

\* Faulty: an insert leaves the items to a later edit.
StagedItems(t) == IF t.stage = "insert" \/ t.items = <<>>
                  THEN items[t.bundle] ELSE t.items

\* What the bundle has in it once t is saved.
Contained(t) == IF t.items = <<>> THEN items[t.bundle] ELSE t.items

\* Faulty: the contents are checked against the margin the bundle has.
StoredMarginIsSane(t) ==
  t.items # <<>> => IsSane(profit, t.items, bundle[t.bundle].margin)

\* "Validate the combination that will actually be in effect."
EffectiveIsSane(t) == IsSane(profit, Contained(t), t.mem.margin)

\* update: findOne ...
Update(r, b, patch) ==
  /\ task[r] = Idle
  /\ Live(b)
  /\ task' = [task EXCEPT ![r] =
                [kind |-> "edit", stage |-> "check", bundle |-> b,
                 mem |-> Patched(bundle[b], patch), cols |-> {},
                 items |-> IF "items" \in DOMAIN patch THEN patch["items"]
                           ELSE <<>>]]
  /\ calm' = calm \cup {r}
  /\ UNCHANGED <<tables, checked>>

\* ... and the check.
Check(r) ==
  /\ task[r].kind = "edit" /\ task[r].stage = "check"
  /\ EffectiveIsSane(task[r])
  /\ task' = [task EXCEPT ![r].stage = "save"]
  /\ UNCHANGED <<tables, calm, checked>>

\* save reads the row again, deleted or not.
Compare(r) ==
  LET t == task[r]
  IN  /\ t.kind = "edit" /\ t.stage = "save"
      /\ task' = [task EXCEPT
                    ![r].stage = "write",
                    ![r].cols = {c \in Columns :
                                   t.mem[c] # bundle[t.bundle][c]}]
      /\ UNCHANGED <<tables, calm, checked>>

Merged(mem, row, cols) ==
  LET Column(c) == IF c \in cols THEN mem[c] ELSE row[c]
  IN  [state |-> Column("state"), isActive |-> Column("isActive"),
       margin |-> Column("margin"), maxQty |-> Column("maxQty"),
       complete |-> Column("complete")]

\* One transaction: the columns and the items.  An insert needs the slug.
Write(r) ==
  LET t == task[r]
      b == t.bundle
  IN  /\ t.kind = "edit"
      /\ \/ t.stage = "write"
         \/ t.stage = "insert" /\ bundle[b].state = "none"
      /\ bundle' = [bundle EXCEPT ![b] = Merged(t.mem, bundle[b], t.cols)]
      /\ items' = [items EXCEPT ![b] = Contained(t)]
      /\ task' = [task EXCEPT ![r] = Idle]
      /\ calm' = {}
      /\ checked' = IF r \in calm THEN checked \cup {b} ELSE checked \ {b}
      /\ UNCHANGED <<member, profit>>

-----------------------------------------------------------------------------
(* BundlesService *)

\* loadMembers: the items with what the batch has of each product.
Loaded(b) ==
  [i \in DOMAIN items[b] |->
     [qty       |-> items[b][i].qty,
      basePrice |-> member[items[b][i].product].basePrice,
      view      |-> member[items[b][i].product]]]

StatusRank(status) ==
  CASE status = "available" -> 0
    [] status = "limited"   -> 1
    [] status = "sold_out"  -> 2
    [] status = "hidden"    -> 3

MemberStatus(view) ==
  IF view.gone THEN "sold_out"
  ELSE IF view.published THEN view.poStatus ELSE "available"

\* A null max_qty, 0 here, is no limit; an unpublished product has none.
Capped(view) == view.published /\ view.maxQty # 0

Insufficient(m) == Capped(m.view) /\ m.view.maxQty < m.qty

\* Faulty: an unpublished member does not block its bundle.
WorstStatus(row, ms) ==
  IF ms = <<>> \/ ~row.complete \/ (\E i \in DOMAIN ms : Insufficient(ms[i]))
  THEN "sold_out"
  ELSE CHOOSE s \in PoStatus :
         /\ s = "available" \/ \E i \in DOMAIN ms : MemberStatus(ms[i].view) = s
         /\ \A i \in DOMAIN ms :
              StatusRank(MemberStatus(ms[i].view)) <= StatusRank(s)

\* The status of a bundle is that of its worst member.
Status(row, ms) ==
  IF \/ ms = <<>> \/ ~row.complete
     \/ \E i \in DOMAIN ms : Insufficient(ms[i]) \/ ~ms[i].view.published
  THEN "sold_out"
  ELSE CHOOSE s \in PoStatus :
         /\ s = "available" \/ \E i \in DOMAIN ms : MemberStatus(ms[i].view) = s
         /\ \A i \in DOMAIN ms :
              StatusRank(MemberStatus(ms[i].view)) <= StatusRank(s)

\* n bundles are within the bundle's limit, which is 99 by default, and within
\* what its members allow.
WithinLimit(row, ms, n) ==
  /\ n <= IF row.maxQty = 0 THEN 99 ELSE row.maxQty
  /\ \A i \in DOMAIN ms :
       Capped(ms[i].view) => n <= ms[i].view.maxQty \div ms[i].qty

\* What resolveLines asks before it takes n of a bundle.
Accepts(row, ms, n) ==
  Status(row, ms) \notin {"sold_out", "hidden"} /\ WithinLimit(row, ms, n)

\* What it asks of a product that is ordered loose: a merchant's needs no row of
\* the batch.
LooseAccepts(view, qty) ==
  /\ ~view.gone
  /\ \/ view.seller = "approved"
     \/ /\ view.seller = "shop"
        /\ view.published
        /\ view.poStatus \notin {"sold_out", "hidden"}
        /\ view.maxQty # 0 => qty <= view.maxQty

-----------------------------------------------------------------------------
(* Checkout of n bundles b, by request r *)

\* priceByIds finds the bundle ...
FindBundle(r, b, n) ==
  /\ task[r] = Idle
  /\ Live(b) /\ bundle[b].isActive
  /\ task' = [task EXCEPT ![r] = [kind |-> "found", bundle |-> b, qty |-> n,
                                  row |-> bundle[b]]]
  /\ calm' = calm \cup {r}
  /\ UNCHANGED <<tables, checked>>

\* ... and prices it; resolveLines accepts or refuses it.
PriceBundle(r) ==
  LET t == task[r]
      ms == Loaded(t.bundle)
  IN  /\ t.kind = "found"
      /\ task' = [task EXCEPT ![r] =
           IF Accepts(t.row, ms, t.qty)
           THEN [kind |-> "priced", bundle |-> t.bundle, qty |-> t.qty,
                 price |-> Price(ms, t.row.margin)]
           ELSE Idle]
      /\ calm' = IF task'[r] = Idle THEN calm \ {r} ELSE calm
      /\ UNCHANGED <<tables, checked>>

\* resolveOrderLines reads the members again ...
LoadMembers(r) ==
  LET t == task[r]
  IN  /\ t.kind = "priced"
      /\ task' = [task EXCEPT ![r] =
           [kind |-> "loaded", bundle |-> t.bundle, qty |-> t.qty,
            price |-> t.price, members |-> Loaded(t.bundle)]]
      /\ UNCHANGED <<tables, calm, checked>>

\* ... and the bundle, active or not, which must still be there.
ResolveOrderLines(r) ==
  LET t == task[r]
      margin == bundle[t.bundle].margin
  IN  /\ t.kind = "loaded"
      /\ Live(t.bundle)
      /\ task' = [task EXCEPT ![r] =
           [kind |-> "ordered", bundle |-> t.bundle, qty |-> t.qty,
            price |-> t.price, lines |-> Lines(t.members, margin)]]
      /\ UNCHANGED <<tables, calm, checked>>

\* A request ends: its order is written, it is refused, or it fails.
End(r) ==
  /\ task[r] # Idle
  /\ task' = [task EXCEPT ![r] = Idle]
  /\ calm' = calm \ {r}
  /\ UNCHANGED <<tables, checked>>

Next ==
  \/ \E p \in Products : \E view \in Views[p] : CatalogChanges(p, view)
  \/ \E p \in Products, margin \in Profits : ProfitChanges(p, margin)
  \/ \E r \in Requests, b \in Bundles, draft \in Drafts : Create(r, b, draft)
  \/ \E b \in Bundles : SoftRemove(b)
  \/ \E r \in Requests, b \in Bundles, patch \in Patches : Update(r, b, patch)
  \/ \E r \in Requests : Check(r) \/ Compare(r) \/ Write(r)
  \/ \E r \in Requests, b \in Bundles, n \in 1..MostQty : FindBundle(r, b, n)
  \/ \E r \in Requests :
       PriceBundle(r) \/ LoadMembers(r) \/ ResolveOrderLines(r) \/ End(r)

Spec == Init /\ [][Next]_vars

-----------------------------------------------------------------------------
(* Properties *)

\* The tables have their types, and a bundle that exists has contents.
TypeOK ==
  /\ bundle \in [Bundles -> BundleRows]
  /\ items \in [Bundles -> Contents \cup {<<>>}]
  /\ \A b \in Bundles : bundle[b].state # "none" => items[b] # <<>>
  /\ \A p \in Products : member[p] \in Views[p]
  /\ profit \in [Products -> Profits]
  /\ DOMAIN task = Requests
  /\ \A r \in Requests :
       \/ task[r] = Idle
       \/ task[r] \in EditTasks
       \/ /\ task[r].kind \in {"found", "priced", "loaded", "ordered"}
          /\ task[r].bundle \in Bundles /\ task[r].qty \in 1..MostQty
  /\ calm \subseteq Requests /\ checked \subseteq Bundles

\* A bundle is accepted only where each of its members would be, bought loose
\* in the quantity that many bundles need: putting products in a bundle gets
\* round no status, no limit and no missing price.  It does get round the
\* approval of a merchant's product, which nothing about bundles asks for (the
\* list admins pick members from leaves merchants' products out): such a member
\* is all that may be refused.
OfferedBundleIsBuyable ==
  \A b \in Bundles, n \in 1..MostQty :
    Accepts(bundle[b], Loaded(b), n) =>
      \A i \in DOMAIN items[b] :
        LET view == member[items[b][i].product]
        IN  ~LooseAccepts(view, n * items[b][i].qty) =>
              view.seller = "unapproved" /\ ~view.gone

LineTotals(lines) ==
  Total([i \in DOMAIN lines |->
           (lines[i].basePrice + lines[i].margin) * lines[i].qty])

LineMargins(lines) ==
  Total([i \in DOMAIN lines |-> lines[i].margin * lines[i].qty])

\* "What a customer is shown is exactly what the order_items rows add up to":
\* when nothing is written between the reads, the lines of a bundle add up to
\* its price, and carry no more than its margin, all of it if one of them is of
\* a single unit.
ChargedAsShown ==
  \A r \in calm :
    task[r].kind = "ordered" =>
      LET lines == task[r].lines
          margin == bundle[task[r].bundle].margin
      IN  /\ LineTotals(lines) = task[r].price
          /\ LineMargins(lines) <= margin
          /\ (\E i \in DOMAIN lines : lines[i].qty = 1) =>
               LineMargins(lines) = margin

\* "Recomputed rather than passed around so it can never drift from the price the
\* customer was shown": the lines of every order add up to the price that was
\* accepted, whoever wrote between the two times it was computed.
PriceNeverDrifts ==
  \A r \in Requests :
    task[r].kind = "ordered" => LineTotals(task[r].lines) = task[r].price

\* No bundle costs more than its members bought loose, margins of the products
\* table counted, as of its last edit, if nothing was written while that edit
\* was under way.
MarginSane ==
  \A b \in checked : IsSane(profit, items[b], bundle[b].margin)

-----------------------------------------------------------------------------
(* The inductive invariant *)

EditsAreOfRows ==
  \A r \in Requests :
    LET t == task[r]
    IN  t.kind = "edit" =>
          /\ t.mem.state = "live"
          /\ IF t.stage = "insert" THEN t.cols = Columns /\ t.items # <<>>
             ELSE bundle[t.bundle].state # "none"

\* A calm edit that has passed its check leaves a sane margin behind.
CalmEditsAreSane ==
  \A r \in calm :
    LET t == task[r]
    IN  t.kind = "edit" =>
          /\ t.stage # "check" => IsSane(profit, Contained(t), t.mem.margin)
          /\ t.stage = "write" /\ "margin" \notin t.cols =>
               t.mem.margin = bundle[t.bundle].margin

\* What an order has read is what it would read now.
ReadsNow(t) ==
  LET ms == Loaded(t.bundle)
      margin == bundle[t.bundle].margin
  IN  /\ t.kind = "found" => t.row = bundle[t.bundle]
      /\ t.kind \in {"priced", "loaded", "ordered"} => t.price = Price(ms, margin)
      /\ t.kind = "loaded" => t.members = ms
      /\ t.kind = "ordered" => t.lines = Lines(ms, margin)

CalmOrdersMatch == \A r \in calm : ReadsNow(task[r])

IInv ==
  TypeOK /\ EditsAreOfRows /\ CalmEditsAreSane /\ MarginSane
=============================================================================
