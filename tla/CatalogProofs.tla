---------------------------- MODULE CatalogProofs ----------------------------
(***************************************************************************)
(* What suggestPricing guarantees at every price, the inductive invariant   *)
(* of Catalog and what follows from the two, for any number of requests,    *)
(* products, files and snapshots.                                           *)
(***************************************************************************)
EXTENDS Catalog, TLAPS

-----------------------------------------------------------------------------
(* The margin that is suggested *)

LEMMA TierTypes ==
  ASSUME NEW base \in Nat
  PROVE  /\ MinimumProfit(base) \in {2000, 2500, 3000, 4000, 5000, 8000}
         /\ Rate(base) \in {0, 8, 10, 20, 25}
         /\ Step(base) \in {500, 1000}
BY DEF MinimumProfit, Rate, Step

\* The minimum of each tier is a multiple of the tier's step.
LEMMA MinimumIsRound ==
  ASSUME NEW base \in Nat
  PROVE  IF Step(base) = 500 THEN MinimumProfit(base) \in {2000, 2500}
         ELSE MinimumProfit(base) \in {3000, 4000, 5000, 8000}
BY DEF MinimumProfit, Step

\* Rounding moves a whole value by half a step at most.
LEMMA RoundToIsNear ==
  ASSUME NEW n \in Nat, NEW step \in {500, 1000}
  PROVE  /\ RoundTo(n, 1, step) \in Nat
         /\ RoundTo(n, 1, step) <= n + step \div 2
<1>1. CASE step = 500
  <2>1. RoundTo(n, 1, 500) = ((2 * n + 500) \div 1000) * 500
    BY DEF RoundTo
  <2> QED  BY <1>1, <2>1
<1>2. CASE step = 1000
  <2>1. RoundTo(n, 1, 1000) = ((2 * n + 1000) \div 2000) * 1000
    BY DEF RoundTo
  <2> QED  BY <1>2, <2>1
<1> QED  BY <1>1, <1>2

\* A margin that reaches the minimum of its tier still does when rounded.
LEMMA RoundingKeepsTheMinimum ==
  ASSUME NEW base \in Nat, NEW raw \in Nat, raw >= 100 * MinimumProfit(base)
  PROVE  /\ RoundTo(raw, 100, Step(base)) \in Nat
         /\ RoundTo(raw, 100, Step(base)) >= MinimumProfit(base)
<1>1. CASE Step(base) = 500
  <2>1. RoundTo(raw, 100, 500) = ((2 * raw + 50000) \div 100000) * 500
    BY DEF RoundTo
  <2>2. MinimumProfit(base) \in {2000, 2500}
    BY <1>1, MinimumIsRound
  <2> QED  BY <1>1, <2>1, <2>2
<1>2. CASE Step(base) = 1000
  <2>1. RoundTo(raw, 100, 1000) = ((2 * raw + 100000) \div 200000) * 1000
    BY DEF RoundTo
  <2>2. MinimumProfit(base) \in {3000, 4000, 5000, 8000}
    BY <1>2, MinimumIsRound
  <2> QED  BY <1>2, <2>1, <2>2
<1> QED  BY <1>1, <1>2, TierTypes

LEMMA RawMarginType ==
  ASSUME NEW base \in Nat
  PROVE  RawMargin(base) \in Nat /\ RawMargin(base) >= 100 * MinimumProfit(base)
<1>1. 100 * MinimumProfit(base) \in Nat
  BY TierTypes
<1>2. Rate(base) * base \in Nat
  BY TierTypes
<1> QED  BY <1>1, <1>2 DEF RawMargin, Larger

\* The policy's own price covers the base price and the minimum profit.
LEMMA PolicyPriceCoversCost ==
  ASSUME NEW base \in Nat
  PROVE  /\ PolicySellingPrice(base) \in Nat
         /\ PolicySellingPrice(base) >= base + MinimumProfit(base)
<1>1. /\ RoundTo(RawMargin(base), 100, Step(base)) \in Nat
      /\ RoundTo(RawMargin(base), 100, Step(base)) >= MinimumProfit(base)
  BY RawMarginType, RoundingKeepsTheMinimum
<1> QED  BY <1>1, TierTypes DEF PolicySellingPrice

\* The shop never sells below cost: the margin that is suggested is what the
\* suggested price leaves, and neither is cut off at zero.
THEOREM SuggestionIsThePrice ==
  ASSUME NEW base \in Nat, NEW market \in Nat
  PROVE  /\ SuggestedMargin(base, market) \in Nat
         /\ base + SuggestedMargin(base, market) = SellingPrice(base, market)
<1>1. SellingPrice(base, market) \in Nat /\ SellingPrice(base, market) >= base
  <2> DEFINE ceiling == market + ConveniencePremium
  <2>1. ceiling \in Nat
    BY DEF ConveniencePremium
  <2>2. RoundTo(ceiling, 1, Step(base)) \in Nat
    <3>1. Step(base) \in {500, 1000}
      BY TierTypes
    <3> HIDE DEF ceiling
    <3> QED  BY <2>1, <3>1, RoundToIsNear
  <2>3. PolicySellingPrice(base) \in Nat /\ PolicySellingPrice(base) >= base
    BY PolicyPriceCoversCost, TierTypes
  <2> QED  BY <2>1, <2>2, <2>3 DEF SellingPrice, Larger
<1> QED  BY <1>1 DEF SuggestedMargin, Larger

\* Every suggestion is sane, at every tier's edge and on either side of the
\* market.
THEOREM SuggestionIsSane ==
  ASSUME NEW base \in Nat, NEW market \in Nat
  PROVE  IsSane(base, market, SuggestedMargin(base, market))
<1> DEFINE selling == SellingPrice(base, market)
           ceiling == market + ConveniencePremium
<1>1. SuggestedMargin(base, market) \in Nat
      /\ base + SuggestedMargin(base, market) = selling
  BY SuggestionIsThePrice
<1>2. ASSUME market <= base
      PROVE  SuggestedMargin(base, market) >= MinimumProfit(base)
  <2>1. selling = PolicySellingPrice(base)
    BY <1>2 DEF SellingPrice
  <2> QED  BY <1>1, <2>1, PolicyPriceCoversCost, TierTypes
<1>3. ASSUME market > base
      PROVE  selling <= ceiling + Step(base) \div 2
  <2>1. ceiling \in Nat /\ ceiling >= base
    BY <1>3 DEF ConveniencePremium
  <2>2. /\ RoundTo(ceiling, 1, Step(base)) \in Nat
        /\ RoundTo(ceiling, 1, Step(base)) <= ceiling + Step(base) \div 2
    <3>1. Step(base) \in {500, 1000}
      BY TierTypes
    <3> HIDE DEF ceiling
    <3> QED  BY <2>1, <3>1, RoundToIsNear
  <2>3. Step(base) \div 2 \in Nat
    BY TierTypes
  <2>4. PolicySellingPrice(base) \in Nat
    BY PolicyPriceCoversCost
  <2> QED  BY <1>3, <2>1, <2>2, <2>3, <2>4 DEF SellingPrice, Larger
<1>4. ASSUME market > base
      PROVE  base + SuggestedMargin(base, market)
               <= market + ConveniencePremium + Step(base) \div 2
  BY <1>1, <1>3, <1>4
<1> QED  BY <1>1, <1>2, <1>4 DEF IsSane

-----------------------------------------------------------------------------
(* Types *)

\* The kind of a task tells its fields.
LEMMA KindTypes ==
  ASSUME TypeOK, NEW r \in Requests
  PROVE  /\ task[r].kind \in {"idle", "edit", "policy", "import"}
         /\ task[r].kind = "idle" <=> task[r] = Idle
         /\ task[r].kind = "edit" => task[r] \in EditTasks
         /\ task[r].kind = "policy" => task[r] \in PolicyTasks
         /\ task[r].kind = "import" => task[r] \in ImportTasks
BY DEF TypeOK, Idle, EditTasks, PolicyTasks, ImportTasks

LEMMA NoProductType ==
  ASSUME NEW p \in Products
  PROVE  NoProduct(p) \in ProductRows
BY NamesAssumption DEF NoProduct, ProductRows

LEMMA NoPriceIsNone ==
  /\ NoPrice \notin PriceRows
  /\ ~Orderable(NoPrice)
BY DEF NoPrice, PriceRows, PoStatus, Orderable

LEMMA RepricedType ==
  ASSUME NEW row \in PriceRows
  PROVE  Repriced(row) \in PriceRows
<1>1. SuggestedMargin(row.basePrice, row.market) \in Nat
  BY SuggestionIsThePrice DEF PriceRows
<1> QED  BY <1>1 DEF Repriced, PriceRows

LEMMA MergedProductType ==
  ASSUME NEW mem \in ProductRows, NEW row \in ProductRows, NEW cols
  PROVE  MergedProduct(mem, row, cols) \in ProductRows
BY DEF MergedProduct, ProductRows

LEMMA MergedPriceType ==
  ASSUME NEW mem \in PriceRows, NEW row \in PriceRows, NEW cols
  PROVE  MergedPrice(mem, row, cols) \in PriceRows
BY DEF MergedPrice, PriceRows

LEMMA MarginOfType ==
  ASSUME NEW snap \in SnapshotRows
  PROVE  MarginOf(snap) \in Nat
<1>1. snap.basePrice \in Nat /\ 0 \in Nat
  BY DEF SnapshotRows
<1>2. SuggestedMargin(snap.basePrice, 0) \in Nat
  BY <1>1, SuggestionIsThePrice
<1> QED  BY <1>2 DEF MarginOf, SnapshotRows, Unset

\* A merged column is that of the entity or that of the row.
LEMMA MergedColumns ==
  ASSUME NEW mem, NEW row, NEW cols
  PROVE  /\ MergedProduct(mem, row, cols).state \in {mem.state, row.state}
         /\ MergedProduct(mem, row, cols).external
              \in {mem.external, row.external}
         /\ MergedProduct(mem, row, cols).supplierAvailable
              \in {mem.supplierAvailable, row.supplierAvailable}
         /\ MergedPrice(mem, row, cols).poStatus
              \in {mem.poStatus, row.poStatus}
BY DEF MergedProduct, MergedPrice

-----------------------------------------------------------------------------
(* Each step keeps the invariant *)

LEMMA InitIInv == Init => IInv
<1> SUFFICES ASSUME Init PROVE IInv
  OBVIOUS
<1>1. TypeOK
  BY NoProductType DEF Init, TypeOK
<1>2. StockIsKnown /\ StatusIsKnown
  BY DEF Init, StockIsKnown, StatusIsKnown, NoProduct
<1>3. EditsAreCurrent /\ TasksAreOfRows
  BY DEF Init, EditsAreCurrent, TasksAreOfRows, Edits, Reprices, Idle
<1> QED  BY <1>1, <1>2, <1>3 DEF IInv, Init

LEMMA CreateKeeps ==
  ASSUME IInv, NEW p \in Products, NEW active \in BOOLEAN, Create(p, active)
  PROVE  IInv'
<1> USE DEF Create, history
<1>1. TypeOK'
  <2>1. [NoProduct(p) EXCEPT !.state = "live", !.isActive = active]
          \in ProductRows
    BY NamesAssumption DEF NoProduct, ProductRows
  <2> QED  BY <2>1 DEF IInv, TypeOK
<1>2. StockIsKnown'
  BY DEF IInv, TypeOK, StockIsKnown, NoProduct
<1>3. EditsAreCurrent'
  BY DEF IInv, TypeOK, EditsAreCurrent, Edits, Exists
<1>4. StatusIsKnown'
  BY DEF IInv, TypeOK, StatusIsKnown, NoProduct
<1>5. TasksAreOfRows'
  BY DEF IInv, TasksAreOfRows, Reprices, Priced
<1> QED  BY <1>1, <1>2, <1>3, <1>4, <1>5 DEF IInv

LEMMA SoftRemoveKeeps ==
  ASSUME IInv, NEW p \in Products, SoftRemove(p)
  PROVE  IInv'
<1> USE DEF SoftRemove, history
<1>1. TypeOK'
  <2>1. [product[p] EXCEPT !.state = "deleted"] \in ProductRows
    BY DEF IInv, TypeOK, ProductRows
  <2> QED  BY <2>1 DEF IInv, TypeOK
<1>2. \A q \in Products :
        /\ product'[q].external = product[q].external
        /\ product'[q].supplierAvailable = product[q].supplierAvailable
        /\ Exists(q) => Exists(q)'
  BY DEF IInv, TypeOK, ProductRows, Exists
<1>3. StockIsKnown' /\ StatusIsKnown'
  BY <1>2 DEF IInv, StockIsKnown, StatusIsKnown
<1>4. EditsAreCurrent'
  BY <1>2 DEF IInv, EditsAreCurrent, Edits
<1>5. TasksAreOfRows'
  BY DEF IInv, TasksAreOfRows, Reprices, Priced
<1> QED  BY <1>1, <1>3, <1>4, <1>5 DEF IInv

LEMMA PublishKeeps ==
  ASSUME IInv, NEW p \in Products, NEW offer \in Offers[p], Publish(p, offer)
  PROVE  IInv'
<1> USE DEF Publish
<1>0. offer \in PriceRows
  BY BoundAssumption
<1>1. TypeOK'
  BY <1>0 DEF IInv, TypeOK
<1>2. StockIsKnown'
  BY DEF IInv, StockIsKnown
<1>3. EditsAreCurrent'
  BY DEF IInv, EditsAreCurrent, Edits, Exists
<1>4. StatusIsKnown'
  BY DEF IInv, TypeOK, StatusIsKnown
<1>5. TasksAreOfRows'
  BY <1>0, NoPriceIsNone DEF IInv, TypeOK, TasksAreOfRows, Reprices, Priced
<1> QED  BY <1>1, <1>2, <1>3, <1>4, <1>5 DEF IInv

LEMMA UpdateKeeps ==
  ASSUME IInv, NEW r \in Requests, NEW p \in Products, NEW active \in BOOLEAN,
         Update(r, p, active)
  PROVE  IInv'
<1> USE DEF Update, history
<1> DEFINE t == task'[r]
<1>1. [product[p] EXCEPT !.isActive = active] \in ProductRows
  BY DEF IInv, TypeOK, ProductRows
<1>2. t = [kind |-> "edit", stage |-> "save", product |-> p,
           mem |-> [product[p] EXCEPT !.isActive = active], cols |-> {}]
  BY DEF IInv, TypeOK
<1>3. t \in EditTasks
  BY <1>1, <1>2 DEF EditTasks
<1>4. TypeOK'
  BY <1>3 DEF IInv, TypeOK
<1>5. \A q \in Requests : q # r => task'[q] = task[q]
  BY DEF IInv, TypeOK
<1>6. StockIsKnown'
  BY DEF IInv, StockIsKnown
<1>7. EditsAreCurrent'
  <2>1. /\ t.mem.state = product[p].state
        /\ t.mem.external = product[p].external
        /\ t.mem.supplierAvailable = product[p].supplierAvailable
    BY <1>2 DEF IInv, TypeOK, ProductRows
  <2> QED  BY <1>2, <1>5, <2>1
           DEF IInv, EditsAreCurrent, Edits, Exists, Live
<1>8. StatusIsKnown' /\ TasksAreOfRows'
  BY <1>2, <1>5 DEF IInv, StatusIsKnown, TasksAreOfRows, Reprices, Priced
<1>9. \A q \in calm' : CalmIsCurrent(q)'
  <2>1. r \notin calm
    BY DEF IInv, CalmIsCurrent, Idle
  <2> QED  BY <2>1, <1>5
           DEF IInv, TypeOK, CalmIsCurrent, IsValid, OwnsSlugOf, Live, Priced
<1> QED  BY <1>4, <1>6, <1>7, <1>8, <1>9 DEF IInv

LEMMA CompareProductKeeps ==
  ASSUME IInv, NEW r \in Requests, CompareProduct(r)
  PROVE  IInv'
<1> USE DEF CompareProduct, history
<1> DEFINE t == task'[r]
<1>0. UNCHANGED <<product, price, inStock, torn, reopened, calm>>
  OBVIOUS
<1>1. task[r] \in EditTasks
  BY KindTypes DEF IInv
<1>2. /\ t \in EditTasks
      /\ t.mem = task[r].mem /\ t.product = task[r].product
  BY <1>1 DEF IInv, TypeOK, EditTasks
<1>3. task[r].kind = "edit" /\ t.kind = "edit"
  BY <1>2 DEF EditTasks
<1>4. TypeOK'
  BY <1>2 DEF IInv, TypeOK
<1>5. \A q \in Requests : q # r => task'[q] = task[q]
  BY DEF IInv, TypeOK
<1>6. StockIsKnown'
  BY DEF IInv, StockIsKnown
<1> HIDE DEF CompareProduct, t
<1>7. EditsAreCurrent'
  <2>1. \A q \in Requests : /\ task'[q].mem = task[q].mem
                            /\ \A x \in Products :
                                 Edits(q, x)' <=> Edits(q, x)
    BY <1>2, <1>3, <1>5 DEF Edits, t
  <2> QED  BY <1>0, <2>1 DEF IInv, EditsAreCurrent, Exists
<1>8. StatusIsKnown' /\ TasksAreOfRows'
  BY <1>0, <1>3, <1>5 DEF t, IInv, StatusIsKnown, TasksAreOfRows, Reprices, Priced
<1>9. \A q \in calm' : CalmIsCurrent(q)'
  <2>1. r \notin calm
    BY <1>3 DEF IInv, CalmIsCurrent
  <2> QED  BY <1>0, <2>1, <1>5
           DEF IInv, TypeOK, CalmIsCurrent, IsValid, OwnsSlugOf, Live, Priced
<1> QED  BY <1>4, <1>6, <1>7, <1>8, <1>9 DEF IInv

LEMMA SaveProductKeeps ==
  ASSUME IInv, NEW r \in Requests, SaveProduct(r)
  PROVE  IInv'
<1> USE DEF SaveProduct, history
<1> DEFINE t == task[r]
           p == t.product
           row == MergedProduct(t.mem, product[p], t.cols)
<1>1. t \in EditTasks
  BY KindTypes DEF IInv
<1>2. p \in Products /\ t.mem \in ProductRows /\ t.kind = "edit"
  BY <1>1 DEF EditTasks
<1>3. product[p] \in ProductRows
  BY <1>2 DEF IInv, TypeOK
<1>4. row \in ProductRows
  BY <1>2, <1>3, MergedProductType
<1>5. /\ product' = [product EXCEPT ![p] = row]
      /\ task' = [task EXCEPT ![r] = Idle]
  OBVIOUS
<1>6. TypeOK'
  <2> HIDE DEF row
  <2> QED  BY <1>2, <1>4, <1>5 DEF IInv, TypeOK
<1>7. Edits(r, p)
  BY DEF Edits
<1>8. /\ row.state # "none"
      /\ row.external = product[p].external
      /\ p \notin torn \/ ~product[p].external =>
           row.supplierAvailable = product[p].supplierAvailable
  BY <1>2, <1>7, MergedColumns DEF IInv, EditsAreCurrent, Exists
<1>9. \A q \in Products :
        /\ product'[q].external = product[q].external
        /\ q \notin torn \/ ~product[q].external =>
             product'[q].supplierAvailable = product[q].supplierAvailable
        /\ Exists(q) => Exists(q)'
  <2> HIDE DEF row
  <2> QED  BY <1>2, <1>5, <1>8 DEF IInv, TypeOK, Exists
<1>10. task'[r] = Idle /\ \A q \in Requests : q # r => task'[q] = task[q]
  BY <1>5 DEF IInv, TypeOK
<1>11. StockIsKnown'
  BY <1>9 DEF IInv, StockIsKnown
<1>12. EditsAreCurrent'
  BY <1>9, <1>10 DEF IInv, EditsAreCurrent, Edits, Idle
<1>13. StatusIsKnown' /\ TasksAreOfRows'
  BY <1>9, <1>10
     DEF IInv, StatusIsKnown, TasksAreOfRows, Reprices, Priced, Idle
<1> QED  BY <1>6, <1>11, <1>12, <1>13 DEF IInv

LEMMA ApplyPricingPolicyKeeps ==
  ASSUME IInv, NEW r \in Requests, ApplyPricingPolicy(r)
  PROVE  IInv'
<1> USE DEF ApplyPricingPolicy, history
<1> DEFINE rows == [p \in Products |->
                      IF Priced(p) THEN Repriced(price[p]) ELSE NoPrice]
           new == [kind |-> "policy", stage |-> "save", mem |-> rows,
                   cells |-> [p \in Products |-> {}]]
<1>1. \A p \in Products :
        Priced(p) => price[p] \in PriceRows /\ Repriced(price[p]) \in PriceRows
  BY RepricedType DEF IInv, TypeOK, Priced
<1>2. new \in PolicyTasks
  BY <1>1 DEF PolicyTasks
<1>3. TypeOK'
  <2>1. task' = [task EXCEPT ![r] = new]
    OBVIOUS
  <2> HIDE DEF new
  <2> QED  BY <1>2, <2>1 DEF IInv, TypeOK
<1>4. /\ task'[r] = new
      /\ \A q \in Requests : q # r => task'[q] = task[q]
  BY DEF IInv, TypeOK
<1>5. \A p \in Products :
        /\ rows[p] # NoPrice => Priced(p)
        /\ rows[p].poStatus = price[p].poStatus
  <2>1. \A row \in PriceRows : Repriced(row).poStatus = row.poStatus
    BY DEF Repriced, PriceRows
  <2> QED  BY <1>1, <2>1 DEF Priced
<1>6. StockIsKnown'
  BY DEF IInv, StockIsKnown
<1>7. EditsAreCurrent'
  BY <1>4 DEF IInv, EditsAreCurrent, Edits, Exists
<1>8. StatusIsKnown'
  <2> HIDE DEF rows
  <2> QED  BY <1>4, <1>5 DEF IInv, StatusIsKnown, Orderable
<1>9. TasksAreOfRows'
  <2> HIDE DEF rows
  <2> QED  BY <1>4, <1>5 DEF IInv, TasksAreOfRows, Reprices, Priced
<1>10. \A q \in calm' : CalmIsCurrent(q)'
  <2>1. CalmIsCurrent(r)'
    BY <1>4 DEF CalmIsCurrent, Priced
  <2>2. ASSUME NEW q \in calm, q # r PROVE CalmIsCurrent(q)'
    BY <1>4, <2>2
       DEF IInv, TypeOK, CalmIsCurrent, IsValid, OwnsSlugOf, Live, Priced
  <2> QED  BY <2>1, <2>2
<1> QED  BY <1>3, <1>6, <1>7, <1>8, <1>9, <1>10 DEF IInv

LEMMA ComparePricesKeeps ==
  ASSUME IInv, NEW r \in Requests, ComparePrices(r)
  PROVE  IInv'
<1> USE DEF ComparePrices, history
<1> DEFINE t == task[r]
           Differing(p) == {c \in PriceColumns : t.mem[p][c] # price[p][c]}
           cells == [p \in Products |->
                       IF Reprices(r, p) THEN Differing(p) ELSE {}]
<1>0. UNCHANGED <<product, price, inStock, torn, reopened, calm>>
  OBVIOUS
<1>1. t \in PolicyTasks
  BY KindTypes DEF IInv
<1>2. /\ task'[r] \in PolicyTasks
      /\ task'[r].mem = t.mem /\ task'[r].cells = cells
      /\ task'[r].kind = "policy" /\ t.kind = "policy"
  BY <1>1 DEF IInv, TypeOK, PolicyTasks
<1>3. \A q \in Requests : q # r => task'[q] = task[q]
  BY DEF IInv, TypeOK
<1>4. TypeOK'
  BY <1>2 DEF IInv, TypeOK
<1> HIDE DEF ComparePrices, cells, t
<1>5. StockIsKnown'
  BY <1>0 DEF IInv, StockIsKnown
<1>6. EditsAreCurrent'
  BY <1>0, <1>2, <1>3 DEF t, IInv, EditsAreCurrent, Edits, Exists
<1>7. StatusIsKnown' /\ TasksAreOfRows'
  BY <1>0, <1>2, <1>3 DEF t, IInv, StatusIsKnown, TasksAreOfRows, Reprices, Priced
<1>8. \A q \in calm' : CalmIsCurrent(q)'
  <2>1. ASSUME r \in calm PROVE CalmIsCurrent(r)'
    <3>1. \A p \in Products : Priced(p) => Reprices(r, p)
      <4>1. \A p \in Products : Priced(p) => Repriced(price[p]) # NoPrice
        BY RepricedType, NoPriceIsNone DEF IInv, TypeOK, Priced
      <4> QED  BY <1>2, <2>1, <4>1 DEF t, IInv, CalmIsCurrent, Reprices
    <3>2. \A p \in Products : Priced(p) => cells[p] = Differing(p)
      BY <3>1 DEF cells
    <3>3. \A p \in Products :
            t.mem[p] = IF Priced(p) THEN Repriced(price[p]) ELSE NoPrice
      BY <1>2, <2>1 DEF t, IInv, CalmIsCurrent
    <3> QED  BY <1>0, <1>2, <3>2, <3>3 DEF CalmIsCurrent, Priced
  <2>2. ASSUME NEW q \in calm, q # r PROVE CalmIsCurrent(q)'
    BY <1>0, <1>3, <2>2
       DEF IInv, TypeOK, CalmIsCurrent, IsValid, OwnsSlugOf, Live, Priced
  <2> QED  BY <1>0, <2>1, <2>2
<1> QED  BY <1>4, <1>5, <1>6, <1>7, <1>8 DEF IInv

LEMMA SavePricesKeeps ==
  ASSUME IInv, NEW r \in Requests, SavePrices(r)
  PROVE  IInv'
<1> USE DEF SavePrices, history
<1> DEFINE t == task[r]
           New(p) == IF Reprices(r, p)
                     THEN MergedPrice(t.mem[p], price[p], t.cells[p])
                     ELSE price[p]
<1>1. t \in PolicyTasks
  BY KindTypes DEF IInv
<1>2. \A p \in Products :
        /\ Reprices(r, p) =>
             /\ New(p) \in PriceRows
             /\ New(p).poStatus \in {t.mem[p].poStatus, price[p].poStatus}
        /\ ~Reprices(r, p) => New(p) = price[p]
  <2> TAKE p \in Products
  <2>1. ASSUME Reprices(r, p)
        PROVE  t.mem[p] \in PriceRows /\ price[p] \in PriceRows
    BY <1>1, <2>1
       DEF IInv, TypeOK, PolicyTasks, Reprices, TasksAreOfRows, Priced
  <2> QED  BY <2>1, MergedPriceType, MergedColumns
<1>3. price' = [p \in Products |-> New(p)]
  OBVIOUS
<1> HIDE DEF New
<1>4. TypeOK'
  BY <1>2, <1>3 DEF IInv, TypeOK
<1>5. task'[r] = Idle /\ \A q \in Requests : q # r => task'[q] = task[q]
  BY DEF IInv, TypeOK
<1>6. StockIsKnown'
  BY DEF IInv, StockIsKnown
<1>7. EditsAreCurrent'
  BY <1>5 DEF IInv, EditsAreCurrent, Edits, Exists, Idle
<1>8. StatusIsKnown'
  <2>1. \A p \in Products \ (torn \cup reopened) :
          product[p].external /\ ~product[p].supplierAvailable
            => ~Orderable(New(p))
    BY <1>2 DEF IInv, StatusIsKnown, Orderable, Reprices
  <2> QED  BY <1>3, <1>5, <2>1 DEF IInv, StatusIsKnown, Idle
<1>9. TasksAreOfRows'
  <2>1. \A p \in Products : Priced(p) => Priced(p)'
    BY <1>2, <1>3, NoPriceIsNone DEF Priced
  <2> QED  BY <1>5, <2>1 DEF IInv, TasksAreOfRows, Reprices, Idle
<1> QED  BY <1>4, <1>6, <1>7, <1>8, <1>9 DEF IInv

LEMMA PreviewKeeps ==
  ASSUME IInv, NEW r \in Requests, NEW file \in Files, Preview(r, file)
  PROVE  IInv'
<1> DEFINE valid == {i \in DOMAIN file : IsValid(file, i)}
           new == [kind |-> "import", file |-> file, valid |-> valid,
                   creates |-> {i \in valid : ~Live(file[i].sku)}]
<1>1. /\ UNCHANGED <<product, price, inStock, torn, reopened>>
      /\ task' = [task EXCEPT ![r] = new]
      /\ calm' = calm \cup {r}
  BY DEF Preview, history
<1>2. DOMAIN file \subseteq Nat
  BY BoundAssumption
<1>3. new \in ImportTasks
  BY <1>2 DEF ImportTasks
<1>4. new.kind = "import" /\ new.file = file /\ new.valid = valid
      /\ new.creates = {i \in valid : ~Live(file[i].sku)}
  OBVIOUS
<1> HIDE DEF new
<1>5. TypeOK'
  BY <1>1, <1>3 DEF IInv, TypeOK
<1>6. /\ task'[r] = new
      /\ \A q \in Requests : q # r => task'[q] = task[q]
  BY <1>1 DEF IInv, TypeOK
<1>7. StockIsKnown'
  BY <1>1 DEF IInv, StockIsKnown
<1>8. EditsAreCurrent'
  BY <1>1, <1>4, <1>6 DEF IInv, EditsAreCurrent, Edits, Exists
<1>9. StatusIsKnown' /\ TasksAreOfRows'
  BY <1>1, <1>4, <1>6 DEF IInv, StatusIsKnown, TasksAreOfRows, Reprices, Priced
<1>10. \A q \in calm' : CalmIsCurrent(q)'
  <2>1. CalmIsCurrent(r)'
    BY <1>1, <1>4, <1>6 DEF CalmIsCurrent, IsValid, OwnsSlugOf, Live
  <2>2. ASSUME NEW q \in calm, q # r PROVE CalmIsCurrent(q)'
    BY <1>1, <1>6, <2>2
       DEF IInv, TypeOK, CalmIsCurrent, IsValid, OwnsSlugOf, Live, Priced
  <2> QED  BY <1>1, <2>1, <2>2
<1> QED  BY <1>5, <1>7, <1>8, <1>9, <1>10 DEF IInv

LEMMA AbandonKeeps ==
  ASSUME IInv, NEW r \in Requests, Abandon(r)
  PROVE  IInv'
<1>1. /\ UNCHANGED <<product, price, inStock, torn, reopened>>
      /\ task' = [task EXCEPT ![r] = Idle]
      /\ calm' = calm \ {r}
  BY DEF Abandon, history
<1>2. TypeOK'
  BY <1>1 DEF IInv, TypeOK
<1>3. /\ task'[r] = Idle
      /\ \A q \in Requests : q # r => task'[q] = task[q]
  BY <1>1 DEF IInv, TypeOK
<1>4. StockIsKnown'
  BY <1>1 DEF IInv, StockIsKnown
<1>5. EditsAreCurrent'
  BY <1>1, <1>3 DEF IInv, EditsAreCurrent, Edits, Exists, Idle
<1>6. StatusIsKnown' /\ TasksAreOfRows'
  BY <1>1, <1>3
     DEF IInv, StatusIsKnown, TasksAreOfRows, Reprices, Priced, Idle
<1>7. \A q \in calm' : CalmIsCurrent(q)'
  BY <1>1, <1>3
     DEF IInv, TypeOK, CalmIsCurrent, IsValid, OwnsSlugOf, Live, Priced
<1> QED  BY <1>2, <1>4, <1>5, <1>6, <1>7 DEF IInv

\* The rows of a file that is being imported are rows of a file.
LEMMA ImportedRows ==
  ASSUME IInv, NEW r \in Requests, task[r].kind = "import"
  PROVE  /\ task[r].file \in Seq(FileRows)
         /\ task[r].valid \subseteq DOMAIN task[r].file
         /\ \A i \in task[r].valid : task[r].file[i] \in FileRows
<1>1. task[r].file \in Seq(FileRows)
  BY KindTypes, BoundAssumption DEF IInv, ImportTasks
<1>2. task[r].valid \subseteq DOMAIN task[r].file
  BY DEF IInv, TasksAreOfRows
<1> QED  BY <1>1, <1>2

LEMMA CommitKeeps ==
  ASSUME IInv, NEW r \in Requests, NEW publish \in BOOLEAN, Commit(r, publish)
  PROVE  IInv'
<1> DEFINE t == task[r]
           created == {t.file[i].sku : i \in {j \in t.valid : Inserts(t, j)}}
           New(p) == [NoProduct(p) EXCEPT !.state = "live", !.isActive = TRUE]
<1>1. /\ t.kind = "import"
      /\ \A p \in created, q \in Products : Exists(q) => q # p
      /\ product' = [p \in Products |-> IF p \in created THEN New(p)
                                        ELSE product[p]]
      /\ task' = [task EXCEPT ![r] = Idle]
      /\ calm' = {} /\ UNCHANGED <<inStock, torn>>
  BY DEF Commit
<1>2. /\ price' \in [Products -> PriceRows \cup {NoPrice}]
      /\ reopened' \subseteq Products /\ reopened \subseteq reopened'
      /\ \A p \in Products :
           /\ p \notin reopened' => price'[p] = price[p]
           /\ Priced(p) => Priced(p)'
  <2>1. CASE publish
    <3>0. PICK match \in [t.valid -> Products] :
            \E last \in [{match[i] : i \in t.valid} -> t.valid] :
              /\ price' = [p \in Products |->
                             IF p \in DOMAIN last
                             THEN Imported(t.file[last[p]], price[p])
                             ELSE price[p]]
              /\ reopened' = reopened \cup DOMAIN last
      BY <2>1 DEF Commit
    <3>1. PICK last \in [{match[i] : i \in t.valid} -> t.valid] :
            /\ price' = [p \in Products |->
                           IF p \in DOMAIN last
                           THEN Imported(t.file[last[p]], price[p])
                           ELSE price[p]]
            /\ reopened' = reopened \cup DOMAIN last
      BY <3>0
    <3>2. DOMAIN last \subseteq Products
      OBVIOUS
    <3>3. \A p \in DOMAIN last : Imported(t.file[last[p]], price[p]) \in PriceRows
      <4> TAKE p \in DOMAIN last
      <4>1. t.file[last[p]] \in FileRows
        BY <1>1, ImportedRows
      <4>2. price[p].market \in Nat
        BY <3>2 DEF IInv, TypeOK, PriceRows, NoPrice
      <4> QED  BY <4>1, <4>2 DEF Imported, FileRows, PriceRows
    <3>4. reopened' \subseteq Products /\ reopened \subseteq reopened'
      BY <3>1, <3>2 DEF IInv, TypeOK
    <3>5. price' \in [Products -> PriceRows \cup {NoPrice}]
      BY <3>1, <3>3 DEF IInv, TypeOK
    <3>6. \A p \in Products :
            /\ p \notin reopened' => price'[p] = price[p]
            /\ Priced(p) => Priced(p)'
      BY <3>1, <3>3, NoPriceIsNone DEF Priced
    <3> QED  BY <3>4, <3>5, <3>6
  <2>2. CASE ~publish
    BY <2>2 DEF Commit, IInv, TypeOK, Priced
  <2> QED  BY <2>1, <2>2
<1>3. \A p \in Products : New(p) \in ProductRows
  BY NamesAssumption DEF NoProduct, ProductRows
<1>4. \A p \in Products : New(p).external = FALSE /\ New(p).supplierAvailable
  BY DEF NoProduct
<1> HIDE DEF New, created
<1>5. TypeOK'
  BY <1>1, <1>2, <1>3 DEF IInv, TypeOK
<1>6. /\ task'[r] = Idle
      /\ \A q \in Requests : q # r => task'[q] = task[q]
  BY <1>1 DEF IInv, TypeOK
<1>7. StockIsKnown'
  BY <1>1, <1>4 DEF IInv, StockIsKnown
<1>8. \A p \in Products : Exists(p) => product'[p] = product[p]
  BY <1>1 DEF IInv, TypeOK
<1>9. EditsAreCurrent'
  BY <1>1, <1>6, <1>8 DEF IInv, EditsAreCurrent, Edits, Exists, Idle
<1>10. StatusIsKnown'
  BY <1>1, <1>2, <1>4, <1>6 DEF IInv, StatusIsKnown, Idle
<1>11. TasksAreOfRows'
  BY <1>2, <1>6 DEF IInv, TasksAreOfRows, Reprices, Idle
<1> QED  BY <1>1, <1>5, <1>7, <1>9, <1>10, <1>11 DEF IInv

LEMMA ReconcileKeeps ==
  ASSUME IInv, NEW s \in Snapshots, Reconcile(s)
  PROVE  IInv'
<1>1. /\ DOMAIN s \subseteq Products
      /\ \A p \in DOMAIN s : s[p] \in SnapshotRows
  BY BoundAssumption
<1>2. PICK plain : product' = [p \in Products |-> Synced(s, plain, p)]
  BY DEF Reconcile
<1>3. \A p \in DOMAIN s : Found(p) \/ ~Exists(p)
  BY DEF Reconcile
<1>4. /\ price' = [p \in Products |-> SyncedPrice(s, p)]
      /\ inStock' = {p \in DOMAIN s : s[p].available}
      /\ torn' = {p \in Products : \E r \in Requests : Edits(r, p)}
      /\ reopened' = {p \in Products : \E r \in Requests : Reprices(r, p)}
      /\ calm' = {} /\ task' = task
  BY DEF Reconcile
<1>5. \A p \in Products :
        /\ product'[p] \in ProductRows
        /\ Exists(p) => /\ product'[p].external = product[p].external
                        /\ Exists(p)'
        /\ product'[p].external =>
             product'[p].supplierAvailable = Available(s, p)
        /\ ~product'[p].external => product'[p] = product[p]
  <2> TAKE p \in Products
  <2>1. product[p] \in ProductRows /\ product'[p] = Synced(s, plain, p)
    BY <1>2 DEF IInv, TypeOK
  <2>2. Available(s, p) \in BOOLEAN
    BY <1>1 DEF Available, SnapshotRows
  <2>3. CASE p \in DOMAIN s /\ ~Found(p)
    <3>1. PICK slug \in Names \cup Products :
            product'[p] = [state |-> "live", isActive |-> TRUE,
                           external |-> TRUE,
                           supplierAvailable |-> Available(s, p),
                           slug |-> slug]
      <4>1. CASE p \in plain
        BY <2>1, <2>3, <4>1, NamesAssumption DEF Synced
      <4>2. CASE p \notin plain
        BY <2>1, <2>3, <4>2 DEF Synced
      <4> QED  BY <4>1, <4>2
    <3>2. ~Exists(p)
      BY <1>3, <2>3
    <3>3. product'[p] \in ProductRows
      BY <2>2, <3>1 DEF ProductRows
    <3>4. /\ product'[p].external = TRUE
          /\ product'[p].supplierAvailable = Available(s, p)
      BY <3>1
    <3> QED  BY <3>2, <3>3, <3>4
  <2>4. CASE ~(p \in DOMAIN s /\ ~Found(p)) /\ product[p].external
    BY <2>1, <2>2, <2>4 DEF Synced, ProductRows, Exists
  <2>5. CASE ~(p \in DOMAIN s /\ ~Found(p)) /\ ~product[p].external
    BY <2>1, <2>5 DEF Synced, Exists
  <2> QED  BY <2>3, <2>4, <2>5
<1>6. \A p \in Products :
        /\ price'[p] \in PriceRows \cup {NoPrice}
        /\ Priced(p) => price'[p] \in PriceRows
        /\ product'[p].external /\ ~Available(s, p) => ~Orderable(price'[p])
  <2> TAKE p \in Products
  <2>1. /\ price[p] \in PriceRows \cup {NoPrice}
        /\ price'[p] = SyncedPrice(s, p)
    BY <1>4 DEF IInv, TypeOK
  <2>2. price[p].market \in Nat
    BY <2>1 DEF PriceRows, NoPrice
  <2>3. CASE p \in DOMAIN s
    <3>1. MarginOf(s[p]) \in Nat /\ s[p] \in SnapshotRows
      BY <1>1, <2>3, MarginOfType
    <3> QED  BY <2>1, <2>2, <2>3, <3>1
             DEF SyncedPrice, SnapshotRows, PriceRows, PoStatus, Available,
                 Orderable
  <2>4. CASE p \notin DOMAIN s
    <3>1. product'[p].external => product[p].external
      BY <1>2, <2>4 DEF Synced
    <3>2. CASE Priced(p) /\ product[p].external
      BY <2>1, <2>4, <3>2
         DEF SyncedPrice, PriceRows, PoStatus, Priced, Orderable
    <3>3. CASE ~Priced(p)
      BY <2>1, <2>4, <3>3, NoPriceIsNone DEF SyncedPrice, Priced
    <3>4. CASE Priced(p) /\ ~product[p].external
      BY <2>1, <2>4, <3>1, <3>4 DEF SyncedPrice, Priced
    <3> QED  BY <3>2, <3>3, <3>4
  <2> QED  BY <2>3, <2>4
<1>7. TypeOK'
  <2>1. product' \in [Products -> ProductRows]
    BY <1>2, <1>5
  <2>2. price' \in [Products -> PriceRows \cup {NoPrice}]
    BY <1>4, <1>6
  <2> QED  BY <1>1, <1>4, <2>1, <2>2 DEF IInv, TypeOK
<1>8. StockIsKnown'
  BY <1>4, <1>5 DEF IInv, StockIsKnown, Available
<1>9. EditsAreCurrent'
  <2> SUFFICES ASSUME NEW r \in Requests, NEW p \in Products, Edits(r, p)
               PROVE  /\ Exists(p)' /\ task[r].mem.state # "none"
                      /\ task[r].mem.external = product'[p].external
                      /\ p \notin torn' \/ ~product'[p].external =>
                           task[r].mem.supplierAvailable
                             = product'[p].supplierAvailable
    BY <1>4 DEF EditsAreCurrent, Edits
  <2>1. p \in torn'
    BY <1>4
  <2> QED  BY <1>5, <2>1 DEF IInv, EditsAreCurrent
<1>10. StatusIsKnown'
  <2> SUFFICES ASSUME NEW p \in Products \ (torn' \cup reopened'),
                      product'[p].external, ~product'[p].supplierAvailable
               PROVE  /\ ~Orderable(price'[p])
                      /\ \A r \in Requests : task[r].kind = "policy" =>
                           ~Orderable(task[r].mem[p])
    BY <1>4 DEF StatusIsKnown, Orderable
  <2>1. ~Orderable(price'[p])
    BY <1>5, <1>6
  <2>2. \A r \in Requests : ~Reprices(r, p)
    BY <1>4
  <2> QED  BY <2>1, <2>2, NoPriceIsNone DEF Reprices
<1>11. TasksAreOfRows'
  BY <1>4, <1>6, NoPriceIsNone DEF IInv, TasksAreOfRows, Reprices, Priced
<1> QED  BY <1>4, <1>7, <1>8, <1>9, <1>10, <1>11 DEF IInv

LEMMA StutterKeeps ==
  ASSUME IInv, UNCHANGED vars
  PROVE  IInv'
BY DEF IInv, vars, TypeOK, StockIsKnown, EditsAreCurrent, StatusIsKnown,
       TasksAreOfRows, CalmIsCurrent, Edits, Reprices, Exists, Live, Priced,
       IsValid, OwnsSlugOf

-----------------------------------------------------------------------------
(* Theorems *)

\* What requests hold and what the tables say stay consistent.
THEOREM Invariance == Spec => []IInv
<1>1. IInv /\ [Next]_vars => IInv'
  <2> SUFFICES ASSUME IInv, [Next]_vars PROVE IInv'
    OBVIOUS
  <2> QED  BY CreateKeeps, SoftRemoveKeeps, PublishKeeps, ReconcileKeeps,
              UpdateKeeps, CompareProductKeeps, SaveProductKeeps,
              ApplyPricingPolicyKeeps, ComparePricesKeeps, SavePricesKeeps,
              PreviewKeeps, CommitKeeps, AbandonKeeps, StutterKeeps DEF Next
<1> QED  BY InitIInv, <1>1, PTL DEF Spec

\* The tables keep their types.
THEOREM TypeCorrect == Spec => []TypeOK
<1>1. IInv => TypeOK
  BY DEF IInv
<1> QED  BY Invariance, <1>1, PTL

\* No order takes a supplier's product that the last snapshot had out of stock.
THEOREM SuppliedSold == Spec => []SuppliedWhenSold
<1>1. IInv => SuppliedWhenSold
  BY DEF IInv, StockIsKnown, SuppliedWhenSold, Accepts
<1> QED  BY Invariance, <1>1, PTL

\* What the shop shows as orderable is refused only where it is a supplier's
\* product out of stock, whose price was written after the last snapshot or which
\* a request had in memory at it.
THEOREM ShopKeepsItsWord == Spec => []ShownIsTaken
<1>1. IInv => ShownIsTaken
  <2> SUFFICES ASSUME IInv, NEW p \in Products,
                      Listed(p), Orderable(price[p]), ~Accepts(p)
               PROVE  /\ product[p].external /\ ~product[p].supplierAvailable
                      /\ p \in torn \cup reopened
    BY DEF ShownIsTaken
  <2>1. ~product[p].supplierAvailable
    BY DEF Listed, OnShelf, Accepts, Orderable
  <2>2. product[p].external
    BY <2>1 DEF IInv, StockIsKnown
  <2>3. p \in torn \cup reopened
    BY <2>1, <2>2 DEF IInv, StatusIsKnown
  <2> QED  BY <2>1, <2>2, <2>3
<1> QED  BY Invariance, <1>1, PTL

\* A calm policy run that saves leaves sane margins, and only margins changed.
THEOREM PolicySane == Spec => PolicyPricesAreSane
<1> DEFINE Act ==
      \A r \in Requests :
        /\ task[r].kind = "policy" /\ r \in calm
        /\ task'[r] = Idle /\ price' # price
        => \A p \in Products :
             /\ [price'[p] EXCEPT !.margin = price[p].margin] = price[p]
             /\ Priced(p) => IsSane(price[p].basePrice, price[p].market,
                                    price'[p].margin)
<1>1. ASSUME IInv, [Next]_vars, NEW r \in Requests,
             task[r].kind = "policy", r \in calm,
             task'[r] = Idle, price' # price
      PROVE  \A p \in Products :
               /\ [price'[p] EXCEPT !.margin = price[p].margin] = price[p]
               /\ Priced(p) => IsSane(price[p].basePrice, price[p].market,
                                      price'[p].margin)
  <2>1. SavePrices(r)
    <3>1. task'[r] # task[r]
      BY <1>1 DEF Idle
    <3>2. \A q \in Requests : q # r => ~SavePrices(q)
      BY <1>1, <3>1 DEF IInv, TypeOK, SavePrices
    <3>3. \A q \in Requests, publish \in BOOLEAN : ~Commit(q, publish)
      BY <1>1, <3>1 DEF IInv, TypeOK, Commit
    <3>4. /\ \A p \in Products, active \in BOOLEAN : ~Create(p, active)
          /\ \A p \in Products : ~SoftRemove(p)
          /\ \A p \in Products : \A offer \in Offers[p] : ~Publish(p, offer)
          /\ \A s \in Snapshots : ~Reconcile(s)
      BY <3>1 DEF Create, SoftRemove, Publish, Reconcile
    <3>5. /\ \A q \in Requests, p \in Products, active \in BOOLEAN :
                ~Update(q, p, active)
          /\ \A q \in Requests : ~CompareProduct(q) /\ ~SaveProduct(q)
          /\ \A q \in Requests : ~ApplyPricingPolicy(q) /\ ~ComparePrices(q)
          /\ \A q \in Requests, file \in Files : ~Preview(q, file)
          /\ \A q \in Requests : ~Abandon(q)
      BY <1>1 DEF Update, CompareProduct, SaveProduct, ApplyPricingPolicy,
                  ComparePrices, Preview, Abandon
    <3>6. ~UNCHANGED vars
      BY <3>1 DEF vars
    <3> QED  BY <1>1, <3>2, <3>3, <3>4, <3>5, <3>6 DEF Next
  <2> SUFFICES ASSUME NEW p \in Products
               PROVE /\ [price'[p] EXCEPT !.margin = price[p].margin] = price[p]
                     /\ Priced(p) => IsSane(price[p].basePrice,
                                            price[p].market, price'[p].margin)
    OBVIOUS
  <2>2. price[p] \in PriceRows \cup {NoPrice}
    BY <1>1 DEF IInv, TypeOK
  <2>3. CASE ~Priced(p)
    <3>1. ~Reprices(r, p)
      BY <1>1, <2>3 DEF IInv, TasksAreOfRows
    <3>2. price'[p] = NoPrice /\ price[p] = NoPrice
      BY <2>1, <2>3, <3>1 DEF SavePrices, Priced
    <3> QED  BY <2>3, <3>2 DEF NoPrice
  <2>4. CASE Priced(p)
    <3>1. price[p] \in PriceRows
      BY <2>2, <2>4 DEF Priced
    <3>2. /\ task[r].mem[p] = Repriced(price[p])
          /\ task[r].cells[p] =
               {c \in PriceColumns : task[r].mem[p][c] # price[p][c]}
      BY <1>1, <2>1, <2>4 DEF IInv, CalmIsCurrent, SavePrices
    <3>3. Reprices(r, p)
      BY <1>1, <3>1, <3>2, RepricedType, NoPriceIsNone DEF Reprices
    <3>4. price'[p] = MergedPrice(task[r].mem[p], price[p], task[r].cells[p])
      BY <2>1, <3>3 DEF SavePrices
    <3>5. price'[p] = Repriced(price[p])
      <4> DEFINE mem == Repriced(price[p])
      <4>1. mem = [basePrice |-> mem.basePrice, margin |-> mem.margin,
                   market |-> mem.market, poStatus |-> mem.poStatus]
        BY <3>1, RepricedType DEF PriceRows
      <4> HIDE DEF mem
      <4>2. MergedPrice(mem, price[p],
                        {c \in PriceColumns : mem[c] # price[p][c]}) = mem
        BY <4>1 DEF MergedPrice, PriceColumns
      <4> QED  BY <3>2, <3>4, <4>2 DEF mem
    <3>6. IsSane(price[p].basePrice, price[p].market,
                 SuggestedMargin(price[p].basePrice, price[p].market))
      BY <3>1, SuggestionIsSane DEF PriceRows
    <3>7. price'[p].margin
            = SuggestedMargin(price[p].basePrice, price[p].market)
      BY <3>1, <3>5 DEF Repriced, PriceRows
    <3>8. [price'[p] EXCEPT !.margin = price[p].margin] = price[p]
      BY <3>1, <3>5 DEF Repriced, PriceRows
    <3> QED  BY <3>6, <3>7, <3>8
  <2> QED  BY <2>3, <2>4
<1>2. IInv /\ [Next]_vars => [Act]_vars
  BY <1>1
<1> QED  BY Invariance, <1>2, PTL DEF Spec, PolicyPricesAreSane

\* A calm import of distinct names makes and prices what its preview showed.
THEOREM ImportKept == Spec => ImportAsPreviewed
<1> DEFINE Named(r) == {task[r].file[i].sku : i \in task[r].valid}
           Act ==
      \A r \in Requests :
        LET t == task[r]
            listed == {t.file[i].sku : i \in t.valid}
        IN  /\ t.kind = "import" /\ r \in calm /\ DistinctNames(t.file)
            /\ task'[r] = Idle /\ <<product, price>>' # <<product, price>>
            => /\ \A p \in Products \ listed :
                    product'[p] = product[p] /\ price'[p] = price[p]
               /\ \A i \in t.valid :
                    i \in t.creates <=> product'[t.file[i].sku]
                                          # product[t.file[i].sku]
<1>1. ASSUME IInv, [Next]_vars, NEW r \in Requests,
             task[r].kind = "import", r \in calm, DistinctNames(task[r].file),
             task'[r] = Idle, <<product, price>>' # <<product, price>>
      PROVE  /\ \A p \in Products \ Named(r) :
                  product'[p] = product[p] /\ price'[p] = price[p]
             /\ \A i \in task[r].valid :
                  i \in task[r].creates <=> product'[task[r].file[i].sku]
                                             # product[task[r].file[i].sku]
  <2>1. PICK publish \in BOOLEAN : Commit(r, publish)
    <3>1. task'[r] # task[r]
      BY <1>1 DEF Idle
    <3>2. \A q \in Requests, publish \in BOOLEAN :
            q # r => ~Commit(q, publish)
      BY <1>1, <3>1 DEF IInv, TypeOK, Commit
    <3>3. \A q \in Requests : ~SavePrices(q) /\ ~SaveProduct(q)
      BY <1>1, <3>1 DEF IInv, TypeOK, SavePrices, SaveProduct
    <3>4. /\ \A p \in Products, active \in BOOLEAN : ~Create(p, active)
          /\ \A p \in Products : ~SoftRemove(p)
          /\ \A p \in Products : \A offer \in Offers[p] : ~Publish(p, offer)
          /\ \A s \in Snapshots : ~Reconcile(s)
      BY <3>1 DEF Create, SoftRemove, Publish, Reconcile
    <3>5. /\ \A q \in Requests, p \in Products, active \in BOOLEAN :
                ~Update(q, p, active)
          /\ \A q \in Requests : ~CompareProduct(q)
          /\ \A q \in Requests : ~ApplyPricingPolicy(q) /\ ~ComparePrices(q)
          /\ \A q \in Requests, file \in Files : ~Preview(q, file)
          /\ \A q \in Requests : ~Abandon(q)
      BY <1>1 DEF Update, CompareProduct, ApplyPricingPolicy,
                  ComparePrices, Preview, Abandon
    <3>6. ~UNCHANGED vars
      BY <3>1 DEF vars
    <3> QED  BY <1>1, <3>2, <3>3, <3>4, <3>5, <3>6 DEF Next
  <2>2. /\ task[r].file \in Seq(FileRows)
        /\ task[r].valid \subseteq DOMAIN task[r].file
        /\ \A i \in task[r].valid : task[r].file[i] \in FileRows
    BY <1>1, ImportedRows
  <2>3. /\ task[r].valid
             = {i \in DOMAIN task[r].file : IsValid(task[r].file, i)}
        /\ task[r].creates
             = {i \in task[r].valid : ~Live(task[r].file[i].sku)}
    BY <1>1 DEF IInv, CalmIsCurrent
  <2>4. \A i \in task[r].valid :
          LiveMatches(task[r].file[i].sku)
            = {p \in {task[r].file[i].sku} : Live(p)}
    BY <2>2, <2>3 DEF IsValid, OwnsSlugOf, LiveMatches, FileRows
  <2>5. \A i, j \in task[r].valid :
          j < i => ~SameName(task[r], i, j)
    <3> SUFFICES ASSUME NEW i \in task[r].valid, NEW j \in task[r].valid,
                        j < i, SameName(task[r], i, j)
                 PROVE  FALSE
      OBVIOUS
    <3>1. task[r].file[i].sku = task[r].file[j].sku
      BY <1>1, <2>2 DEF DistinctNames, SameName
    <3>2. i \in Nat /\ j \in 1..(i - 1)
      BY <2>2
    <3> QED  BY <2>3, <3>1, <3>2 DEF IsValid
  <2>6. \A i \in task[r].valid :
          Inserts(task[r], i) <=> ~Live(task[r].file[i].sku)
    BY <2>4, <2>5 DEF Inserts
  <2> DEFINE created == {task[r].file[i].sku :
                           i \in {j \in task[r].valid : Inserts(task[r], j)}}
             New(p) == [NoProduct(p) EXCEPT !.state = "live", !.isActive = TRUE]
  <2>7. product' = [p \in Products |-> IF p \in created THEN New(p)
                                      ELSE product[p]]
    BY <2>1 DEF Commit
  <2>8. \A p \in Products : New(p).state = "live"
    BY DEF NoProduct
  <2>9. ASSUME NEW i \in task[r].valid
        PROVE  i \in task[r].creates <=> product'[task[r].file[i].sku]
                                           # product[task[r].file[i].sku]
    <3> DEFINE sku == task[r].file[i].sku
    <3>1. sku \in Products
      BY <2>2 DEF FileRows
    <3>2. sku \in created <=> ~Live(sku)
      BY <2>6
    <3>3. i \in task[r].creates <=> ~Live(sku)
      BY <2>3
    <3> HIDE DEF created, New, sku
    <3>4. product'[sku] = IF ~Live(sku) THEN New(sku) ELSE product[sku]
      BY <2>7, <3>1, <3>2
    <3>5. product'[sku] # product[sku] <=> ~Live(sku)
      BY <2>8, <3>1, <3>4 DEF Live
    <3> QED  BY <3>3, <3>5 DEF sku
  <2>10. ASSUME NEW p \in Products \ Named(r)
         PROVE  product'[p] = product[p]
    <3>1. p \notin created
      OBVIOUS
    <3> HIDE DEF created, New
    <3> QED  BY <2>7, <3>1
  <2>11. ASSUME NEW p \in Products \ Named(r)
         PROVE  price'[p] = price[p]
    <3>1. CASE publish
      <4>1. PICK match \in [task[r].valid -> Products] :
              \E last \in [{match[i] : i \in task[r].valid}
                             -> task[r].valid] :
                /\ IsMatch(task[r], match)
                /\ price' = [x \in Products |->
                       IF x \in DOMAIN last
                       THEN Imported(task[r].file[last[x]], price[x])
                       ELSE price[x]]
        BY <2>1, <3>1 DEF Commit
      <4>2. PICK last \in [{match[i] : i \in task[r].valid}
                             -> task[r].valid] :
                /\ IsMatch(task[r], match)
                /\ price' = [x \in Products |->
                       IF x \in DOMAIN last
                       THEN Imported(task[r].file[last[x]], price[x])
                       ELSE price[x]]
        BY <4>1
      <4>3. \A i \in task[r].valid : match[i] = task[r].file[i].sku
        BY <2>4, <2>5, <2>6, <4>2 DEF IsMatch
      <4>4. p \notin DOMAIN last
        BY <4>3
      <4> QED  BY <4>2, <4>4
    <3>2. CASE ~publish
      BY <2>1, <3>2 DEF Commit
    <3> QED  BY <3>1, <3>2
  <2> QED  BY <2>9, <2>10, <2>11
<1>2. IInv /\ [Next]_vars => [Act]_vars
  BY <1>1
<1> QED  BY Invariance, <1>2, PTL DEF Spec, ImportAsPreviewed
=============================================================================
