# A TLA+ model of the preorder shop

The repository is the backend of a preorder shop: customers check out into a
weekly delivery batch, pay by QR through a payment gateway (NusaPay), and admins
move the paid orders through buying and delivery. Partner merchants sell their
own products next to the shop's. It is a NestJS application over MySQL
(InnoDB, default isolation); all its state is in the tables, and everything
that is hard about it comes from requests, an interval job, cron-driven scripts
and the gateway's callbacks working on the same rows at once.

This directory holds TLA+ modules of its core, TLC configurations, and proofs
checked by TLAPS. `PROJECT.json` lists the parts, the runs, the theorems, the
hazards and, for every definition, the source lines it stands for.

    tlc -config payments_race.cfg MCPayments.tla     (and so on, see Runs)
    tlapm PaymentsProofs.tla

## 1. Inventory

Paths are below `src/src/modules/` unless they say otherwise.

| Component | State it keeps | Operations that change state | Talks to |
|---|---|---|---|
| Payments (`orders/payments.service.ts`) | one `payments` row per order: status, references, provider status, QR, expiry, confirmation source | `createOrReuse`, `viewForOrder`, `recheckOrder`, `handleNusapayCallback`, `adminRecheck`, `reconcileRecentPayments` (every minute) | the gateway (generate QR, query status), the `orders` row (`markPaid` confirms it) |
| Order administration (`orders/orders.admin.service.ts`) | `orders.status` | `updateStatus`, `bulkAdvance` | reads `payments.status` inside the conditional update |
| Checkout (`orders/orders.service.ts`) | `orders`, `order_items`, `customers` | `create` | Batches (`forCheckout`), prices, then Payments (`createOrReuse`) |
| Order access tokens (`orders/order-access.service.ts`) | none | none | guards the recap |
| Delivery batches (`batches/`) | `po_batches` | `current`, `forCheckout`, `ensureCatalog`, `openWeekly`, `closeWeekly`, admin edits | seeds `product_batch_prices` |
| Products and batch prices (`products/products.service.ts`, `pricing-policy.ts`) | `products`, `product_batch_prices` | product edits, `upsertBatchPrices`, `applyPricingPolicy` | Batches, Supplier sync, Import |
| Product import (`products/products-import.service.ts`) | the same tables | preview, commit | spreadsheets |
| Supplier sync (`suppliers/`) and scraper worker (`src/scraper-worker/`) | `supplier_sync_runs`, the same tables | `reconcile` of a snapshot | Products |
| Bundles (`bundles/`) | `bundles`, `bundle_items` | create, edit, reprice | prices of the batch; Checkout expands a bundle into lines |
| Merchant accounts (`merchants/merchants.service.ts`) | `merchants`: status, email, activation token, password | register, review (which also suspends), issue a link, activate, set password | Sessions |
| Merchant products (`merchants/merchant-products.service.ts`) | `products` rows of merchants | merchant edits, admin review | Checkout sells approved ones |
| Merchant banners and promotions (`merchants/merchant-banners.service.ts`, `promotions/`) | banner submissions, `promotions` | submit, upload, review, publish; create, edit, delete promotions | the storefront |
| Sessions (`auth/`) | none: a token stamped with the password hash | login; a later password ends them | every guarded route |
| Request limits (`src/src/common/guards/request-rate.guard.ts`) | in-memory windows | count, sweep | public routes |
| Reports, settings, traffic | key-value rows, event rows | upserts, pruning | read by admins |
| Schema (`src/db/init/01-schema.sql`) | UNIQUE and foreign keys | none | what concurrent statements wait for and are refused by |

### What is hard

* **Concurrency.** Nothing in a Node process runs in parallel, but every `await`
  lets another request in, and several statements of one request are seldom one
  transaction. What a handler read before an `await` is stale after it. Payments
  re-checks under row locks or in the `WHERE` of its updates; Checkout relies on
  UNIQUE indexes; activation re-checks in its `WHERE`; reviews, bundle edits,
  the pricing policy and publishing a banner rely on nothing.
* **Failure.** The gateway times out, accepts and does not answer, calls back
  late, twice or never; the process restarts between two statements; an answer
  is lost on its way to the customer, who tries again.
* **Ordering.** Callbacks, the interval job, two kinds of recheck and admin
  moves of one order meet in every order.
* **Time.** QR expiry, the 24 hours the job looks back, midnight in Jakarta in an
  order number, weekly cutoffs and ISO week codes.

### What makes each component correct

* Payments: nothing is fulfilled unpaid; a paid order is never waiting; a QR
  someone can pay is never forgotten; only collected money is recorded, once;
  collected money is recorded in the end.
* Order administration: only legal moves, whatever an admin's screen showed.
* Checkout: one order per cart, unique and dense order numbers, a customer for
  every order, no request stuck.
* Batches: one bookable batch at a time; a rollover loses neither a catalog nor
  what an admin published in it.
* Products, sync, import: what is sold is in stock at the supplier; the shop
  shows what checkout takes; an import does what its preview showed; repricing
  touches margins only, and leaves sane ones.
* Bundles: the lines of a bundle add up to its price; a bundle gets round no
  limit of its members and costs no more than they do.
* Merchants: nothing goes live that no admin saw; a link works once; a new
  password ends the sessions and links before it; an email is one account's; a
  banner is promoted once.
* Request limits: no client exceeds its quota in a window; no client is locked
  out for ever.

The hazards behind these, each at its line and with the properties that cover
it, are in `PROJECT.json`.

## 2. Modules

| Module | Contents |
|---|---|
| `Settlement` | the abstract promise about an order and its money: stage, collected, settled |
| `Payments` | Payments and Order administration, composed: they share the two tables |
| `MCPayments` | instances of `Payments` for TLC |
| `PaymentsProofs` | theorems about `Payments` |
| `Checkout` | `OrdersService.create` over orders and customers |
| `MCCheckout` | instances of `Checkout` |
| `CheckoutProofs` | theorems about `Checkout` |
| `Batches` | `BatchesService`: delivery groups, who creates them, the catalog they carry forward |
| `BatchesProofs` | its theorems |
| `Schedule` | `delivery-schedule.ts` and `weekCode` as functions over a clock |
| `ScheduleProofs` | its theorems |
| `Delivery`, `MCDelivery` | `Batches` and `Schedule` composed: they share no state, so a behaviour is one of either; the instance of both |
| `PricingPolicy` | `suggestPricing` as functions, and what a sane margin is |
| `Catalog` | loose products of a batch: admins, import, pricing policy, the supplier's snapshots, the shop and checkout; extends `PricingPolicy` |
| `MCCatalog`, `CatalogProofs` | its instance, its theorems and those of `PricingPolicy` |
| `BundlePricing` | `priceBundle` as functions |
| `Bundles` | edits of bundles, their status and limits, and what an order makes of one; extends `BundlePricing` |
| `MCBundles`, `BundlesProofs` | its instance, its theorems |
| `ProductEdits` | what a merchant's product and an edit of it are made of, and the assumptions about them |
| `MerchantProducts` | merchants' edits and admins' reviews of one `products` row; extends `ProductEdits` |
| `MCMerchantProducts`, `MerchantProductsProofs` | its instance, its theorems |
| `MerchantAccounts` | registration, review, activation links, passwords, sessions of merchants |
| `MerchantBanners` | a merchant's banner from submission to promotion |
| `Partners` | `MerchantAccounts`, `MerchantBanners` and `MerchantProducts` composed: they share no state, so a behaviour is one of any |
| `MCPartners`, `PartnersProofs` | its instance, theorems about accounts and banners and about the composition |

Components that share rows while they interleave are in one module: Payments
with Order administration, and products, prices, import and sync in `Catalog`.
Checkout takes its lines from `Catalog` (loose items) and `Bundles` (packages),
whose properties are about what it takes; `Checkout` itself is about the order
that comes of it. The `products` row of a merchant has columns of its own, so
`MerchantProducts` is apart from `Catalog`.

The definitions whose comment begins with "Faulty" are plausible mistakes in the
definition that follows them. No specification uses them; `PROJECT.json` says
which property notices which (`mutants`).

### Payments

`order[o]` and `payment[o]` are the committed rows; a payment row is a record
whose `"none"` status says there is no row. `task[p]` is what a process (a
request in a handler, or the interval job) holds across an `await`: the order,
the reference it read, the status it wants to write. `made`, `held` and
`received` are the environment: how many references were made, which QRs a
customer was shown, which of them the provider collected money for.

| Action | Code |
|---|---|
| `ReuseIssued` | `createOrReuse` where the stored QR is kept: returned live, or marked expired |
| `BeginGenerate`, `GenerateSucceeds`, `GenerateFails` | `createOrReuse` where there is no QR: lock, row written, gateway called in the transaction, outcome committed |
| `View`, `ViewRead`, `ViewExpires` | `viewForOrder`, in one step or read and conditional update |
| `CallbackRead` | `handleNusapayCallback` up to `markPaid` |
| `CustomerRecheck`, `AdminRecheck`, `SchedulerPicks` | the three callers of `reconcilePayment` |
| `ProviderAnswers`, `ProviderReportsOtherAmount` | `reconcilePayment` after the gateway's answer |
| `MarkPaid`, `SaveObservation` | `markPaid` under its locks, `saveProviderObservation` |
| `AdminRead`, `AdminWrite`, `BulkAdvance` | `updateStatus`, `bulkAdvance` |
| `CustomerPays`, `ExpiryPasses`, `RecentPasses`, `Abort` | the world: money, time, and a request that dies at any await |

A transaction that does not wait for the gateway is one step, because its
locking reads and its `WHERE` clauses are evaluated against the rows it locks.
QR generation is two steps: it keeps its locks (`Locked`) across the gateway
call, and every other writer of those rows waits for it. Its `catch` sees a
gateway that failed as well as a save that failed after the row was given its
QR, and saves again: `GenerateFails` leaves a failed row with or without one.

Callbacks are not stored as messages. The gateway may send one for collected
money at any time and again, so `CallbackRead` is enabled for as long as the
money is collected, which covers late, duplicated, reordered and lost ones.

### Checkout

A request walks through the stages `batch` (batch resolved), `priced` (lines
resolved), `new` (no earlier order found), `open` (the transaction's first
select), `customer`, `numbered`, `inserted`, `committed`. InnoDB appears as
what the code meets of it: `seen` and `known` are the snapshot of the first
select; an inserted and uncommitted phone or order number makes others that
insert it wait (`PhoneFree`, `NoFree`), and a committed one refuses them
(`PhoneRefused`, `NoRefused`). `Leading` is the string order of `order_no`.

What customers and operators do meanwhile is the environment: `Midnight`,
`BatchRollsOver`, `AdminEditsPrices`, `Abort`, and a cart that is sent again.
Payment, which `create` hands over to at its end, is `Payments`; `Answer` ends
the request whatever it answered.

### Batches and Schedule

A delivery group is the number of weeks its schedule is shifted by: `current`
makes schedules from the latest group's by whole weeks only, and the default
schedule is on the same grid. `status[n]` is its row and `catalog[n][p]` the price
row of a product in it, one edition number standing for all columns but the
product; `sold` are the products that a catalog is carried forward for: not
deleted, active and, if a merchant's, approved. `"withdrawn"` is cancelled
or draft, `"closed"` is closed, sourcing or delivered: the code treats each pair
alike. `asked` is the clock a request read once at its start.

| Action | Code |
|---|---|
| `Begin`, `FindOpen`, `FindLatest` | `current` up to its loop |
| `FindCode`, `GivesUp`, `CreateGroup` | one turn of the loop: look the code up, try it, create it, or take the next week; the 503 |
| `CheckCatalog`, `Seed` | `ensureCatalog`: the check outside, and the transaction under the lock on the group's row |
| `Answer` | `forCheckout` returns or refuses |
| `CloseWeekly`, `Tick`, `Withdraw`, `Publish`, `Relist`, `Abort` | the weekly job, the clock, an operator, any writer of prices, any writer of products, a request that dies |

`Seed` is one step because its reads follow a locking read of the group's row,
and a price row of that group cannot be inserted without a lock on it (the
foreign key `fk_pbp_batch`). It takes the last earlier group that has prices
(`IsSource`) and of those the rows of products still sold (`Carried`), which may
be none: the code then looks no further back, and the new group stays empty.
Operators do not open a draft in the model: two groups can be ordered into if
they do.

`Schedule` has the functions with the code's names, on seconds since a Monday in
UTC. Its state is the clock, and whether a request asks for its schedule now
(`asking`). It checks them against definitions of its own:
the nearest week that can still be ordered, the next Wednesday, ISO weeks by the
4th of January. `CodesAreDistinct` is what lets `Batches` use one number for a
group and its code.

### MerchantProducts

`row[p]` holds the columns a merchant, a review or the admin's product form can
change; `task[r]` is a request with the entity it read and changed (`mem`).
TypeORM's `save` takes no lock and has no version: it reads the row again,
compares (`Compare`, which sets `cols`), and updates the columns that differ
(`Write`). Between those three steps anybody else may save.

| Action | Code |
|---|---|
| `Submit` | `submit`, one transaction |
| `Update` | `update` up to its save: `Staged` of a live product, `Edited` of any other |
| `Approve`, `Reject` | `review` up to its save, with and without a staged edit |
| `AdminUpdate` | `ProductsService.update`: an admin's edit, and the switch |
| `Compare`, `Write`, `Fail` | `save`, and a save that fails |

`reviewed[p]` and `orderly` are history. A content is reviewed when an admin
approves it or edits it while approved. A product leaves `orderly` for ever when
two requests have it in memory at once, or when it is switched off with an edit
staged: the two hazards the code does nothing about. Outside `orderly` a review
can sell a content it never read (the update's columns land after the review's),
a staged save can undo a rejection made since its read, and a review can drop an
edit staged since. The run and the theorems say what holds in spite of them
(`SoldWasApproved`) and without them (`SoldIsReviewed`, `StaysLive`).

### Catalog

`product[p]` and `price[p]` are the rows of a SKU in `products` and in
`product_batch_prices` for the batch; `task[r]` is a request between two awaits.
An edit and a policy run save as `MerchantProducts` does, in three steps; an
import is two, its preview and its transaction.

| Action | Code |
|---|---|
| `Create`, `SoftRemove` | `ProductsService.create`, `softRemove` |
| `Update`, `CompareProduct`, `SaveProduct` | `update`: the entity read and changed, `save`'s own read, its update of the columns that differ |
| `Publish` | `upsertBatchPrices`, of one row |
| `ApplyPricingPolicy`, `ComparePrices`, `SavePrices` | `applyPricingPolicy`: all rows read and repriced, `save`'s read, its updates |
| `Preview`, `Commit` | `ProductsImportService.commit`: the validation, and the transaction, with or without publishing |
| `Reconcile` | `SupplierSyncService.reconcile` of a snapshot |
| `Abandon` | a statement fails, or the process dies |
| `Listed`, `Supersedes`, `Accepts` | what the storefront shows, the subquery that hides manual duplicates, what `resolveLines` takes |

A commit finds the product of a row by SKU or slug, so rows may meet in one
product; `IsMatch` is any outcome those queries can have, and the last row of a
product decides. `Reconcile` is not enabled where the code's insert fails on a
deleted or manual product of the SKU: that transaction is rolled back.

History: `inStock` is what the last snapshot called available. `torn` are
products that an edit had in memory during it (the edit's save may put back what
the snapshot changed). `reopened` are prices written after it, or held by a
policy run during it. `calm` are requests since whose read nobody wrote.

### Bundles

`bundle[b]` and `items[b]` are the rows of `bundles` and `bundle_items`.
`member[p]` is what `loadMembers` finds of a product, with the `seller` it does not
ask for, and `profit[p]` its margin; the catalog changes both at will
(`CatalogChanges`, `ProfitChanges`). `LooseAccepts` is the other branch of
`resolveLines`, for items ordered loose, of the shop or of a merchant.

| Action | Code |
|---|---|
| `Create`, `SoftRemove` | `create` up to its transaction; `softRemove` |
| `Update`, `Check`, `Compare`, `Write` | `update`: findOne, `assertMarginSane`, `save`'s read, the transaction (which also ends `create`) |
| `FindBundle`, `PriceBundle` | `priceByIds`, and what `resolveLines` accepts |
| `LoadMembers`, `ResolveOrderLines` | `resolveOrderLines`, which reads members and bundle again |
| `End` | the request ends, whichever way |

`BundlePricing` follows `priceBundle`: shares floored per unit, then the
remainder handed out in rounds (`Round`), in which every member takes a cent per
unit if that much is left (`Visit`), the smallest quantity first (`Turns`). The
code's loop ends with a round that hands nothing out; `HandedOut` has as many
rounds as cents, and such a round and all after it change nothing.

History: `calm` as in `Catalog`; `checked` are bundles whose last edit was calm
and since which no product's margin moved. An edit that was not calm may leave a
margin above its members', and nothing in the code notices.

### MerchantAccounts and MerchantBanners

`merchant[m]` is a row; links and hashes are numbered as they are written.
A session is what its token says: the merchant and the hash that stamps it.

| Action | Code |
|---|---|
| `Register`, `Insert` | `register`: the lookups, and the insert |
| `Review`, `Compare`, `SaveReview` | `review`: findOne, `save`'s read, its update |
| `CreateActivation`, `Issue` | `createActivation`: the lookup of the email, and the update |
| `Activate`, `Redeem` | `activate`: the row of the link, and the conditional update after hashing |
| `SetPassword`, `StorePassword` | `setPassword`, which stores whatever has become of the row |
| `Authenticate`, `Login` | `authenticate`: the row, and the token after the password was checked |
| `Expire`, `Fail` | 24 hours pass; a request is refused or fails |
| `IsValid` | `JwtStrategy.validate`, of a merchant |

`spent` and `replaced` are links and hashes that something later overtook.
`apart` falls when a request writes an email after another one wrote since its
read: emails have no UNIQUE index, so nothing then keeps two accounts apart.

`MerchantBanners` has one submission per `banner[b]`, the promotions `made` of
it, and the status of its product, which others change. Its requests read the
row and `save` it (`Compare`, `Write`); `Publish`, `CreatePromotion` and the save
are not one transaction. `RemovePromotion` is `PromotionsService.remove`: the
foreign key of migration 014 (`ON DELETE SET NULL`) clears `promotion_id` in the
rows that name it, and refuses a save that would name it afterwards. `removed`
are the promotions deleted so. `apart` are the banners on which no two requests
overlapped and no publish stopped halfway: the code does nothing about either.

`Partners` composes the two with `MerchantProducts`, and `Delivery` composes
`Batches` with `Schedule`. The parts share no row that either decides by, so `part`
says whose behaviour it is, and the others stand still in an initial state.

## 3. Runs

| Run | Instance | Shows |
|---|---|---|
| `payments_race` | one order, two requests, the job, two references, two provider references | all safety properties and the refinement of `Settlement`, with retries, callbacks and admin moves in every order |
| `payments_live` | one order, one request, the fair job | collected money is recorded with no callback at all |
| `payments_stale_expiry` | as above, safety only | **violated**: a retry issues a QR as pending that is past its expiry |
| `checkout_race` | two requests, two carts of one customer, one of them of merchant products, two days, batches and prices, with fairness | numbers, customers and carts, when a cart is resent only after its request ended; waiting for uncommitted keys always ends |
| `checkout_twin` | two requests, one cart, double taps | **violated**: a double tap makes two orders |
| `delivery_race` | two requests, three groups, two products, a clock that passes two cutoffs, two attempts; or every day from 2024-12-30 to February 2027, five seconds of each | one bookable group, catalogs neither overwritten nor left empty, a 503 only when weeks are taken; schedules and week codes |
| `merchants_reject` | one request at a time, edits of either field | **violated**: a rejection puts an unreviewed product on sale |
| `catalog_race` | a manual product and the supplier's twin of its name, one request among the publishing, deleting and syncing of others | stock and checkout agree, and checkout takes what the shop shows; imports do what their preview says, repricing leaves sane margins |
| `policy_premium` | the same | **violated**: a suggested price is over the market by more than the premium |
| `bundles_race` | one bundle of two products, edits and orders by two requests while the catalog changes | a bundle sells only what its members allow, its lines add up to its price, its margin stays sane |
| `bundles_drift` | one bundle, one request while the catalog changes | **violated**: the lines of an order add up to another price than the one accepted |
| `partners_race` | two requests, and: two accounts with two emails; or one banner and two promotions; or one product of two fields, edits of one of them back and forth | passwords, links, sessions, emails; one promotion per banner; nothing unapproved is sold, what is sold of an orderly product is what was reviewed, and merchants' edits leave it on sale |

The largest take minutes: `delivery_race` has 2.8 million distinct states,
`bundles_race` 2.3, `partners_race` 3.6, `catalog_race` 1.7.

### Properties

`Payments`: `PaidNeverWaiting` and `FulfilmentIsPaid` tie the two tables
together. `IssuedQrIsKnown` and `IssuedQrKept` say no retry orphans a QR that a
customer can pay. `PaidIsEarned` and `PaidRowFrozen` say that a paid row was
paid and stays so. `ProviderRefKept` keeps two provider transactions apart.
`OrderMovesAreLegal` holds for stale admin reads too. `KeepsPromise` is the
refinement: `stage` is `orders.status`, `collected` the orders with received
money, `settled` the orders with a paid row. `CollectedIsSettled` is the
liveness of the job.

`Checkout`: `OrderNosUnique`, `OrderNosDense`, `OrdersHaveCustomers`,
`OneOrderPerCart` and `RequestsEnd`.

`Batches`: `OneBookable` (customers are never split over two groups),
`CuratedKept` (only publishing changes a catalog that has prices),
`RolloverKeepsCatalog` (whoever is given a group finds prices in it, also after
the request that created it died, unless there is nothing to carry: no earlier
group has prices, or no product of the last that has is still sold),
`UnavailableWhenTaken` (the 503 is not the loop's own doing). `Schedule`: `NextIsNearest`, `DefaultIsNextWednesday`,
`CodeIsIsoWeek`, `CodesAreDistinct`.

`MerchantProducts`: `SoldWasApproved`, `SoldIsReviewed`, `StaysLive`, and, false of
the code, `LiveIsReviewed`, which is `SoldIsReviewed` without its exemptions.

`Catalog`: `SuppliedWhenSold` holds however prices were published, imported or
repriced since the snapshot, whose word on stock sits in another column than the
price's status. `ShownIsTaken` compares two queries of two services: of what is
shown as orderable only a supplier's product out of stock is refused, and only
where its price was reopened. The converse is not claimed: a manual product
behind a supplier's twin is taken and not shown, also when the twin is deleted.
`ImportAsPreviewed` relates the transaction to a preview outside it; it needs
distinct names in the file, because two new SKUs of one name have one slug and
the second finds the first. `PolicyPricesAreSane` is about a whole policy run; its
bound over the market is the premium and half a rounding step, for the code
rounds last, and `PremiumIsLimited`, false of the code, is the premium alone.

`Bundles`: `OfferedBundleIsBuyable` (no status, limit or missing price of a member
is got round, but for the approval of a merchant's product, which is), `ChargedAsShown`
(where nobody wrote between the two reads, the lines add up to the price shown and
carry the margin), `MarginSane`, and, false of the code, `PriceNeverDrifts`, the first
of these without its exemption.

`MerchantAccounts`: `LinkSetsPasswordOnce`, `ReplacedStaysReplaced`,
`EmailFindsOneAccount`. `MerchantBanners`: `OnePromotionPerBanner`.

The history variables (`torn`, `reopened`, `calm`, `checked`, `apart`, `orderly`) mark
where the code itself lets a property break: each stands for an overlap or a
later change that no lock, version or condition in the code excludes, and without
the exemption TLC finds the property violated. So these properties do not catch
the overlaps they exempt, and `PROJECT.json` lists those hazards without a
property, with what exempts them:

* stale saves of the policy, of product edits and of reviews (`calm`, `reopened`,
  `torn`, `orderly`);
* an import after a preview that no longer holds (`calm`);
* two edits of a bundle at once (`calm`, `checked`);
* emails and banners written after a check that no longer holds, and a publish
  that stops halfway (`apart`);
* a merchant's product in a bundle after it was rejected, and a manual product
  behind a deleted twin, which the statements of `OfferedBundleIsBuyable` and
  `ShownIsTaken` leave out.

Where the repository says in so many words that it cannot happen, a run shows that
it does (section 4).

### Bounds, and why they are enough

* One order in `payments_race`: the handlers touch one order and its payment;
  only `BulkAdvance` touches several, each by its own row's status, and the
  theorems hold for any number of orders and batches.
* Two requests and the job: every check-then-act of the code is between a reader
  and one other writer; the third process lets a third party intervene between
  the two. The proofs cover any number.
* `MaxRefs` bounds `made`. The code makes one reference per payment row; 2 lets a
  model (or a mutant) that made a second one show it.
* `ProvRefs` of two: enough for two reports that disagree, or for none.
* `MaxOrders`, `MaxDay`, `MaxBatch`, `MaxPrice` bound what `Checkout` may create;
  two of each is enough for two orders to differ in it. At `MaxOrders` a request
  is turned away instead of inserting.
* `Padded` is the largest number that fits the padding, 9999 in the code and 9 in
  the runs, which do not reach it. The proofs hold for every `Padded >= 9`, and
  past it too: beyond 9999 orders of a day the string order hides the last
  number and checkout is refused.
* `Batches` has a week of two ticks, one before the cutoff and one after. Three
  groups let one be current while its neighbours are taken, past or created;
  `Attempts` of two makes the 503 reachable. `MaxGroup` itself is never
  withdrawn, so that there always is a next week. Two products: a catalog may be
  carried in part. One edition: `Publish` may still put back what a rollover left
  out, and a second one only renames.
* `Schedule` runs over the years 2025 (52 ISO weeks), 2026 (53) and the borders
  between them; codes are compared 104 weeks ahead, past the leap year 2028.
* `MerchantProducts` needs one product, since no handler touches two, and two
  requests, since each hazard is between a reader and one other writer; the
  proofs cover any number. `Patches` and `First` are the edits and contents that
  are sent: two values make an edit visible, two fields make it partial.
* `Catalog` has two SKUs of one name, since names are where duplicates, slugs and
  twins meet, and one request: whoever else writes does so in one step
  (`Publish`, `Reconcile`, `Create`, `SoftRemove`), between any two of its own.
  `Offers`, `Files` and `Snapshots` are what is sent: prices on either side of
  the market's ceiling, one file of one SKU each and one of both, a snapshot
  with the product, without stock of it, and without it.
* `Bundles` has one bundle, since none reads another, and two products. `Drafts`
  and `Patches` have quantities with and without a 1, which decides whether the
  margin can be handed out to the cent. `Views` reach each reason to refuse;
  `MostQty` of two makes a limit bite. `LoadMembers` and the steps after it need
  no third request: the catalog changes between any two of them.
* `MerchantAccounts`: two merchants and two emails can collide; `MostLinks` and
  `MostHashes` of two let one be replaced. `Verdicts` leaves `"pending"` out of
  the reviews: every guard asks for approval only, and treats it as rejected.
* `MerchantBanners`: two promotions, what two requests need to publish twice.
* SYMMETRY is used only in runs without liveness, over requests, provider
  references, merchants, emails, images and the products of `Batches`
  (`payments_race`, `delivery_race`, `bundles_race`, `partners_race`), which the
  specifications treat alike.

### Fairness

`Payments!SchedulerFairness`: the `@Interval` job comes back every minute, its
loop catches the error of each candidate, and the gateway client has a timeout,
so a query ends (`WF`). Each candidate is picked again and again, and the
gateway that collected the money says so in the end, although it may fail or
answer pending many times, after it collected the money too (`ProviderAnswers`
with `"03"`; `SF`). The minute that the job waits after the last check of a row
(`last_provider_check_at`) is left out: it delays a pick and prevents none. No fairness is assumed of callbacks,
customers, admins or requests. Picking every candidate holds while at most 25
are open: the job's `LIMIT 25` takes the oldest payments first, and is
left out of the model.

`Checkout!FairSpec`: the database answers every statement (`WF` on `Step`) and
serves waiters for one key in their order (`SF` on the two inserts that wait);
InnoDB grants lock requests first come, first served. Aborts are not fair, they
may happen always or never.

Deadlock is checked in every run; no run's system can stop.

## 4. Findings

Five runs state what a comment or a document of the repository says, and TLC
finds it violated by what the code does:

* `payments_stale_expiry`: `createOrReuseLocked` keeps the `expires_at` of a failed
  first attempt for the QR of its retry, which is then returned as pending
  though `docs/security-review-20261023.md` says an expired QR is shown as such.
* `checkout_twin`: the idempotency lookup runs before the transaction and nothing
  backs it, so overlapping submissions of one cart are two orders.
* `merchants_reject`: `update` of a product that is not live keeps an older staged
  edit, so `review` takes its staged branch and a rejection approves and activates
  the row, with content nobody approved; the comment on `review` says a rejection
  keeps the current live data.
* `policy_premium`: `suggestPricing` rounds the ceiling after it added the premium, so
  a base of 12.000 beside a market of 12.600 is sold at 14.000, Rp1.400 over it;
  its comment and the reason it gives admins say at most Rp1.000.
* `bundles_drift`: an order's bundle is priced from one read and its lines from
  another, outside any transaction; a price published between makes them differ,
  where the comment on `resolveOrderLines` says they can never drift apart.

## 5. Proofs

All theorems are checked by tlapm with Z3, Zenon and LS4, for every value of
the constants the named assumptions allow.

**Payments** (`PaymentsProofs`), from `ProcessAssumption` (the job is no request),
`BatchAssumption` (batches are sets of orders), `ProvRefAssumption` and
`MaxRefsAssumption`: `Invariance` proves `Spec => []IInv`, and the safety
invariants, action properties and `KeepsThePromise` follow from it.
None of the properties is inductive alone. Take `PaidIsEarned`: a mark task may
be old when it writes, so `MarksAreEarned` carries what was known when it was
read, and money is never given back. For `IssuedQrIsKnown` a generation in
flight must not overwrite a QR: `GenerationIsExclusive` (the lock) and
`GeneratesWithoutQr` (the row had none when the lock was taken, and only the
lock's holder writes one). `FulfilmentIsPaid` needs `AdminMovesAreLegal`, since
an admin's move was checked against `TRANSITIONS` before the await, and
`PaidNeverWaiting` is needed with it for the refinement of `MarkPaid`. There
is one lemma per action, and the last step of each theorem combines them.

**Checkout** (`CheckoutProofs`), from `CartAssumption`, `TapAssumption`,
`PaddedAssumption` and `BoundAssumption`: `Invariance`, then `UniqueNumbers`,
`DenseNumbers`, `CustomersOfOrders` and, under `~DoubleTaps`,
`RetriedCartIsOneOrder`. The invariant says of the committed numbers, and of
each snapshot, that each day's are `1..n` (`Initial`), so the number computed
from a snapshot is one past it; that such a number leaves no hole whatever was
committed since (`Sound`); and that uncommitted numbers differ (`Apart`). The
bound `n <= Padded + 1` in it is a fact about the code, not of the model: past
the padding the string order stands still, and the refused insert keeps it
there.

**Batches** (`BatchesProofs`), from `ScheduleAssumption` (delivery is less than a
week before its cutoff, if at all), `AttemptsAssumption` and `BoundAssumption`:
`Invariance`, `OneGroupBookable`, `CuratedIsKept`, `CatalogIsCarriedOver`,
`TriesInvariance`, `UnavailableOnlyWhenTaken`. One
bookable group is not inductive, since a request creates groups from a clock and
a table it read long ago. The invariant is `Passed(n)`, of every group that
exists and every one a request is about to look up or create: no week below `n`
can still be ordered into, unless it is taken. It survives because taken groups
are never opened again and time only takes weeks away (`UsableAntitone`), and the
loop passes a week over only when it is one or the other; the unique code keeps
a request from opening what somebody has taken meanwhile. `CatalogIsCarriedOver` is
about the two ways to be given a group: with prices seen in it, which nothing
takes away, or through `Seed`, whose insert leaves the group empty only where its
source has no row of a product still sold. For the 503,
`TriesAreTaken` counts: as many groups as a request has tried are taken, below
the week it is at, since taken groups stay taken.

**Schedule** (`ScheduleProofs`), from `ClockAssumption` (times are of a day),
`TemplatesAssumption` (schedules are of integers) and `CalendarAssumption` (the
days, and the 104 weeks that follow them, are before 2100): `ClockInvariance`,
`RollsToNearest`, `DefaultIsWednesday`, `CodeIsIso`, `CodesDiffer`. The `while`
loop of `nextDeliverySchedule` is a recursive function. Some week ahead has not
passed, so there is a least one (`TurnsExist`), each turn leaves one fewer
(`OneTurn`), and a schedule from which the loop went elsewhere would be a least
counterexample (`NextIsShifted`); this holds of every schedule and instant, not
only of weekly ones. The rest is the arithmetic of days, weeks and leap years:
the Thursday of a day has the year of its ISO week, whose first Monday is the one
nearest January 1st, and equal codes are equal weeks.

**MerchantProducts** (`MerchantProductsProofs`), from `NoEditAssumption`,
`FieldsAssumption`, `ValuesAssumption`, `ProductsAssumption` and
`PatchesAssumption` of `ProductEdits`: `Invariance`, `SoldWereApproved`,
`SoldAreReviewed`, `LiveStaysLive`. That what is sold was approved is not inductive, since a save
carries a status back from a read long ago: `GrantsAreApproved` says that every
approved status and every staged edit, in the table or in memory, is of a product
with an approval, of which there is never less. For orderly products `SaveStores`
(a lemma about `save`) makes the three steps of a save one, and `TaskIsSound`
says what that one will write.

**PricingPolicy** (in `CatalogProofs`), for all base and market prices and from
no assumption: `SuggestionIsThePrice` (neither the margin nor the price is cut
off) and `SuggestionIsSane`. Rounding is the argument: `RoundTo` is within half a
step of what it rounds, and keeps multiples of the step, of which every tier's
least profit is one.

**Catalog** (`CatalogProofs`), from `NamesAssumption` (a slug made of a name is no
SKU) and `BoundAssumption`: `Invariance`, `TypeCorrect`, `SuppliedSold`,
`ShopKeepsItsWord`, `ImportKept` and `PolicySane`. Stock is not inductive, since an edit
holds the availability it read: `EditsAreCurrent` says it is the table's unless a
snapshot overtook the edit (`torn`). `StatusIsKnown` carries the status of the
last snapshot through publishing and repricing, in the table and in memory.
`CalmIsCurrent` says that a calm request still holds what is in the tables, so
its save or commit can be read off them; `PolicySane` then follows from
`SuggestionIsSane`. `ShopKeepsItsWord` says of manual products that they are never
shown and refused, without exception.

**Bundles** (`BundlesProofs`), from `ContentsAssumption` (two items or more, no
product twice, as the DTO asks) and `BoundAssumption`: `Invariance`,
`TypeCorrect`, `MarginIsSane`, `OfferedIsBuyable`, `OrdersMatch`,
`PricesAreCharged`. `CalmEditsAreSane` adds to `MarginSane` what a calm edit has
been found to be, and that a column it will not write is the one it saw.
`OfferedIsBuyable` is arithmetic, `n <= max \div qty` being `n * qty <= max`, and a
case of each seller: what a bundle accepts is accepted loose, unless it is a
merchant's that is not approved.
`PricesAreCharged` has two halves. `OrdersMatch`: what a calm order has read is
what it would read now, so that its price and its lines are of the same members
and margin although they come of different reads. And, for any members, what
`priceBundle` computes: the turns are a permutation of the members
(`RanksAreTaken`, by the pigeonhole principle); what is left and what the lines
carry make up the margin at every turn (`VisitKeeps`, `RoundKeeps`, `HandOut`),
from the flooring on, which never carries more (`FlooringFits`); and with a
member of a single unit a round that has anything left leaves less, so that
after as many rounds as cents nothing is left.

**Partners** (`PartnersProofs`), from `BoundAssumption`, `PromotionsAssumption` and the
assumptions of `ProductEdits`.
Of the accounts: `Invariance`, `TypeCorrect`, `LinkIsSpentOnce`, `ReplacedStays`,
`EmailFindsOne`. `LinksAreFresh` and `HashesAreFresh` say of every link and hash
in the table that it was written once and that nothing overtook it; a request's
own link may be spent, but `Redeem` compares it with the table's. `CalmReadsHold`
says that what a request read of the emails is true until somebody writes one.
Of the banners: `OneBannerOnePromotion`, by an invariant (`B!IInv`) that says
which promotion the one request that holds a banner is about to write, or that it
was deleted meanwhile. Of the products: `OnlyApprovedSold`, `ReviewedIsSold` and
`LiveStaysOnSale` carry the three theorems of `MerchantProductsProofs` over to the
composition, whose run checks them.

**Induction over data.** One form of it is enough for all of this: a set
of naturals with 0 and the successor of each member holds every natural
(`Induction`, from `LeastNat`, from the well-foundedness of `<`). A recursive
function is a `CHOOSE`, so each proof about one first shows that some function
satisfies its equation: `Iterates` does for the loops of `priceBundle`.

**Only model-checked**: the two liveness properties, `CollectedIsSettled` and
`RequestsEnd` (fairness and `ENABLED` are beyond these provers), and the
violations. Every safety property of a passing run is a theorem. The type
invariants of `Payments`, `Checkout`, `Batches` and `MerchantBanners` are conjuncts of
the proved `IInv`.

## 6. What is not modelled

* Amounts in Payments: `grand_total` is written once and `payments.amount` copied
  from it. A gateway that reports another amount is `ProviderReportsOtherAmount`.
* Lock waits inside `markPaid`, and deadlock between lock orders: a transaction
  that does not wait for the gateway is one step.
* The job's `LIMIT 25`: a queue longer than that is beyond small instances. The
  minute it waits after a check: it only delays.
* Order lines in `Checkout`: one version number stands for what they cost. What
  lines are made of is in `Catalog` and `Bundles`.
* A group that `forCheckout` resolved may close before the order is written into
  it: `Batches` and `Checkout` are separate modules, nothing in the code prevents
  it, and the hazard is listed.
* Off-grid groups: rows an operator writes with dates that are no weekly shift of
  the others.
* Of `Catalog`: sections, categories, quantity limits, images
  (`replaceProductImage`) and the prices kept in `products`; renamed products;
  the parsing of import cells; the sync's dry run and its log
  (`supplier_sync_runs`), which nothing decides by.
* A snapshot after a supplier's product was deleted fails for ever
  (`supplier-sync.service.ts:125`): `Reconcile` is disabled there, and no
  property says it recovers, for it does not.
* Of bundles: names, texts, renamed slugs, plans but for their missing items, the
  loose price shown beside the bundle's.
* Of merchants: phones (looked up as emails are), business data, images, slugs,
  SKUs, review notes and soft deletion of their products; no decision of the
  handlers modelled reads them. `margin` follows `basePrice`.
* Of promotions: editing and scheduling, single statements on columns that
  submissions do not depend on.
* What a catalog carries besides the product: its `po_status`, which the rollover
  sets to sold out where the supplier has none, is `Catalog`'s concern.
* Sessions of admins: they are stamped as merchants' are, and nothing in the code
  changes an admin's password. Signatures and order access tokens are
  cryptography without state; a callback that fails its signature changes nothing.
* Request limits: counters in the memory of one process, with no await between
  read and write.
* The scraper worker: a process of its own that posts a snapshot; `Catalog` takes
  snapshots as inputs.
* Reports, settings, traffic, installation scripts: they read, or write rows
  nothing else relates to; `PROJECT.json` gives the reason for each.

## 7. Order of the work, and what could follow

The modules were written in the order of what is at stake: `Settlement`,
`Payments` and `Checkout`; `Batches` and `Schedule`; `MerchantProducts`, whose
three steps of `save` the others share; then `PricingPolicy` and `Catalog`,
`BundlePricing` and `Bundles`, `MerchantAccounts` and `MerchantBanners`.

Every safety property of the runs is proved. What would add most from here: an
abstract order book that `Checkout` implements, as `Payments` does `Settlement`; the
statements of `markPaid`, QR generation and
the conditional updates as lock requests, with deadlock checked; the interval
job's queue of 25; and `Checkout` composed with `Batches`, for the order that is
written into a closing group.
