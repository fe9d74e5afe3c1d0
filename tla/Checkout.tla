------------------------------ MODULE Checkout ------------------------------
(***************************************************************************)
(* OrdersService.create: checkout requests over the tables orders and      *)
(* customers, up to the point where PaymentsService takes over.            *)
(*                                                                         *)
(* Each await of the handler is a step: which batch, which prices, is this *)
(* cart an order already, and then a transaction of four statements.  The  *)
(* transaction runs at the database's default isolation, REPEATABLE READ:  *)
(* what it selects it selects from the snapshot of its first statement,    *)
(* while a UNIQUE index waits for whoever inserted the same key and has    *)
(* not committed, and refuses a key that is committed.                     *)
(*                                                                         *)
(* A cart stands for a checkoutKey with its phone and quantities; what the *)
(* lines cost is one number, the version of the price list.                *)
(***************************************************************************)
EXTENDS Integers, FiniteSets

CONSTANTS
  Requests,     \* POST /orders in flight
  Carts,        \* carts customers send, and send again
  NoCart,
  PhoneOf,      \* PhoneOf[c]: the phone number in cart c
  MerchantOnly, \* carts of merchant products only: they need no batch
  Keyless,      \* carts sent without a checkoutKey
  DoubleTaps,   \* may a cart be sent again while it is being worked on?
  Padded,       \* the largest number of the padded width, 9999 in the code
  MaxOrders, MaxDay, MaxBatch, MaxPrice \* bounds

ASSUME CartAssumption ==
  /\ NoCart \notin Carts
  /\ MerchantOnly \subseteq Carts
  /\ Keyless \subseteq Carts
  /\ DOMAIN PhoneOf = Carts
ASSUME TapAssumption == DoubleTaps \in BOOLEAN
ASSUME PaddedAssumption == Padded \in Nat /\ Padded >= 9
ASSUME BoundAssumption ==
  /\ MaxOrders \in Nat /\ MaxDay \in Nat \ {0}
  /\ MaxBatch \in Nat /\ MaxPrice \in Nat

VARIABLES
  orders,    \* committed orders
  customers, \* phones of the committed customers
  task,      \* task[p]: what request p holds across an await
  day,       \* the date in Jakarta
  batch,     \* the batch forCheckout resolves
  price      \* version of product_batch_prices

vars == <<orders, customers, task, day, batch, price>>

-----------------------------------------------------------------------------
(* Data *)

NoBatch == 0

Phones == {PhoneOf[c] : c \in Carts}

\* WPO-<day>-<seq>
OrderNos == [day : 0..MaxDay, seq : Nat]

Orders == [no : OrderNos, cart : Carts, batch : Nat, price : Nat]

Stages == {"idle", "batch", "priced", "new", "open", "customer", "numbered",
           "inserted", "committed"}

Tasks == [stage : Stages, cart : Carts \cup {NoCart}, batch : Nat, price : Nat,
          seen : SUBSET OrderNos, known : BOOLEAN, no : OrderNos]

Idle == [stage |-> "idle", cart |-> NoCart, batch |-> NoBatch, price |-> 0,
         seen |-> {}, known |-> FALSE, no |-> [day |-> 0, seq |-> 0]]

At(p, stage) == task[p].stage = stage

Running == {p \in Requests : ~At(p, "idle")}

CreatingStages == {"new", "open", "customer", "numbered", "inserted"}

Creating == {p \in Requests : task[p].stage \in CreatingStages}

Phone(p) == PhoneOf[task[p].cart]

CommittedNos == {o.no : o \in orders}

Goes(p, t) == task' = [task EXCEPT ![p] = t]

\* The handler throws: an open transaction rolls back.
Fail(p) == Goes(p, Idle)

Init ==
  /\ orders = {}
  /\ customers = {}
  /\ task = [p \in Requests |-> Idle]
  /\ day = 1
  /\ batch = 1
  /\ price = 1

-----------------------------------------------------------------------------
(* Before the transaction *)

\* The request arrives, and forCheckout resolves its batch.
Begin(p, c) ==
  /\ At(p, "idle")
  /\ DoubleTaps \/ \A q \in Running : task[q].cart # c
  /\ Goes(p, [Idle EXCEPT
                !.stage = "batch", !.cart = c,
                !.batch = IF c \in MerchantOnly THEN NoBatch ELSE batch])
  /\ UNCHANGED <<orders, customers, day, batch, price>>

ResolveLines(p) ==
  /\ At(p, "batch")
  /\ Goes(p, [task[p] EXCEPT !.stage = "priced", !.price = price])
  /\ UNCHANGED <<orders, customers, day, batch, price>>

SameCheckoutToday(o, t) ==
  /\ o.cart = t.cart /\ t.cart \notin Keyless
  /\ o.price = t.price
  /\ o.batch = t.batch
  /\ o.no.day = day

\* The fingerprint covers cart and total; without a key it is random.
SameCheckout(o, t) ==
  /\ o.cart = t.cart /\ t.cart \notin Keyless
  /\ o.price = t.price
  /\ o.batch = t.batch

FindExisting(p, o) ==
  /\ At(p, "priced")
  /\ SameCheckout(o, task[p])
  /\ Goes(p, [task[p] EXCEPT !.stage = "committed", !.no = o.no])
  /\ UNCHANGED <<orders, customers, day, batch, price>>

\* At the bound on orders the request is turned away.
FindNone(p) ==
  /\ At(p, "priced")
  /\ \A o \in orders : ~SameCheckout(o, task[p])
  /\ IF Cardinality(orders) + Cardinality(Creating) < MaxOrders
     THEN Goes(p, [task[p] EXCEPT !.stage = "new"])
     ELSE Fail(p)
  /\ UNCHANGED <<orders, customers, day, batch, price>>

-----------------------------------------------------------------------------
(* The transaction *)

KnowsUncommitted(p) ==
  \/ Phone(p) \in customers
  \/ \E q \in Requests : task[q].stage \in {"customer", "numbered", "inserted"}
                         /\ Phone(q) = Phone(p)

Knows(p) == Phone(p) \in customers

\* The first select looks for the customer, and fixes the snapshot.
OpenTransaction(p) ==
  /\ At(p, "new")
  /\ Goes(p, [task[p] EXCEPT !.stage = "open", !.seen = CommittedNos,
                              !.known = Knows(p)])
  /\ UNCHANGED <<orders, customers, day, batch, price>>

\* Uncommitted keys, from their insert to the end of the transaction.
HoldsPhoneFromSelect(q) ==
  task[q].stage \in {"open", "customer", "numbered", "inserted"} /\ ~task[q].known

HoldsPhone(q) ==
  task[q].stage \in {"customer", "numbered", "inserted"} /\ ~task[q].known

HoldsNo(q) == At(q, "inserted")

PhoneFree(p) ==
  task[p].known \/ \A q \in Requests \ {p} : ~(HoldsPhone(q) /\ Phone(q) = Phone(p))

PhoneRefused(p) == ~task[p].known /\ Phone(p) \in customers

SaveCustomer(p) ==
  /\ At(p, "open")
  /\ PhoneFree(p)
  /\ IF PhoneRefused(p) THEN Fail(p)
     ELSE Goes(p, [task[p] EXCEPT !.stage = "customer"])
  /\ UNCHANGED <<orders, customers, day, batch, price>>

\* ORDER BY order_no DESC compares strings: a number that outgrew the padding
\* sorts by its leading digits.
Leading(n) == IF n > Padded THEN n \div 10 ELSE n

SortsBefore(a, b) ==
  Leading(a) < Leading(b) \/ (Leading(a) = Leading(b) /\ a < b)

Seqs(nos, d) == {no.seq : no \in {n \in nos : n.day = d}}

Last(seqs) == CHOOSE m \in seqs : \A n \in seqs \ {m} : SortsBefore(n, m)

After(seqs) == IF seqs = {} THEN 1 ELSE Last(seqs) + 1

NextSeqUncommitted(nos, d) ==
  After(Seqs(nos \cup {task[q].no : q \in {r \in Requests : HoldsNo(r)}}, d))

NextSeq(nos, d) == After(Seqs(nos, d))

NextOrderNo(p) ==
  /\ At(p, "customer")
  /\ Goes(p, [task[p] EXCEPT
                !.stage = "numbered",
                !.no = [day |-> day, seq |-> NextSeq(task[p].seen, day)]])
  /\ UNCHANGED <<orders, customers, day, batch, price>>

NoFree(p) ==
  \A q \in Requests \ {p} : ~(HoldsNo(q) /\ task[q].no = task[p].no)

NoNeverRefused(p) == FALSE

NoRefused(p) == task[p].no \in CommittedNos

SaveOrder(p) ==
  /\ At(p, "numbered")
  /\ NoFree(p)
  /\ IF NoRefused(p) THEN Fail(p)
     ELSE Goes(p, [task[p] EXCEPT !.stage = "inserted"])
  /\ UNCHANGED <<orders, customers, day, batch, price>>

NewOrder(t) ==
  [no |-> t.no, cart |-> t.cart, batch |-> t.batch, price |-> t.price]

\* The order's items are inserted, and the transaction commits.
Commit(p) ==
  /\ At(p, "inserted")
  /\ orders' = orders \cup {NewOrder(task[p])}
  /\ customers' = IF task[p].known THEN customers ELSE customers \cup {Phone(p)}
  /\ Goes(p, [task[p] EXCEPT !.stage = "committed"])
  /\ UNCHANGED <<day, batch, price>>

\* createOrReuse answers or throws (Payments); either way the request ends.
Answer(p) ==
  /\ At(p, "committed")
  /\ Fail(p)
  /\ UNCHANGED <<orders, customers, day, batch, price>>

-----------------------------------------------------------------------------
(* The environment, and failures *)

\* A line is sold out, the schedule moved on, the database refuses a statement,
\* the process restarts.
Abort(p) ==
  /\ p \in Running
  /\ Fail(p)
  /\ UNCHANGED <<orders, customers, day, batch, price>>

Midnight ==
  /\ day < MaxDay
  /\ day' = day + 1
  /\ UNCHANGED <<orders, customers, task, batch, price>>

BatchRollsOver ==
  /\ batch < MaxBatch
  /\ batch' = batch + 1
  /\ UNCHANGED <<orders, customers, task, day, price>>

AdminEditsPrices ==
  /\ price < MaxPrice
  /\ price' = price + 1
  /\ UNCHANGED <<orders, customers, task, day, batch>>

Step(p) ==
  \/ ResolveLines(p)
  \/ \E o \in orders : FindExisting(p, o)
  \/ FindNone(p)
  \/ OpenTransaction(p)
  \/ SaveCustomer(p)
  \/ NextOrderNo(p)
  \/ SaveOrder(p)
  \/ Commit(p)
  \/ Answer(p)

Next ==
  \/ \E p \in Requests : \/ \E c \in Carts : Begin(p, c)
                         \/ Step(p)
                         \/ Abort(p)
  \/ Midnight
  \/ BatchRollsOver
  \/ AdminEditsPrices

Spec == Init /\ [][Next]_vars

\* The database answers every statement, and serves those that wait for one key
\* in the order they came.
FairSpec ==
  Spec /\ \A p \in Requests :
            WF_vars(Step(p)) /\ SF_vars(SaveCustomer(p)) /\ SF_vars(SaveOrder(p))

-----------------------------------------------------------------------------
(* Properties *)

TypeOK ==
  /\ orders \subseteq Orders
  /\ customers \subseteq Phones
  /\ task \in [Requests -> Tasks]
  /\ day \in 1..MaxDay /\ batch \in Nat /\ price \in Nat

\* No two orders share a number, although nextOrderNo reads a snapshot that
\* concurrent checkouts have outdated.
OrderNosUnique ==
  \A a, b \in orders : a.no = b.no => a = b

\* The numbers of a day have no holes: a checkout that rolls back gives its
\* number back, and one that lost the race for it takes none.
OrderNosDense ==
  \A no \in CommittedNos : \A k \in 1..no.seq :
    [day |-> no.day, seq |-> k] \in CommittedNos

\* Every order's customer row was committed with it or before it, also when two
\* first orders of one phone run at once and one of them rolls back.
OrdersHaveCustomers ==
  \A o \in orders : PhoneOf[o.cart] \in customers

\* A cart that is sent again, after an error, a lost answer, a restart or past
\* midnight, is still one order as long as its prices and batch are the same.
OneOrderPerCart ==
  \A a, b \in orders :
    /\ a.cart = b.cart /\ a.cart \notin Keyless
    /\ a.price = b.price /\ a.batch = b.batch
    => a = b

\* The strengthening that makes the properties above inductive.
\* nos holds the first numbers of every day, n of them.
Initial(nos) ==
  \A d \in 0..MaxDay : \E n \in 0..(Padded + 1) : Seqs(nos, d) = 1..n

\* What a request remembers against the committed tables: its snapshot holds the
\* first numbers of each day, its own number leaves no hole, and nobody else
\* made its cart an order.
Sound(t) ==
  /\ t.stage # "idle" => t.cart \in Carts
  /\ t.seen \subseteq CommittedNos /\ Initial(t.seen)
  /\ t.known => t.stage # "idle" /\ PhoneOf[t.cart] \in customers
  /\ t.stage \in {"numbered", "inserted"} =>
       /\ t.no.seq \in 1..(Padded + 1)
       /\ \A k \in 1..(t.no.seq - 1) :
            [day |-> t.no.day, seq |-> k] \in CommittedNos
  /\ t.stage = "inserted" => t.no \notin CommittedNos
  /\ ~DoubleTaps /\ t.stage \in CreatingStages =>
       \A o \in orders : ~SameCheckout(o, t)

\* Uncommitted order numbers differ, and so do, without double taps, the carts.
Apart(s, t) ==
  /\ ~(s.stage = "inserted" /\ t.stage = "inserted" /\ s.no = t.no)
  /\ ~DoubleTaps /\ s.stage # "idle" /\ t.stage # "idle" => s.cart # t.cart

\* The committed tables and what the requests in flight remember of them: the
\* invariant the proofs carry through each step.
IInv ==
  /\ TypeOK
  /\ Initial(CommittedNos)
  /\ \A p \in Requests : Sound(task[p])
  /\ \A p, q \in Requests : p # q => Apart(task[p], task[q])
  /\ OrderNosUnique
  /\ OrdersHaveCustomers
  /\ ~DoubleTaps => OneOrderPerCart

\* No request waits for ever: checkouts that wait for each other's phone or
\* order number always wait for one that goes on.
RequestsEnd ==
  \A p \in Requests : ~At(p, "idle") ~> At(p, "idle")
=============================================================================
