------------------------------ MODULE Payments ------------------------------
(***************************************************************************)
(* Orders and their payments: PaymentsService and OrdersAdminService over  *)
(* the tables orders and payments (one payment row per order), the NusaPay *)
(* gateway and the customers as environment.                               *)
(*                                                                         *)
(* A request or a run of the interval job is a process with a task: what   *)
(* it read before an await and will use after it.  A transaction that does *)
(* not wait for the gateway is one step; QR generation, which calls the    *)
(* gateway inside its transaction, is two, and holds the lock on the order *)
(* row (and, through save, on the payment row) in between.                 *)
(*                                                                         *)
(* Amounts are not modelled: grand_total is written once, when the order   *)
(* is created, and payments.amount is always copied from it, so they only  *)
(* differ from what the gateway reports when the gateway is wrong; that is *)
(* the "00" observation of ProviderReportsOtherAmount.                     *)
(***************************************************************************)
EXTENDS Naturals

CONSTANTS
  Orders,    \* checked-out orders
  Workers,   \* HTTP requests in flight
  Scheduler, \* the run of the @Interval job reconcileRecentPayments
  Batches,   \* the delivery batches, each the set of its orders
  ProvRefs,  \* reference numbers the provider may report
  NoProvRef, \* none reported or stored
  MaxRefs    \* bound: partner references made per order

ASSUME ProcessAssumption == Scheduler \notin Workers
ASSUME BatchAssumption == Batches \subseteq SUBSET Orders
ASSUME ProvRefAssumption == NoProvRef \notin ProvRefs
ASSUME MaxRefsAssumption == MaxRefs \in Nat

VARIABLES
  order,    \* order[o]: orders.status
  payment,  \* payment[o]: the committed row of payments
  task,     \* task[p]: what process p holds across an await
  made,     \* made[o]: partner references made for o so far
  held,     \* held[o]: references whose QR a customer was shown
  received  \* received[o]: references the provider collected money for

vars == <<order, payment, task, made, held, received>>

-----------------------------------------------------------------------------
(* Data *)

Procs == Workers \cup {Scheduler}

OrderStatus == {"pending", "confirmed", "sourced", "delivered", "cancelled"}

TRANSITIONS ==
  {<<"pending", "confirmed">>, <<"pending", "cancelled">>,
   <<"confirmed", "sourced">>, <<"confirmed", "cancelled">>,
   <<"sourced", "delivered">>, <<"sourced", "cancelled">>}

Sources == {"webhook", "scheduler", "customer_recheck", "admin_recheck"}

Refs == 1..MaxRefs

ProviderRefs == ProvRefs \cup {NoProvRef}

\* "none": there is no row.  expires: expires_at against the clock.
\* recent: created_at is inside the 24 hours the interval job looks at.
PaymentRows ==
  [status : {"none", "pending", "paid", "failed", "expired"},
   ref : 0..MaxRefs, provRef : ProviderRefs,
   providerStatus : {"none", "03", "00"}, qr : BOOLEAN,
   expires : {"unset", "ahead", "past"}, recent : BOOLEAN,
   source : Sources \cup {"none"}]

NoPayment ==
  [status |-> "none", ref |-> 0, provRef |-> NoProvRef,
   providerStatus |-> "none", qr |-> FALSE, expires |-> "unset",
   recent |-> TRUE, source |-> "none"]

Idle == [kind |-> "idle"]

GenerateTasks == [kind : {"generate"}, o : Orders, ref : Refs]
ViewTasks == [kind : {"view"}, o : Orders, ref : Refs]
QueryTasks == [kind : {"query"}, o : Orders, ref : Refs,
               provRef : ProviderRefs, source : Sources]
ObserveTasks == [kind : {"observe"}, o : Orders, ref : Refs,
                 providerStatus : {"03", "00"}]
MarkTasks == [kind : {"mark"}, o : Orders, ref : Refs,
              provRef : ProviderRefs, source : Sources]
AdminTasks == [kind : {"admin"}, o : Orders, previous : OrderStatus,
               next : OrderStatus]

Tasks == {Idle} \cup GenerateTasks \cup ViewTasks \cup QueryTasks
           \cup ObserveTasks \cup MarkTasks \cup AdminTasks

\* A generation holds the order row, and the payment row it wrote.
Locked(o) == \E p \in Procs : task[p].kind = "generate" /\ task[p].o = o

Doing(p, kind) == task[p].kind = kind

Start(p, t) == /\ task[p] = Idle
               /\ task' = [task EXCEPT ![p] = t]

Done(p) == task' = [task EXCEPT ![p] = Idle]

Show(o, row) ==
  held' = [held EXCEPT ![o] = IF row.qr THEN @ \cup {row.ref} ELSE @]

Init ==
  /\ order = [o \in Orders |-> "pending"]
  /\ payment = [o \in Orders |-> NoPayment]
  /\ task = [p \in Procs |-> Idle]
  /\ made = [o \in Orders |-> 0]
  /\ held = [o \in Orders |-> {}]
  /\ received = [o \in Orders |-> {}]

-----------------------------------------------------------------------------
(* createOrReuse: checkout and its retries *)

NeedsExpiry(row) == row.status = "pending" /\ row.expires = "past"

\* A live QR or a paid row is returned as it is, any other issued QR is
\* marked expired and kept.
Reopened(row) ==
  IF row.status = "paid" \/ (row.status = "pending" /\ row.expires = "ahead")
  THEN row ELSE [row EXCEPT !.status = "expired"]

NeedsQrOrLapsed(row) == ~row.qr \/ NeedsExpiry(row)

NeedsQr(row) == ~row.qr

ReuseIssued(o) ==
  /\ ~Locked(o)
  /\ order[o] # "cancelled"
  /\ ~NeedsQr(payment[o])
  /\ payment' = [payment EXCEPT ![o] = Reopened(@)]
  /\ Show(o, payment[o])
  /\ UNCHANGED <<order, task, made, received>>

\* makePartnerReference for the first attempt; a failed attempt keeps its own.
BeginGenerate(p, o) ==
  LET first == payment[o].status = "none"
  IN  /\ ~Locked(o)
      /\ order[o] # "cancelled"
      /\ NeedsQr(payment[o])
      /\ first => made[o] < MaxRefs
      /\ made' = [made EXCEPT ![o] = IF first THEN @ + 1 ELSE @]
      /\ Start(p, [kind |-> "generate", o |-> o,
                   ref |-> IF first THEN made'[o] ELSE payment[o].ref])
      /\ UNCHANGED <<order, payment, held, received>>

\* The row as the transaction rewrites it before it calls the gateway.  Only
\* expires_at and created_at survive from an earlier attempt.
Rewritten(row, ref) ==
  [status |-> "pending", ref |-> ref, provRef |-> NoProvRef,
   providerStatus |-> "none", qr |-> FALSE,
   expires |-> IF row.expires = "unset" THEN "ahead" ELSE row.expires,
   recent |-> row.recent, source |-> "none"]

\* The gateway returned a QR and the transaction commits; the response may
\* still be lost on its way to the customer.
GenerateSucceeds(p, provRef, delivered) ==
  LET o == task[p].o
      row == [Rewritten(payment[o], task[p].ref) EXCEPT
                !.qr = TRUE, !.provRef = provRef]
  IN  /\ Doing(p, "generate")
      /\ payment' = [payment EXCEPT ![o] = row]
      /\ IF delivered THEN Show(o, row) ELSE UNCHANGED held
      /\ Done(p)
      /\ UNCHANGED <<order, made, received>>

\* Gateway error or timeout: the failed attempt is committed, then reported.
\* The catch also sees the save of an answer fail, and then its own save writes
\* the QR (qr) and the provider's reference the row was given.
GenerateFails(p, qr, provRef) ==
  LET o == task[p].o
  IN  /\ Doing(p, "generate")
      /\ ~qr => provRef = NoProvRef
      /\ payment' = [payment EXCEPT
           ![o] = [Rewritten(@, task[p].ref) EXCEPT
                     !.status = "failed", !.qr = qr, !.provRef = provRef]]
      /\ Done(p)
      /\ UNCHANGED <<order, made, held, received>>

-----------------------------------------------------------------------------
(* viewForOrder: the customer's recap *)

View(o) ==
  /\ payment[o].status # "none"
  /\ ~NeedsExpiry(payment[o])
  /\ Show(o, payment[o])
  /\ UNCHANGED <<order, payment, task, made, received>>

ViewRead(p, o) ==
  /\ NeedsExpiry(payment[o])
  /\ Start(p, [kind |-> "view", o |-> o, ref |-> payment[o].ref])
  /\ UNCHANGED <<order, payment, made, held, received>>

MayExpireUnconditionally(row, t) == row.ref = t.ref

\* The WHERE of the conditional update.
MayExpire(row, t) == row.ref = t.ref /\ NeedsExpiry(row)

ViewExpires(p) ==
  LET t == task[p]
  IN  /\ Doing(p, "view")
      /\ ~Locked(t.o)
      /\ payment' = [payment EXCEPT
           ![t.o] = IF MayExpire(@, t) THEN [@ EXCEPT !.status = "expired"]
                    ELSE @]
      /\ Show(t.o, payment'[t.o])
      /\ Done(p)
      /\ UNCHANGED <<order, made, received>>

-----------------------------------------------------------------------------
(* The gateway's callback, and the three ways to query the gateway *)

RefAgrees(row, provRef) ==
  row.provRef = NoProvRef \/ provRef = NoProvRef \/ row.provRef = provRef

\* handleNusapayCallback up to markPaid.  A callback may come late, be
\* repeated, overtake another or never come: one for money that was received
\* may arrive at any time.  A paid row answers duplicate and changes nothing.
CallbackRead(p, o, ref, provRef) ==
  /\ ref \in received[o]
  /\ payment[o].status \notin {"none", "paid"}
  /\ payment[o].ref = ref
  /\ RefAgrees(payment[o], provRef)
  /\ Start(p, [kind |-> "mark", o |-> o, ref |-> ref,
               provRef |-> provRef, source |-> "webhook"])
  /\ UNCHANGED <<order, payment, made, held, received>>

QueryStart(p, o, source) ==
  /\ Start(p, [kind |-> "query", o |-> o, ref |-> payment[o].ref,
               provRef |-> payment[o].provRef, source |-> source])
  /\ UNCHANGED <<order, payment, made, held, received>>

\* recheckOrder
CustomerRecheck(p, o) ==
  /\ payment[o].status \notin {"none", "paid"}
  /\ QueryStart(p, o, "customer_recheck")

\* adminRecheck, of a paid row too
AdminRecheck(p, o) ==
  /\ payment[o].status # "none"
  /\ QueryStart(p, o, "admin_recheck")

SchedulerPicksPendingOnly(o) ==
  /\ payment[o].status = "pending"
  /\ payment[o].recent
  /\ QueryStart(Scheduler, o, "scheduler")

\* One candidate of reconcileRecentPayments.  Its wait of a minute after the last
\* check of a row (last_provider_check_at) only delays a pick, and is left out.
SchedulerPicks(o) ==
  /\ payment[o].status \in {"pending", "expired", "failed"}
  /\ payment[o].recent
  /\ QueryStart(Scheduler, o, "scheduler")

SettlesOnAnyAnswer(status) == status \in {"00", "03"}

SettlesOn(status) == status = "00"

Observe(p, status) ==
  task' = [task EXCEPT ![p] = [kind |-> "observe", o |-> task[p].o,
                               ref |-> task[p].ref,
                               providerStatus |-> status]]

\* reconcilePayment after queryProvider answered status: a settled answer goes
\* to markPaid with the provider's reference, or else the one read earlier.
\* The provider may call a payment pending long after it collected the money.
ProviderAnswers(p, status, provRef) ==
  LET t == task[p]
  IN  /\ Doing(p, "query")
      /\ status = "00" => t.ref \in received[t.o]
      /\ status = "03" => provRef = NoProvRef
      /\ IF SettlesOn(status)
         THEN task' = [task EXCEPT
                ![p] = [kind |-> "mark", o |-> t.o, ref |-> t.ref,
                        provRef |-> IF provRef # NoProvRef THEN provRef
                                    ELSE t.provRef,
                        source |-> t.source]]
         ELSE Observe(p, status)
      /\ UNCHANGED <<order, payment, made, held, received>>

\* The same, of an answer whose amount or partner reference is another one.
ProviderReportsOtherAmount(p) ==
  /\ Doing(p, "query")
  /\ Observe(p, "00")
  /\ UNCHANGED <<order, payment, made, held, received>>

RefAndProviderAgree(row, t) == row.ref = t.ref /\ RefAgrees(row, t.provRef)

RefAndStatusAgree(row, t) == row.ref = t.ref /\ row.status # "paid"

\* What markPaid checks again under the locks.  Where a check fails it returns
\* false or throws, and nothing is written.
MayMarkPaid(row, t) ==
  /\ row.ref = t.ref
  /\ row.status # "paid"
  /\ RefAgrees(row, t.provRef)

UnmovedAfterPaid(status) == status

OrderAfterPaid(status) == IF status = "pending" THEN "confirmed" ELSE status

\* markPaid: the order row's lock, then the payment row's, in one transaction.
MarkPaid(p) ==
  LET t == task[p]
      ok == MayMarkPaid(payment[t.o], t)
  IN  /\ Doing(p, "mark")
      /\ ~Locked(t.o)
      /\ payment' = [payment EXCEPT
           ![t.o] = IF ok THEN [@ EXCEPT !.status = "paid",
                                         !.providerStatus = "00",
                                         !.provRef = t.provRef,
                                         !.source = t.source]
                    ELSE @]
      /\ order' = [order EXCEPT ![t.o] = IF ok THEN OrderAfterPaid(@) ELSE @]
      /\ Done(p)
      /\ UNCHANGED <<made, held, received>>

MayObserveAnyStatus(row, t) == row.ref = t.ref

MayObserve(row, t) == row.ref = t.ref /\ row.status # "paid"

\* saveProviderObservation: one conditional update.
SaveObservation(p) ==
  LET t == task[p]
  IN  /\ Doing(p, "observe")
      /\ ~Locked(t.o)
      /\ payment' = [payment EXCEPT
           ![t.o] = IF MayObserve(@, t)
                    THEN [@ EXCEPT !.providerStatus = t.providerStatus]
                    ELSE @]
      /\ Done(p)
      /\ UNCHANGED <<order, made, held, received>>

-----------------------------------------------------------------------------
(* OrdersAdminService *)

\* updateStatus up to its conditional update.
AdminRead(p, o, next) ==
  /\ <<order[o], next>> \in TRANSITIONS
  /\ Start(p, [kind |-> "admin", o |-> o, previous |-> order[o],
               next |-> next])
  /\ UNCHANGED <<order, payment, made, held, received>>

MayMoveFromAnywhere(o, t) ==
  t.next = "confirmed" => payment[o].status = "paid"

MayMoveUnpaid(o, t) == order[o] = t.previous

\* The WHERE of that update.
MayMove(o, t) ==
  /\ order[o] = t.previous
  /\ t.next = "confirmed" => payment[o].status = "paid"

AdminWrite(p) ==
  LET t == task[p]
  IN  /\ Doing(p, "admin")
      /\ ~Locked(t.o)
      /\ order' = [order EXCEPT ![t.o] = IF MayMove(t.o, t) THEN t.next ELSE @]
      /\ Done(p)
      /\ UNCHANGED <<payment, made, held, received>>

\* bulkAdvance: one update over the orders of a batch.
BulkAdvance(batch, from, to) ==
  LET move == [previous |-> from, next |-> to]
  IN  /\ <<from, to>> \in TRANSITIONS
      /\ \A o \in batch : ~Locked(o)
      /\ order' = [o \in Orders |->
                    IF o \in batch /\ MayMove(o, move) THEN to ELSE order[o]]
      /\ UNCHANGED <<payment, task, made, held, received>>

-----------------------------------------------------------------------------
(* The environment, and failures *)

\* A customer pays a QR they hold; the provider may accept it after expires_at.
CustomerPays(o, ref) ==
  /\ ref \in held[o] \ received[o]
  /\ received' = [received EXCEPT ![o] = @ \cup {ref}]
  /\ UNCHANGED <<order, payment, task, made, held>>

ExpiryPasses(o) ==
  /\ payment[o].expires = "ahead"
  /\ payment' = [payment EXCEPT ![o].expires = "past"]
  /\ UNCHANGED <<order, task, made, held, received>>

\* A day passes, and with it any expiry of ten minutes.
RecentPasses(o) ==
  /\ payment[o].expires = "past"
  /\ payment[o].recent
  /\ payment' = [payment EXCEPT ![o].recent = FALSE]
  /\ UNCHANGED <<order, task, made, held, received>>

\* A request dies: the gateway query fails or times out, the database refuses
\* a statement, the process restarts.  An open transaction rolls back.
Abort(p) ==
  /\ task[p] # Idle
  /\ Done(p)
  /\ UNCHANGED <<order, payment, made, held, received>>

-----------------------------------------------------------------------------

Checkout ==
  \/ \E o \in Orders : ReuseIssued(o) \/ View(o)
  \/ \E p \in Workers, o \in Orders : BeginGenerate(p, o) \/ ViewRead(p, o)
  \/ \E p \in Workers, provRef \in ProviderRefs, delivered \in BOOLEAN :
        GenerateSucceeds(p, provRef, delivered)
  \/ \E p \in Workers, qr \in BOOLEAN, provRef \in ProviderRefs :
        GenerateFails(p, qr, provRef)
  \/ \E p \in Workers : ViewExpires(p)

Reconcile ==
  \/ \E p \in Workers, o \in Orders, ref \in Refs, provRef \in ProviderRefs :
        CallbackRead(p, o, ref, provRef)
  \/ \E p \in Workers, o \in Orders : CustomerRecheck(p, o) \/ AdminRecheck(p, o)
  \/ \E o \in Orders : SchedulerPicks(o)
  \/ \E p \in Procs, status \in {"00", "03"}, provRef \in ProviderRefs :
        ProviderAnswers(p, status, provRef)
  \/ \E p \in Procs : \/ ProviderReportsOtherAmount(p)
                      \/ MarkPaid(p)
                      \/ SaveObservation(p)

Admin ==
  \/ \E p \in Workers, o \in Orders, next \in OrderStatus : AdminRead(p, o, next)
  \/ \E p \in Workers : AdminWrite(p)
  \/ \E batch \in Batches, from, to \in OrderStatus : BulkAdvance(batch, from, to)

Environment ==
  \/ \E o \in Orders, ref \in Refs : CustomerPays(o, ref)
  \/ \E o \in Orders : ExpiryPasses(o) \/ RecentPasses(o)
  \/ \E p \in Procs : Abort(p)

Next == Checkout \/ Reconcile \/ Admin \/ Environment

Spec == Init /\ [][Next]_vars

\* The interval job comes back every minute, its loop survives a failing
\* candidate, each query is answered or times out, and neither the gateway nor
\* the database fails the job for ever.  SF on SchedulerPicks(o) holds while the
\* job's LIMIT covers every candidate: past 25 of them the oldest go first.
QueryEnds ==
  /\ Doing(Scheduler, "query")
  /\ \/ Abort(Scheduler)
     \/ ProviderReportsOtherAmount(Scheduler)
     \/ \E status \in {"00", "03"}, provRef \in ProviderRefs :
          ProviderAnswers(Scheduler, status, provRef)

GatewayConfirms(o) ==
  /\ Doing(Scheduler, "query")
  /\ task[Scheduler].o = o
  /\ \E provRef \in ProviderRefs : ProviderAnswers(Scheduler, "00", provRef)

JobMarksPaid(o) ==
  /\ Doing(Scheduler, "mark")
  /\ task[Scheduler].o = o
  /\ MarkPaid(Scheduler)

SchedulerFairness ==
  /\ WF_vars(QueryEnds)
  /\ WF_vars(SaveObservation(Scheduler))
  /\ WF_vars(MarkPaid(Scheduler))
  /\ \A o \in Orders : /\ SF_vars(SchedulerPicks(o))
                      /\ SF_vars(GatewayConfirms(o))
                      /\ SF_vars(JobMarksPaid(o))

FairSpec == Spec /\ SchedulerFairness

-----------------------------------------------------------------------------
(* Properties *)

TypeOK ==
  /\ order \in [Orders -> OrderStatus]
  /\ payment \in [Orders -> PaymentRows]
  /\ task \in [Procs -> Tasks]
  /\ made \in [Orders -> 0..MaxRefs]
  /\ held \in [Orders -> SUBSET Refs]
  /\ received \in [Orders -> SUBSET Refs]

\* The two tables agree: a paid order never waits for its payment, whatever an
\* admin, a callback and a checkout retry do at once (markPaid's last update;
\* the alert paid_order_not_confirmed counts what this excludes).
PaidNeverWaiting ==
  \A o \in Orders : payment[o].status = "paid" => order[o] # "pending"

\* Nothing is confirmed, bought or delivered for an order that was not paid,
\* although updateStatus and bulkAdvance decide on what they read earlier.
FulfilmentIsPaid ==
  \A o \in Orders :
    order[o] \in {"confirmed", "sourced", "delivered"}
      => payment[o].status = "paid"

\* Every QR in a customer's hands, after any crash, retry or expiry, is the one
\* of the stored row, so a late callback or query for it finds its payment.
IssuedQrIsKnown ==
  \A o \in Orders :
    /\ received[o] \subseteq held[o]
    /\ held[o] \subseteq {payment[o].ref}
    /\ held[o] # {} => payment[o].qr

\* A payment is recorded as paid only if the provider collected the money for
\* the very reference of its row, however stale the answer it was recorded from.
PaidIsEarned ==
  \A o \in Orders :
    payment[o].status = "paid" => payment[o].ref \in received[o]

\* A paid row never changes again, except by growing old: no duplicate callback
\* writes twice, no late observation, expiry or checkout retry overwrites it.
SettledPart(row) ==
  <<row.status, row.ref, row.provRef, row.providerStatus, row.qr, row.source>>

PaidRowKept ==
  \A o \in Orders :
    payment[o].status = "paid"
      => SettledPart(payment'[o]) = SettledPart(payment[o])

PaidRowFrozen == [][PaidRowKept]_vars

\* Once committed with its row, a QR and its reference are never replaced: an
\* expired QR stays payable and recognisable (createOrReuse, its comment on late
\* callbacks).
QrKept ==
  \A o \in Orders :
    payment[o].qr => payment'[o].qr /\ payment'[o].ref = payment[o].ref

IssuedQrKept == [][QrKept]_vars

\* No stored provider reference is exchanged for another provider's transaction
\* by a callback and a query that report different ones.
ProviderRefAgrees ==
  \A o \in Orders :
    payment[o].qr => RefAgrees(payment[o], payment'[o].provRef)

ProviderRefKept == [][ProviderRefAgrees]_vars

\* Orders move along TRANSITIONS only: an admin's stale read can neither skip a
\* stage nor take a delivered or cancelled order anywhere.
LegalMoves ==
  \A o \in Orders :
    order'[o] # order[o] => <<order[o], order'[o]>> \in TRANSITIONS

OrderMovesAreLegal == [][LegalMoves]_vars

\* The strengthening that makes the properties above inductive.  Only rows
\* without a QR are rewritten, one generation at a time per order, so whatever a
\* process remembers of an issued reference is still what the row says.
QrMatchesStatus ==
  \A o \in Orders :
    /\ payment[o].status \in {"pending", "expired", "paid"} => payment[o].qr
    /\ payment[o].qr => payment[o].status # "none"
    /\ payment[o].status # "none" => payment[o].ref \in Refs

GenerationIsExclusive ==
  \A p, q \in Procs :
    Doing(p, "generate") /\ Doing(q, "generate") /\ task[p].o = task[q].o
      => p = q

GeneratesWithoutQr ==
  \A p \in Procs :
    Doing(p, "generate") => ~payment[task[p].o].qr

MarksAreEarned ==
  \A p \in Procs :
    Doing(p, "mark") => task[p].ref \in received[task[p].o]

AdminMovesAreLegal ==
  \A p \in Procs :
    Doing(p, "admin") => <<task[p].previous, task[p].next>> \in TRANSITIONS

\* Every reachable state of the two tables and of what the requests in flight
\* remember of them: the invariant the proofs carry through each step.
IInv ==
  /\ TypeOK
  /\ QrMatchesStatus
  /\ GenerationIsExclusive
  /\ GeneratesWithoutQr
  /\ MarksAreEarned
  /\ AdminMovesAreLegal
  /\ PaidNeverWaiting
  /\ FulfilmentIsPaid
  /\ IssuedQrIsKnown
  /\ PaidIsEarned

\* The promise of Settlement, with the rows of the two tables as its state.
Promise == INSTANCE Settlement WITH
             stage <- order,
             collected <- {o \in Orders : received[o] # {}},
             settled <- {o \in Orders : payment[o].status = "paid"}

KeepsPromise == Promise!PromiseSpec

\* Money the provider collected is recorded by the interval job alone, with no
\* callback at all, unless the payment leaves the job's 24 hours first.
CollectedIsSettled ==
  \A o \in Orders :
    received[o] # {} ~> (payment[o].status = "paid" \/ ~payment[o].recent)

\* What the security review says of a QR handed out: an expired one is shown as
\* expired, so a QR a transaction issues as pending is not past its expiry.
QrIssuedAsPendingIsLive ==
  [][\A o \in Orders :
       ~payment[o].qr /\ payment'[o].qr => payment'[o].expires # "past"]_vars
=============================================================================
