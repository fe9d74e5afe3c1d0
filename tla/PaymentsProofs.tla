--------------------------- MODULE PaymentsProofs ---------------------------
(***************************************************************************)
(* Proofs about Payments, for every set of orders, requests, batches and   *)
(* references.                                                             *)
(***************************************************************************)
EXTENDS Payments, TLAPS

\* A task's kind tells its fields: what a process holds after its await is what
\* the step before the await put there.
LEMMA TaskFields ==
  ASSUME NEW t \in Tasks
  PROVE  /\ t.kind = "generate" => t \in GenerateTasks
         /\ t.kind = "view" => t \in ViewTasks
         /\ t.kind = "query" => t \in QueryTasks
         /\ t.kind = "observe" => t \in ObserveTasks
         /\ t.kind = "mark" => t \in MarkTasks
         /\ t.kind = "admin" => t \in AdminTasks
BY DEF Tasks, Idle, GenerateTasks, ViewTasks, QueryTasks, ObserveTasks,
       MarkTasks, AdminTasks

\* The tables start empty and no request is in flight.
LEMMA InitInv == Init => IInv
<1> SUFFICES ASSUME Init PROVE IInv
  OBVIOUS
<1>1. TypeOK
  BY MaxRefsAssumption DEF Init, TypeOK, NoPayment, PaymentRows, Idle, Tasks, OrderStatus,
     ProviderRefs, Refs
<1>2. QED
  BY <1>1 DEF Init, IInv, QrMatchesStatus, GenerationIsExclusive,
     GeneratesWithoutQr, MarksAreEarned, AdminMovesAreLegal, PaidNeverWaiting,
     FulfilmentIsPaid, IssuedQrIsKnown, PaidIsEarned, NoPayment, Idle, Doing

-----------------------------------------------------------------------------
(* What most steps do: change one task, or a row without touching its QR.  *)

\* Reading, starting, answering and aborting only change what one process holds;
\* the invariant asks of the new task what its kind will rely on.
LEMMA TaskStep ==
  ASSUME IInv, NEW p \in Procs, NEW t \in Tasks,
         task' = [task EXCEPT ![p] = t],
         made' \in [Orders -> 0..MaxRefs],
         UNCHANGED <<order, payment, held, received>>,
         t.kind = "generate" => ~payment[t.o].qr /\ ~Locked(t.o),
         t.kind = "mark" => t.ref \in received[t.o],
         t.kind = "admin" => <<t.previous, t.next>> \in TRANSITIONS
  PROVE  IInv'
<1>1. TypeOK'
  BY DEF IInv, TypeOK
<1>2. \A q \in Procs : task'[q] = IF q = p THEN t ELSE task[q]
  BY DEF IInv, TypeOK
<1>3. GenerationIsExclusive'
  BY <1>2 DEF IInv, GenerationIsExclusive, Doing, Locked
<1>4. GeneratesWithoutQr' /\ MarksAreEarned' /\ AdminMovesAreLegal'
  BY <1>2 DEF IInv, GeneratesWithoutQr, MarksAreEarned, AdminMovesAreLegal, Doing
<1>5. QED
  BY <1>1, <1>3, <1>4 DEF IInv, QrMatchesStatus, PaidNeverWaiting,
     FulfilmentIsPaid, IssuedQrIsKnown, PaidIsEarned

\* A row before and after a step that neither issues a QR nor settles.
SameIssue(old, new) ==
  /\ new.ref = old.ref
  /\ new.qr = old.qr
  /\ new.status = "paid" <=> old.status = "paid"
  /\ new.status = "none" <=> old.status = "none"
  /\ new.status \in {"pending", "expired", "paid"} => new.qr

\* Expiring, observing and showing a row keep the invariant, because a QR is
\* shown with the reference of its row; the process that does it may end.
LEMMA QuietStep ==
  ASSUME IInv,
         task' = task \/ \E p \in Procs : Done(p),
         payment' \in [Orders -> PaymentRows],
         \A x \in Orders : SameIssue(payment[x], payment'[x]),
         held' \in [Orders -> SUBSET Refs],
         \A x \in Orders :
           /\ held[x] \subseteq held'[x]
           /\ held'[x] # held[x]
                => payment[x].qr /\ held'[x] = held[x] \cup {payment[x].ref},
         UNCHANGED <<order, made, received>>
  PROVE  IInv'
<1>1. /\ task' \in [Procs -> Tasks]
      /\ \A q \in Procs : task'[q] = Idle \/ task'[q] = task[q]
  BY DEF IInv, TypeOK, Done, Tasks
<1>2. TypeOK'
  BY <1>1 DEF IInv, TypeOK
<1>3. QrMatchesStatus'
  BY DEF IInv, QrMatchesStatus, SameIssue
<1>4. GeneratesWithoutQr'
  <2> SUFFICES ASSUME NEW q \in Procs, task'[q].kind = "generate"
               PROVE  ~payment'[task'[q].o].qr
    BY DEF GeneratesWithoutQr, Doing
  <2>1. task'[q] = task[q]
    BY <1>1 DEF Idle
  <2>2. task[q].o \in Orders
    BY <2>1, TaskFields DEF IInv, TypeOK, GenerateTasks
  <2>3. QED
    BY <2>1, <2>2 DEF IInv, GeneratesWithoutQr, Doing, SameIssue
<1>5. PaidNeverWaiting' /\ FulfilmentIsPaid' /\ PaidIsEarned'
  BY DEF IInv, PaidNeverWaiting, FulfilmentIsPaid, PaidIsEarned, SameIssue
<1>6. IssuedQrIsKnown'
  BY DEF IInv, IssuedQrIsKnown, SameIssue
<1>7. GenerationIsExclusive' /\ MarksAreEarned' /\ AdminMovesAreLegal'
  BY <1>1 DEF IInv, GenerationIsExclusive, MarksAreEarned, AdminMovesAreLegal,
     Doing, Idle
<1>8. QED
  BY <1>2, <1>3, <1>4, <1>5, <1>6, <1>7 DEF IInv

\* A process that drops its task keeps the invariant.
LEMMA DoneInv ==
  ASSUME IInv, NEW p \in Procs, Done(p),
         UNCHANGED <<order, payment, made, held, received>>
  PROVE  IInv'
<1>1. Idle \in Tasks /\ Idle.kind = "idle"
  BY DEF Idle, Tasks
<1>2. made' \in [Orders -> 0..MaxRefs]
  BY DEF IInv, TypeOK
<1>3. QED
  BY <1>1, <1>2, TaskStep DEF Done

-----------------------------------------------------------------------------
(* One lemma per step that does more.                                      *)

\* createOrReuse returning what is already issued.
LEMMA ReuseInv ==
  ASSUME IInv, NEW o \in Orders, ReuseIssued(o)
  PROVE  IInv'
<1>1. /\ payment[o] \in PaymentRows
      /\ payment[o].ref \in Refs
      /\ payment[o].qr
      /\ payment[o].status # "none"
  BY DEF IInv, TypeOK, QrMatchesStatus, ReuseIssued, NeedsQr, PaymentRows
<1>2. Reopened(payment[o]) \in PaymentRows /\ SameIssue(payment[o], Reopened(payment[o]))
  BY <1>1 DEF Reopened, PaymentRows, SameIssue
<1>3. \A x \in Orders : SameIssue(payment[x], payment[x])
  BY DEF IInv, QrMatchesStatus, SameIssue
<1>4. /\ payment' \in [Orders -> PaymentRows]
      /\ \A x \in Orders : SameIssue(payment[x], payment'[x])
  BY <1>2, <1>3 DEF IInv, TypeOK, ReuseIssued
<1>5. /\ held' \in [Orders -> SUBSET Refs]
      /\ \A x \in Orders :
           /\ held[x] \subseteq held'[x]
           /\ held'[x] # held[x]
                => payment[x].qr /\ held'[x] = held[x] \cup {payment[x].ref}
  BY <1>1 DEF IInv, TypeOK, ReuseIssued, Show
<1>6. QED
  BY <1>4, <1>5, QuietStep DEF ReuseIssued

\* A recap shown as it is.
LEMMA ViewInv ==
  ASSUME IInv, NEW o \in Orders, View(o)
  PROVE  IInv'
<1>1. payment[o].ref \in Refs
  BY DEF IInv, QrMatchesStatus, View
<1>2. /\ payment' \in [Orders -> PaymentRows]
      /\ \A x \in Orders : SameIssue(payment[x], payment'[x])
  BY DEF IInv, TypeOK, QrMatchesStatus, SameIssue, View
<1>3. /\ held' \in [Orders -> SUBSET Refs]
      /\ \A x \in Orders :
           /\ held[x] \subseteq held'[x]
           /\ held'[x] # held[x]
                => payment[x].qr /\ held'[x] = held[x] \cup {payment[x].ref}
  BY <1>1 DEF IInv, TypeOK, View, Show
<1>4. QED
  BY <1>2, <1>3, QuietStep DEF View

\* The recap's conditional expiry.
LEMMA ViewExpiresInv ==
  ASSUME IInv, NEW p \in Procs, ViewExpires(p)
  PROVE  IInv'
<1> DEFINE o == task[p].o
<1>1. task[p] \in ViewTasks /\ o \in Orders
  BY TaskFields DEF IInv, TypeOK, ViewExpires, Doing, ViewTasks
<1>2. payment[o] \in PaymentRows
  BY <1>1 DEF IInv, TypeOK
<1>3. PICK row \in PaymentRows :
        /\ payment' = [payment EXCEPT ![o] = row]
        /\ SameIssue(payment[o], row)
  <2>1. CASE MayExpire(payment[o], task[p])
    <3>1. payment[o].status = "pending" /\ payment[o].qr
      BY <1>1, <2>1 DEF MayExpire, NeedsExpiry, IInv, QrMatchesStatus
    <3>2. /\ [payment[o] EXCEPT !.status = "expired"] \in PaymentRows
          /\ SameIssue(payment[o], [payment[o] EXCEPT !.status = "expired"])
      BY <1>2, <3>1 DEF PaymentRows, SameIssue
    <3>3. QED
      BY <1>1, <2>1, <3>2 DEF ViewExpires, IInv, TypeOK
  <2>2. CASE ~MayExpire(payment[o], task[p])
    BY <1>1, <1>2, <2>2 DEF ViewExpires, IInv, TypeOK, SameIssue, QrMatchesStatus
  <2>3. QED
    BY <2>1, <2>2
<1>4. /\ payment' \in [Orders -> PaymentRows]
      /\ \A x \in Orders : SameIssue(payment[x], payment'[x])
  BY <1>1, <1>3 DEF IInv, TypeOK, QrMatchesStatus, SameIssue
<1>5. payment[o].qr => payment[o].ref \in Refs
  BY <1>1 DEF IInv, QrMatchesStatus
<1>6. payment'[o].qr = payment[o].qr /\ payment'[o].ref = payment[o].ref
  BY <1>1, <1>4 DEF SameIssue
<1>7. /\ held' \in [Orders -> SUBSET Refs]
      /\ \A x \in Orders :
           /\ held[x] \subseteq held'[x]
           /\ held'[x] # held[x]
                => payment[x].qr /\ held'[x] = held[x] \cup {payment[x].ref}
  BY <1>1, <1>5, <1>6 DEF IInv, TypeOK, ViewExpires, Show
<1>8. QED
  BY <1>4, <1>7, QuietStep DEF ViewExpires

\* The observation of an answer that settles nothing.
LEMMA SaveObservationInv ==
  ASSUME IInv, NEW p \in Procs, SaveObservation(p)
  PROVE  IInv'
<1> DEFINE o == task[p].o
<1>1. task[p] \in ObserveTasks /\ o \in Orders
  BY TaskFields DEF IInv, TypeOK, SaveObservation, Doing, ObserveTasks
<1>2. payment[o] \in PaymentRows
  BY <1>1 DEF IInv, TypeOK
<1>3. /\ [payment[o] EXCEPT !.providerStatus = task[p].providerStatus] \in PaymentRows
      /\ SameIssue(payment[o],
                   [payment[o] EXCEPT !.providerStatus = task[p].providerStatus])
  BY <1>1, <1>2 DEF PaymentRows, SameIssue, IInv, QrMatchesStatus, ObserveTasks
<1>4. /\ payment' \in [Orders -> PaymentRows]
      /\ \A x \in Orders : SameIssue(payment[x], payment'[x])
  BY <1>1, <1>2, <1>3 DEF IInv, TypeOK, QrMatchesStatus, SameIssue, SaveObservation
<1>5. QED
  BY <1>4, QuietStep DEF SaveObservation, IInv, TypeOK

\* The start of a generation takes the lock only when nobody has it.
LEMMA BeginGenerateInv ==
  ASSUME IInv, NEW p \in Workers, NEW o \in Orders, BeginGenerate(p, o)
  PROVE  IInv'
<1> DEFINE first == payment[o].status = "none"
           ref == IF first THEN made'[o] ELSE payment[o].ref
           t == [kind |-> "generate", o |-> o, ref |-> ref]
<1>1. made' \in [Orders -> 0..MaxRefs] /\ (first => made'[o] \in Refs)
  BY MaxRefsAssumption DEF IInv, TypeOK, BeginGenerate, Refs
<1>2. ref \in Refs
  BY <1>1 DEF IInv, QrMatchesStatus
<1>3. t \in Tasks
  BY <1>2 DEF Tasks, GenerateTasks
<1>4. task' = [task EXCEPT ![p] = t]
  BY DEF BeginGenerate, Start
<1>5. ~payment[t.o].qr /\ ~Locked(t.o)
  BY DEF BeginGenerate, NeedsQr
<1>6. QED
  BY <1>1, <1>3, <1>4, <1>5, TaskStep DEF BeginGenerate, Procs

\* A generation that ends with row committed, and a QR in it or not.  The lock
\* kept every other generation of the order, and every settlement, away.
LEMMA CommitInv ==
  ASSUME IInv, NEW p \in Procs, Doing(p, "generate"), Done(p),
         NEW row \in PaymentRows, row.ref \in Refs,
         row.status \in {"pending", "failed"}, row.status = "pending" => row.qr,
         payment' = [payment EXCEPT ![task[p].o] = row],
         held' = held \/ Show(task[p].o, row),
         UNCHANGED <<order, made, received>>
  PROVE  IInv'
<1> DEFINE o == task[p].o
<1>1. o \in Orders
  BY TaskFields DEF IInv, TypeOK, Doing, GenerateTasks
<1>2. ~payment[o].qr /\ held[o] = {} /\ received[o] = {}
        /\ payment[o].status # "paid"
  BY <1>1 DEF IInv, GeneratesWithoutQr, IssuedQrIsKnown, QrMatchesStatus, TypeOK
<1>3. \A x \in Orders : payment'[x] = IF x = o THEN row ELSE payment[x]
  BY <1>1 DEF IInv, TypeOK
<1>4. \A q \in Procs : task'[q] = IF q = p THEN Idle ELSE task[q]
  BY DEF IInv, TypeOK, Done
<1>5. /\ held' \in [Orders -> SUBSET Refs]
      /\ \A x \in Orders : x # o => held'[x] = held[x]
      /\ held'[o] = {} \/ (held'[o] = {row.ref} /\ row.qr)
  BY <1>1, <1>2 DEF IInv, TypeOK, Show
<1>6. TypeOK'
  BY <1>1, <1>4, <1>5 DEF IInv, TypeOK, Done, Tasks
<1>7. QrMatchesStatus'
  BY <1>3 DEF IInv, QrMatchesStatus
<1>8. GeneratesWithoutQr'
  <2> SUFFICES ASSUME NEW q \in Procs, task'[q].kind = "generate"
               PROVE  ~payment'[task'[q].o].qr
    BY DEF GeneratesWithoutQr, Doing
  <2>1. q # p /\ task'[q] = task[q]
    BY <1>4 DEF Idle
  <2>2. task[q].o # o
    BY <2>1 DEF IInv, GenerationIsExclusive, Doing
  <2>3. task[q].o \in Orders
    BY <2>1, TaskFields DEF IInv, TypeOK, GenerateTasks
  <2>4. QED
    BY <1>3, <2>1, <2>2, <2>3 DEF IInv, GeneratesWithoutQr, Doing
<1>9. PaidNeverWaiting' /\ PaidIsEarned'
  BY <1>3 DEF IInv, PaidNeverWaiting, PaidIsEarned
<1>10. FulfilmentIsPaid'
  BY <1>2, <1>3 DEF IInv, FulfilmentIsPaid
<1>11. IssuedQrIsKnown'
  BY <1>2, <1>3, <1>5 DEF IInv, IssuedQrIsKnown
<1>12. GenerationIsExclusive' /\ MarksAreEarned' /\ AdminMovesAreLegal'
  BY <1>4 DEF IInv, GenerationIsExclusive, MarksAreEarned, AdminMovesAreLegal,
     Doing, Idle
<1>13. QED
  BY <1>6, <1>7, <1>8, <1>9, <1>10, <1>11, <1>12 DEF IInv

\* What the generating transaction writes is a row of the table.
LEMMA RewrittenRow ==
  ASSUME NEW row \in PaymentRows, NEW ref \in Refs
  PROVE  /\ Rewritten(row, ref) \in PaymentRows
         /\ Rewritten(row, ref).ref = ref
         /\ Rewritten(row, ref).status = "pending"
         /\ ~Rewritten(row, ref).qr
<1>1. ref \in 0..MaxRefs
  BY MaxRefsAssumption DEF Refs
<1>2. /\ row.recent \in BOOLEAN
      /\ (IF row.expires = "unset" THEN "ahead" ELSE row.expires)
           \in {"unset", "ahead", "past"}
  BY DEF PaymentRows
<1>3. QED
  BY <1>1, <1>2 DEF Rewritten, PaymentRows, ProviderRefs

LEMMA GenerateSucceedsInv ==
  ASSUME IInv, NEW p \in Workers, NEW provRef \in ProviderRefs,
         NEW delivered \in BOOLEAN, GenerateSucceeds(p, provRef, delivered)
  PROVE  IInv'
<1> DEFINE old == payment[task[p].o]
           row == [Rewritten(old, task[p].ref) EXCEPT
                     !.qr = TRUE, !.provRef = provRef]
<1>1. p \in Procs /\ Doing(p, "generate") /\ Done(p)
  BY DEF GenerateSucceeds, Procs
<1>2. task[p].ref \in Refs /\ old \in PaymentRows
  BY <1>1, TaskFields DEF IInv, TypeOK, Doing, GenerateTasks
<1>3. Rewritten(old, task[p].ref) \in PaymentRows
        /\ Rewritten(old, task[p].ref).ref = task[p].ref
        /\ Rewritten(old, task[p].ref).status = "pending"
  BY <1>2, RewrittenRow
<1>4. row \in PaymentRows /\ row.ref \in Refs /\ row.qr /\ row.status = "pending"
  BY <1>2, <1>3 DEF PaymentRows
<1>5. /\ payment' = [payment EXCEPT ![task[p].o] = row]
      /\ held' = held \/ Show(task[p].o, row)
      /\ UNCHANGED <<order, made, received>>
  BY DEF GenerateSucceeds
<1>6. QED
  BY <1>1, <1>4, <1>5, CommitInv

LEMMA GenerateFailsInv ==
  ASSUME IInv, NEW p \in Workers, NEW qr \in BOOLEAN,
         NEW provRef \in ProviderRefs, GenerateFails(p, qr, provRef)
  PROVE  IInv'
<1> DEFINE old == payment[task[p].o]
           row == [Rewritten(old, task[p].ref) EXCEPT
                     !.status = "failed", !.qr = qr, !.provRef = provRef]
<1>1. p \in Procs /\ Doing(p, "generate") /\ Done(p)
  BY DEF GenerateFails, Procs
<1>2. task[p].ref \in Refs /\ old \in PaymentRows
  BY <1>1, TaskFields DEF IInv, TypeOK, Doing, GenerateTasks
<1>3. Rewritten(old, task[p].ref) \in PaymentRows
        /\ Rewritten(old, task[p].ref).ref = task[p].ref
  BY <1>2, RewrittenRow
<1>4. row \in PaymentRows /\ row.ref \in Refs /\ row.status = "failed"
  BY <1>2, <1>3 DEF PaymentRows
<1>5. /\ payment' = [payment EXCEPT ![task[p].o] = row]
      /\ held' = held
      /\ UNCHANGED <<order, made, received>>
  BY DEF GenerateFails
<1>6. QED
  BY <1>1, <1>4, <1>5, CommitInv

\* markPaid: both tables move in one step, under both locks.
LEMMA MarkPaidInv ==
  ASSUME IInv, NEW p \in Procs, MarkPaid(p)
  PROVE  IInv'
<1> DEFINE t == task[p]
           o == task[p].o
           row == [payment[o] EXCEPT !.status = "paid", !.providerStatus = "00",
                                     !.provRef = t.provRef, !.source = t.source]
<1>1. t \in MarkTasks /\ o \in Orders /\ Doing(p, "mark") /\ Done(p)
  BY TaskFields DEF IInv, TypeOK, MarkPaid, Doing, MarkTasks
<1>2. CASE ~MayMarkPaid(payment[o], t)
  <2>1. UNCHANGED <<order, payment, made, held, received>>
    BY <1>1, <1>2 DEF MarkPaid, IInv, TypeOK
  <2>2. QED
    BY <1>1, <2>1, DoneInv
<1>3. CASE MayMarkPaid(payment[o], t)
  <2>1. /\ payment' = [payment EXCEPT ![o] = row]
        /\ order' = [order EXCEPT ![o] = OrderAfterPaid(@)]
        /\ UNCHANGED <<made, held, received>>
    BY <1>1, <1>3 DEF MarkPaid
  <2>2. payment[o] \in PaymentRows /\ row \in PaymentRows
    <3>1. payment[o] \in PaymentRows
      BY <1>1 DEF IInv, TypeOK
    <3>2. t.provRef \in ProviderRefs /\ t.source \in Sources
      BY <1>1 DEF MarkTasks
    <3>3. QED
      BY <3>1, <3>2 DEF PaymentRows
  <2>3. payment[o].ref \in received[o] /\ payment[o].qr
    BY <1>1, <1>3 DEF MayMarkPaid, IInv, MarksAreEarned, IssuedQrIsKnown, Doing
  <2>4. row.status = "paid" /\ row.qr /\ row.ref = payment[o].ref
    BY <2>2, <2>3 DEF PaymentRows
  <2>5. \A x \in Orders : payment'[x] = IF x = o THEN row ELSE payment[x]
    BY <2>1 DEF IInv, TypeOK
  <2>6. \A q \in Procs : task'[q] = IF q = p THEN Idle ELSE task[q]
    BY <1>1 DEF IInv, TypeOK, Done
  <2>7. \A x \in Orders : order'[x] = IF x = o THEN OrderAfterPaid(order[x])
                                      ELSE order[x]
    BY <2>1 DEF IInv, TypeOK
  <2>8. TypeOK'
    BY <1>1, <2>1, <2>2, <2>6 DEF IInv, TypeOK, Done, Tasks, OrderAfterPaid, OrderStatus
  <2>9. QrMatchesStatus'
    BY <1>1, <2>3, <2>4, <2>5 DEF IInv, QrMatchesStatus
  <2>10. GeneratesWithoutQr'
    <3> SUFFICES ASSUME NEW q \in Procs, task'[q].kind = "generate"
                 PROVE  ~payment'[task'[q].o].qr
      BY DEF GeneratesWithoutQr, Doing
    <3>1. task'[q] = task[q]
      BY <2>6 DEF Idle
    <3>2. task[q].o # o
      BY <3>1, <2>3 DEF IInv, GeneratesWithoutQr, Doing
    <3>3. task[q].o \in Orders
      BY <3>1, TaskFields DEF IInv, TypeOK, GenerateTasks
    <3>4. QED
      BY <2>5, <3>1, <3>2, <3>3 DEF IInv, GeneratesWithoutQr, Doing
  <2>11. PaidNeverWaiting' /\ FulfilmentIsPaid'
    BY <2>4, <2>5, <2>7 DEF IInv, PaidNeverWaiting, FulfilmentIsPaid, OrderAfterPaid
  <2>12. IssuedQrIsKnown' /\ PaidIsEarned'
    BY <2>1, <2>3, <2>4, <2>5 DEF IInv, IssuedQrIsKnown, PaidIsEarned
  <2>13. GenerationIsExclusive' /\ MarksAreEarned' /\ AdminMovesAreLegal'
    BY <2>1, <2>6 DEF IInv, GenerationIsExclusive, MarksAreEarned,
       AdminMovesAreLegal, Doing, Idle
  <2>14. QED
    BY <2>8, <2>9, <2>10, <2>11, <2>12, <2>13 DEF IInv
<1>4. QED
  BY <1>2, <1>3

\* Reading a row and starting to wait.
LEMMA ViewReadInv ==
  ASSUME IInv, NEW p \in Workers, NEW o \in Orders, ViewRead(p, o)
  PROVE  IInv'
<1> DEFINE t == [kind |-> "view", o |-> o, ref |-> payment[o].ref]
<1>1. t \in Tasks
  BY DEF IInv, QrMatchesStatus, ViewRead, NeedsExpiry, Tasks, ViewTasks
<1>2. made' \in [Orders -> 0..MaxRefs]
  BY DEF IInv, TypeOK, ViewRead
<1>3. QED
  BY <1>1, <1>2, TaskStep DEF ViewRead, Start, Procs

LEMMA CallbackReadInv ==
  ASSUME IInv, NEW p \in Workers, NEW o \in Orders, NEW ref \in Refs,
         NEW provRef \in ProviderRefs, CallbackRead(p, o, ref, provRef)
  PROVE  IInv'
<1> DEFINE t == [kind |-> "mark", o |-> o, ref |-> ref, provRef |-> provRef,
                 source |-> "webhook"]
<1>1. t \in Tasks
  BY DEF Tasks, MarkTasks, Sources
<1>2. made' \in [Orders -> 0..MaxRefs]
  BY DEF IInv, TypeOK, CallbackRead
<1>3. t.ref \in received[t.o]
  BY DEF CallbackRead
<1>4. QED
  BY <1>1, <1>2, <1>3, TaskStep DEF CallbackRead, Start, Procs

LEMMA QueryStartInv ==
  ASSUME IInv, NEW p \in Procs, NEW o \in Orders, NEW source \in Sources,
         payment[o].status # "none", QueryStart(p, o, source)
  PROVE  IInv'
<1> DEFINE t == [kind |-> "query", o |-> o, ref |-> payment[o].ref,
                 provRef |-> payment[o].provRef, source |-> source]
<1>1. payment[o].ref \in Refs /\ payment[o].provRef \in ProviderRefs
  BY DEF IInv, TypeOK, QrMatchesStatus, PaymentRows
<1>2. t \in Tasks
  BY <1>1 DEF Tasks, QueryTasks
<1>3. made' \in [Orders -> 0..MaxRefs]
  BY DEF IInv, TypeOK, QueryStart
<1>4. QED
  BY <1>2, <1>3, TaskStep DEF QueryStart, Start

LEMMA AdminReadInv ==
  ASSUME IInv, NEW p \in Workers, NEW o \in Orders, NEW next \in OrderStatus,
         AdminRead(p, o, next)
  PROVE  IInv'
<1> DEFINE t == [kind |-> "admin", o |-> o, previous |-> order[o], next |-> next]
<1>1. t \in Tasks
  BY DEF IInv, TypeOK, Tasks, AdminTasks
<1>2. made' \in [Orders -> 0..MaxRefs]
  BY DEF IInv, TypeOK, AdminRead
<1>3. QED
  BY <1>1, <1>2, TaskStep DEF AdminRead, Start, Procs

\* The gateway's answer turns a query into a settlement or an observation; only
\* an answer for collected money becomes a settlement.
LEMMA AnswerInv ==
  ASSUME IInv, NEW p \in Procs,
         \/ ProviderReportsOtherAmount(p)
         \/ \E status \in {"00", "03"}, provRef \in ProviderRefs :
              ProviderAnswers(p, status, provRef)
  PROVE  IInv'
<1>1. task[p] \in QueryTasks /\ made' \in [Orders -> 0..MaxRefs]
        /\ UNCHANGED <<order, payment, held, received>>
  BY TaskFields DEF IInv, TypeOK, ProviderReportsOtherAmount, ProviderAnswers, Doing
<1>2. ASSUME NEW status \in {"00", "03"}, Observe(p, status)
      PROVE  IInv'
  <2> DEFINE t == [kind |-> "observe", o |-> task[p].o, ref |-> task[p].ref,
                   providerStatus |-> status]
  <2>1. t \in Tasks
    BY <1>1 DEF Tasks, ObserveTasks, QueryTasks
  <2>2. task' = [task EXCEPT ![p] = t]
    BY <1>2 DEF Observe
  <2>3. QED
    BY <1>1, <2>1, <2>2, TaskStep
<1>3. CASE ProviderReportsOtherAmount(p)
  BY <1>2, <1>3 DEF ProviderReportsOtherAmount
<1>4. ASSUME NEW status \in {"00", "03"}, NEW provRef \in ProviderRefs,
             ProviderAnswers(p, status, provRef)
      PROVE  IInv'
  <2>1. CASE ~SettlesOn(status)
    BY <1>2, <1>4, <2>1 DEF ProviderAnswers
  <2>2. CASE SettlesOn(status)
    <3> DEFINE t == [kind |-> "mark", o |-> task[p].o, ref |-> task[p].ref,
                     provRef |-> IF provRef # NoProvRef THEN provRef
                                 ELSE task[p].provRef,
                     source |-> task[p].source]
    <3>1. t \in Tasks
      BY <1>1 DEF Tasks, MarkTasks, QueryTasks
    <3>2. task' = [task EXCEPT ![p] = t]
      BY <1>4, <2>2 DEF ProviderAnswers
    <3>3. t.ref \in received[t.o]
      BY <1>4, <2>2 DEF ProviderAnswers, SettlesOn
    <3>4. QED
      BY <1>1, <3>1, <3>2, <3>3, TaskStep
  <2>3. QED
    BY <2>1, <2>2
<1>5. QED
  BY <1>3, <1>4

\* Moving orders: the tables agree again because every order moved to confirmed
\* is paid, and no transition leads back to pending.
LEMMA MoveInv ==
  ASSUME IInv, task' = task \/ \E p \in Procs : Done(p),
         NEW previous \in OrderStatus, NEW next \in OrderStatus,
         <<previous, next>> \in TRANSITIONS,
         order' \in [Orders -> OrderStatus],
         \A x \in Orders :
           \/ order'[x] = order[x]
           \/ /\ order[x] = previous
              /\ order'[x] = next
              /\ next = "confirmed" => payment[x].status = "paid",
         UNCHANGED <<payment, made, held, received>>
  PROVE  IInv'
<1>1. /\ task' \in [Procs -> Tasks]
      /\ \A q \in Procs : task'[q] = Idle \/ task'[q] = task[q]
  BY DEF IInv, TypeOK, Done, Tasks
<1>2. TypeOK'
  BY <1>1 DEF IInv, TypeOK
<1>3. PaidNeverWaiting'
  BY DEF IInv, PaidNeverWaiting, TRANSITIONS
<1>4. FulfilmentIsPaid'
  BY DEF IInv, FulfilmentIsPaid, TRANSITIONS
<1>5. /\ GenerationIsExclusive' /\ GeneratesWithoutQr'
      /\ MarksAreEarned' /\ AdminMovesAreLegal'
  BY <1>1 DEF IInv, GenerationIsExclusive, GeneratesWithoutQr, MarksAreEarned,
     AdminMovesAreLegal, Doing, Idle
<1>6. QED
  BY <1>2, <1>3, <1>4, <1>5 DEF IInv, QrMatchesStatus, IssuedQrIsKnown, PaidIsEarned

LEMMA AdminWriteInv ==
  ASSUME IInv, NEW p \in Workers, AdminWrite(p)
  PROVE  IInv'
<1>1. p \in Procs /\ task[p] \in AdminTasks /\ Done(p)
        /\ <<task[p].previous, task[p].next>> \in TRANSITIONS
  BY TaskFields DEF IInv, TypeOK, AdminWrite, AdminMovesAreLegal, Doing, Procs
<1>2. /\ task[p].o \in Orders
      /\ task[p].previous \in OrderStatus /\ task[p].next \in OrderStatus
  BY <1>1 DEF AdminTasks
<1>3. /\ order' \in [Orders -> OrderStatus]
      /\ \A x \in Orders :
           \/ order'[x] = order[x]
           \/ /\ order[x] = task[p].previous
              /\ order'[x] = task[p].next
              /\ task[p].next = "confirmed" => payment[x].status = "paid"
  BY <1>2 DEF IInv, TypeOK, AdminWrite, MayMove
<1>4. QED
  BY <1>1, <1>2, <1>3, MoveInv DEF AdminWrite

LEMMA BulkAdvanceInv ==
  ASSUME IInv, NEW batch \in Batches, NEW from \in OrderStatus,
         NEW to \in OrderStatus, BulkAdvance(batch, from, to)
  PROVE  IInv'
<1>1. /\ order' \in [Orders -> OrderStatus]
      /\ \A x \in Orders :
           \/ order'[x] = order[x]
           \/ /\ order[x] = from
              /\ order'[x] = to
              /\ to = "confirmed" => payment[x].status = "paid"
  BY DEF IInv, TypeOK, BulkAdvance, MayMove
<1>2. QED
  BY <1>1, MoveInv DEF BulkAdvance

\* The environment.
LEMMA CustomerPaysInv ==
  ASSUME IInv, NEW o \in Orders, NEW ref \in Refs, CustomerPays(o, ref)
  PROVE  IInv'
<1>1. TypeOK'
  BY DEF IInv, TypeOK, CustomerPays
<1>2. /\ \A x \in Orders : received[x] \subseteq received'[x]
      /\ \A x \in Orders : received'[x] \subseteq held[x]
  BY DEF IInv, TypeOK, CustomerPays, IssuedQrIsKnown
<1>3. IssuedQrIsKnown' /\ PaidIsEarned'
  BY <1>2 DEF IInv, IssuedQrIsKnown, PaidIsEarned, CustomerPays
<1>4. MarksAreEarned'
  BY <1>2, TaskFields DEF IInv, TypeOK, MarksAreEarned, CustomerPays, Doing, MarkTasks
<1>5. QED
  BY <1>1, <1>3, <1>4 DEF IInv, CustomerPays, QrMatchesStatus, PaidNeverWaiting,
     FulfilmentIsPaid, GenerationIsExclusive, GeneratesWithoutQr, AdminMovesAreLegal,
     Doing

LEMMA TimePassesInv ==
  ASSUME IInv, NEW o \in Orders, ExpiryPasses(o) \/ RecentPasses(o)
  PROVE  IInv'
<1>1. payment[o] \in PaymentRows
  BY DEF IInv, TypeOK
<1>2. /\ [payment[o] EXCEPT !.expires = "past"] \in PaymentRows
      /\ [payment[o] EXCEPT !.recent = FALSE] \in PaymentRows
  BY <1>1 DEF PaymentRows
<1>3. /\ SameIssue(payment[o], [payment[o] EXCEPT !.expires = "past"])
      /\ SameIssue(payment[o], [payment[o] EXCEPT !.recent = FALSE])
  BY <1>1 DEF PaymentRows, SameIssue, IInv, QrMatchesStatus
<1>4. \A x \in Orders : SameIssue(payment[x], payment[x])
  BY DEF IInv, QrMatchesStatus, SameIssue
<1>5. /\ payment' \in [Orders -> PaymentRows]
      /\ \A x \in Orders : SameIssue(payment[x], payment'[x])
  BY <1>2, <1>3, <1>4 DEF IInv, TypeOK, ExpiryPasses, RecentPasses
<1>6. held' \in [Orders -> SUBSET Refs] /\ held' = held
  BY DEF IInv, TypeOK, ExpiryPasses, RecentPasses
<1>7. QED
  BY <1>5, <1>6, QuietStep DEF ExpiryPasses, RecentPasses

-----------------------------------------------------------------------------

\* Every step of the system keeps the invariant.
LEMMA NextInv == IInv /\ [Next]_vars => IInv'
<1> SUFFICES ASSUME IInv, [Next]_vars PROVE IInv'
  OBVIOUS
<1>1. CASE Checkout
  BY <1>1, ReuseInv, ViewInv, BeginGenerateInv, ViewReadInv, GenerateSucceedsInv,
     GenerateFailsInv, ViewExpiresInv DEF Checkout, Procs
<1>2. CASE Reconcile
  <2>1. ASSUME NEW p \in Workers, NEW o \in Orders,
               CustomerRecheck(p, o) \/ AdminRecheck(p, o)
        PROVE  IInv'
    BY <2>1, QueryStartInv DEF CustomerRecheck, AdminRecheck, Sources, Procs
  <2>2. ASSUME NEW o \in Orders, SchedulerPicks(o)
        PROVE  IInv'
    BY <2>2, QueryStartInv DEF SchedulerPicks, Sources, Procs
  <2>3. QED
    BY <1>2, <2>1, <2>2, CallbackReadInv, AnswerInv, MarkPaidInv,
       SaveObservationInv DEF Reconcile
<1>3. CASE Admin
  BY <1>3, AdminReadInv, AdminWriteInv, BulkAdvanceInv DEF Admin
<1>4. CASE Environment
  BY <1>4, CustomerPaysInv, TimePassesInv, DoneInv DEF Environment, Abort
<1>5. CASE UNCHANGED vars
  BY <1>5 DEF vars, IInv, TypeOK, QrMatchesStatus, GenerationIsExclusive,
     GeneratesWithoutQr, MarksAreEarned, AdminMovesAreLegal, PaidNeverWaiting,
     FulfilmentIsPaid, IssuedQrIsKnown, PaidIsEarned, Doing
<1>6. QED
  BY <1>1, <1>2, <1>3, <1>4, <1>5 DEF Next

\* The invariant of the order and payment tables and of the requests in flight.
THEOREM Invariance == Spec => []IInv
BY InitInv, NextInv, PTL DEF Spec

\* The tables only ever hold rows the schema and the code know.
THEOREM TypeCorrect == Spec => []TypeOK
<1>1. IInv => TypeOK
  BY DEF IInv
<1>2. QED
  BY <1>1, Invariance, PTL

\* A paid order is never left waiting for its payment.
THEOREM PaidNeverWaits == Spec => []PaidNeverWaiting
<1>1. IInv => PaidNeverWaiting
  BY DEF IInv
<1>2. QED
  BY <1>1, Invariance, PTL

\* Nothing unpaid is confirmed, bought or delivered.
THEOREM FulfilmentPaid == Spec => []FulfilmentIsPaid
<1>1. IInv => FulfilmentIsPaid
  BY DEF IInv
<1>2. QED
  BY <1>1, Invariance, PTL

\* A QR somebody holds always leads back to its payment row.
THEOREM IssuedQrKnown == Spec => []IssuedQrIsKnown
<1>1. IInv => IssuedQrIsKnown
  BY DEF IInv
<1>2. QED
  BY <1>1, Invariance, PTL

\* No payment is recorded without the provider having collected it.
THEOREM PaidEarned == Spec => []PaidIsEarned
<1>1. IInv => PaidIsEarned
  BY DEF IInv
<1>2. QED
  BY <1>1, Invariance, PTL

-----------------------------------------------------------------------------
(* What a step does to a row, and from it the action properties.           *)

\* A row through any step but markPaid: kept, generated anew while it has no QR,
\* expired, observed, or aged.
QuietRow(o) ==
  LET old == payment[o]
      new == payment'[o]
  IN  \/ new = old
      \/ ~old.qr /\ new.status \in {"pending", "failed"}
      \/ old.qr /\ old.status # "paid" /\ new = [old EXCEPT !.status = "expired"]
      \/ \E seen \in {"03", "00"} :
           old.status # "paid" /\ new = [old EXCEPT !.providerStatus = seen]
      \/ new = [old EXCEPT !.expires = "past"]
      \/ new = [old EXCEPT !.recent = FALSE]

\* Every step but markPaid is quiet for every row.
LEMMA QuietRows ==
  ASSUME IInv, Next, ~\E p \in Procs : MarkPaid(p), NEW o \in Orders
  PROVE  QuietRow(o)
<1>1. CASE payment' = payment
  BY <1>1 DEF QuietRow
<1>2. ASSUME NEW x \in Orders, ReuseIssued(x)
      PROVE  QuietRow(o)
  BY <1>2 DEF ReuseIssued, NeedsQr, Reopened, QuietRow, IInv, TypeOK
<1>3. ASSUME NEW p \in Workers, NEW row \in PaymentRows, Doing(p, "generate"),
             row.status \in {"pending", "failed"},
             payment' = [payment EXCEPT ![task[p].o] = row]
      PROVE  QuietRow(o)
  <2>1. p \in Procs /\ task[p].o \in Orders
    BY <1>3, TaskFields DEF IInv, TypeOK, Doing, GenerateTasks, Procs
  <2>2. ~payment[task[p].o].qr
    BY <1>3, <2>1 DEF IInv, GeneratesWithoutQr
  <2>3. QED
    BY <1>3, <2>1, <2>2 DEF QuietRow, IInv, TypeOK
<1>4. ASSUME NEW p \in Workers, ViewExpires(p)
      PROVE  QuietRow(o)
  <2>1. task[p].o \in Orders
    BY <1>4, TaskFields DEF IInv, TypeOK, ViewExpires, Doing, ViewTasks, Procs
  <2>2. MayExpire(payment[task[p].o], task[p])
          => payment[task[p].o].qr /\ payment[task[p].o].status # "paid"
    BY <2>1 DEF MayExpire, NeedsExpiry, IInv, QrMatchesStatus
  <2>3. QED
    BY <1>4, <2>1, <2>2 DEF ViewExpires, QuietRow, IInv, TypeOK
<1>5. ASSUME NEW p \in Procs, SaveObservation(p)
      PROVE  QuietRow(o)
  <2>1. task[p].o \in Orders /\ task[p].providerStatus \in {"03", "00"}
    BY <1>5, TaskFields DEF IInv, TypeOK, SaveObservation, Doing, ObserveTasks
  <2>2. QED
    BY <1>5, <2>1 DEF SaveObservation, MayObserve, QuietRow, IInv, TypeOK
<1>6. ASSUME NEW x \in Orders, ExpiryPasses(x) \/ RecentPasses(x)
      PROVE  QuietRow(o)
  BY <1>6 DEF ExpiryPasses, RecentPasses, QuietRow, IInv, TypeOK
<1>7. ASSUME NEW p \in Workers, NEW qr \in BOOLEAN, NEW provRef \in ProviderRefs,
             GenerateFails(p, qr, provRef)
      PROVE  QuietRow(o)
  <2> DEFINE row == [Rewritten(payment[task[p].o], task[p].ref) EXCEPT
                       !.status = "failed", !.qr = qr, !.provRef = provRef]
  <2>1. task[p].ref \in Refs /\ payment[task[p].o] \in PaymentRows
    BY <1>7, TaskFields DEF IInv, TypeOK, GenerateFails, Doing, GenerateTasks, Procs
  <2>2. Rewritten(payment[task[p].o], task[p].ref) \in PaymentRows
    BY <2>1, RewrittenRow
  <2>3. row \in PaymentRows /\ row.status = "failed"
    BY <2>2 DEF PaymentRows
  <2>4. Doing(p, "generate") /\ payment' = [payment EXCEPT ![task[p].o] = row]
    BY <1>7 DEF GenerateFails
  <2>5. QED
    BY <1>3, <2>3, <2>4
<1>8. ASSUME NEW p \in Workers, NEW provRef \in ProviderRefs,
             NEW delivered \in BOOLEAN, GenerateSucceeds(p, provRef, delivered)
      PROVE  QuietRow(o)
  <2> DEFINE row == [Rewritten(payment[task[p].o], task[p].ref) EXCEPT
                       !.qr = TRUE, !.provRef = provRef]
  <2>1. task[p].ref \in Refs /\ payment[task[p].o] \in PaymentRows
    BY <1>8, TaskFields DEF IInv, TypeOK, GenerateSucceeds, Doing, GenerateTasks, Procs
  <2>2. row \in PaymentRows /\ row.status = "pending"
    <3>1. /\ Rewritten(payment[task[p].o], task[p].ref) \in PaymentRows
          /\ Rewritten(payment[task[p].o], task[p].ref).status = "pending"
      BY <2>1, RewrittenRow
    <3>2. QED
      BY <3>1 DEF PaymentRows
  <2>3. Doing(p, "generate") /\ payment' = [payment EXCEPT ![task[p].o] = row]
    BY <1>8 DEF GenerateSucceeds
  <2>4. QED
    BY <1>3, <2>2, <2>3
<1>9. CASE Checkout
  BY <1>1, <1>2, <1>4, <1>7, <1>8, <1>9 DEF Checkout, View, BeginGenerate, ViewRead
<1>10. CASE Reconcile
  BY <1>1, <1>5, <1>10 DEF Reconcile, CallbackRead, CustomerRecheck, AdminRecheck,
     SchedulerPicks, QueryStart, ProviderAnswers, ProviderReportsOtherAmount
<1>11. CASE Admin
  BY <1>1, <1>11 DEF Admin, AdminRead, AdminWrite, BulkAdvance
<1>12. CASE Environment
  BY <1>1, <1>6, <1>12 DEF Environment, CustomerPays, Abort
<1>13. QED
  BY <1>9, <1>10, <1>11, <1>12 DEF Next

\* markPaid leaves every row alone, or settles exactly one that was not paid,
\* keeping its reference and QR and moving its order out of pending with it.
LEMMA MarkPaidEffect ==
  ASSUME IInv, NEW p \in Procs, MarkPaid(p)
  PROVE  \/ payment' = payment /\ order' = order
         \/ LET o == task[p].o
                old == payment[o]
                new == payment'[o]
            IN  /\ o \in Orders
                /\ old.status # "paid" /\ old.ref \in received[o]
                /\ new.status = "paid" /\ new.ref = old.ref /\ new.qr = old.qr
                /\ RefAgrees(old, new.provRef)
                /\ order' = [order EXCEPT ![o] = OrderAfterPaid(@)]
                /\ \A x \in Orders \ {o} : payment'[x] = payment[x]
<1> DEFINE t == task[p]
           o == task[p].o
           row == [payment[o] EXCEPT !.status = "paid", !.providerStatus = "00",
                                     !.provRef = t.provRef, !.source = t.source]
<1>1. t \in MarkTasks /\ o \in Orders /\ Doing(p, "mark")
  BY TaskFields DEF IInv, TypeOK, MarkPaid, Doing, MarkTasks
<1>2. CASE ~MayMarkPaid(payment[o], t)
  BY <1>1, <1>2 DEF MarkPaid, IInv, TypeOK
<1>3. CASE MayMarkPaid(payment[o], t)
  <2>1. /\ payment' = [payment EXCEPT ![o] = row]
        /\ order' = [order EXCEPT ![o] = OrderAfterPaid(@)]
    BY <1>3 DEF MarkPaid
  <2>2. payment[o] \in PaymentRows
    BY <1>1 DEF IInv, TypeOK
  <2>3. /\ row.status = "paid" /\ row.ref = payment[o].ref
        /\ row.qr = payment[o].qr /\ row.provRef = t.provRef
    BY <2>2 DEF PaymentRows
  <2>4. /\ payment'[o] = row
        /\ \A x \in Orders \ {o} : payment'[x] = payment[x]
    BY <1>1, <2>1 DEF IInv, TypeOK
  <2>5. /\ payment[o].status # "paid"
        /\ payment[o].ref \in received[o]
        /\ RefAgrees(payment[o], t.provRef)
    BY <1>1, <1>3 DEF MayMarkPaid, IInv, MarksAreEarned
  <2>6. QED
    BY <1>1, <2>1, <2>3, <2>4, <2>5
<1>4. QED
  BY <1>2, <1>3

\* A paid row is not written again by anything.
THEOREM PaidFrozen == Spec => PaidRowFrozen
<1>1. ASSUME IInv, Next, NEW o \in Orders, payment[o].status = "paid"
      PROVE  SettledPart(payment'[o]) = SettledPart(payment[o])
  <2>1. payment[o] \in PaymentRows /\ payment[o].qr
    BY <1>1 DEF IInv, TypeOK, QrMatchesStatus
  <2>2. ASSUME NEW p \in Procs, MarkPaid(p)
        PROVE  payment'[o] = payment[o]
    BY <1>1, <2>2, MarkPaidEffect
  <2>3. CASE QuietRow(o)
    BY <1>1, <2>1, <2>3 DEF QuietRow, SettledPart, PaymentRows
  <2>4. QED
    BY <1>1, <2>2, <2>3, QuietRows DEF SettledPart
<1>2. IInv /\ [Next]_vars => [PaidRowKept]_vars
  BY <1>1 DEF PaidRowKept
<1>3. QED
  BY <1>2, Invariance, PTL DEF Spec, PaidRowFrozen

\* A committed QR and its reference stay.
THEOREM QrIsKept == Spec => IssuedQrKept
<1>1. ASSUME IInv, Next, NEW o \in Orders, payment[o].qr
      PROVE  payment'[o].qr /\ payment'[o].ref = payment[o].ref
  <2>1. payment[o] \in PaymentRows
    BY <1>1 DEF IInv, TypeOK
  <2>2. ASSUME NEW p \in Procs, MarkPaid(p)
        PROVE  payment'[o].qr = payment[o].qr /\ payment'[o].ref = payment[o].ref
    BY <1>1, <2>2, MarkPaidEffect
  <2>3. CASE QuietRow(o)
    BY <1>1, <2>1, <2>3 DEF QuietRow, PaymentRows
  <2>4. QED
    BY <1>1, <2>2, <2>3, QuietRows
<1>2. IInv /\ [Next]_vars => [QrKept]_vars
  BY <1>1 DEF QrKept
<1>3. QED
  BY <1>2, Invariance, PTL DEF Spec, IssuedQrKept

\* Two reports of one payment cannot exchange its provider reference.
THEOREM ProviderRefIsKept == Spec => ProviderRefKept
<1>1. ASSUME IInv, Next, NEW o \in Orders, payment[o].qr
      PROVE  RefAgrees(payment[o], payment'[o].provRef)
  <2>1. payment[o] \in PaymentRows
    BY <1>1 DEF IInv, TypeOK
  <2>2. ASSUME NEW p \in Procs, MarkPaid(p)
        PROVE  RefAgrees(payment[o], payment'[o].provRef)
    BY <1>1, <2>2, MarkPaidEffect DEF RefAgrees
  <2>3. CASE QuietRow(o)
    BY <1>1, <2>1, <2>3 DEF QuietRow, PaymentRows, RefAgrees
  <2>4. QED
    BY <1>1, <2>2, <2>3, QuietRows
<1>2. IInv /\ [Next]_vars => [ProviderRefAgrees]_vars
  <2>1. CASE UNCHANGED vars
    BY <2>1 DEF vars
  <2>2. QED
    BY <1>1, <2>1 DEF ProviderRefAgrees
<1>3. QED
  BY <1>2, Invariance, PTL DEF Spec, ProviderRefKept

-----------------------------------------------------------------------------
(* Orders, and the promise of Settlement.                                  *)

\* Orders move in markPaid and by an admin only.
LEMMA OrderSteps ==
  ASSUME IInv, Next, order' # order
  PROVE  \/ \E p \in Procs : MarkPaid(p)
         \/ \E p \in Workers : AdminWrite(p)
         \/ \E batch \in Batches, from, to \in OrderStatus :
              BulkAdvance(batch, from, to)
BY DEF Next, Checkout, Reconcile, Admin, Environment, ReuseIssued, View,
   BeginGenerate, ViewRead, GenerateSucceeds, GenerateFails, ViewExpires,
   CallbackRead, CustomerRecheck, AdminRecheck, SchedulerPicks, QueryStart,
   ProviderAnswers, ProviderReportsOtherAmount, SaveObservation, AdminRead,
   CustomerPays, ExpiryPasses, RecentPasses, Abort

\* An admin's update moves a set of orders along one transition, and into
\* confirmed only those that are paid.
LEMMA AdminSteps ==
  ASSUME IInv,
         \/ \E p \in Workers : AdminWrite(p)
         \/ \E batch \in Batches, from, to \in OrderStatus :
              BulkAdvance(batch, from, to)
  PROVE  /\ UNCHANGED <<payment, received>>
         /\ \E S \in SUBSET Orders, from, to \in OrderStatus :
              /\ <<from, to>> \in TRANSITIONS
              /\ \A x \in S : order[x] = from
              /\ to = "confirmed" => \A x \in S : payment[x].status = "paid"
              /\ order' = [x \in Orders |-> IF x \in S THEN to ELSE order[x]]
<1>1. ASSUME NEW p \in Workers, AdminWrite(p)
      PROVE  \E S \in SUBSET Orders, from, to \in OrderStatus :
               /\ <<from, to>> \in TRANSITIONS
               /\ \A x \in S : order[x] = from
               /\ to = "confirmed" => \A x \in S : payment[x].status = "paid"
               /\ order' = [x \in Orders |-> IF x \in S THEN to ELSE order[x]]
  <2> DEFINE t == task[p]
             S == IF MayMove(t.o, t) THEN {t.o} ELSE {}
  <2>1. t \in AdminTasks /\ <<t.previous, t.next>> \in TRANSITIONS
    BY <1>1, TaskFields DEF IInv, TypeOK, AdminWrite, AdminMovesAreLegal, Doing, Procs
  <2>2. t.o \in Orders /\ t.previous \in OrderStatus /\ t.next \in OrderStatus
    BY <2>1 DEF AdminTasks
  <2>3. /\ S \in SUBSET Orders
        /\ \A x \in S : order[x] = t.previous
        /\ t.next = "confirmed" => \A x \in S : payment[x].status = "paid"
    BY <2>2 DEF MayMove
  <2>4. order' = [x \in Orders |-> IF x \in S THEN t.next ELSE order[x]]
    BY <1>1, <2>2 DEF AdminWrite, IInv, TypeOK
  <2>5. QED
    BY <2>1, <2>2, <2>3, <2>4
<1>2. ASSUME NEW batch \in Batches, NEW from \in OrderStatus, NEW to \in OrderStatus,
             BulkAdvance(batch, from, to)
      PROVE  \E S \in SUBSET Orders, f, t \in OrderStatus :
               /\ <<f, t>> \in TRANSITIONS
               /\ \A x \in S : order[x] = f
               /\ t = "confirmed" => \A x \in S : payment[x].status = "paid"
               /\ order' = [x \in Orders |-> IF x \in S THEN t ELSE order[x]]
  <2> DEFINE S == {x \in batch : MayMove(x, [previous |-> from, next |-> to])}
  <2>1. S \in SUBSET Orders
    BY BatchAssumption
  <2>2. /\ \A x \in S : order[x] = from
        /\ to = "confirmed" => \A x \in S : payment[x].status = "paid"
    BY DEF MayMove
  <2>3. /\ <<from, to>> \in TRANSITIONS
        /\ order' = [x \in Orders |-> IF x \in S THEN to ELSE order[x]]
    BY <1>2 DEF BulkAdvance
  <2>4. QED
    BY <2>1, <2>2, <2>3
<1>3. QED
  BY <1>1, <1>2 DEF AdminWrite, BulkAdvance

\* Orders move along the transitions of the dashboard, whoever moves them.
THEOREM MovesLegal == Spec => OrderMovesAreLegal
<1>1. ASSUME IInv, Next, NEW o \in Orders, order'[o] # order[o]
      PROVE  <<order[o], order'[o]>> \in TRANSITIONS
  <2>1. ASSUME NEW p \in Procs, MarkPaid(p)
        PROVE  <<order[o], order'[o]>> \in TRANSITIONS
    BY <1>1, <2>1, MarkPaidEffect DEF OrderAfterPaid, TRANSITIONS, IInv, TypeOK
  <2>2. ASSUME \/ \E p \in Workers : AdminWrite(p)
               \/ \E batch \in Batches, from, to \in OrderStatus :
                    BulkAdvance(batch, from, to)
        PROVE  <<order[o], order'[o]>> \in TRANSITIONS
    BY <1>1, <2>2, AdminSteps
  <2>3. QED
    BY <1>1, <2>1, <2>2, OrderSteps
<1>2. IInv /\ [Next]_vars => [LegalMoves]_vars
  BY <1>1 DEF LegalMoves
<1>3. QED
  BY <1>2, Invariance, PTL DEF Spec, OrderMovesAreLegal

\* The rows of the two tables implement Settlement: markPaid is Settle, an
\* admin's update is Move, a customer's payment is Collect, all else stutters.
THEOREM KeepsThePromise == Spec => KeepsPromise
<1> DEFINE collected == {o \in Orders : received[o] # {}}
           settled == {o \in Orders : payment[o].status = "paid"}
<1>1. Init => Promise!PromiseInit
  BY DEF Init, Promise!PromiseInit, NoPayment
<1>2. ASSUME IInv, Next
      PROVE  Promise!PromiseNext \/ UNCHANGED <<order, collected, settled>>
  <2>1. ASSUME NEW p \in Procs, MarkPaid(p)
        PROVE  Promise!PromiseNext \/ UNCHANGED <<order, collected, settled>>
    <3> DEFINE o == task[p].o
    <3>1. collected' = collected
      BY <2>1 DEF MarkPaid
    <3>2. CASE payment' = payment /\ order' = order
      BY <3>1, <3>2
    <3>3. CASE ~(payment' = payment /\ order' = order)
      <4>1. /\ o \in Orders
            /\ payment[o].status # "paid" /\ payment[o].ref \in received[o]
            /\ payment'[o].status = "paid"
            /\ order' = [order EXCEPT ![o] = OrderAfterPaid(@)]
            /\ \A x \in Orders \ {o} : payment'[x] = payment[x]
        BY <1>2, <2>1, <3>3, MarkPaidEffect
      <4>2. PICK x \in Orders : x = o
        BY <4>1
      <4>3. x \in collected \ settled
        BY <4>1, <4>2
      <4>4. settled' = settled \cup {x}
        BY <4>1, <4>2
      <4>5. order' = [order EXCEPT ![x] = IF @ = "pending" THEN "confirmed" ELSE @]
        BY <4>1, <4>2 DEF OrderAfterPaid
      <4>6. Promise!Settle(x)
        BY <3>1, <4>3, <4>4, <4>5 DEF Promise!Settle
      <4>7. QED
        BY <4>6 DEF Promise!PromiseNext
    <3>4. QED
      BY <3>2, <3>3
  <2>2. ASSUME \/ \E p \in Workers : AdminWrite(p)
               \/ \E batch \in Batches, from, to \in OrderStatus :
                    BulkAdvance(batch, from, to)
        PROVE  Promise!PromiseNext
    <3>1. /\ UNCHANGED <<payment, received>>
          /\ \E S \in SUBSET Orders, from, to \in OrderStatus :
               /\ <<from, to>> \in TRANSITIONS
               /\ \A x \in S : order[x] = from
               /\ to = "confirmed" => \A x \in S : payment[x].status = "paid"
               /\ order' = [x \in Orders |-> IF x \in S THEN to ELSE order[x]]
      BY <1>2, <2>2, AdminSteps
    <3>2. PICK S \in SUBSET Orders, from \in OrderStatus, to \in OrderStatus :
            /\ <<from, to>> \in TRANSITIONS
            /\ \A x \in S : order[x] = from
            /\ to = "confirmed" => \A x \in S : payment[x].status = "paid"
            /\ order' = [x \in Orders |-> IF x \in S THEN to ELSE order[x]]
      BY <3>1
    <3>3. collected' = collected /\ settled' = settled
      BY <3>1
    <3>4. <<from, to>> \in Promise!Transitions
      BY <3>2 DEF TRANSITIONS, Promise!Transitions
    <3>5. Promise!Move(S, from, to)
      BY <3>2, <3>3, <3>4 DEF Promise!Move
    <3>6. from \in Promise!Stages /\ to \in Promise!Stages
      BY DEF OrderStatus, Promise!Stages
    <3>7. QED
      BY <3>5, <3>6 DEF Promise!PromiseNext
  <2>3. ASSUME ~\E p \in Procs : MarkPaid(p), order' = order
        PROVE  Promise!PromiseNext \/ UNCHANGED <<order, collected, settled>>
    <3>1. \A o \in Orders : payment[o] \in PaymentRows
                              /\ (payment[o].status = "paid" => payment[o].qr)
      BY <1>2 DEF IInv, TypeOK, QrMatchesStatus
    <3>2. ASSUME NEW o \in Orders
          PROVE  payment'[o].status = "paid" <=> payment[o].status = "paid"
      <4>1. QuietRow(o)
        BY <1>2, <2>3, QuietRows
      <4>2. QED
        BY <3>1, <4>1 DEF QuietRow, PaymentRows
    <3>3. settled' = settled
      BY <3>2
    <3>4. CASE \E o \in Orders, ref \in Refs : CustomerPays(o, ref)
      <4>1. PICK o \in Orders, ref \in Refs : CustomerPays(o, ref)
        BY <3>4
      <4>2. collected' = collected \cup {o}
        BY <1>2, <4>1 DEF CustomerPays, IInv, TypeOK
      <4>3. Promise!Collect(o)
        BY <2>3, <3>3, <4>2 DEF Promise!Collect
      <4>4. QED
        BY <4>3 DEF Promise!PromiseNext
    <3>5. CASE ~\E o \in Orders, ref \in Refs : CustomerPays(o, ref)
      <4>1. received' = received
        BY <1>2, <2>3, <3>5 DEF Next, Checkout, Reconcile, Admin, Environment,
           ReuseIssued, View, BeginGenerate, ViewRead, GenerateSucceeds,
           GenerateFails, ViewExpires, CallbackRead, CustomerRecheck,
           AdminRecheck, SchedulerPicks, QueryStart, ProviderAnswers,
           ProviderReportsOtherAmount, SaveObservation, AdminRead, AdminWrite,
           BulkAdvance, ExpiryPasses, RecentPasses, Abort
      <4>2. collected' = collected
        BY <4>1
      <4>3. QED
        BY <2>3, <3>3, <4>2
    <3>6. QED
      BY <3>4, <3>5
  <2>4. QED
    BY <1>2, <2>1, <2>2, <2>3, OrderSteps
<1>3. UNCHANGED vars => UNCHANGED <<order, collected, settled>>
  BY DEF vars
<1>4. IInv /\ [Next]_vars => [Promise!PromiseNext]_(Promise!promiseVars)
  BY <1>2, <1>3 DEF Promise!promiseVars
<1>5. QED
  BY <1>1, <1>4, Invariance, PTL DEF Spec, KeepsPromise, Promise!PromiseSpec
=============================================================================
