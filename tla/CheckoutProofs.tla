--------------------------- MODULE CheckoutProofs ---------------------------
(***************************************************************************)
(* Proofs about Checkout, for any number of requests, carts and orders.    *)
(* IInv is inductive; the properties follow from it.                       *)
(***************************************************************************)
EXTENDS Checkout, TLAPS

-----------------------------------------------------------------------------
(* Order numbers as strings *)

\* Of the numbers 1..n of a day, as many as ever get used, the one that sorts
\* last is n itself, or Padded once n has outgrown the padding.
LEMMA LastOfDay ==
  ASSUME NEW n \in 1..(Padded + 1)
  PROVE  Last(1..n) = IF n <= Padded THEN n ELSE Padded
<1> DEFINE m == IF n <= Padded THEN n ELSE Padded
<1>1. m \in 1..n
  BY PaddedAssumption
<1>2. \A k \in (1..n) \ {m} : SortsBefore(k, m)
  BY PaddedAssumption, SMT DEF SortsBefore, Leading
<1>3. \A l \in 1..n : (\A k \in (1..n) \ {l} : SortsBefore(k, l)) => l = m
  <2> SUFFICES ASSUME NEW l \in 1..n, l # m,
                      \A k \in (1..n) \ {l} : SortsBefore(k, l)
               PROVE  FALSE
    OBVIOUS
  <2>1. SortsBefore(m, l) /\ SortsBefore(l, m)
    BY <1>1, <1>2
  <2> QED
    BY <1>1, <2>1, PaddedAssumption, SMT DEF SortsBefore, Leading
<1> QED
  BY <1>1, <1>2, <1>3 DEF Last

\* The number nextOrderNo makes of a snapshot that holds the first numbers of
\* the day: the next one, or one that is taken.
LEMMA NextOfDay ==
  ASSUME NEW nos, NEW d \in 0..MaxDay, Initial(nos)
  PROVE  /\ NextSeq(nos, d) \in 1..(Padded + 1)
         /\ \A k \in 1..(NextSeq(nos, d) - 1) : k \in Seqs(nos, d)
<1>1. PICK n \in 0..(Padded + 1) : Seqs(nos, d) = 1..n
  BY DEF Initial
<1>2. CASE n = 0
  <2>1. 1..n = {}
    BY <1>2
  <2> QED
    BY <1>1, <2>1, PaddedAssumption DEF NextSeq, After
<1>3. CASE n # 0
  <2>1. n \in 1..(Padded + 1) /\ 1 \in 1..n
    BY <1>3, PaddedAssumption
  <2>2. NextSeq(nos, d) = (IF n <= Padded THEN n ELSE Padded) + 1
    BY <1>1, <2>1, LastOfDay DEF NextSeq, After
  <2> QED
    BY <1>1, <2>1, <2>2, PaddedAssumption
<1> QED
  BY <1>2, <1>3

LEMMA NoInSeqs ==
  ASSUME NEW nos \in SUBSET OrderNos, NEW d \in 0..MaxDay, NEW k \in Seqs(nos, d)
  PROVE  [day |-> d, seq |-> k] \in nos
BY DEF Seqs, OrderNos

-----------------------------------------------------------------------------
(* The invariant *)

LEMMA IdleIsSound ==
  ASSUME TypeOK, Initial({})
  PROVE  Idle \in Tasks /\ Sound(Idle)
<1>1. Idle \in Tasks
  BY BoundAssumption DEF Idle, Tasks, Stages, OrderNos, NoBatch
<1>2. Idle.stage = "idle" /\ Idle.seen = {} /\ Idle.known = FALSE
  BY DEF Idle
<1>3. "idle" \notin {"numbered", "inserted"} \cup CreatingStages
  BY DEF CreatingStages
<1> QED
  BY <1>1, <1>2, <1>3 DEF Sound

LEMMA NothingIsInitial == Initial({})
<1>1. \A d : Seqs({}, d) = 1..0
  BY DEF Seqs
<1> QED
  BY <1>1, PaddedAssumption DEF Initial

LEMMA InitInv == Init => IInv
<1> SUFFICES ASSUME Init
             PROVE  IInv
  OBVIOUS
<1> USE DEF Init
<1>1. CommittedNos = {}
  BY DEF CommittedNos
<1>2. TypeOK
  BY BoundAssumption DEF TypeOK, Orders, Tasks, Idle, Stages, NoBatch, OrderNos
<1>3. \A p \in Requests : Sound(task[p])
  BY <1>2, NothingIsInitial, IdleIsSound
<1>4. \A p, q \in Requests : Apart(task[p], task[q])
  BY DEF Apart, Idle
<1> QED
  BY <1>1, <1>2, <1>3, <1>4, NothingIsInitial
     DEF IInv, OrderNosUnique, OrdersHaveCustomers, OneOrderPerCart

\* A step that writes no table needs a look only at the task it changes.
LEMMA QuietStep ==
  ASSUME IInv, UNCHANGED <<orders, customers, day, batch, price>>,
         NEW p \in Requests, NEW t \in Tasks, Goes(p, t), Sound(t),
         \A q \in Requests \ {p} : Apart(t, task[q])
  PROVE  IInv'
<1> USE DEF IInv
<1>1. task' \in [Requests -> Tasks] /\ task'[p] = t
      /\ \A q \in Requests \ {p} : task'[q] = task[q]
  BY DEF TypeOK, Goes
<1>2. TypeOK'
  BY <1>1 DEF TypeOK
<1>3. CommittedNos' = CommittedNos
  BY DEF CommittedNos
<1>4. \A q \in Requests : Sound(task[q])' 
  BY <1>1, <1>3 DEF Sound, SameCheckout
<1>5. \A q, r \in Requests : q # r => Apart(task'[q], task'[r])
  BY <1>1 DEF Apart
<1>6. Initial(CommittedNos)'
  BY <1>3 DEF Initial, Seqs
<1>7. (OrderNosUnique /\ OrdersHaveCustomers /\ (~DoubleTaps => OneOrderPerCart))'
  BY DEF OrderNosUnique, OrdersHaveCustomers, OneOrderPerCart
<1> QED
  BY <1>2, <1>4, <1>5, <1>6, <1>7 DEF Apart

LEMMA FailInv ==
  ASSUME IInv, UNCHANGED <<orders, customers, day, batch, price>>,
         NEW p \in Requests, Fail(p)
  PROVE  IInv'
<1>1. Idle \in Tasks /\ Sound(Idle)
  BY NothingIsInitial, IdleIsSound DEF IInv
<1>2. \A q \in Requests \ {p} : Apart(Idle, task[q])
  BY DEF Apart, Idle
<1> QED
  BY <1>1, <1>2, QuietStep DEF Fail

-----------------------------------------------------------------------------
(* The steps before the transaction *)

LEMMA TaskType ==
  ASSUME TypeOK, NEW p \in Requests
  PROVE  task[p] \in Tasks
BY DEF TypeOK

LEMMA BeginInv ==
  ASSUME IInv, NEW p \in Requests, NEW c \in Carts, Begin(p, c)
  PROVE  IInv'
<1> DEFINE t == [Idle EXCEPT !.stage = "batch", !.cart = c,
                    !.batch = IF c \in MerchantOnly THEN NoBatch ELSE batch]
<1>1. t \in Tasks /\ t.stage = "batch" /\ t.cart = c /\ t.seen = {} /\ ~t.known
  <2>1. Idle \in Tasks /\ Idle.seen = {} /\ ~Idle.known
    BY BoundAssumption DEF Idle, Tasks, Stages, OrderNos, NoBatch
  <2> QED
    BY <2>1 DEF Tasks, Stages, IInv, TypeOK, NoBatch
<1>2. "batch" \notin {"numbered", "inserted"} \cup CreatingStages
  BY DEF CreatingStages
<1>3. Sound(t)
  BY <1>1, <1>2, NothingIsInitial DEF Sound
<1>4. \A q \in Requests \ {p} : Apart(t, task[q])
  BY <1>1, CartAssumption DEF Apart, Begin, Running, At
<1> QED
  BY <1>1, <1>3, <1>4, QuietStep DEF Begin

\* A task that moves to another stage before the transaction.
LEMMA EarlyStageSound ==
  ASSUME IInv, NEW p \in Requests, NEW t \in Tasks,
         task[p].stage \in {"batch", "priced"},
         t.stage \in {"priced", "committed"},
         t.cart = task[p].cart, t.seen = task[p].seen, t.known = task[p].known
  PROVE  Sound(t) /\ \A q \in Requests \ {p} : Apart(t, task[q])
<1>1. Sound(task[p]) /\ \A q \in Requests \ {p} : Apart(task[p], task[q])
  BY DEF IInv
<1>2. t.stage \notin {"idle", "numbered", "inserted"} \cup CreatingStages
  BY DEF CreatingStages
<1>3. Sound(t)
  BY <1>1, <1>2 DEF Sound
<1>4. \A q \in Requests \ {p} : Apart(t, task[q])
  BY <1>1, <1>2 DEF Apart
<1> QED
  BY <1>3, <1>4

LEMMA ResolveLinesInv ==
  ASSUME IInv, NEW p \in Requests, ResolveLines(p)
  PROVE  IInv'
<1> DEFINE t == [task[p] EXCEPT !.stage = "priced", !.price = price]
<1>1. task[p] \in Tasks /\ price \in Nat
  BY TaskType DEF IInv, TypeOK
<1>2. t \in Tasks /\ t.stage = "priced" /\ t.cart = task[p].cart
      /\ t.seen = task[p].seen /\ t.known = task[p].known
  BY <1>1 DEF Tasks, Stages
<1>3. Sound(t) /\ \A q \in Requests \ {p} : Apart(t, task[q])
  BY <1>2, EarlyStageSound DEF ResolveLines, At
<1> QED
  BY <1>2, <1>3, QuietStep DEF ResolveLines

LEMMA FindExistingInv ==
  ASSUME IInv, NEW p \in Requests, NEW o \in orders, FindExisting(p, o)
  PROVE  IInv'
<1> DEFINE t == [task[p] EXCEPT !.stage = "committed", !.no = o.no]
<1>1. task[p] \in Tasks /\ o.no \in OrderNos
  BY TaskType DEF IInv, TypeOK, Orders
<1>2. t \in Tasks /\ t.stage = "committed" /\ t.cart = task[p].cart
      /\ t.seen = task[p].seen /\ t.known = task[p].known
  BY <1>1 DEF Tasks, Stages
<1>3. Sound(t) /\ \A q \in Requests \ {p} : Apart(t, task[q])
  BY <1>2, EarlyStageSound DEF FindExisting, At
<1> QED
  BY <1>2, <1>3, QuietStep DEF FindExisting

LEMMA FindNoneInv ==
  ASSUME IInv, NEW p \in Requests, FindNone(p)
  PROVE  IInv'
<1> DEFINE t == [task[p] EXCEPT !.stage = "new"]
<1>1. task[p] \in Tasks /\ Sound(task[p])
      /\ \A q \in Requests \ {p} : Apart(task[p], task[q])
  BY TaskType DEF IInv
<1>2. t \in Tasks /\ t.stage = "new" /\ t.cart = task[p].cart
      /\ t.batch = task[p].batch /\ t.price = task[p].price
      /\ t.seen = task[p].seen /\ t.known = task[p].known
  BY <1>1 DEF Tasks, Stages
<1>3. \A o \in orders : ~SameCheckout(o, t)
  BY <1>2 DEF FindNone, SameCheckout
<1>4. task[p].stage = "priced"
  BY DEF FindNone, At
<1>5. Sound(t)
  BY <1>1, <1>2, <1>3, <1>4 DEF Sound
<1>6. \A q \in Requests \ {p} : Apart(t, task[q])
  BY <1>1, <1>2, <1>4 DEF Apart
<1>7. CASE Fail(p)
  BY <1>7, FailInv DEF FindNone
<1>8. CASE Goes(p, t)
  BY <1>2, <1>5, <1>6, <1>8, QuietStep DEF FindNone
<1> QED
  BY <1>7, <1>8 DEF FindNone

-----------------------------------------------------------------------------
(* The transaction *)

LEMMA CreatingMeans ==
  /\ {"new", "open", "customer", "numbered", "inserted"} = CreatingStages
  /\ "idle" \notin CreatingStages
  /\ "committed" \notin CreatingStages
BY DEF CreatingStages

LEMMA OpenTransactionInv ==
  ASSUME IInv, NEW p \in Requests, OpenTransaction(p)
  PROVE  IInv'
<1> DEFINE t == [task[p] EXCEPT !.stage = "open", !.seen = CommittedNos,
                                !.known = Knows(p)]
<1>1. task[p] \in Tasks /\ Sound(task[p]) /\ task[p].stage = "new"
      /\ \A q \in Requests \ {p} : Apart(task[p], task[q])
  BY TaskType DEF IInv, OpenTransaction, At
<1>2. CommittedNos \subseteq OrderNos /\ Initial(CommittedNos)
  BY DEF IInv, TypeOK, Orders, CommittedNos
<1>3. Knows(p) \in BOOLEAN
  BY DEF Knows
<1>4. t \in Tasks /\ t.stage = "open" /\ t.cart = task[p].cart
      /\ t.batch = task[p].batch /\ t.price = task[p].price
      /\ t.seen = CommittedNos /\ t.known = Knows(p)
  BY <1>1, <1>2, <1>3 DEF Tasks, Stages
<1>5. t.known => PhoneOf[t.cart] \in customers
  BY <1>4 DEF Knows, Phone
<1>6. \A o \in orders : SameCheckout(o, t) <=> SameCheckout(o, task[p])
  BY <1>4 DEF SameCheckout
<1>7. Sound(t)
  BY <1>1, <1>2, <1>4, <1>5, <1>6, CreatingMeans DEF Sound
<1>8. \A q \in Requests \ {p} : Apart(t, task[q])
  BY <1>1, <1>4 DEF Apart
<1> QED
  BY <1>4, <1>7, <1>8, QuietStep DEF OpenTransaction

LEMMA SaveCustomerInv ==
  ASSUME IInv, NEW p \in Requests, SaveCustomer(p)
  PROVE  IInv'
<1> DEFINE t == [task[p] EXCEPT !.stage = "customer"]
<1>1. task[p] \in Tasks /\ Sound(task[p]) /\ task[p].stage = "open"
      /\ \A q \in Requests \ {p} : Apart(task[p], task[q])
  BY TaskType DEF IInv, SaveCustomer, At
<1>2. t \in Tasks /\ t.stage = "customer" /\ t.cart = task[p].cart
      /\ t.batch = task[p].batch /\ t.price = task[p].price
      /\ t.seen = task[p].seen /\ t.known = task[p].known
  BY <1>1 DEF Tasks, Stages
<1>3. \A o \in orders : SameCheckout(o, t) <=> SameCheckout(o, task[p])
  BY <1>2 DEF SameCheckout
<1>4. Sound(t)
  BY <1>1, <1>2, <1>3, CreatingMeans DEF Sound
<1>5. \A q \in Requests \ {p} : Apart(t, task[q])
  BY <1>1, <1>2 DEF Apart
<1>6. CASE Fail(p)
  BY <1>6, FailInv DEF SaveCustomer
<1>7. CASE Goes(p, t)
  BY <1>2, <1>4, <1>5, <1>7, QuietStep DEF SaveCustomer
<1> QED
  BY <1>6, <1>7 DEF SaveCustomer

LEMMA NextOrderNoInv ==
  ASSUME IInv, NEW p \in Requests, NextOrderNo(p)
  PROVE  IInv'
<1> DEFINE n == NextSeq(task[p].seen, day)
           t == [task[p] EXCEPT !.stage = "numbered",
                                !.no = [day |-> day, seq |-> n]]
<1>1. task[p] \in Tasks /\ Sound(task[p]) /\ task[p].stage = "customer"
      /\ \A q \in Requests \ {p} : Apart(task[p], task[q])
  BY TaskType DEF IInv, NextOrderNo, At
<1>2. day \in 0..MaxDay /\ task[p].seen \in SUBSET OrderNos
      /\ Initial(task[p].seen) /\ task[p].seen \subseteq CommittedNos
  BY <1>1, BoundAssumption DEF IInv, TypeOK, Sound, Tasks
<1>3. n \in 1..(Padded + 1) /\ \A k \in 1..(n - 1) : k \in Seqs(task[p].seen, day)
  BY <1>2, NextOfDay
<1>4. \A k \in 1..(n - 1) : [day |-> day, seq |-> k] \in CommittedNos
  BY <1>2, <1>3, NoInSeqs
<1> HIDE DEF n
<1>5. [day |-> day, seq |-> n] \in OrderNos
  BY <1>2, <1>3, PaddedAssumption DEF OrderNos
<1>6. t \in Tasks /\ t.stage = "numbered" /\ t.cart = task[p].cart
      /\ t.batch = task[p].batch /\ t.price = task[p].price
      /\ t.seen = task[p].seen /\ t.known = task[p].known
      /\ t.no.day = day /\ t.no.seq = n
  BY <1>1, <1>5 DEF Tasks, Stages
<1>7. \A o \in orders : SameCheckout(o, t) <=> SameCheckout(o, task[p])
  BY <1>6 DEF SameCheckout
<1> HIDE DEF t
<1>8. Sound(t)
  BY <1>1, <1>3, <1>4, <1>6, <1>7, CreatingMeans DEF Sound
<1>9. \A q \in Requests \ {p} : Apart(t, task[q])
  BY <1>1, <1>6 DEF Apart
<1>10. Goes(p, t)
  BY DEF NextOrderNo, t, n
<1> QED
  BY <1>6, <1>8, <1>9, <1>10, QuietStep DEF NextOrderNo

LEMMA SaveOrderInv ==
  ASSUME IInv, NEW p \in Requests, SaveOrder(p)
  PROVE  IInv'
<1> DEFINE t == [task[p] EXCEPT !.stage = "inserted"]
<1>1. task[p] \in Tasks /\ Sound(task[p]) /\ task[p].stage = "numbered"
      /\ \A q \in Requests \ {p} : Apart(task[p], task[q])
  BY TaskType DEF IInv, SaveOrder, At
<1>2. t \in Tasks /\ t.stage = "inserted" /\ t.cart = task[p].cart
      /\ t.batch = task[p].batch /\ t.price = task[p].price /\ t.no = task[p].no
      /\ t.seen = task[p].seen /\ t.known = task[p].known
  BY <1>1 DEF Tasks, Stages
<1>3. \A o \in orders : SameCheckout(o, t) <=> SameCheckout(o, task[p])
  BY <1>2 DEF SameCheckout
<1>4. CASE Fail(p)
  BY <1>4, FailInv DEF SaveOrder
<1>5. CASE ~NoRefused(p) /\ Goes(p, t)
  <2>1. Sound(t)
    BY <1>1, <1>2, <1>3, <1>5, CreatingMeans DEF Sound, NoRefused
  <2>2. \A q \in Requests \ {p} : Apart(t, task[q])
    BY <1>1, <1>2 DEF Apart, SaveOrder, NoFree, HoldsNo, At
  <2> QED
    BY <1>2, <1>5, <2>1, <2>2, QuietStep DEF SaveOrder
<1> QED
  BY <1>4, <1>5 DEF SaveOrder

\* The committed number is the next of its day, so the day's numbers stay 1..n.
LEMMA CommittedNoIsNext ==
  ASSUME NEW nos \in SUBSET OrderNos, Initial(nos), NEW no \in OrderNos,
         no \notin nos, no.seq \in 1..(Padded + 1),
         \A k \in 1..(no.seq - 1) : [day |-> no.day, seq |-> k] \in nos
  PROVE  Initial(nos \cup {no})
<1> SUFFICES ASSUME NEW d \in 0..MaxDay
             PROVE  \E n \in 0..(Padded + 1) : Seqs(nos \cup {no}, d) = 1..n
  BY DEF Initial
<1>1. PICK n \in 0..(Padded + 1) : Seqs(nos, d) = 1..n
  BY DEF Initial
<1>2. CASE no.day # d
  <2>1. Seqs(nos \cup {no}, d) = Seqs(nos, d)
    BY <1>2 DEF Seqs
  <2> QED
    BY <1>1, <2>1
<1>3. CASE no.day = d
  <2>1. Seqs(nos \cup {no}, d) = Seqs(nos, d) \cup {no.seq}
    BY <1>3 DEF Seqs
  <2>2. no = [day |-> d, seq |-> no.seq]
    BY <1>3 DEF OrderNos
  <2>3. no.seq \notin 1..n
    BY <1>1, <2>2, NoInSeqs
  <2>4. ASSUME NEW k \in 1..(no.seq - 1)
        PROVE  k \in 1..n
    <3>1. [day |-> d, seq |-> k] \in nos
      BY <1>3
    <3>2. [day |-> d, seq |-> k].seq \in Seqs(nos, d)
      BY <3>1 DEF Seqs
    <3> QED
      BY <1>1, <3>2
  <2>5. no.seq = n + 1
    <3>1. no.seq > n
      BY <2>3, PaddedAssumption
    <3>2. CASE no.seq > n + 1
      <4>1. n + 1 \in 1..(no.seq - 1)
        BY <3>2, PaddedAssumption
      <4> QED
        BY <2>4, <4>1
    <3> QED
      BY <3>1, <3>2, PaddedAssumption
  <2>6. (1..n) \cup {n + 1} = 1..(n + 1)
    BY PaddedAssumption
  <2>7. Seqs(nos \cup {no}, d) = 1..(n + 1)
    BY <1>1, <2>1, <2>5, <2>6
  <2>8. n + 1 \in 0..(Padded + 1)
    BY <2>5, PaddedAssumption
  <2> QED
    BY <2>7, <2>8
<1> QED
  BY <1>2, <1>3

LEMMA CommitInv ==
  ASSUME IInv, NEW p \in Requests, Commit(p)
  PROVE  IInv'
<1> DEFINE t == [task[p] EXCEPT !.stage = "committed"]
           o == NewOrder(task[p])
<1>1. task[p] \in Tasks /\ Sound(task[p]) /\ task[p].stage = "inserted"
      /\ \A q \in Requests \ {p} : Apart(task[p], task[q])
  BY TaskType DEF IInv, Commit, At
<1>2. t \in Tasks /\ t.stage = "committed" /\ t.cart = task[p].cart
      /\ t.seen = task[p].seen /\ t.known = task[p].known
  BY <1>1 DEF Tasks, Stages
<1>3. o \in Orders /\ o.no = task[p].no /\ o.cart = task[p].cart
      /\ o.price = task[p].price /\ o.batch = task[p].batch
  BY <1>1 DEF NewOrder, Orders, Tasks, Sound
<1>4. orders' = orders \cup {o} /\ Goes(p, t)
  BY DEF Commit
<1> HIDE DEF t, o
<1>5. CommittedNos' = CommittedNos \cup {o.no} /\ o.no \notin CommittedNos
  BY <1>1, <1>3, <1>4 DEF CommittedNos, Sound
<1>6. /\ customers \subseteq customers' /\ PhoneOf[o.cart] \in customers'
      /\ customers' \subseteq Phones
  BY <1>1, <1>3 DEF Commit, Sound, Phone, Phones, IInv, TypeOK
<1>7. task' \in [Requests -> Tasks] /\ task'[p] = t
      /\ \A q \in Requests \ {p} : task'[q] = task[q]
  BY <1>2, <1>4 DEF IInv, TypeOK, Goes
<1>8. TypeOK'
  BY <1>3, <1>4, <1>6, <1>7 DEF IInv, TypeOK, Commit
<1>9. Initial(CommittedNos')
  <2>1. CommittedNos \in SUBSET OrderNos /\ o.no \in OrderNos
    BY <1>3 DEF IInv, TypeOK, CommittedNos, Orders
  <2> QED
    BY <1>1, <1>3, <1>5, <2>1, CommittedNoIsNext DEF IInv, Sound
<1>10. ASSUME NEW q \in Requests
       PROVE  Sound(task[q])'
  <2>1. CASE q = p
    BY <1>1, <1>2, <1>5, <1>6, <1>7, <2>1, CreatingMeans DEF Sound
  <2>2. CASE q # p
    <3>1. Sound(task[q]) /\ Apart(task[p], task[q]) /\ task'[q] = task[q]
      BY <1>1, <1>7, <2>2 DEF IInv
    <3>2. task[q].stage = "inserted" => task[q].no # o.no
      BY <1>1, <1>3, <3>1 DEF Apart
    <3>3. ~DoubleTaps /\ task[q].stage \in CreatingStages
            => \A x \in orders' : ~SameCheckout(x, task[q])
      BY <1>1, <1>3, <1>4, <3>1, CreatingMeans DEF Apart, Sound, SameCheckout
    <3> QED
      BY <1>5, <1>6, <3>1, <3>2, <3>3 DEF Sound, SameCheckout
  <2> QED
    BY <2>1, <2>2
<1>11. \A q, r \in Requests : q # r => Apart(task'[q], task'[r])
  BY <1>1, <1>2, <1>7 DEF IInv, Apart
<1>12. OrderNosUnique'
  BY <1>4, <1>5 DEF IInv, OrderNosUnique, CommittedNos
<1>13. OrdersHaveCustomers'
  BY <1>4, <1>6 DEF IInv, OrdersHaveCustomers
<1>14. (~DoubleTaps => OneOrderPerCart)'
  BY <1>1, <1>3, <1>4, CreatingMeans DEF IInv, OneOrderPerCart, Sound, SameCheckout
<1> QED
  BY <1>8, <1>9, <1>10, <1>11, <1>12, <1>13, <1>14 DEF IInv, Apart

LEMMA StepInv ==
  ASSUME IInv, NEW p \in Requests, Step(p)
  PROVE  IInv'
<1>1. CASE Answer(p)
  BY <1>1, FailInv DEF Answer
<1> QED
  BY <1>1, ResolveLinesInv, FindExistingInv, FindNoneInv, OpenTransactionInv,
     SaveCustomerInv, NextOrderNoInv, SaveOrderInv, CommitInv DEF Step

-----------------------------------------------------------------------------
(* The environment *)

LEMMA ClockInv ==
  ASSUME IInv, UNCHANGED <<orders, customers, task>>,
         day' \in 1..MaxDay, batch' \in Nat, price' \in Nat
  PROVE  IInv'
<1> USE DEF IInv
<1>1. TypeOK'
  BY DEF TypeOK
<1>2. CommittedNos' = CommittedNos
  BY DEF CommittedNos
<1>3. \A q \in Requests : Sound(task[q])'
  BY <1>2 DEF Sound, SameCheckout
<1>4. Initial(CommittedNos)'
  BY <1>2 DEF Initial, Seqs
<1>5. (OrderNosUnique /\ OrdersHaveCustomers /\ (~DoubleTaps => OneOrderPerCart))'
  BY DEF OrderNosUnique, OrdersHaveCustomers, OneOrderPerCart
<1> QED
  BY <1>1, <1>3, <1>4, <1>5 DEF Apart

LEMMA NextInv == IInv /\ [Next]_vars => IInv'
<1> SUFFICES ASSUME IInv, [Next]_vars
             PROVE  IInv'
  OBVIOUS
<1>1. day \in 1..MaxDay /\ batch \in Nat /\ price \in Nat
  BY DEF IInv, TypeOK
<1>2. CASE \E p \in Requests, c \in Carts : Begin(p, c)
  BY <1>2, BeginInv
<1>3. CASE \E p \in Requests : Step(p)
  BY <1>3, StepInv
<1>4. CASE \E p \in Requests : Abort(p)
  BY <1>4, FailInv DEF Abort
<1>5. CASE Midnight
  BY <1>1, <1>5, ClockInv, BoundAssumption DEF Midnight
<1>6. CASE BatchRollsOver
  BY <1>1, <1>6, ClockInv DEF BatchRollsOver
<1>7. CASE AdminEditsPrices
  BY <1>1, <1>7, ClockInv DEF AdminEditsPrices
<1>8. CASE UNCHANGED vars
  BY <1>1, <1>8, ClockInv DEF vars
<1> QED
  BY <1>2, <1>3, <1>4, <1>5, <1>6, <1>7, <1>8 DEF Next

-----------------------------------------------------------------------------
(* Theorems *)

\* The tables and every request's memory of them are consistent in each state.
THEOREM Invariance == Spec => []IInv
BY InitInv, NextInv, PTL DEF Spec

\* Every value a request or a table holds has its type.
THEOREM TypeCorrect == Spec => []TypeOK
<1>1. IInv => TypeOK
  BY DEF IInv
<1> QED
  BY <1>1, Invariance, PTL

\* No two orders share a number, for any number of concurrent checkouts.
THEOREM UniqueNumbers == Spec => []OrderNosUnique
<1>1. IInv => OrderNosUnique
  BY DEF IInv
<1> QED
  BY <1>1, Invariance, PTL

\* The numbers of each day have no holes, past the padded width too, where no
\* checkout gets a number any more.
THEOREM DenseNumbers == Spec => []OrderNosDense
<1>1. IInv => OrderNosDense
  <2> SUFFICES ASSUME IInv, NEW no \in CommittedNos, NEW k \in 1..no.seq
               PROVE  [day |-> no.day, seq |-> k] \in CommittedNos
    BY DEF OrderNosDense
  <2>1. CommittedNos \in SUBSET OrderNos /\ no \in OrderNos
    BY DEF IInv, TypeOK, CommittedNos, Orders
  <2>2. no.seq \in Seqs(CommittedNos, no.day) /\ no.day \in 0..MaxDay
    BY <2>1 DEF Seqs, OrderNos
  <2>3. PICK n \in 0..(Padded + 1) : Seqs(CommittedNos, no.day) = 1..n
    BY <2>2 DEF IInv, Initial
  <2>4. k \in Seqs(CommittedNos, no.day)
    BY <2>2, <2>3, PaddedAssumption
  <2> QED
    BY <2>1, <2>2, <2>4, NoInSeqs
<1> QED
  BY <1>1, Invariance, PTL

\* Every order has its customer, whichever checkout of a phone rolls back.
THEOREM CustomersOfOrders == Spec => []OrdersHaveCustomers
<1>1. IInv => OrdersHaveCustomers
  BY DEF IInv
<1> QED
  BY <1>1, Invariance, PTL

\* A cart that is only sent again once its earlier request has ended, however it
\* ended, is one order.
THEOREM RetriedCartIsOneOrder ==
  ASSUME ~DoubleTaps
  PROVE  Spec => []OneOrderPerCart
<1>1. IInv => OneOrderPerCart
  BY DEF IInv
<1> QED
  BY <1>1, Invariance, PTL
=============================================================================
