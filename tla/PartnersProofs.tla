---------------------------- MODULE PartnersProofs ----------------------------
(***************************************************************************)
(* The inductive invariants of MerchantAccounts and MerchantBanners and     *)
(* what follows from them, for any number of requests, merchants, emails,   *)
(* links and passwords, of banners, images and promotions; and the theorems *)
(* of MerchantProducts, for the products on the site.                       *)
(***************************************************************************)
EXTENDS Partners, TLAPS

-----------------------------------------------------------------------------
(* Accounts: types *)

\* The kind of a task tells its fields.
LEMMA KindTypes ==
  ASSUME TypeOK, NEW r \in Requests
  PROVE  LET t == task[r]
         IN  /\ t \in Tasks
             /\ t.kind = "idle" <=> t = Idle
             /\ t.kind # "idle" => t.merchant \in Merchants
             /\ t.kind \in {"register", "issue", "review", "save"} =>
                  t.email \in Emails
             /\ t.kind = "activate" => t.link \in 1..MostLinks
             /\ t.kind = "login" => t.hash \in 1..MostHashes
             /\ t.kind \in {"review", "save"} => t.status \in MerchantStatus
             /\ t.kind = "save" => t.cols \subseteq {"status", "email"}
<1>1. task[r] \in Tasks
  BY DEF TypeOK
<1> QED  BY <1>1 DEF Tasks, Idle

\* The fields of a row that exists.
LEMMA RowTypes ==
  ASSUME TypeOK, NEW m \in Merchants
  PROVE  /\ merchant[m] \in Rows \cup {NoMerchant}
         /\ merchant[m].link \in 0..MostLinks
         /\ merchant[m].hash \in 0..MostHashes
         /\ merchant[m].fresh \in BOOLEAN
         /\ Exists(m) <=> merchant[m] \in Rows
         /\ Approved(m) => Exists(m)
<1>1. merchant[m] \in Rows \cup {NoMerchant}
  BY DEF TypeOK
<1>2. CASE merchant[m] \in Rows
  BY <1>1, <1>2 DEF Rows, Exists, Approved, MerchantStatus
<1>3. CASE merchant[m] = NoMerchant
  BY <1>1, <1>3, BoundAssumption
  DEF NoMerchant, Rows, Exists, Approved, MerchantStatus
<1> QED  BY <1>1, <1>2, <1>3

\* 0 is a link and a hash, whatever the bounds.
LEMMA NullTypes == 0 \in 0..MostLinks /\ 0 \in 0..MostHashes
BY BoundAssumption

-----------------------------------------------------------------------------
(* Accounts: links and hashes *)

LEMMA LinksStay ==
  ASSUME LinksAreFresh, UNCHANGED <<links, spent>>,
         \A m \in Merchants : merchant'[m].link = merchant[m].link
  PROVE  LinksAreFresh'
BY DEF LinksAreFresh

LEMMA HashesStay ==
  ASSUME HashesAreFresh, UNCHANGED <<hashes, replaced>>,
         \A m \in Merchants : merchant'[m].hash = merchant[m].hash
  PROVE  HashesAreFresh'
BY DEF HashesAreFresh

\* A merchant's link becomes null or the next one, and the old one is spent.
LEMMA LinkSpent ==
  ASSUME IInv, NEW m \in Merchants, NEW l \in Nat,
         \/ l = 0 /\ links' = links
         \/ l = links + 1 /\ links' = links + 1,
         spent' = spent \cup ({merchant[m].link} \ {0}),
         \A n \in Merchants :
           merchant'[n].link = IF n = m THEN l ELSE merchant[n].link
  PROVE  LinksAreFresh'
<1>1. /\ links \in Nat
      /\ \A n \in Merchants : merchant[n].link \in Nat
      /\ \A k \in spent : k \in Nat /\ k # 0
  BY RowTypes, BoundAssumption DEF IInv, TypeOK
<1>2. /\ \A k \in spent : k <= links
      /\ \A n \in Merchants :
           merchant[n].link <= links /\ merchant[n].link \notin spent
  BY DEF IInv, LinksAreFresh
<1>3. \A n \in Merchants :
        n # m /\ merchant[n].link = merchant[m].link => merchant[m].link = 0
  BY DEF IInv, LinksAreFresh
<1>4. \A k \in spent' : k \in Nat /\ k # 0 /\ k <= links
  BY <1>1, <1>2
<1>5. \A k \in spent' : k <= links'
  BY <1>1, <1>4
<1>6. ASSUME NEW n \in Merchants
      PROVE  merchant'[n].link <= links' /\ merchant'[n].link \notin spent'
  <2>1. CASE n = m
    BY <1>1, <1>4, <2>1
  <2>2. CASE n # m
    BY <1>1, <1>2, <1>3, <2>2
  <2> QED  BY <2>1, <2>2
<1>7. ASSUME NEW n \in Merchants, NEW o \in Merchants, n # o,
             merchant'[n].link = merchant'[o].link
      PROVE  merchant'[n].link = 0
  <2>1. CASE n = m
    BY <1>1, <1>2, <1>7, <2>1
  <2>2. CASE o = m
    BY <1>1, <1>2, <1>7, <2>2
  <2>3. CASE n # m /\ o # m
    BY <1>7, <2>3 DEF IInv, LinksAreFresh
  <2> QED  BY <2>1, <2>2, <2>3
<1> QED  BY <1>5, <1>6, <1>7 DEF LinksAreFresh

\* A merchant's hash becomes the next one, and the old one is replaced.
LEMMA HashReplaced ==
  ASSUME IInv, NEW m \in Merchants,
         hashes' = hashes + 1,
         replaced' = replaced \cup ({merchant[m].hash} \ {0}),
         \A n \in Merchants :
           merchant'[n].hash = IF n = m THEN hashes + 1 ELSE merchant[n].hash
  PROVE  HashesAreFresh'
<1>1. /\ hashes \in Nat
      /\ \A n \in Merchants : merchant[n].hash \in Nat
      /\ \A k \in replaced : k \in Nat /\ k # 0
  BY RowTypes, BoundAssumption DEF IInv, TypeOK
<1>2. /\ \A k \in replaced : k <= hashes
      /\ \A n \in Merchants :
           merchant[n].hash <= hashes /\ merchant[n].hash \notin replaced
  BY DEF IInv, HashesAreFresh
<1>3. \A n \in Merchants :
        n # m /\ merchant[n].hash = merchant[m].hash => merchant[m].hash = 0
  BY DEF IInv, HashesAreFresh
<1>4. \A k \in replaced' : k \in Nat /\ k # 0 /\ k <= hashes
  BY <1>1, <1>2
<1>5. \A k \in replaced' : k <= hashes'
  BY <1>1, <1>4
<1>6. ASSUME NEW n \in Merchants
      PROVE  merchant'[n].hash <= hashes' /\ merchant'[n].hash \notin replaced'
  <2>1. CASE n = m
    BY <1>1, <1>4, <2>1
  <2>2. CASE n # m
    BY <1>1, <1>2, <1>3, <2>2
  <2> QED  BY <2>1, <2>2
<1>7. ASSUME NEW n \in Merchants, NEW o \in Merchants, n # o,
             merchant'[n].hash = merchant'[o].hash
      PROVE  merchant'[n].hash = 0
  <2>1. CASE n = m
    BY <1>1, <1>2, <1>7, <2>1
  <2>2. CASE o = m
    BY <1>1, <1>2, <1>7, <2>2
  <2>3. CASE n # m /\ o # m
    BY <1>7, <2>3 DEF IInv, HashesAreFresh
  <2> QED  BY <2>1, <2>2, <2>3
<1> QED  BY <1>5, <1>6, <1>7 DEF HashesAreFresh

-----------------------------------------------------------------------------
(* Accounts: each step keeps the invariant *)

LEMMA InitIInv == Init => IInv
<1> SUFFICES ASSUME Init PROVE IInv
  OBVIOUS
<1>1. TypeOK
  BY BoundAssumption DEF Init, TypeOK, Tasks
<1>2. TasksAreOfRows
  BY DEF Init, TasksAreOfRows, Idle
<1>3. LinksAreFresh /\ HashesAreFresh
  BY DEF Init, LinksAreFresh, HashesAreFresh, NoMerchant
<1>4. CalmReadsHold /\ EmailFindsOneAccount
  BY DEF Init, CalmReadsHold, EmailFindsOneAccount, Exists, NoMerchant
<1> QED  BY <1>1, <1>2, <1>3, <1>4 DEF IInv

\* A request that begins holds what is true of the emails.
LEMMA BeginKeeps ==
  ASSUME IInv, NEW r \in Requests, NEW t \in Tasks, Begin(r, t),
         t.kind \notin {"idle", "register"} => Exists(t.merchant),
         ReadHolds(t)
  PROVE  IInv'
<1> USE DEF Begin, tables
<1>1. TypeOK'
  BY DEF IInv, TypeOK
<1>2. TasksAreOfRows'
  BY DEF IInv, TypeOK, TasksAreOfRows, Exists
<1>3. LinksAreFresh' /\ HashesAreFresh'
  BY DEF IInv, LinksAreFresh, HashesAreFresh
<1>4. CalmReadsHold'
  <2>1. SUFFICES ASSUME NEW q \in calm' PROVE ReadHolds(task[q])'
    BY DEF CalmReadsHold
  <2>2. CASE q = r
    BY <2>2 DEF IInv, TypeOK, ReadHolds, Owners, Exists
  <2>3. CASE q # r
    BY <2>1, <2>3 DEF IInv, TypeOK, CalmReadsHold, ReadHolds, Owners, Exists
  <2> QED  BY <2>2, <2>3
<1>5. EmailFindsOneAccount'
  BY DEF IInv, EmailFindsOneAccount, Exists
<1> QED  BY <1>1, <1>2, <1>3, <1>4, <1>5 DEF IInv

LEMMA RegisterKeeps ==
  ASSUME IInv, NEW r \in Requests, NEW m \in Merchants, NEW e \in Emails,
         Register(r, m, e)
  PROVE  IInv'
<1> DEFINE t == [kind |-> "register", merchant |-> m, email |-> e]
<1>1. t \in Tasks
  BY DEF Tasks
<1>2. ReadHolds(t)
  BY DEF Register, ReadHolds
<1> QED  BY <1>1, <1>2, BeginKeeps DEF Register

LEMMA CreateActivationKeeps ==
  ASSUME IInv, NEW r \in Requests, NEW m \in Merchants, NEW e \in Emails,
         CreateActivation(r, m, e)
  PROVE  IInv'
<1> DEFINE t == [kind |-> "issue", merchant |-> m, email |-> e]
<1>1. t \in Tasks
  BY DEF Tasks
<1>2. Exists(m)
  BY RowTypes DEF CreateActivation, IInv
<1>3. ReadHolds(t)
  BY <1>2 DEF CreateActivation, MayHave, ReadHolds, Owners, IInv,
              EmailFindsOneAccount
<1> QED  BY <1>1, <1>2, <1>3, BeginKeeps DEF CreateActivation

LEMMA ReviewKeeps ==
  ASSUME IInv, NEW r \in Requests, NEW m \in Merchants, NEW v \in Verdicts,
         Review(r, m, v)
  PROVE  IInv'
<1> DEFINE t == [kind |-> "review", merchant |-> m,
                 email |-> merchant[m].email, status |-> v]
<1>1. merchant[m].email \in Emails
  BY RowTypes DEF Review, IInv, Rows
<1>2. t \in Tasks
  BY <1>1, BoundAssumption DEF Tasks
<1>3. ReadHolds(t) /\ Exists(m)
  BY DEF Review, ReadHolds
<1> QED  BY <1>2, <1>3, BeginKeeps DEF Review

LEMMA ActivateKeeps ==
  ASSUME IInv, NEW r \in Requests, NEW m \in Merchants, Activate(r, m)
  PROVE  IInv'
<1> DEFINE t == [kind |-> "activate", merchant |-> m, link |-> merchant[m].link]
<1>1. merchant[m].link \in 1..MostLinks /\ Exists(m)
  BY RowTypes, BoundAssumption DEF Activate, IInv
<1>2. t \in Tasks
  BY <1>1 DEF Tasks
<1>3. ReadHolds(t)
  BY DEF ReadHolds
<1> QED  BY <1>1, <1>2, <1>3, BeginKeeps DEF Activate

LEMMA SetPasswordKeeps ==
  ASSUME IInv, NEW r \in Requests, NEW m \in Merchants, SetPassword(r, m)
  PROVE  IInv'
<1> DEFINE t == [kind |-> "set", merchant |-> m]
<1>1. t \in Tasks /\ Exists(m)
  BY RowTypes DEF SetPassword, IInv, Tasks
<1>2. ReadHolds(t)
  BY DEF ReadHolds
<1> QED  BY <1>1, <1>2, BeginKeeps DEF SetPassword

LEMMA AuthenticateKeeps ==
  ASSUME IInv, NEW r \in Requests, NEW m \in Merchants, Authenticate(r, m)
  PROVE  IInv'
<1> DEFINE t == [kind |-> "login", merchant |-> m, hash |-> merchant[m].hash]
<1>1. merchant[m].hash \in 1..MostHashes /\ Exists(m)
  BY RowTypes, BoundAssumption DEF Authenticate, IInv
<1>2. t \in Tasks
  BY <1>1 DEF Tasks
<1>3. ReadHolds(t)
  BY DEF ReadHolds
<1> QED  BY <1>1, <1>2, <1>3, BeginKeeps DEF Authenticate

\* Where no row that exists changes its email, what calm requests hold stays.
LEMMA CalmReadsStay ==
  ASSUME IInv, NEW r \in Requests,
         calm' \subseteq calm, apart' = apart,
         \A q \in calm' : q # r, calm' \subseteq Requests,
         task' = [task EXCEPT ![r] = Idle],
         \A m \in Merchants : /\ Exists(m)' <=> Exists(m)
                              /\ merchant'[m].email = merchant[m].email
  PROVE  CalmReadsHold' /\ EmailFindsOneAccount'
<1>1. \A q \in calm' : task'[q] = task[q] /\ ReadHolds(task[q])
  BY DEF IInv, TypeOK, CalmReadsHold
<1>2. ASSUME NEW q \in calm' PROVE ReadHolds(task[q])'
  <2>1. task'[q] = task[q] /\ ReadHolds(task[q])
    BY <1>1, <1>2
  <2>2. task[q].kind # "idle" => task[q].merchant \in Merchants
    BY <1>2, KindTypes DEF IInv
  <2> QED  BY <2>1, <2>2 DEF ReadHolds, Owners
<1>3. CalmReadsHold'
  BY <1>2 DEF CalmReadsHold
<1>4. EmailFindsOneAccount'
  BY DEF IInv, EmailFindsOneAccount
<1> QED  BY <1>3, <1>4

LEMMA InsertKeeps ==
  ASSUME IInv, NEW r \in Requests, Insert(r)
  PROVE  IInv'
<1> DEFINE m == task[r].merchant
           row == Pending(task[r].email)
<1> USE DEF Insert, EmailWritten
<1>1. m \in Merchants /\ task[r].email \in Emails
  BY KindTypes DEF IInv
<1>2. row \in Rows
  BY <1>1, NullTypes DEF Pending, Rows, MerchantStatus
<1>3. /\ merchant' = [merchant EXCEPT ![m] = row]
      /\ row.link = 0 /\ row.hash = 0 /\ row.status = "pending"
      /\ row.email = task[r].email
  BY DEF Pending
<1> HIDE DEF row
<1>4. TypeOK'
  BY <1>1, <1>2, <1>3 DEF IInv, TypeOK, Tasks
<1>5. TasksAreOfRows'
  BY <1>1, <1>3, KindTypes DEF IInv, TypeOK, TasksAreOfRows, Exists, Idle
<1>6. LinksAreFresh' /\ HashesAreFresh'
  <2>1. merchant[m].link = 0 /\ merchant[m].hash = 0
    BY <1>1, RowTypes DEF IInv, Rows, NoMerchant, Exists
  <2>2. \A n \in Merchants : /\ merchant'[n].link = merchant[n].link
                             /\ merchant'[n].hash = merchant[n].hash
    BY <1>1, <1>3, <2>1 DEF IInv, TypeOK
  <2> QED  BY <2>2, LinksStay, HashesStay DEF IInv
<1>7. CalmReadsHold'
  BY DEF CalmReadsHold
<1>8. EmailFindsOneAccount'
  <2> SUFFICES ASSUME apart' PROVE EmailFindsOneAccount'
    BY DEF EmailFindsOneAccount
  <2>1. apart /\ Owners(task[r].email) = {}
    BY DEF IInv, CalmReadsHold, ReadHolds
  <2> QED
    BY <1>1, <1>3, <2>1
    DEF IInv, TypeOK, EmailFindsOneAccount, Exists, Owners
<1> QED  BY <1>4, <1>5, <1>6, <1>7, <1>8 DEF IInv

LEMMA CompareKeeps ==
  ASSUME IInv, NEW r \in Requests, Compare(r)
  PROVE  IInv'
<1> DEFINE t == task[r]
           cols == (IF merchant[t.merchant].status # t.status THEN {"status"}
                    ELSE {}) \cup
                   (IF merchant[t.merchant].email # t.email THEN {"email"}
                    ELSE {})
           next == [kind |-> "save", merchant |-> t.merchant,
                    email |-> t.email, status |-> t.status, cols |-> cols]
<1> USE DEF Compare, tables, history
<1>1. /\ t.merchant \in Merchants /\ t.email \in Emails
      /\ t.status \in MerchantStatus
  BY KindTypes DEF IInv
<1>2. task' = [task EXCEPT ![r] = next]
  OBVIOUS
<1>3. next \in Tasks
  BY <1>1 DEF Tasks
<1>4. TypeOK'
  BY <1>2, <1>3 DEF IInv, TypeOK
<1>5. TasksAreOfRows'
  BY <1>2 DEF IInv, TypeOK, TasksAreOfRows, Exists
<1>6. CalmReadsHold'
  <2>1. SUFFICES ASSUME NEW q \in calm PROVE ReadHolds(task[q])'
    BY DEF CalmReadsHold
  <2>2. CASE q = r
    <3>1. merchant[t.merchant].email = t.email
      BY <2>1, <2>2 DEF IInv, CalmReadsHold, ReadHolds
    <3>2. task'[q].kind = "save" /\ "email" \notin task'[q].cols
      BY <1>2, <2>2, <3>1 DEF IInv, TypeOK
    <3> QED  BY <3>2 DEF ReadHolds
  <2>3. CASE q # r
    BY <1>2, <2>1, <2>3 DEF IInv, TypeOK, CalmReadsHold, ReadHolds, Owners, Exists
  <2> QED  BY <2>2, <2>3
<1>7. LinksAreFresh' /\ HashesAreFresh' /\ EmailFindsOneAccount'
  BY DEF IInv, LinksAreFresh, HashesAreFresh, EmailFindsOneAccount, Exists
<1> QED  BY <1>4, <1>5, <1>6, <1>7 DEF IInv

LEMMA SaveReviewKeeps ==
  ASSUME IInv, NEW r \in Requests, SaveReview(r)
  PROVE  IInv'
<1> DEFINE t == task[r]
           m == t.merchant
           row == [merchant[m] EXCEPT
                     !.status = IF "status" \in t.cols THEN t.status ELSE @,
                     !.email = IF "email" \in t.cols THEN t.email ELSE @]
<1> USE DEF SaveReview
<1>1. /\ m \in Merchants /\ t.email \in Emails /\ t.status \in MerchantStatus
      /\ Exists(m)
  BY KindTypes DEF IInv, TasksAreOfRows
<1>2. merchant[m] \in Rows
  BY <1>1, RowTypes DEF IInv
<1>3. row \in Rows
  BY <1>1, <1>2 DEF Rows
<1>4. merchant' = [merchant EXCEPT ![m] = row]
  BY <1>1, <1>2 DEF IInv, TypeOK, Rows
<1>5. /\ row.link = merchant[m].link /\ row.hash = merchant[m].hash
      /\ row.status # "none"
      /\ "email" \notin t.cols => row.email = merchant[m].email
  BY <1>1, <1>2 DEF Rows, MerchantStatus
<1> HIDE DEF row
<1>6. TypeOK'
  <2>1. calm' \subseteq Requests /\ apart' \in BOOLEAN
    BY DEF IInv, TypeOK, EmailWritten, NoEmailWritten
  <2>2. merchant' \in [Merchants -> Rows \cup {NoMerchant}]
    BY <1>1, <1>3, <1>4 DEF IInv, TypeOK
  <2>3. task' \in [Requests -> Tasks]
    BY DEF IInv, TypeOK, Tasks
  <2> QED  BY <2>1, <2>2, <2>3 DEF IInv, TypeOK
<1>7. \A n \in Merchants :
        /\ merchant'[n].link = merchant[n].link
        /\ merchant'[n].hash = merchant[n].hash
        /\ Exists(n)' <=> Exists(n)
  BY <1>1, <1>4, <1>5 DEF IInv, TypeOK, Exists
<1>8. TasksAreOfRows'
  BY <1>7, KindTypes DEF IInv, TypeOK, TasksAreOfRows, Idle
<1>9. LinksAreFresh' /\ HashesAreFresh'
  BY <1>7, LinksStay, HashesStay DEF IInv
<1>10. CalmReadsHold' /\ EmailFindsOneAccount'
  <2>1. CASE "email" \in t.cols
    <3>1. r \notin calm
      BY <2>1 DEF IInv, CalmReadsHold, ReadHolds
    <3> QED
      BY <2>1, <3>1 DEF EmailWritten, CalmReadsHold, EmailFindsOneAccount
  <2>2. CASE "email" \notin t.cols
    <3>1. \A n \in Merchants : merchant'[n].email = merchant[n].email
      BY <1>1, <1>4, <1>5, <2>2 DEF IInv, TypeOK
    <3>2. /\ calm' = calm \ {r} /\ calm' \subseteq Requests /\ apart' = apart
          /\ task' = [task EXCEPT ![r] = Idle]
      BY <2>2 DEF NoEmailWritten, IInv, TypeOK
    <3> QED  BY <1>7, <3>1, <3>2, CalmReadsStay
  <2> QED  BY <2>1, <2>2
<1> QED  BY <1>6, <1>8, <1>9, <1>10 DEF IInv

LEMMA IssueKeeps ==
  ASSUME IInv, NEW r \in Requests, Issue(r)
  PROVE  IInv'
<1> DEFINE t == task[r]
           m == t.merchant
           row == [merchant[m] EXCEPT !.email = t.email, !.link = links + 1,
                                      !.fresh = TRUE]
<1> USE DEF Issue
<1>1. m \in Merchants /\ t.email \in Emails /\ Exists(m)
  BY KindTypes DEF IInv, TasksAreOfRows
<1>2. merchant[m] \in Rows /\ links + 1 \in 1..MostLinks /\ links \in Nat
  BY <1>1, RowTypes, BoundAssumption DEF IInv, TypeOK
<1>3. row \in Rows
  <2>1. links + 1 \in 0..MostLinks
    BY <1>2
  <2> QED  BY <1>1, <1>2, <2>1 DEF Rows
<1>4. merchant' = [merchant EXCEPT ![m] = row]
  BY <1>1, <1>2 DEF IInv, TypeOK, Rows
<1>5. /\ row.link = links + 1 /\ row.hash = merchant[m].hash
      /\ row.status = merchant[m].status /\ row.email = t.email
  BY <1>2 DEF Rows
<1> HIDE DEF row
<1>6. \A n \in Merchants : merchant[n].link \in 0..MostLinks
  BY RowTypes DEF IInv
<1>7. TypeOK'
  <2>1. calm' \subseteq Requests /\ apart' \in BOOLEAN
    BY DEF IInv, TypeOK, EmailWritten, NoEmailWritten
  <2>2. merchant' \in [Merchants -> Rows \cup {NoMerchant}]
    BY <1>1, <1>3, <1>4 DEF IInv, TypeOK
  <2>3. task' \in [Requests -> Tasks]
    BY DEF IInv, TypeOK, Tasks
  <2>4. links' \in 0..MostLinks
    BY <1>2
  <2>5. merchant[m].link # 0 => merchant[m].link \in 1..MostLinks
    BY <1>1, <1>6, BoundAssumption
  <2>6. spent' \subseteq 1..MostLinks
    BY <2>5 DEF IInv, TypeOK
  <2> QED  BY <2>1, <2>2, <2>3, <2>4, <2>6 DEF IInv, TypeOK
<1>8. \A n \in Merchants :
        /\ merchant'[n].link = IF n = m THEN links + 1 ELSE merchant[n].link
        /\ merchant'[n].hash = merchant[n].hash
        /\ merchant'[n].email = IF n = m THEN t.email ELSE merchant[n].email
        /\ Exists(n)' <=> Exists(n)
  BY <1>1, <1>4, <1>5 DEF IInv, TypeOK, Exists
<1>9. TasksAreOfRows'
  BY <1>8, KindTypes DEF IInv, TypeOK, TasksAreOfRows, Idle
<1>10. LinksAreFresh'
  <2>1. links + 1 \in Nat
    BY <1>2
  <2>2. links' = links + 1 /\ spent' = spent \cup ({merchant[m].link} \ {0})
    OBVIOUS
  <2>3. \A n \in Merchants :
          merchant'[n].link = IF n = m THEN links + 1 ELSE merchant[n].link
    BY <1>8
  <2> HIDE DEF m, Issue
  <2> QED  BY <1>1, <2>1, <2>2, <2>3, LinkSpent
<1>11. HashesAreFresh'
  BY <1>8, HashesStay DEF IInv
<1>12. CalmReadsHold' /\ EmailFindsOneAccount'
  <2>1. CASE merchant[m].email # t.email
    <3>1. calm' = {} /\ apart' = (apart /\ r \in calm)
      BY <2>1 DEF EmailWritten
    <3>2. CalmReadsHold'
      BY <3>1 DEF CalmReadsHold
    <3>3. EmailFindsOneAccount'
      <4> SUFFICES ASSUME apart' PROVE EmailFindsOneAccount'
        BY DEF EmailFindsOneAccount
      <4>1. \A n \in Merchants : Exists(n) /\ merchant[n].email = t.email
                                   => n = m
        BY <3>1 DEF IInv, CalmReadsHold, ReadHolds
      <4>2. \A n, o \in Merchants :
              Exists(n) /\ Exists(o) /\ merchant[n].email = merchant[o].email
              => n = o
        BY <3>1 DEF IInv, EmailFindsOneAccount
      <4> HIDE DEF t, m, Issue
      <4>0. \A n \in Merchants :
              Exists(n)' /\ merchant'[n].email = t.email => n = m
        BY <1>8, <4>1
      <4>3. ASSUME NEW n \in Merchants, NEW o \in Merchants, Exists(n)',
                   Exists(o)', merchant'[n].email = merchant'[o].email
            PROVE  n = o
        <5>1. CASE n = m
          BY <1>1, <1>8, <4>0, <4>3, <5>1
        <5>2. CASE o = m
          BY <1>1, <1>8, <4>0, <4>3, <5>2
        <5>3. CASE n # m /\ o # m
          BY <1>8, <4>2, <4>3, <5>3
        <5> QED  BY <5>1, <5>2, <5>3
      <4> QED  BY <4>3 DEF EmailFindsOneAccount
    <3> QED  BY <3>2, <3>3
  <2>2. CASE merchant[m].email = t.email
    <3>1. \A n \in Merchants : merchant'[n].email = merchant[n].email
      BY <1>8, <2>2
    <3>2. /\ calm' = calm \ {r} /\ calm' \subseteq Requests /\ apart' = apart
          /\ task' = [task EXCEPT ![r] = Idle]
      BY <2>2 DEF NoEmailWritten, IInv, TypeOK
    <3> QED  BY <1>8, <3>1, <3>2, CalmReadsStay
  <2> QED  BY <2>1, <2>2
<1> QED  BY <1>7, <1>9, <1>10, <1>11, <1>12 DEF IInv

LEMMA ExpireKeeps ==
  ASSUME IInv, NEW m \in Merchants, Expire(m)
  PROVE  IInv'
<1> USE DEF Expire, history
<1>1. merchant[m] \in Rows
  BY RowTypes DEF IInv, NoMerchant
<1>2. TypeOK'
  BY <1>1 DEF IInv, TypeOK, Rows
<1>3. \A n \in Merchants :
        /\ merchant'[n].link = merchant[n].link
        /\ merchant'[n].hash = merchant[n].hash
        /\ merchant'[n].email = merchant[n].email
        /\ Exists(n)' <=> Exists(n)
  BY <1>1 DEF IInv, TypeOK, Exists, Rows
<1>4. TasksAreOfRows'
  BY <1>3, KindTypes DEF IInv, TasksAreOfRows
<1>5. LinksAreFresh' /\ HashesAreFresh'
  BY <1>3 DEF IInv, LinksAreFresh, HashesAreFresh
<1>6. ASSUME NEW q \in calm PROVE ReadHolds(task[q])'
  <2>1. task[q].kind # "idle" => task[q].merchant \in Merchants
    BY <1>6, KindTypes DEF IInv, TypeOK
  <2> QED  BY <1>3, <1>6, <2>1 DEF IInv, CalmReadsHold, ReadHolds, Owners
<1>7. CalmReadsHold' /\ EmailFindsOneAccount'
  BY <1>3, <1>6 DEF IInv, CalmReadsHold, EmailFindsOneAccount
<1> QED  BY <1>2, <1>4, <1>5, <1>7 DEF IInv

LEMMA NewPasswordKeeps ==
  ASSUME IInv, NEW r \in Requests, NEW m \in Merchants, Exists(m),
         NewPassword(r, m)
  PROVE  IInv'
<1> DEFINE row == [merchant[m] EXCEPT !.hash = hashes + 1, !.link = 0,
                                      !.fresh = FALSE]
<1> USE DEF NewPassword, NoEmailWritten
<1>1. merchant[m] \in Rows /\ hashes + 1 \in 1..MostHashes /\ hashes \in Nat
  BY RowTypes, BoundAssumption DEF IInv, TypeOK
<1>2. row \in Rows
  <2>1. hashes + 1 \in 0..MostHashes
    BY <1>1
  <2> QED  BY <1>1, <2>1, NullTypes DEF Rows
<1>3. merchant' = [merchant EXCEPT ![m] = row]
  BY <1>1 DEF IInv, TypeOK, Rows
<1>4. /\ row.link = 0 /\ row.hash = hashes + 1
      /\ row.status = merchant[m].status /\ row.email = merchant[m].email
  BY <1>1 DEF Rows
<1> HIDE DEF row
<1>5. \A n \in Merchants : /\ merchant[n].link \in 0..MostLinks
                           /\ merchant[n].hash \in 0..MostHashes
  BY RowTypes DEF IInv
<1>6. TypeOK'
  <2>1. calm' \subseteq Requests /\ task' \in [Requests -> Tasks]
    BY DEF IInv, TypeOK, Tasks
  <2>2. merchant' \in [Merchants -> Rows \cup {NoMerchant}]
    BY <1>2, <1>3 DEF IInv, TypeOK
  <2>3. hashes' \in 0..MostHashes
    BY <1>1
  <2>4. /\ merchant[m].link # 0 => merchant[m].link \in 1..MostLinks
        /\ merchant[m].hash # 0 => merchant[m].hash \in 1..MostHashes
    BY <1>5, BoundAssumption
  <2>5. spent' \subseteq 1..MostLinks /\ replaced' \subseteq 1..MostHashes
    BY <2>4 DEF IInv, TypeOK
  <2> QED  BY <2>1, <2>2, <2>3, <2>5 DEF IInv, TypeOK
<1>7. \A n \in Merchants :
        /\ merchant'[n].link = IF n = m THEN 0 ELSE merchant[n].link
        /\ merchant'[n].hash = IF n = m THEN hashes + 1 ELSE merchant[n].hash
        /\ merchant'[n].email = merchant[n].email
        /\ Exists(n)' <=> Exists(n)
  BY <1>3, <1>4 DEF IInv, TypeOK, Exists
<1>8. TasksAreOfRows'
  BY <1>7, KindTypes DEF IInv, TypeOK, TasksAreOfRows, Idle
<1>9. LinksAreFresh'
  BY <1>7, LinkSpent
<1>10. HashesAreFresh'
  BY <1>7, HashReplaced
<1>11. CalmReadsHold' /\ EmailFindsOneAccount'
  <2>1. calm' \subseteq Requests
    BY DEF IInv, TypeOK
  <2> QED  BY <1>7, <2>1, CalmReadsStay
<1> QED  BY <1>6, <1>8, <1>9, <1>10, <1>11 DEF IInv

LEMMA LoginKeeps ==
  ASSUME IInv, NEW r \in Requests, Login(r)
  PROVE  IInv'
<1> USE DEF Login, NoEmailWritten
<1>1. [merchant |-> task[r].merchant, hash |-> task[r].hash] \in Sessions
  BY KindTypes DEF IInv, Sessions
<1>2. TypeOK'
  BY <1>1 DEF IInv, TypeOK, Tasks
<1>3. TasksAreOfRows'
  BY DEF IInv, TypeOK, TasksAreOfRows, Exists, Idle
<1>4. LinksAreFresh' /\ HashesAreFresh'
  BY DEF IInv, LinksAreFresh, HashesAreFresh
<1>5. CalmReadsHold' /\ EmailFindsOneAccount'
  <2>1. calm' \subseteq Requests
    BY DEF IInv, TypeOK
  <2> QED  BY <2>1, CalmReadsStay DEF Exists
<1> QED  BY <1>2, <1>3, <1>4, <1>5 DEF IInv

LEMMA FailKeeps ==
  ASSUME IInv, NEW r \in Requests, Fail(r)
  PROVE  IInv'
<1> USE DEF Fail, NoEmailWritten, tables
<1>1. TypeOK'
  BY DEF IInv, TypeOK, Tasks
<1>2. TasksAreOfRows'
  BY DEF IInv, TypeOK, TasksAreOfRows, Exists, Idle
<1>3. LinksAreFresh' /\ HashesAreFresh'
  BY DEF IInv, LinksAreFresh, HashesAreFresh
<1>4. CalmReadsHold' /\ EmailFindsOneAccount'
  <2>1. calm' \subseteq Requests
    BY DEF IInv, TypeOK
  <2> QED  BY <2>1, CalmReadsStay DEF Exists
<1> QED  BY <1>1, <1>2, <1>3, <1>4 DEF IInv

LEMMA StutterKeeps ==
  ASSUME IInv, UNCHANGED vars
  PROVE  IInv'
<1> USE DEF vars, tables, history
<1>1. TypeOK' /\ TasksAreOfRows'
  BY DEF IInv, TypeOK, TasksAreOfRows, Exists
<1>2. LinksAreFresh' /\ HashesAreFresh' /\ EmailFindsOneAccount'
  BY DEF IInv, LinksAreFresh, HashesAreFresh, EmailFindsOneAccount, Exists
<1>3. CalmReadsHold'
  BY DEF IInv, CalmReadsHold, ReadHolds, Owners, Exists
<1> QED  BY <1>1, <1>2, <1>3 DEF IInv

LEMMA NextKeeps ==
  ASSUME IInv, Next
  PROVE  IInv'
<1>1. ASSUME NEW r \in Requests, NEW m \in Merchants, NEW e \in Emails,
             Register(r, m, e) \/ CreateActivation(r, m, e)
      PROVE  IInv'
  BY <1>1, RegisterKeeps, CreateActivationKeeps
<1>2. ASSUME NEW r \in Requests, NEW m \in Merchants, NEW v \in Verdicts,
             Review(r, m, v)
      PROVE  IInv'
  BY <1>2, ReviewKeeps
<1>3. ASSUME NEW r \in Requests, NEW m \in Merchants,
             Activate(r, m) \/ SetPassword(r, m) \/ Authenticate(r, m)
      PROVE  IInv'
  BY <1>3, ActivateKeeps, SetPasswordKeeps, AuthenticateKeeps
<1>4. ASSUME NEW r \in Requests, Redeem(r) \/ StorePassword(r)
      PROVE  IInv'
  <2>1. task[r].merchant \in Merchants /\ Exists(task[r].merchant)
    BY <1>4, KindTypes DEF IInv, TasksAreOfRows, Redeem, StorePassword
  <2> QED  BY <1>4, <2>1, NewPasswordKeeps DEF Redeem, StorePassword
<1>5. ASSUME NEW r \in Requests,
             \/ Insert(r) \/ Compare(r) \/ SaveReview(r) \/ Issue(r)
             \/ Login(r) \/ Fail(r)
      PROVE  IInv'
  BY <1>5, InsertKeeps, CompareKeeps, SaveReviewKeeps, IssueKeeps, LoginKeeps,
     FailKeeps
<1>6. ASSUME NEW m \in Merchants, Expire(m)
      PROVE  IInv'
  BY <1>6, ExpireKeeps
<1> QED  BY <1>1, <1>2, <1>3, <1>4, <1>5, <1>6 DEF Next

-----------------------------------------------------------------------------
(* Banners: types *)

\* The kind of a task tells its fields.
LEMMA BannerTaskTypes ==
  ASSUME B!TypeOK, NEW r \in Requests
  PROVE  LET t == bannerTask[r]
         IN  /\ t \in B!Tasks
             /\ t.kind = "idle" <=> t = B!Idle
             /\ t # B!Idle => t.banner \in Banners
             /\ t.kind \in {"publish", "save", "write"} => t.mem \in B!Rows
             /\ t.kind \in {"save", "write"} =>
                  t.publishes \in BOOLEAN /\ t.cols \subseteq B!Columns
<1>1. bannerTask[r] \in B!Tasks
  BY DEF B!TypeOK
<1> QED BY <1>1 DEF B!Tasks, B!Idle

\* A row that exists has the columns of one.
LEMMA BannerRowTypes ==
  ASSUME B!TypeOK, NEW b \in Banners
  PROVE  B!Exists(b) <=> banner[b] \in B!Rows
<1>1. banner[b] \in B!Rows \cup {B!NoBanner}
  BY DEF B!TypeOK
<1> QED BY <1>1 DEF B!Exists, B!Rows, B!NoBanner, B!BannerStatus

-----------------------------------------------------------------------------
(* Banners: a step is about one of them *)

\* A request on a banner that is apart is alone on it.
LEMMA AloneOnIt ==
  ASSUME B!IInv, NEW r \in Requests, bannerTask[r] # B!Idle,
         bannerTask[r].banner \in bannersApart,
         NEW q \in Requests, q # r, bannerTask[q] # B!Idle
  PROVE  bannerTask[q].banner # bannerTask[r].banner
BY DEF B!IInv, B!OneHolder, B!Holders

\* Where a step is of one request and about one banner, the invariant need only
\* be shown of these two.
LEMMA OneBannerMoves ==
  ASSUME B!IInv, B!TypeOK', NEW r \in Requests, NEW b \in Banners,
         \A q \in Requests : q # r => bannerTask'[q] = bannerTask[q],
         bannerTask[r] = B!Idle \/ bannerTask[r].banner = b,
         bannerTask'[r] = B!Idle \/ bannerTask'[r].banner = b,
         \A c \in Banners :
           c # b => banner'[c] = banner[c] /\ made'[c] = made[c],
         bannersApart' \subseteq bannersApart, removed' = removed,
         banner[b].status # "none" => banner'[b].status # "none",
         bannerTask'[r].kind \in {"publish", "save", "write"} =>
           banner'[b].status # "none",
         b \in bannersApart' =>
           /\ \A q \in Requests :
                q # r /\ bannerTask[q] # B!Idle => bannerTask[q].banner # b
           /\ bannerTask'[r] # B!Idle => B!KnowsBanner(bannerTask[r])'
           /\ bannerTask'[r] = B!Idle => B!Agrees(b)'
  PROVE  B!IInv'
<1> USE DEF B!IInv
<1>1. /\ bannersApart \subseteq Banners /\ bannersApart' \subseteq Banners
      /\ \A q \in Requests : bannerTask[q] # B!Idle =>
           bannerTask[q].banner \in Banners
      /\ \A q \in Requests : bannerTask[q].kind \in {"publish", "save", "write"}
           => bannerTask[q] # B!Idle
      /\ \A q \in Requests : bannerTask'[q].kind \in {"publish", "save", "write"}
           => bannerTask'[q] # B!Idle
  BY BannerTaskTypes DEF B!TypeOK, B!Idle
<1>2. B!RowsStay'
  <2> SUFFICES ASSUME NEW q \in Requests,
                      bannerTask'[q].kind \in {"publish", "save", "write"}
               PROVE  banner'[bannerTask'[q].banner].status # "none"
    BY DEF B!RowsStay, B!Exists
  <2>1. CASE q = r
    BY <2>1, <1>1
  <2>2. CASE q # r
    <3>1. bannerTask'[q] = bannerTask[q] /\ bannerTask[q].banner \in Banners
      BY <2>2, <1>1
    <3>2. banner[bannerTask[q].banner].status # "none"
      BY <3>1 DEF B!RowsStay, B!Exists
    <3> QED BY <3>1, <3>2
  <2> QED BY <2>1, <2>2
<1>3. B!OneHolder'
  <2> SUFFICES ASSUME NEW c \in bannersApart',
                      NEW q \in Requests, bannerTask'[q] # B!Idle,
                      bannerTask'[q].banner = c,
                      NEW s \in Requests, bannerTask'[s] # B!Idle,
                      bannerTask'[s].banner = c
               PROVE  q = s
    BY DEF B!OneHolder, B!Holders
  <2>1. CASE c = b
    BY <2>1
  <2>2. CASE c # b
    <3>1. q # r /\ s # r
      BY <2>2
    <3> QED BY <3>1 DEF B!OneHolder, B!Holders
  <2> QED BY <2>1, <2>2
<1>4. B!ApartIsKnown'
  <2> SUFFICES ASSUME NEW q \in Requests, bannerTask'[q] # B!Idle,
                      bannerTask'[q].banner \in bannersApart'
               PROVE  B!KnowsBanner(bannerTask[q])'
    BY DEF B!ApartIsKnown
  <2>1. CASE q = r
    BY <2>1
  <2>2. CASE q # r
    <3> DEFINE c == bannerTask[q].banner
    <3>1. /\ bannerTask'[q] = bannerTask[q] /\ c # b /\ c \in Banners
          /\ c \in bannersApart
      BY <2>2, <1>1
    <3>2. banner'[c] = banner[c] /\ made'[c] = made[c]
      BY <3>1
    <3>3. B!KnowsBanner(bannerTask[q])
      BY <3>1 DEF B!ApartIsKnown
    <3> QED BY <3>1, <3>2, <3>3 DEF B!KnowsBanner, B!Agrees
  <2> QED BY <2>1, <2>2
<1>5. B!OnePromotionPerBanner'
  <2> SUFFICES ASSUME NEW c \in bannersApart',
                      \A q \in Requests :
                        bannerTask'[q] = B!Idle \/ bannerTask'[q].banner # c
               PROVE  B!Agrees(c)'
    BY DEF B!OnePromotionPerBanner, B!Holders, B!Agrees
  <2>1. CASE c = b
    BY <2>1
  <2>2. CASE c # b
    <3>1. \A q \in Requests :
            bannerTask[q] = B!Idle \/ bannerTask[q].banner # c
      BY <2>2
    <3>2. B!Agrees(c) /\ c \in Banners
      BY <3>1, <1>1 DEF B!OnePromotionPerBanner, B!Holders, B!Agrees
    <3> QED BY <2>2, <3>2 DEF B!Agrees
  <2> QED BY <2>1, <2>2
<1> QED BY <1>2, <1>3, <1>4, <1>5

\* A request begins on a row it has read, and knows it.
LEMMA BannerBeginKeeps ==
  ASSUME B!IInv, NEW r \in Requests, NEW b \in Banners, NEW t \in B!Tasks,
         B!Begin(r, b, t), t # B!Idle, t.banner = b,
         t.kind \in {"publish", "save", "write"} => B!Exists(b),
         B!Agrees(b) => B!KnowsBanner(t)
  PROVE  B!IInv'
<1>1. /\ bannerTask' = [bannerTask EXCEPT ![r] = t]
      /\ bannersApart' = IF B!Holders(b) = {} THEN bannersApart
                         ELSE bannersApart \ {b}
      /\ UNCHANGED <<product, banner, made, removed, count>>
      /\ bannerTask[r] = B!Idle
  BY DEF B!Begin
<1>2. bannerTask \in [Requests -> B!Tasks]
  BY DEF B!IInv, B!TypeOK
<1>3. bannerTask'[r] = t /\ \A q \in Requests : q # r => bannerTask'[q] = bannerTask[q]
  BY <1>1, <1>2
<1>4. B!TypeOK'
  BY <1>1, <1>2 DEF B!IInv, B!TypeOK
<1>5. ASSUME b \in bannersApart'
      PROVE  /\ \A q \in Requests :
                  q # r /\ bannerTask[q] # B!Idle => bannerTask[q].banner # b
             /\ B!KnowsBanner(bannerTask[r])'
  <2>1. B!Holders(b) = {} /\ b \in bannersApart
    BY <1>1, <1>5
  <2>2. B!Agrees(b)
    BY <2>1 DEF B!IInv, B!OnePromotionPerBanner, B!Agrees
  <2>3. B!KnowsBanner(t)
    BY <2>2
  <2>4. B!KnowsBanner(bannerTask[r])'
    BY <2>3, <1>1, <1>3 DEF B!KnowsBanner, B!Agrees
  <2> QED BY <2>1, <2>4 DEF B!Holders
<1> QED BY <1>1, <1>3, <1>4, <1>5, OneBannerMoves DEF B!Exists

LEMMA SubmitKeeps ==
  ASSUME B!IInv, NEW r \in Requests, NEW b \in Banners, B!Submit(r, b)
  PROVE  B!IInv'
<1> DEFINE t == [kind |-> "submit", banner |-> b]
<1>1. t \in B!Tasks /\ t # B!Idle /\ t.banner = b /\ t.kind = "submit"
  BY DEF B!Tasks, B!Idle
<1>2. B!Agrees(b) => B!KnowsBanner(t)
  BY <1>1 DEF B!KnowsBanner
<1>3. B!Begin(r, b, t)
  BY DEF B!Submit
<1> HIDE DEF t
<1> QED BY <1>1, <1>2, <1>3, BannerBeginKeeps

LEMMA UploadFinalKeeps ==
  ASSUME B!IInv, NEW r \in Requests, NEW b \in Banners, NEW image \in Images,
         B!UploadFinal(r, b, image)
  PROVE  B!IInv'
<1> DEFINE mem == [banner[b] EXCEPT !.final = image]
           t == B!Saving(b, mem, FALSE)
<1>1. B!Exists(b) /\ B!Begin(r, b, t)
  BY DEF B!UploadFinal
<1>2. banner[b] \in B!Rows
  BY <1>1, BannerRowTypes DEF B!IInv
<1>3. /\ mem \in B!Rows /\ mem.status = banner[b].status
      /\ mem.promotion = banner[b].promotion
  BY <1>2 DEF B!Rows
<1> HIDE DEF mem
<1>4. /\ t \in B!Tasks /\ t # B!Idle /\ t.kind = "save" /\ t.banner = b
      /\ t.mem = mem /\ t.publishes = FALSE
  BY <1>3 DEF B!Saving, B!Tasks, B!Columns, B!Idle
<1> HIDE DEF t
<1>5. B!Agrees(b) => B!KnowsBanner(t)
  BY <1>3, <1>4 DEF B!KnowsBanner
<1> QED BY <1>1, <1>4, <1>5, BannerBeginKeeps

LEMMA BannerReviewKeeps ==
  ASSUME B!IInv, NEW r \in Requests, NEW b \in Banners,
         NEW verdict \in {"approved", "rejected"}, B!Review(r, b, verdict)
  PROVE  B!IInv'
<1> DEFINE mem == [banner[b] EXCEPT !.status = verdict]
           t == B!Saving(b, mem, FALSE)
<1>1. B!MayBeReviewed(b) /\ B!Begin(r, b, t)
  BY DEF B!Review
<1>2. B!Exists(b) /\ banner[b] \in B!Rows /\ banner[b].status # "published"
  BY <1>1, BannerRowTypes DEF B!IInv, B!MayBeReviewed
<1>3. /\ mem \in B!Rows /\ mem.status # "published"
      /\ mem.promotion = banner[b].promotion
  BY <1>2 DEF B!Rows, B!BannerStatus
<1> HIDE DEF mem
<1>4. /\ t \in B!Tasks /\ t # B!Idle /\ t.kind = "save" /\ t.banner = b
      /\ t.mem = mem /\ t.publishes = FALSE
  BY <1>3 DEF B!Saving, B!Tasks, B!Columns, B!Idle
<1> HIDE DEF t
<1>5. B!Agrees(b) => B!KnowsBanner(t)
  BY <1>2, <1>3, <1>4 DEF B!KnowsBanner
<1> QED BY <1>1, <1>2, <1>4, <1>5, BannerBeginKeeps

LEMMA PublishKeeps ==
  ASSUME B!IInv, NEW r \in Requests, NEW b \in Banners,
         NEW image \in Images \cup {B!NoImage}, B!Publish(r, b, image)
  PROVE  B!IInv'
<1> DEFINE mem == [banner[b] EXCEPT !.final = IF image = B!NoImage THEN @
                                              ELSE image]
           t == [kind |-> "publish", banner |-> b, mem |-> mem]
<1>1. banner[b].status = "approved" /\ B!Begin(r, b, t)
  BY DEF B!Publish
<1>2. B!Exists(b) /\ banner[b] \in B!Rows
  BY <1>1, BannerRowTypes DEF B!IInv, B!Exists
<1>3. mem \in B!Rows
  BY <1>2 DEF B!Rows
<1> HIDE DEF mem
<1>4. t \in B!Tasks /\ t # B!Idle /\ t.kind = "publish" /\ t.banner = b
  BY <1>3 DEF B!Tasks, B!Idle
<1> HIDE DEF t
<1>5. B!Agrees(b) => B!KnowsBanner(t)
  BY <1>1, <1>4 DEF B!KnowsBanner
<1> QED BY <1>1, <1>2, <1>4, <1>5, BannerBeginKeeps

\* The row is inserted, which no promotion was made of.
LEMMA BannerInsertKeeps ==
  ASSUME B!IInv, NEW r \in Requests, B!Insert(r)
  PROVE  B!IInv'
<1>0. PICK b \in Banners : b = bannerTask[r].banner
  BY BannerTaskTypes DEF B!IInv, B!Insert, B!Idle
<1> USE <1>0
<1>1. /\ bannerTask[r].kind = "submit" /\ ~B!Exists(b)
      /\ banner' = [banner EXCEPT ![b] = B!Submitted]
      /\ bannerTask' = [bannerTask EXCEPT ![r] = B!Idle]
      /\ UNCHANGED <<product, made, removed, count, bannersApart>>
  BY DEF B!Insert
<1>2. bannerTask[r] # B!Idle /\ b \in Banners
  BY <1>1, BannerTaskTypes DEF B!IInv, B!Idle
<1>3. B!TypeOK'
  <2>1. B!Submitted \in B!Rows
    BY PromotionsAssumption
    DEF B!Submitted, B!NoBanner, B!Rows, B!BannerStatus
  <2>2. banner' \in [Banners -> B!Rows \cup {B!NoBanner}]
    BY <1>1, <2>1 DEF B!IInv, B!TypeOK
  <2>3. bannerTask' \in [Requests -> B!Tasks]
    BY <1>1 DEF B!IInv, B!TypeOK, B!Tasks
  <2> QED BY <1>1, <2>2, <2>3 DEF B!IInv, B!TypeOK
<1>4. /\ bannerTask'[r] = B!Idle
      /\ \A q \in Requests : q # r => bannerTask'[q] = bannerTask[q]
      /\ banner'[b] = B!Submitted
      /\ \A c \in Banners : c # b => banner'[c] = banner[c]
  BY <1>1, <1>2 DEF B!IInv, B!TypeOK
<1>5. B!Submitted.status = "pending" /\ B!Idle.kind = "idle"
  BY DEF B!Submitted, B!NoBanner, B!Idle
<1>6. ASSUME b \in bannersApart'
      PROVE  /\ \A q \in Requests :
                  q # r /\ bannerTask[q] # B!Idle => bannerTask[q].banner # b
             /\ B!Agrees(b)'
  <2>1. b \in bannersApart
    BY <1>1, <1>6
  <2>2. B!Agrees(b)
    BY <1>1, <1>2, <2>1 DEF B!IInv, B!ApartIsKnown, B!KnowsBanner
  <2>3. made'[b] = {}
    BY <1>1, <2>2 DEF B!Agrees, B!Exists
  <2>4. B!Submitted.promotion = 0
    BY DEF B!Submitted, B!NoBanner
  <2>5. B!Agrees(b)'
    BY <1>4, <1>5, <2>3, <2>4 DEF B!Agrees
  <2> QED BY <1>2, <2>1, <2>5, AloneOnIt
<1> QED BY <1>1, <1>2, <1>3, <1>4, <1>5, <1>6, OneBannerMoves

\* The promotion is made, and the row is yet to say so.
LEMMA CreatePromotionKeeps ==
  ASSUME B!IInv, NEW r \in Requests, B!CreatePromotion(r)
  PROVE  B!IInv'
<1>0. PICK b \in Banners : b = bannerTask[r].banner
  BY BannerTaskTypes DEF B!IInv, B!CreatePromotion, B!Idle
<1> USE <1>0
<1> DEFINE old == bannerTask[r].mem
           mem == [old EXCEPT !.promotion = count + 1, !.status = "published"]
           t == B!Saving(b, mem, TRUE)
<1>1. /\ bannerTask[r].kind = "publish"
      /\ count < MostPromotions /\ count' = count + 1
      /\ made' = [made EXCEPT ![b] = @ \cup {count + 1}]
      /\ bannerTask' = [bannerTask EXCEPT ![r] = t]
      /\ UNCHANGED <<product, banner, removed, bannersApart>>
  BY DEF B!CreatePromotion
<1>2. bannerTask[r] # B!Idle /\ b \in Banners /\ old \in B!Rows
  BY <1>1, BannerTaskTypes DEF B!IInv, B!Idle
<1>3. count + 1 \in 1..MostPromotions /\ count + 1 \in 0..MostPromotions
  BY <1>1, PromotionsAssumption DEF B!IInv, B!TypeOK
<1>4. /\ mem \in B!Rows /\ mem.status = "published"
      /\ mem.promotion = count + 1
  BY <1>2, <1>3 DEF B!Rows, B!BannerStatus
<1>5. banner[b].status # "none"
  BY <1>1 DEF B!IInv, B!RowsStay, B!Exists
<1> HIDE DEF mem
<1>6. /\ t \in B!Tasks /\ t # B!Idle /\ t.kind = "save" /\ t.banner = b
      /\ t.mem = mem /\ t.publishes = TRUE
  BY <1>4 DEF B!Saving, B!Tasks, B!Columns, B!Idle
<1> HIDE DEF t
<1>7. B!TypeOK'
  BY <1>1, <1>2, <1>3, <1>6 DEF B!IInv, B!TypeOK
<1>8. /\ bannerTask'[r] = t
      /\ \A q \in Requests : q # r => bannerTask'[q] = bannerTask[q]
      /\ made'[b] = made[b] \cup {count + 1}
      /\ \A c \in Banners : c # b => made'[c] = made[c]
  BY <1>1, <1>2 DEF B!IInv, B!TypeOK
<1>9. ASSUME b \in bannersApart'
      PROVE  /\ \A q \in Requests :
                  q # r /\ bannerTask[q] # B!Idle => bannerTask[q].banner # b
             /\ B!KnowsBanner(bannerTask[r])'
  <2>1. b \in bannersApart
    BY <1>1, <1>9
  <2>2. B!Agrees(b) /\ banner[b].status = "approved"
    BY <1>1, <1>2, <2>1 DEF B!IInv, B!ApartIsKnown, B!KnowsBanner
  <2>3. made'[b] = {mem.promotion} /\ mem.promotion # 0 /\ banner[b].promotion = 0
    BY <1>3, <1>4, <1>8, <2>2 DEF B!Agrees
  <2>4. B!KnowsBanner(bannerTask[r])'
    BY <1>1, <1>4, <1>6, <1>8, <2>2, <2>3 DEF B!KnowsBanner
  <2> QED BY <1>2, <2>1, <2>4, AloneOnIt
<1> QED BY <1>1, <1>2, <1>5, <1>6, <1>7, <1>8, <1>9, OneBannerMoves

\* The columns that differ are found, of a row nobody else writes.
LEMMA BannerCompareKeeps ==
  ASSUME B!IInv, NEW r \in Requests, B!Compare(r)
  PROVE  B!IInv'
<1>0. PICK b \in Banners : b = bannerTask[r].banner
  BY BannerTaskTypes DEF B!IInv, B!Compare, B!Idle
<1> USE <1>0
<1> DEFINE cols == {c \in B!Columns : bannerTask[r].mem[c] # banner[b][c]}
           t == [bannerTask[r] EXCEPT !.kind = "write", !.cols = cols]
<1>1. /\ bannerTask[r].kind = "save"
      /\ bannerTask' = [bannerTask EXCEPT ![r] = t]
      /\ UNCHANGED <<product, banner, made, removed, count, bannersApart>>
  BY DEF B!Compare, B!IInv, B!TypeOK
<1>2. /\ bannerTask[r] # B!Idle /\ b \in Banners
      /\ bannerTask[r] \in [kind : {"save", "write"}, banner : Banners,
                            mem : B!Rows, cols : SUBSET B!Columns,
                            publishes : BOOLEAN]
  <2>1. bannerTask[r] \in B!Tasks
    BY DEF B!IInv, B!TypeOK
  <2> QED BY <1>1, <2>1, BannerTaskTypes DEF B!IInv, B!Tasks, B!Idle
<1>3. /\ t \in B!Tasks /\ t # B!Idle /\ t.kind = "write" /\ t.banner = b
      /\ t.mem = bannerTask[r].mem /\ t.publishes = bannerTask[r].publishes
      /\ t.cols = cols
  BY <1>2 DEF B!Tasks, B!Idle
<1>4. banner[b].status # "none"
  BY <1>1 DEF B!IInv, B!RowsStay, B!Exists
<1> HIDE DEF t
<1>5. B!TypeOK'
  BY <1>1, <1>3 DEF B!IInv, B!TypeOK
<1>6. /\ bannerTask'[r] = t
      /\ \A q \in Requests : q # r => bannerTask'[q] = bannerTask[q]
  BY <1>1 DEF B!IInv, B!TypeOK
<1>7. ASSUME b \in bannersApart'
      PROVE  /\ \A q \in Requests :
                  q # r /\ bannerTask[q] # B!Idle => bannerTask[q].banner # b
             /\ B!KnowsBanner(bannerTask[r])'
  <2>1. b \in bannersApart
    BY <1>1, <1>7
  <2>2. B!KnowsBanner(bannerTask[r])
    BY <1>2, <2>1 DEF B!IInv, B!ApartIsKnown
  <2>3. /\ "status" \in cols <=> bannerTask[r].mem.status # banner[b].status
        /\ "promotion" \in cols <=>
             bannerTask[r].mem.promotion # banner[b].promotion
    BY DEF B!Columns
  <2> HIDE DEF cols
  <2>4. B!Agrees(b) => B!Agrees(b)'
    BY <1>1 DEF B!Agrees
  <2>5. B!KnowsBanner(bannerTask[r])'
    BY <1>1, <1>3, <1>6, <2>2, <2>3, <2>4 DEF B!KnowsBanner
  <2> QED BY <1>2, <2>1, <2>5, AloneOnIt
<1> QED BY <1>1, <1>2, <1>3, <1>4, <1>5, <1>6, <1>7, OneBannerMoves

\* The row is written, and becomes what its request knows.
LEMMA WriteKeeps ==
  ASSUME B!IInv, NEW r \in Requests, B!Write(r)
  PROVE  B!IInv'
<1>0. PICK b \in Banners : b = bannerTask[r].banner
  BY BannerTaskTypes DEF B!IInv, B!Write, B!Idle
<1> USE <1>0
<1> DEFINE t == bannerTask[r]
           row == banner[b]
           Column(c) == IF c \in t.cols THEN t.mem[c] ELSE row[c]
           new == [status |-> Column("status"), final |-> Column("final"),
                   promotion |-> Column("promotion")]
<1>1. /\ t.kind = "write"
      /\ "promotion" \in t.cols => t.mem.promotion \notin removed
      /\ banner' = [banner EXCEPT ![b] = new]
      /\ bannerTask' = [bannerTask EXCEPT ![r] = B!Idle]
      /\ UNCHANGED <<product, made, removed, count, bannersApart>>
  BY DEF B!Write
<1>2. t # B!Idle /\ b \in Banners /\ t.mem \in B!Rows /\ row \in B!Rows
  <2>1. B!Exists(b)
    BY <1>1 DEF B!IInv, B!RowsStay
  <2> QED BY <1>1, <2>1, BannerTaskTypes, BannerRowTypes DEF B!IInv, B!Idle
<1>3. new \in B!Rows
  <2>1. /\ Column("status") \in B!BannerStatus
        /\ Column("final") \in Images \cup {B!NoImage}
        /\ Column("promotion") \in 0..MostPromotions
    BY <1>2 DEF B!Rows
  <2> HIDE DEF Column
  <2> QED BY <2>1 DEF B!Rows
<1>4. /\ new.status = Column("status") /\ new.promotion = Column("promotion")
      /\ new.status # "none"
  BY <1>3 DEF B!Rows, B!BannerStatus
<1>5. /\ bannerTask'[r] = B!Idle
      /\ \A q \in Requests : q # r => bannerTask'[q] = bannerTask[q]
      /\ banner'[b] = new
      /\ \A c \in Banners : c # b => banner'[c] = banner[c]
  BY <1>1, <1>2 DEF B!IInv, B!TypeOK
<1>6. ASSUME b \in bannersApart'
      PROVE  /\ \A q \in Requests :
                  q # r /\ bannerTask[q] # B!Idle => bannerTask[q].banner # b
             /\ B!Agrees(b)'
  <2>1. b \in bannersApart
    BY <1>1, <1>6
  <2>2. B!KnowsBanner(t)
    BY <1>2, <2>1 DEF B!IInv, B!ApartIsKnown
  <2>3. /\ new.status = t.mem.status
        /\ new.promotion = IF t.publishes THEN t.mem.promotion ELSE row.promotion
        /\ t.publishes => t.mem.promotion \notin removed
    BY <1>1, <1>4, <2>2 DEF B!KnowsBanner
  <2>4. t.publishes \in BOOLEAN /\ t.mem.promotion \in 0..MostPromotions
    BY <1>1, <1>2, BannerTaskTypes DEF B!IInv, B!Rows
  <2> HIDE DEF new
  <2>5. ASSUME t.publishes PROVE B!Agrees(b)'
    <3>1. /\ made[b] = {t.mem.promotion} /\ t.mem.promotion # 0
          /\ t.mem.status = "published"
      BY <1>1, <2>2, <2>5 DEF B!KnowsBanner
    <3>2. t.mem.promotion \in 1..MostPromotions
      BY <2>4, <3>1, PromotionsAssumption
    <3> QED BY <1>1, <1>5, <2>3, <2>5, <3>1, <3>2 DEF B!Agrees
  <2>6. ASSUME ~t.publishes PROVE B!Agrees(b)'
    <3>1. B!Agrees(b) /\ (t.mem.status = "published" <=> row.status = "published")
      BY <1>1, <2>2, <2>6 DEF B!KnowsBanner
    <3> QED BY <1>1, <1>5, <2>3, <2>6, <3>1 DEF B!Agrees
  <2> QED BY <1>2, <2>1, <2>4, <2>5, <2>6, AloneOnIt
<1>7. B!TypeOK'
  <2> HIDE DEF new
  <2> QED BY <1>1, <1>3 DEF B!IInv, B!TypeOK, B!Tasks
<1>8. B!Idle.kind = "idle"
  BY DEF B!Idle
<1> HIDE DEF new
<1> QED BY <1>1, <1>2, <1>4, <1>5, <1>6, <1>7, <1>8, OneBannerMoves

\* A publish that fails with its promotion made leaves a banner that is not apart.
LEMMA BannerFailKeeps ==
  ASSUME B!IInv, NEW r \in Requests, B!Fail(r)
  PROVE  B!IInv'
<1>0. PICK b \in Banners : b = bannerTask[r].banner
  BY BannerTaskTypes DEF B!IInv, B!Fail
<1> USE <1>0
<1> DEFINE t == bannerTask[r]
<1>1. /\ t # B!Idle
      /\ bannerTask' = [bannerTask EXCEPT ![r] = B!Idle]
      /\ bannersApart' = IF t.kind \in {"save", "write"} /\ t.publishes
                         THEN bannersApart \ {b} ELSE bannersApart
      /\ UNCHANGED <<product, banner, made, removed, count>>
  BY DEF B!Fail
<1>2. b \in Banners /\ t \in B!Tasks
  BY <1>1, BannerTaskTypes DEF B!IInv
<1>3. B!TypeOK' /\ B!Idle.kind = "idle"
  BY <1>1 DEF B!IInv, B!TypeOK, B!Tasks, B!Idle
<1>4. /\ bannerTask'[r] = B!Idle
      /\ \A q \in Requests : q # r => bannerTask'[q] = bannerTask[q]
  BY <1>1 DEF B!IInv, B!TypeOK
<1>5. ASSUME b \in bannersApart'
      PROVE  /\ \A q \in Requests :
                  q # r /\ bannerTask[q] # B!Idle => bannerTask[q].banner # b
             /\ B!Agrees(b)'
  <2>1. b \in bannersApart /\ ~(t.kind \in {"save", "write"} /\ t.publishes)
    BY <1>1, <1>5
  <2>2. B!KnowsBanner(t)
    BY <1>1, <2>1 DEF B!IInv, B!ApartIsKnown
  <2>3. t.kind \in {"submit", "publish", "save", "write"}
    BY <1>1, <1>2 DEF B!Tasks
  <2>4. B!Agrees(b)
    BY <2>1, <2>2, <2>3 DEF B!KnowsBanner
  <2> QED BY <1>1, <2>1, <2>4, AloneOnIt DEF B!Agrees
<1> QED BY <1>1, <1>2, <1>3, <1>4, <1>5, OneBannerMoves

\* Rows lose the promotion that is deleted, and requests know no more of it.
LEMMA RemovePromotionKeeps ==
  ASSUME B!IInv, NEW n \in 1..MostPromotions, B!RemovePromotion(n)
  PROVE  B!IInv'
<1>1. /\ removed' = removed \cup {n}
      /\ banner' = [b \in Banners |->
                      [banner[b] EXCEPT !.promotion = IF @ = n THEN 0 ELSE @]]
      /\ UNCHANGED <<product, made, count, bannerTask, bannersApart>>
  BY DEF B!RemovePromotion
<1>2. ASSUME NEW b \in Banners
      PROVE  /\ banner'[b] \in B!Rows \cup {B!NoBanner}
             /\ banner'[b].status = banner[b].status
             /\ banner'[b].promotion = IF banner[b].promotion = n THEN 0
                                       ELSE banner[b].promotion
  <2>1. banner'[b] = [banner[b] EXCEPT !.promotion = IF @ = n THEN 0 ELSE @]
    BY <1>1
  <2>2. CASE banner[b] \in B!Rows
    BY <2>1, <2>2, PromotionsAssumption DEF B!Rows
  <2>3. CASE banner[b] = B!NoBanner
    BY <2>1, <2>3, PromotionsAssumption DEF B!NoBanner
  <2> QED BY <2>2, <2>3 DEF B!IInv, B!TypeOK
<1>3. B!TypeOK'
  <2>1. banner' \in [Banners -> B!Rows \cup {B!NoBanner}]
    BY <1>1, <1>2
  <2>2. removed' \in SUBSET (1..MostPromotions)
    BY <1>1 DEF B!IInv, B!TypeOK
  <2> QED BY <1>1, <2>1, <2>2 DEF B!IInv, B!TypeOK
<1>4. \A b \in Banners : B!Agrees(b) => B!Agrees(b)'
  <2> SUFFICES ASSUME NEW b \in Banners, B!Agrees(b) PROVE B!Agrees(b)'
    OBVIOUS
  <2>1. CASE banner[b].status = "published"
    <3>1. PICK k \in 1..MostPromotions :
            /\ made[b] = {k}
            /\ banner[b].promotion = IF k \in removed THEN 0 ELSE k
      BY <2>1 DEF B!Agrees
    <3>2. banner'[b].promotion = IF k \in removed' THEN 0 ELSE k
      BY <1>1, <1>2, <3>1
    <3> QED BY <1>1, <1>2, <2>1, <3>1, <3>2 DEF B!Agrees
  <2>2. CASE banner[b].status # "published"
    BY <1>1, <1>2, <2>2 DEF B!Agrees
  <2> QED BY <2>1, <2>2
<1>5. B!RowsStay' /\ B!OneHolder'
  BY <1>1, <1>2, BannerTaskTypes
  DEF B!IInv, B!RowsStay, B!Exists, B!OneHolder, B!Holders, B!Idle
<1>6. B!ApartIsKnown'
  <2> SUFFICES ASSUME NEW r \in Requests, bannerTask[r] # B!Idle,
                      bannerTask[r].banner \in bannersApart
               PROVE  B!KnowsBanner(bannerTask[r])'
    BY <1>1 DEF B!ApartIsKnown
  <2>1. B!KnowsBanner(bannerTask[r]) /\ bannerTask[r].banner \in Banners
    BY BannerTaskTypes DEF B!IInv, B!ApartIsKnown
  <2>2. PICK b \in Banners : b = bannerTask[r].banner
    BY <2>1
  <2>3. B!Agrees(b) => B!Agrees(b)'
    BY <1>4
  <2> QED BY <1>1, <1>2, <2>1, <2>2, <2>3 DEF B!KnowsBanner
<1>7. B!OnePromotionPerBanner'
  BY <1>1, <1>4 DEF B!IInv, B!TypeOK, B!OnePromotionPerBanner, B!Holders
<1> QED BY <1>3, <1>5, <1>6, <1>7 DEF B!IInv

LEMMA BannersInitially == B!Init => B!IInv
<1> SUFFICES ASSUME B!Init PROVE B!IInv
  OBVIOUS
<1>1. B!TypeOK
  BY PromotionsAssumption DEF B!Init, B!TypeOK, B!Tasks
<1>2. \A r \in Requests : bannerTask[r] = B!Idle /\ B!Idle.kind = "idle"
  BY DEF B!Init, B!Idle
<1>3. \A b \in Banners : /\ made[b] = {} /\ banner[b].status = "none"
                          /\ banner[b].promotion = 0
  BY DEF B!Init, B!NoBanner
<1>4. \A b \in Banners : B!Agrees(b)
  BY <1>3 DEF B!Agrees
<1> QED BY <1>1, <1>2, <1>4
    DEF B!IInv, B!TypeOK, B!RowsStay, B!OneHolder, B!Holders, B!ApartIsKnown,
        B!OnePromotionPerBanner

\* Nothing the invariant speaks of changes.
LEMMA BannersStay ==
  ASSUME B!IInv, UNCHANGED <<banner, made, removed, count, bannerTask, bannersApart>>,
         B!TypeOK'
  PROVE  B!IInv'
<1>1. B!RowsStay' /\ B!OneHolder' /\ B!OnePromotionPerBanner'
  BY DEF B!IInv, B!RowsStay, B!Exists, B!OneHolder, B!Holders,
         B!OnePromotionPerBanner, B!Agrees
<1>2. B!ApartIsKnown'
  BY DEF B!IInv, B!ApartIsKnown, B!KnowsBanner, B!Agrees
<1> QED BY <1>1, <1>2 DEF B!IInv

LEMMA BannersNextKeeps ==
  ASSUME B!IInv, [B!Next]_banners
  PROVE  B!IInv'
<1>1. ASSUME NEW b \in Banners, NEW s \in B!ProductStates,
             B!ProductChanges(b, s)
      PROVE  B!IInv'
  <2>1. B!TypeOK'
    BY <1>1 DEF B!IInv, B!TypeOK, B!ProductChanges
  <2> QED BY <1>1, <2>1, BannersStay DEF B!ProductChanges
<1>2. ASSUME NEW r \in Requests, NEW b \in Banners, B!Submit(r, b)
      PROVE  B!IInv'
  BY <1>2, SubmitKeeps
<1>3. ASSUME NEW r \in Requests, NEW b \in Banners, NEW image \in Images,
             B!UploadFinal(r, b, image)
      PROVE  B!IInv'
  BY <1>3, UploadFinalKeeps
<1>4. ASSUME NEW r \in Requests, NEW b \in Banners,
             NEW verdict \in {"approved", "rejected"}, B!Review(r, b, verdict)
      PROVE  B!IInv'
  BY <1>4, BannerReviewKeeps
<1>5. ASSUME NEW r \in Requests, NEW b \in Banners,
             NEW image \in Images \cup {B!NoImage}, B!Publish(r, b, image)
      PROVE  B!IInv'
  BY <1>5, PublishKeeps
<1>6. ASSUME NEW r \in Requests,
             \/ B!Insert(r) \/ B!CreatePromotion(r) \/ B!Compare(r)
             \/ B!Write(r) \/ B!Fail(r)
      PROVE  B!IInv'
  BY <1>6, BannerInsertKeeps, CreatePromotionKeeps, BannerCompareKeeps,
     WriteKeeps, BannerFailKeeps
<1>7. ASSUME NEW n \in 1..MostPromotions, B!RemovePromotion(n)
      PROVE  B!IInv'
  BY <1>7, RemovePromotionKeeps
<1>8. CASE UNCHANGED banners
  <2>1. B!TypeOK'
    BY <1>8 DEF B!IInv, B!TypeOK, banners
  <2> QED BY <1>8, <2>1, BannersStay DEF banners
<1> QED BY <1>1, <1>2, <1>3, <1>4, <1>5, <1>6, <1>7, <1>8 DEF B!Next

-----------------------------------------------------------------------------
(* Theorems *)

\* The inductive invariant: what is in the table is fresh, and what calm
\* requests hold of it is true.
THEOREM Invariance == Spec => []IInv
<1>1. IInv /\ [Next]_vars => IInv'
  BY NextKeeps, StutterKeeps
<1> QED  BY InitIInv, <1>1, PTL DEF Spec

\* Rows, sessions and requests keep their shapes.
THEOREM TypeCorrect == Spec => []TypeOK
<1>1. IInv => TypeOK
  BY DEF IInv
<1> QED  BY Invariance, <1>1, PTL

\* No session and no link comes back that a newer password or link replaced.
THEOREM ReplacedStays == Spec => []ReplacedStaysReplaced
<1>1. IInv => ReplacedStaysReplaced
  <2> SUFFICES ASSUME IInv PROVE ReplacedStaysReplaced
    OBVIOUS
  <2>1. \A s \in sessions : s.merchant \in Merchants
    BY DEF IInv, TypeOK, Sessions
  <2> QED
    BY <2>1 DEF IInv, HashesAreFresh, LinksAreFresh, ReplacedStaysReplaced,
                IsValid
<1> QED  BY Invariance, <1>1, PTL

\* An email is one merchant's where no two requests write emails at once.
THEOREM EmailFindsOne == Spec => []EmailFindsOneAccount
<1>1. IInv => EmailFindsOneAccount
  BY DEF IInv
<1> QED  BY Invariance, <1>1, PTL

\* A link sets one password, while it is the link of an approved merchant.
THEOREM LinkIsSpentOnce == Spec => LinkSetsPasswordOnce
<1>1. ASSUME IInv, [Next]_vars, NEW r \in Requests,
             task[r].kind = "activate", hashes' # hashes, task'[r] = Idle
      PROVE  task[r].link \notin spent /\ Approved(task[r].merchant)
  <2>1. task[r] # Idle
    BY <1>1 DEF Idle
  <2>2. PICK q \in Requests : Redeem(q) \/ StorePassword(q)
    BY <1>1 DEF Next, vars, tables, Begin, Register, CreateActivation, Review,
                Activate, SetPassword, Authenticate, Insert, Compare,
                SaveReview, Issue, Login, Fail, Expire
  <2>3. q = r
    BY <1>1, <2>1, <2>2 DEF Redeem, StorePassword, NewPassword, IInv, TypeOK
  <2>4. Redeem(r)
    BY <1>1, <2>2, <2>3 DEF StorePassword
  <2>5. task[r].merchant \in Merchants
    BY <1>1, <2>4, KindTypes DEF IInv, Redeem
  <2> QED  BY <1>1, <2>4, <2>5 DEF Redeem, IsOpen, IInv, LinksAreFresh
<1>2. IInv /\ [Next]_vars => [ActivationIsTimely]_vars
  BY <1>1 DEF ActivationIsTimely
<1> QED  BY Invariance, <1>2, PTL DEF Spec, LinkSetsPasswordOnce

\* However reviews, uploads and publications of a banner and deletions of its
\* promotion follow one another, one promotion at most is ever made of it, and its
\* row names that one until it is deleted.
THEOREM OneBannerOnePromotion == PartnersSpec => []OnePromotionPerBanner
<1>1. PartnersInit => B!IInv
  BY BannersInitially DEF PartnersInit
<1>2. B!IInv /\ [PartnersNext]_everything => B!IInv'
  BY BannersNextKeeps DEF PartnersNext, everything
<1>3. B!IInv => OnePromotionPerBanner
  BY DEF B!IInv, OnePromotionPerBanner
<1> QED BY <1>1, <1>2, <1>3, PTL DEF PartnersSpec

-----------------------------------------------------------------------------
(* Products: what MerchantProductsProofs shows of them, on the site *)

\* The instance whose theorems are used; its definitions are those of P.
MP == INSTANCE MerchantProductsProofs
        WITH row <- productRow, task <- productTask

\* What happens to products on the site is what MerchantProducts allows.
LEMMA ProductsBehave == PartnersSpec => MP!Spec
<1>1. P!Init => MP!Init
  BY DEF P!Init, MP!Init, P!NoRow, MP!NoRow, P!Idle, MP!Idle,
         P!Contents, MP!Contents
<1>2. P!Next => MP!Next
  BY DEF P!Next, MP!Next, P!Submit, MP!Submit, P!Update, MP!Update,
         P!Approve, MP!Approve, P!Reject, MP!Reject,
         P!AdminUpdate, MP!AdminUpdate, P!Takes, MP!Takes,
         P!Disturbs, MP!Disturbs, P!Held, MP!Held, P!Holds, MP!Holds,
         P!Edited, MP!Edited, P!Staged, MP!Staged,
         P!Approved, MP!Approved, P!Rejected, MP!Rejected,
         P!Promoted, MP!Promoted, P!Exists, MP!Exists,
         P!IsLive, MP!IsLive, P!Compare, MP!Compare,
         P!Differing, MP!Differing, P!Columns, MP!Columns,
         P!Write, MP!Write, P!Merged, MP!Merged, P!Vouches, MP!Vouches,
         P!Fail, MP!Fail, P!Idle, MP!Idle, P!NoRow, MP!NoRow,
         P!Contents, MP!Contents
<1>3. PartnersInit => MP!Init
  BY <1>1 DEF PartnersInit
<1>4. [PartnersNext]_everything => [MP!Next]_(MP!vars)
  BY <1>2 DEF PartnersNext, everything, products, MP!vars
<1> QED BY <1>3, <1>4, PTL DEF PartnersSpec, MP!Spec

\* However requests overlap, no product is sold that was never approved.
THEOREM OnlyApprovedSold == PartnersSpec => []SoldWasApproved
<1>1. MP!Spec => []MP!SoldWasApproved
  BY MP!SoldWereApproved, NoEditAssumption, PatchesAssumption,
     ValuesAssumption, ProductsAssumption, FieldsAssumption, PTL
     DEF MP!Edits, MP!Contents, Edits, Contents
<1>2. MP!SoldWasApproved => SoldWasApproved
  BY DEF SoldWasApproved, P!SoldWasApproved, MP!SoldWasApproved,
         P!Sold, MP!Sold, P!IsLive, MP!IsLive
<1> QED BY <1>1, <1>2, ProductsBehave, PTL

\* What is sold of an orderly product is what an admin approved or wrote.
THEOREM ReviewedIsSold == PartnersSpec => []SoldIsReviewed
<1>1. MP!Spec => []MP!SoldIsReviewed
  BY MP!SoldAreReviewed, NoEditAssumption, PatchesAssumption,
     ValuesAssumption, ProductsAssumption, FieldsAssumption, PTL
     DEF MP!Edits, MP!Contents, Edits, Contents
<1>2. MP!SoldIsReviewed => SoldIsReviewed
  BY DEF SoldIsReviewed, P!SoldIsReviewed, MP!SoldIsReviewed,
         P!Sold, MP!Sold, P!IsLive, MP!IsLive
<1> QED BY <1>1, <1>2, ProductsBehave, PTL

\* No write of a merchant disturbs the sale of an orderly product.
THEOREM LiveStaysOnSale == PartnersSpec => StaysLive
<1>1. MP!Spec => MP!StaysLive
  BY MP!LiveStaysLive, NoEditAssumption, PatchesAssumption,
     ValuesAssumption, ProductsAssumption, FieldsAssumption, PTL
     DEF MP!Edits, MP!Contents, Edits, Contents
<1>2. MP!StaysLive => StaysLive
  BY PTL DEF StaysLive, P!StaysLive, MP!StaysLive, P!vars, MP!vars,
         P!Holds, MP!Holds, P!Sold, MP!Sold, P!IsLive, MP!IsLive
<1> QED BY <1>1, <1>2, ProductsBehave, PTL
=============================================================================
