--------------------------- MODULE MerchantAccounts ---------------------------
(***************************************************************************)
(* The accounts of merchants: MerchantsService (registration, review,       *)
(* activation links, passwords, login) and what JwtStrategy makes of a      *)
(* session at each later request.                                           *)
(*                                                                          *)
(* Every hashing, and every read of a row that is used after it, is an      *)
(* await.  Links and password hashes are numbered in the order they are     *)
(* written, for each is new: a link is random and a hash is salted.  What   *)
(* a merchant writes about the business is left out, and so are phones,     *)
(* which are looked up and inserted as emails are.                          *)
(***************************************************************************)
EXTENDS Naturals

CONSTANTS
  Requests,   \* requests in flight
  Merchants,  \* slugs, of which the table has a UNIQUE index
  Emails,
  Verdicts,   \* bound: the statuses that reviews give
  MostLinks,  \* bound: activation links
  MostHashes  \* bound: passwords

MerchantStatus == {"pending", "approved", "rejected"}

ASSUME BoundAssumption ==
  Verdicts \subseteq MerchantStatus /\ MostLinks \in Nat /\ MostHashes \in Nat

VARIABLES
  merchant,  \* the merchants table
  links,     \* links written so far
  hashes,    \* password hashes written so far
  sessions,  \* sessions handed out, each with the hash that stamps it
  task,      \* task[r]: what request r holds across an await
  calm,      \* history: requests since whose first read no email was written
  apart,     \* history: no email was written by a request that was not calm
  spent,     \* history: links used, replaced or overtaken by an admin
  replaced   \* history: hashes that a later password replaced

tables == <<merchant, links, hashes, sessions>>

history == <<calm, apart, spent, replaced>>

vars == <<tables, task, history>>

-----------------------------------------------------------------------------
(* Data *)

\* A row; hash and link are 0 where they are null, and fresh says that
\* activation_expires_at is to come.
Rows ==
  [status : MerchantStatus, email : Emails,
   hash : 0..MostHashes, link : 0..MostLinks, fresh : BOOLEAN]

NoEmail == "none"

NoMerchant == [status |-> "none", email |-> NoEmail,
               hash |-> 0, link |-> 0, fresh |-> FALSE]

Sessions == [merchant : Merchants, hash : 1..MostHashes]

Idle == [kind |-> "idle"]

Tasks ==
  {Idle}
  \cup [kind : {"register", "issue"}, merchant : Merchants, email : Emails]
  \cup [kind : {"activate"}, merchant : Merchants, link : 1..MostLinks]
  \cup [kind : {"set"}, merchant : Merchants]
  \cup [kind : {"login"}, merchant : Merchants, hash : 1..MostHashes]
  \cup [kind : {"review"}, merchant : Merchants, email : Emails,
        status : MerchantStatus]
  \cup [kind : {"save"}, merchant : Merchants, email : Emails,
        status : MerchantStatus, cols : SUBSET {"status", "email"}]

Exists(m) == merchant[m].status # "none"

Approved(m) == merchant[m].status = "approved"

Owners(e) == {m \in Merchants : merchant[m].email = e}

Init ==
  /\ merchant = [m \in Merchants |-> NoMerchant]
  /\ links = 0 /\ hashes = 0 /\ sessions = {}
  /\ task = [r \in Requests |-> Idle]
  /\ calm = {} /\ apart = TRUE /\ spent = {} /\ replaced = {}

\* A request begins: it has read, and holds t.
Begin(r, t) ==
  /\ task[r] = Idle
  /\ task' = [task EXCEPT ![r] = t]
  /\ calm' = calm \cup {r}
  /\ UNCHANGED <<tables, apart, spent, replaced>>

\* r, which ends, has written an email.
EmailWritten(r) ==
  /\ calm' = {}
  /\ apart' = (apart /\ r \in calm)

\* r ends and has written none.
NoEmailWritten(r) ==
  /\ calm' = calm \ {r}
  /\ UNCHANGED apart

-----------------------------------------------------------------------------
(* Registration and review *)

\* register: the email is looked up, and a free slug found ...
Register(r, m, e) ==
  /\ Owners(e) = {}
  /\ ~Exists(m)
  /\ Begin(r, [kind |-> "register", merchant |-> m, email |-> e])

Pending(e) == [status |-> "pending", email |-> e,
               hash |-> 0, link |-> 0, fresh |-> FALSE]

\* ... and the row inserted, unless its slug is taken by now.
Insert(r) ==
  LET t == task[r]
  IN  /\ t.kind = "register"
      /\ ~Exists(t.merchant)
      /\ merchant' = [merchant EXCEPT ![t.merchant] = Pending(t.email)]
      /\ task' = [task EXCEPT ![r] = Idle]
      /\ EmailWritten(r)
      /\ UNCHANGED <<links, hashes, sessions, spent, replaced>>

\* review, to any status: findOne reads all columns but those that select leaves
\* out ...
Review(r, m, verdict) ==
  /\ Exists(m)
  /\ Begin(r, [kind |-> "review", merchant |-> m, email |-> merchant[m].email,
               status |-> verdict])

\* ... save reads the row again ...
Compare(r) ==
  LET t == task[r]
      row == merchant[t.merchant]
  IN  /\ t.kind = "review"
      /\ task' = [task EXCEPT ![r] =
           [kind |-> "save", merchant |-> t.merchant, email |-> t.email,
            status |-> t.status,
            cols |-> (IF row.status # t.status THEN {"status"} ELSE {}) \cup
                     (IF row.email # t.email THEN {"email"} ELSE {})]]
      /\ UNCHANGED <<tables, history>>

\* ... and updates the columns that differ: an email can go back to what it was.
SaveReview(r) ==
  LET t == task[r]
      m == t.merchant
  IN  /\ t.kind = "save"
      /\ merchant' = [merchant EXCEPT
           ![m].status = IF "status" \in t.cols THEN t.status ELSE @,
           ![m].email = IF "email" \in t.cols THEN t.email ELSE @]
      /\ task' = [task EXCEPT ![r] = Idle]
      /\ IF "email" \in t.cols THEN EmailWritten(r) ELSE NoEmailWritten(r)
      /\ UNCHANGED <<links, hashes, sessions, spent, replaced>>

-----------------------------------------------------------------------------
(* Activation links and passwords *)

\* Faulty: an email may be another merchant's.
AnyEmail(m, e) == TRUE

\* findOne returns some row of that email, if there is one.
MayHave(m, e) == Owners(e) = {} \/ m \in Owners(e)

\* createActivation: for an approved merchant, by its email or a new one ...
CreateActivation(r, m, e) ==
  /\ Approved(m)
  /\ MayHave(m, e)
  /\ Begin(r, [kind |-> "issue", merchant |-> m, email |-> e])

\* ... a link is made, and replaces the one there was.
Issue(r) ==
  LET t == task[r]
      m == t.merchant
  IN  /\ t.kind = "issue"
      /\ links < MostLinks
      /\ links' = links + 1
      /\ merchant' = [merchant EXCEPT ![m].email = t.email,
                                      ![m].link = links + 1,
                                      ![m].fresh = TRUE]
      /\ spent' = spent \cup ({merchant[m].link} \ {0})
      /\ task' = [task EXCEPT ![r] = Idle]
      /\ IF merchant[m].email = t.email THEN NoEmailWritten(r)
         ELSE EmailWritten(r)
      /\ UNCHANGED <<hashes, sessions, replaced>>

\* 24 hours pass.
Expire(m) ==
  /\ merchant[m].fresh
  /\ merchant' = [merchant EXCEPT ![m].fresh = FALSE]
  /\ UNCHANGED <<links, hashes, sessions, task, history>>

\* m gets a new password, and its link, if any, is no more.
NewPassword(r, m) ==
  /\ hashes < MostHashes
  /\ hashes' = hashes + 1
  /\ merchant' = [merchant EXCEPT ![m].hash = hashes + 1, ![m].link = 0,
                                  ![m].fresh = FALSE]
  /\ spent' = spent \cup ({merchant[m].link} \ {0})
  /\ replaced' = replaced \cup ({merchant[m].hash} \ {0})
  /\ task' = [task EXCEPT ![r] = Idle]
  /\ NoEmailWritten(r)
  /\ UNCHANGED <<links, sessions>>

\* activate: the row of the link is read, and the password hashed ...
Activate(r, m) ==
  /\ merchant[m].link # 0
  /\ Approved(m)
  /\ merchant[m].fresh
  /\ Begin(r, [kind |-> "activate", merchant |-> m, link |-> merchant[m].link])

\* Faulty: the update goes by the id alone, the link having been checked.
Unconditional(t) == TRUE

\* The conditions of the update.
IsOpen(t) ==
  /\ merchant[t.merchant].link = t.link
  /\ merchant[t.merchant].fresh
  /\ Approved(t.merchant)

\* ... and stored under the conditions it was read under.
Redeem(r) ==
  /\ task[r].kind = "activate"
  /\ IsOpen(task[r])
  /\ NewPassword(r, task[r].merchant)

\* setPassword, by an admin: the row is read, and the password hashed ...
SetPassword(r, m) ==
  /\ Approved(m)
  /\ Begin(r, [kind |-> "set", merchant |-> m])

\* ... and stored, whatever has become of the merchant.
StorePassword(r) ==
  /\ task[r].kind = "set"
  /\ NewPassword(r, task[r].merchant)

-----------------------------------------------------------------------------
(* Sessions *)

\* authenticate: the row is read, and the password checked against its hash ...
Authenticate(r, m) ==
  /\ merchant[m].hash # 0
  /\ Approved(m)
  /\ Begin(r, [kind |-> "login", merchant |-> m, hash |-> merchant[m].hash])

\* ... and the session is stamped with that hash.
Login(r) ==
  LET t == task[r]
  IN  /\ t.kind = "login"
      /\ sessions' = sessions \cup {[merchant |-> t.merchant, hash |-> t.hash]}
      /\ task' = [task EXCEPT ![r] = Idle]
      /\ NoEmailWritten(r)
      /\ UNCHANGED <<merchant, links, hashes, spent, replaced>>

\* Faulty: the claims of a session are believed.
IsSigned(s) == Approved(s.merchant)

\* What validate asks of a session.
IsValid(s) ==
  /\ Approved(s.merchant)
  /\ merchant[s.merchant].hash # 0
  /\ merchant[s.merchant].hash = s.hash

\* A request is refused at its second step, or fails.
Fail(r) ==
  /\ task[r] # Idle
  /\ task' = [task EXCEPT ![r] = Idle]
  /\ NoEmailWritten(r)
  /\ UNCHANGED <<tables, spent, replaced>>

Next ==
  \/ \E r \in Requests, m \in Merchants, e \in Emails :
       Register(r, m, e) \/ CreateActivation(r, m, e)
  \/ \E r \in Requests, m \in Merchants, verdict \in Verdicts :
       Review(r, m, verdict)
  \/ \E r \in Requests, m \in Merchants :
       Activate(r, m) \/ SetPassword(r, m) \/ Authenticate(r, m)
  \/ \E r \in Requests :
       \/ Insert(r) \/ Compare(r) \/ SaveReview(r) \/ Issue(r)
       \/ Redeem(r) \/ StorePassword(r) \/ Login(r) \/ Fail(r)
  \/ \E m \in Merchants : Expire(m)

Spec == Init /\ [][Next]_vars

-----------------------------------------------------------------------------
(* Properties *)

\* Rows, sessions and requests have their shapes.
TypeOK ==
  /\ merchant \in [Merchants -> Rows \cup {NoMerchant}]
  /\ links \in 0..MostLinks
  /\ hashes \in 0..MostHashes
  /\ sessions \subseteq Sessions
  /\ task \in [Requests -> Tasks]
  /\ calm \subseteq Requests /\ apart \in BOOLEAN
  /\ spent \subseteq 1..MostLinks
  /\ replaced \subseteq 1..MostHashes

\* A link sets a password at most once, and not once it was replaced by a newer
\* one or an admin has set a password in the meantime: requests that read it
\* while it was open lose.
ActivationIsTimely ==
  \A r \in Requests :
    /\ task[r].kind = "activate"
    /\ hashes' # hashes
    /\ task'[r] = Idle
    => task[r].link \notin spent /\ Approved(task[r].merchant)

LinkSetsPasswordOnce == [][ActivationIsTimely]_vars

\* What a password change ended stays ended: no session from before it is
\* accepted, whenever it was handed out, and no link it overtook is in the
\* table, whatever rows requests have read before and save after.
ReplacedStaysReplaced ==
  /\ \A s \in sessions : s.hash \in replaced => ~IsValid(s)
  /\ \A m \in Merchants : merchant[m].link \notin spent

\* An email is one merchant's, so that a login finds its account, as long as no
\* request wrote one on top of another's.
EmailFindsOneAccount ==
  apart => \A m, n \in Merchants :
             Exists(m) /\ Exists(n) /\ merchant[m].email = merchant[n].email
             => m = n

-----------------------------------------------------------------------------
(* The inductive invariant *)

TasksAreOfRows ==
  \A r \in Requests :
    task[r].kind \notin {"idle", "register"} => Exists(task[r].merchant)

\* The links in the table were written, each once, and are not spent.
LinksAreFresh ==
  /\ \A l \in spent : l <= links
  /\ \A m \in Merchants :
       merchant[m].link <= links /\ merchant[m].link \notin spent
  /\ \A m, n \in Merchants :
       m # n /\ merchant[m].link = merchant[n].link => merchant[m].link = 0

\* So are the hashes.
HashesAreFresh ==
  /\ \A h \in replaced : h <= hashes
  /\ \A m \in Merchants :
       merchant[m].hash <= hashes /\ merchant[m].hash \notin replaced
  /\ \A m, n \in Merchants :
       m # n /\ merchant[m].hash = merchant[n].hash => merchant[m].hash = 0

\* What a task says of the emails.
ReadHolds(t) ==
  /\ t.kind = "register" => Owners(t.email) = {}
  /\ t.kind = "issue" /\ apart =>
       \A n \in Merchants :
         Exists(n) /\ merchant[n].email = t.email => n = t.merchant
  /\ t.kind = "review" => merchant[t.merchant].email = t.email
  /\ t.kind = "save" => "email" \notin t.cols

\* It holds as long as its request is calm.
CalmReadsHold == \A r \in calm : ReadHolds(task[r])

IInv ==
  /\ TypeOK
  /\ TasksAreOfRows /\ LinksAreFresh /\ HashesAreFresh
  /\ CalmReadsHold /\ EmailFindsOneAccount
=============================================================================
