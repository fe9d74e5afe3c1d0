--------------------------- MODULE MerchantProducts ---------------------------
(***************************************************************************)
(* MerchantProductsService: the merchant submits and edits a product, an    *)
(* admin reviews it; and ProductsService.update, by which an admin edits    *)
(* any product or switches it on and off.                                   *)
(*                                                                          *)
(* Every handler reads the row, changes the entity in memory and saves it.  *)
(* TypeORM's save reads the row again and updates the columns in which the  *)
(* entity differs from it: three steps, no lock and no version between      *)
(* them.  Notes, images, slugs and soft deletion are left out.              *)
(***************************************************************************)
EXTENDS ProductEdits

CONSTANT Requests \* requests of merchants and admins

VARIABLES
  row,      \* row[p]: the products row, of status "none" before submit
  task,     \* task[r]: what request r holds across an await
  reviewed, \* history: the contents an admin has put or left on sale
  orderly   \* history: products no hazard of Disturbs befell

vars == <<row, task, reviewed, orderly>>

-----------------------------------------------------------------------------
(* Data *)

MerchantProductStatus == {"pending", "approved", "rejected"}

Rows ==
  [merchantStatus : MerchantProductStatus \cup {"none"},
   isActive       : BOOLEAN,
   pendingUpdate  : Edits \cup {NoEdit},
   content        : Contents]

Columns == {"merchantStatus", "isActive", "pendingUpdate"} \cup Fields

NoRow == [merchantStatus |-> "none", isActive |-> FALSE,
          pendingUpdate |-> NoEdit, content |-> CHOOSE c \in Contents : TRUE]

Tasks ==
  [stage   : {"idle", "save", "write"},
   by      : {"merchant", "approver", "rejecter", "editor"},
   product : Products,
   mem     : Rows,             \* the entity
   cols    : SUBSET Columns]   \* the columns save found to differ

Idle == [stage |-> "idle", by |-> "merchant",
         product |-> CHOOSE p \in Products : TRUE,
         mem |-> NoRow, cols |-> {}]

Exists(p) == row[p].merchantStatus # "none"

IsLive(rw) == rw.merchantStatus = "approved" /\ rw.isActive

\* What findMerchantCatalog, findOneBySlug and checkout sell.
Sold(p) == IsLive(row[p])

Holds(r, p) == task[r].stage # "idle" /\ task[r].product = p

Held(p) == \E r \in Requests : Holds(r, p)

Init ==
  /\ row = [p \in Products |-> NoRow]
  /\ task = [r \in Requests |-> Idle]
  /\ reviewed = [p \in Products |-> {}]
  /\ orderly = Products

-----------------------------------------------------------------------------
(* The handlers, up to save *)

\* Faulty: the edit replaces the content.
PromotedAlone(c, e) == e

\* An edit laid over a content.
Promoted(c, e) == [f \in Fields |-> IF f \in DOMAIN e THEN e[f] ELSE c[f]]

\* Two hazards end the orderly life of p: a second request has it in memory
\* too, or an admin switches it off while an edit of it waits for review.
Disturbs(p, by, mem) ==
  \/ Held(p)
  \/ by = "editor" /\ mem.pendingUpdate # NoEdit /\ ~mem.isActive

\* Handler r, on behalf of by, goes to save p as mem.
Takes(r, p, by, mem) ==
  /\ task[r].stage = "idle"
  /\ Exists(p)
  /\ task' = [task EXCEPT ![r] = [stage |-> "save", by |-> by, product |-> p,
                                  mem |-> mem, cols |-> {}]]
  /\ orderly' = IF Disturbs(p, by, mem) THEN orderly \ {p} ELSE orderly
  /\ UNCHANGED <<row, reviewed>>

Submit(p, c) ==
  /\ ~Exists(p)
  /\ row' = [row EXCEPT ![p] = [merchantStatus |-> "pending",
                                isActive |-> FALSE,
                                pendingUpdate |-> NoEdit, content |-> c]]
  /\ UNCHANGED <<task, reviewed, orderly>>

\* A product that is not live takes the edit and waits for review.
Edited(rw, e) ==
  [rw EXCEPT !.content = Promoted(rw.content, e),
             !.merchantStatus = "pending", !.isActive = FALSE]

\* Faulty: a second edit takes the product off sale.
StagedOnlyOnce(rw, e) ==
  IF rw.pendingUpdate = NoEdit THEN [rw EXCEPT !.pendingUpdate = e]
  ELSE Edited(rw, e)

\* Of a live product the edit is set aside, replacing an earlier one.
Staged(rw, e) == [rw EXCEPT !.pendingUpdate = e]

Update(r, p, e) ==
  Takes(r, p, "merchant",
        IF IsLive(row[p]) THEN Staged(row[p], e) ELSE Edited(row[p], e))

Approved(rw) ==
  [rw EXCEPT !.merchantStatus = "approved", !.isActive = TRUE,
             !.pendingUpdate = NoEdit,
             !.content = IF rw.pendingUpdate = NoEdit THEN rw.content
                         ELSE Promoted(rw.content, rw.pendingUpdate)]

\* Faulty: what is staged is promoted whatever the verdict.
RejectedPromoted(rw) ==
  IF rw.pendingUpdate = NoEdit
  THEN [rw EXCEPT !.merchantStatus = "rejected", !.isActive = FALSE]
  ELSE Approved(rw)

\* Faulty: every product is taken for one with a staged edit.
RejectedAsStaged(rw) ==
  [rw EXCEPT !.merchantStatus = "approved", !.isActive = TRUE,
             !.pendingUpdate = NoEdit]

\* With an edit staged it is the edit that is rejected.
Rejected(rw) ==
  IF rw.pendingUpdate = NoEdit
  THEN [rw EXCEPT !.merchantStatus = "rejected", !.isActive = FALSE]
  ELSE [rw EXCEPT !.merchantStatus = "approved", !.isActive = TRUE,
                  !.pendingUpdate = NoEdit]

Approve(r, p) == Takes(r, p, "approver", Approved(row[p]))

Reject(r, p) == Takes(r, p, "rejecter", Rejected(row[p]))

\* ProductsService.update: an admin's edit, and the switch.
AdminUpdate(r, p, e, active) ==
  Takes(r, p, "editor",
        [row[p] EXCEPT !.content = Promoted(row[p].content, e),
                       !.isActive = active])

-----------------------------------------------------------------------------
(* save *)

Differing(mem, rw) ==
  {c \in Columns \ Fields : mem[c] # rw[c]}
    \cup {f \in Fields : mem.content[f] # rw.content[f]}

Merged(mem, rw, cols) ==
  LET Column(c) == IF c \in cols THEN mem[c] ELSE rw[c]
  IN  [merchantStatus |-> Column("merchantStatus"),
       isActive       |-> Column("isActive"),
       pendingUpdate  |-> Column("pendingUpdate"),
       content        |-> [f \in Fields |->
                             IF f \in cols THEN mem.content[f]
                             ELSE rw.content[f]]]

Compare(r) ==
  LET t == task[r]
  IN  /\ t.stage = "save"
      /\ task' = [task EXCEPT ![r].stage = "write",
                              ![r].cols = Differing(t.mem, row[t.product])]
      /\ UNCHANGED <<row, reviewed, orderly>>

\* An admin who approves a content, or edits an approved one, answers for it.
Vouches(t) ==
  t.by \in {"approver", "editor"} /\ t.mem.merchantStatus = "approved"

Write(r) ==
  LET t == task[r]
      p == t.product
  IN  /\ t.stage = "write"
      /\ row' = [row EXCEPT ![p] = Merged(t.mem, row[p], t.cols)]
      /\ reviewed' = [reviewed EXCEPT ![p] =
                        IF Vouches(t) THEN @ \cup {t.mem.content} ELSE @]
      /\ task' = [task EXCEPT ![r] = Idle]
      /\ UNCHANGED orderly

\* A statement fails, or the process dies: nothing was written.
Fail(r) ==
  /\ task[r].stage # "idle"
  /\ task' = [task EXCEPT ![r] = Idle]
  /\ UNCHANGED <<row, reviewed, orderly>>

Next ==
  \/ \E p \in Products, c \in First : Submit(p, c)
  \/ \E r \in Requests, p \in Products, e \in Patches : Update(r, p, e)
  \/ \E r \in Requests, p \in Products : Approve(r, p) \/ Reject(r, p)
  \/ \E r \in Requests, p \in Products, e \in Patches, active \in BOOLEAN :
       AdminUpdate(r, p, e, active)
  \/ \E r \in Requests : Compare(r) \/ Write(r) \/ Fail(r)

Spec == Init /\ [][Next]_vars

-----------------------------------------------------------------------------
(* Properties *)

\* The rows and what requests hold of them have the shape of the tables.
TypeOK ==
  /\ row \in [Products -> Rows]
  /\ task \in [Requests -> Tasks]
  /\ reviewed \in [Products -> SUBSET Contents]
  /\ orderly \subseteq Products

\* However merchants and admins overlap, nothing is on sale that no review ever
\* approved: the status a save carries back from memory was once granted.
SoldWasApproved == \A p \in Products : Sold(p) => reviewed[p] # {}

\* What is on sale is, to the field, what an admin approved or wrote, through
\* any sequence of staged edits, rejections, switches and failures, as long as
\* requests do not overlap and none switches it off with an edit staged.
SoldIsReviewed ==
  \A p \in orderly : Sold(p) => row[p].content \in reviewed[p]

\* "Approved products stay live with the last approved data while the edit
\* waits for review": no write of a merchant takes an orderly product off sale
\* or changes what is sold.
StaysLive ==
  [][\A r \in Requests, p \in orderly :
       /\ Holds(r, p) /\ task[r].by = "merchant" /\ ~Holds(r, p)'
       /\ Sold(p)
       => Sold(p)' /\ row'[p].content = row[p].content]_vars

\* What the comment on review promises of every product: "keep current live
\* data on reject, atomically promote staged data on approve".
LiveIsReviewed ==
  \A p \in Products : Sold(p) => row[p].content \in reviewed[p]

-----------------------------------------------------------------------------
(* The inductive invariant *)

\* Whatever grants a product its sale, in the table or in memory, goes back to
\* an approval.
GrantsAreApproved ==
  /\ \A p \in Products :
       row[p].merchantStatus = "approved" \/ row[p].pendingUpdate # NoEdit
         => reviewed[p] # {}
  /\ \A r \in Requests :
       /\ task[r].stage # "idle" /\ task[r].by # "approver"
       /\ \/ task[r].mem.merchantStatus = "approved"
          \/ task[r].mem.pendingUpdate # NoEdit
       => reviewed[task[r].product] # {}
  /\ \A r \in Requests :
       task[r].stage # "idle" /\ task[r].by = "approver"
         => task[r].mem.merchantStatus = "approved"

\* What is in memory was read of a row that exists, and goes back there.
TasksAreOfRows ==
  \A r \in Requests :
    task[r].stage # "idle" =>
      task[r].mem.merchantStatus # "none" /\ Exists(task[r].product)

\* An approved row carries a reviewed content, and only a live one an edit.
RowIsSound(p) ==
  /\ row[p].merchantStatus = "approved" => row[p].content \in reviewed[p]
  /\ row[p].pendingUpdate # NoEdit => Sold(p)

\* What the only request on p is about to write is sound as well, and if it is
\* the merchant's it leaves a product on sale as it is.
TaskIsSound(r, p) ==
  LET t == task[r]
  IN  /\ t.stage = "write" => Merged(t.mem, row[p], t.cols) = t.mem
      /\ t.mem.merchantStatus = "approved"
           => t.mem.content \in reviewed[p] \/ Vouches(t)
      /\ t.mem.pendingUpdate # NoEdit => IsLive(t.mem)
      /\ t.by = "merchant" /\ Sold(p)
           => IsLive(t.mem) /\ t.mem.content = row[p].content

IInv ==
  /\ TypeOK
  /\ GrantsAreApproved
  /\ TasksAreOfRows
  /\ \A p \in orderly :
       /\ RowIsSound(p)
       /\ \A r \in Requests :
            Holds(r, p) =>
              /\ TaskIsSound(r, p)
              /\ \A q \in Requests : Holds(q, p) => q = r
=============================================================================
