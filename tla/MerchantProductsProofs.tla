------------------------ MODULE MerchantProductsProofs ------------------------
(* Theorems about MerchantProducts, for any number of products, requests,   *)
(* fields and values.                                                       *)
EXTENDS MerchantProducts, TLAPS

-----------------------------------------------------------------------------
(* The operators on rows *)

LEMMA ContentsExist == \E c \in Contents : TRUE
<1>1. PICK v \in Values : TRUE
  BY ValuesAssumption
<1>2. [f \in Fields |-> v] \in Contents
  BY DEF Contents
<1> QED BY <1>2

LEMMA NoRowType == NoRow \in Rows /\ NoRow.merchantStatus = "none"
  BY ContentsExist DEF NoRow, Rows

\* An edit laid over a content is a content.
LEMMA PromotedType ==
  ASSUME NEW c \in Contents, NEW e \in Edits
  PROVE  Promoted(c, e) \in Contents
<1>1. PICK F \in SUBSET Fields : e \in [F -> Values]
  BY DEF Edits
<1> QED BY <1>1 DEF Promoted, Contents

\* Each handler makes a row of a row.
LEMMA HandlerTypes ==
  ASSUME NEW rw \in Rows, NEW e \in Edits, NEW active \in BOOLEAN
  PROVE  /\ Staged(rw, e) \in Rows
         /\ Edited(rw, e) \in Rows
         /\ Approved(rw) \in Rows
         /\ Rejected(rw) \in Rows
         /\ [rw EXCEPT !.content = Promoted(rw.content, e),
                       !.isActive = active] \in Rows
<1> USE DEF Rows, MerchantProductStatus
<1>1. Promoted(rw.content, e) \in Contents
  BY PromotedType
<1>2. rw.pendingUpdate # NoEdit
        => Promoted(rw.content, rw.pendingUpdate) \in Contents
  BY PromotedType
<1>3. Staged(rw, e) \in Rows
  BY DEF Staged
<1>4. Edited(rw, e) \in Rows
  BY <1>1 DEF Edited
<1>5. Approved(rw) \in Rows
  BY <1>2 DEF Approved
<1>6. Rejected(rw) \in Rows
  BY DEF Rejected
<1> QED BY <1>1, <1>3, <1>4, <1>5, <1>6

\* An update by columns makes a row of two rows.
LEMMA MergedType ==
  ASSUME NEW mem \in Rows, NEW rw \in Rows, NEW cols \in SUBSET Columns
  PROVE  Merged(mem, rw, cols) \in Rows
<1>1. [f \in Fields |-> IF f \in cols THEN mem.content[f]
                        ELSE rw.content[f]] \in Contents
  BY DEF Rows, Contents
<1> QED BY <1>1 DEF Merged, Rows

\* With nobody else writing, save stores the entity.
LEMMA SaveStores ==
  ASSUME NEW mem \in Rows, NEW rw \in Rows
  PROVE  Merged(mem, rw, Differing(mem, rw)) = mem
<1> DEFINE cols == Differing(mem, rw)
           Other == {"merchantStatus", "isActive", "pendingUpdate"}
<1>1. \A c \in Other : c \in cols <=> mem[c] # rw[c]
  BY FieldsAssumption DEF Differing, Columns
<1>2. \A f \in Fields : f \in cols <=> mem.content[f] # rw.content[f]
  BY FieldsAssumption DEF Differing, Columns
<1> HIDE DEF cols
<1>3. [f \in Fields |-> IF f \in cols THEN mem.content[f]
                        ELSE rw.content[f]] = mem.content
  BY <1>2 DEF Rows, Contents
<1>4. \A c \in Other : (IF c \in cols THEN mem[c] ELSE rw[c]) = mem[c]
  BY <1>1
<1>5. /\ mem["merchantStatus"] = mem.merchantStatus
      /\ mem["isActive"] = mem.isActive
      /\ mem["pendingUpdate"] = mem.pendingUpdate
  OBVIOUS
<1>6. mem = [merchantStatus |-> mem.merchantStatus, isActive |-> mem.isActive,
             pendingUpdate |-> mem.pendingUpdate, content |-> mem.content]
  BY DEF Rows
<1> QED BY <1>3, <1>4, <1>5, <1>6 DEF Merged, cols

\* What each handler does to what the invariant speaks of.
LEMMA HandlerFacts ==
  ASSUME NEW rw \in Rows, NEW e \in Edits
  PROVE  /\ Staged(rw, e).merchantStatus = rw.merchantStatus
         /\ Staged(rw, e).isActive = rw.isActive
         /\ Staged(rw, e).content = rw.content
         /\ Edited(rw, e).merchantStatus = "pending"
         /\ Edited(rw, e).pendingUpdate = rw.pendingUpdate
         /\ Approved(rw).pendingUpdate = NoEdit
         /\ Approved(rw).merchantStatus = "approved"
         /\ Rejected(rw).pendingUpdate = NoEdit
         /\ Rejected(rw).content = rw.content
         /\ Rejected(rw).merchantStatus # "none"
         /\ rw.pendingUpdate = NoEdit
              => Rejected(rw).merchantStatus = "rejected"
  BY DEF Rows, Staged, Edited, Approved, Rejected

-----------------------------------------------------------------------------
(* The invariant *)

LEMMA IdleType ==
  Idle \in Tasks /\ Idle.stage = "idle"
<1>1. (CHOOSE q \in Products : TRUE) \in Products
  BY ProductsAssumption
<1> QED BY <1>1, NoRowType DEF Idle, Tasks, Columns

THEOREM Initially == Init => IInv
<1> SUFFICES ASSUME Init PROVE IInv
  OBVIOUS
<1>1. Idle \in Tasks /\ Idle.stage = "idle"
  BY IdleType
<1>2. TypeOK
  BY <1>1, NoRowType DEF Init, TypeOK
<1>3. GrantsAreApproved
  BY <1>1, NoRowType DEF Init, GrantsAreApproved, NoRow
<1>4. ASSUME NEW p \in orderly
      PROVE  /\ RowIsSound(p)
             /\ \A r \in Requests : ~Holds(r, p)
  BY <1>1, <1>4 DEF Init, RowIsSound, NoRow, Holds
<1>5. TasksAreOfRows
  BY <1>1 DEF Init, TasksAreOfRows
<1> QED BY <1>2, <1>3, <1>4, <1>5 DEF IInv

\* A handler keeps the invariant if what it is about to save can go back to an
\* approval, and is sound where nothing disturbs the product.
LEMMA TakesKeeps ==
  ASSUME IInv, NEW r \in Requests, NEW p \in Products,
         NEW by \in {"merchant", "approver", "rejecter", "editor"},
         NEW mem \in Rows,
         Takes(r, p, by, mem),
         mem.merchantStatus # "none",
         by = "approver" => mem.merchantStatus = "approved",
         /\ by # "approver"
         /\ mem.merchantStatus = "approved" \/ mem.pendingUpdate # NoEdit
         => reviewed[p] # {},
         p \in orderly /\ ~Disturbs(p, by, mem) =>
           /\ mem.merchantStatus = "approved" =>
                mem.content \in reviewed[p] \/ by \in {"approver", "editor"}
           /\ mem.pendingUpdate # NoEdit => IsLive(mem)
           /\ by = "merchant" /\ Sold(p)
                => IsLive(mem) /\ mem.content = row[p].content
  PROVE  IInv'
<1> DEFINE t == [stage |-> "save", by |-> by, product |-> p,
                 mem |-> mem, cols |-> {}]
<1>1. /\ t \in Tasks /\ t.stage = "save" /\ t.by = by /\ t.product = p
      /\ t.mem = mem
  BY DEF Tasks, Columns
<1> HIDE DEF t
<1>2. /\ task' = [task EXCEPT ![r] = t]
      /\ row' = row /\ reviewed' = reviewed
      /\ orderly' \subseteq orderly
      /\ p \in orderly' => ~Disturbs(p, by, mem)
  BY DEF Takes, t
<1>3. task' \in [Requests -> Tasks] /\ task'[r] = t
  BY <1>1, <1>2 DEF IInv, TypeOK
<1>4. \A q \in Requests : q # r => task'[q] = task[q]
  BY <1>2 DEF IInv, TypeOK
<1>5. TypeOK'
  BY <1>2, <1>3 DEF IInv, TypeOK
<1>6. GrantsAreApproved'
  <2>1. \A q \in Products :
          row[q]'.merchantStatus = "approved" \/ row[q]'.pendingUpdate # NoEdit
            => reviewed[q]' # {}
    BY <1>2 DEF IInv, GrantsAreApproved
  <2>2. ASSUME NEW q \in Requests,
               /\ task'[q].stage # "idle" /\ task'[q].by # "approver"
               /\ \/ task'[q].mem.merchantStatus = "approved"
                  \/ task'[q].mem.pendingUpdate # NoEdit
        PROVE  reviewed[task'[q].product] # {}
    <3>1. CASE q = r
      BY <2>2, <3>1, <1>1, <1>3
    <3>2. CASE q # r
      BY <2>2, <3>2, <1>4 DEF IInv, GrantsAreApproved
    <3> QED BY <3>1, <3>2
  <2>3. ASSUME NEW q \in Requests,
               task'[q].stage # "idle", task'[q].by = "approver"
        PROVE  task'[q].mem.merchantStatus = "approved"
    <3>1. CASE q = r
      BY <2>3, <3>1, <1>1, <1>3
    <3>2. CASE q # r
      BY <2>3, <3>2, <1>4 DEF IInv, GrantsAreApproved
    <3> QED BY <3>1, <3>2
  <2> QED BY <2>1, <2>2, <2>3, <1>2 DEF GrantsAreApproved
<1>7. TasksAreOfRows'
  <2>1. row[p].merchantStatus # "none"
    BY DEF Takes, Exists
  <2>2. ASSUME NEW q \in Requests, task'[q].stage # "idle"
        PROVE  /\ task'[q].mem.merchantStatus # "none"
               /\ row[task'[q].product].merchantStatus # "none"
    BY <1>1, <1>3, <1>4, <2>1, <2>2 DEF IInv, TasksAreOfRows, Exists
  <2> QED BY <2>2, <1>2 DEF TasksAreOfRows, Exists
<1>8. ASSUME NEW q \in orderly'
      PROVE  /\ RowIsSound(q)'
             /\ \A s \in Requests :
                  Holds(s, q)' =>
                    /\ TaskIsSound(s, q)'
                    /\ \A u \in Requests : Holds(u, q)' => u = s
  <2>1. q \in orderly /\ RowIsSound(q)'
    BY <1>2, <1>8 DEF IInv, RowIsSound, Sold
  <2>2. ASSUME NEW s \in Requests, Holds(s, q)', s # r
        PROVE  Holds(s, q) /\ q # p /\ TaskIsSound(s, q)'
    <3>1. Holds(s, q)
      BY <2>2, <1>4 DEF Holds
    <3>2. q # p
      BY <3>1, <1>2, <1>8 DEF Disturbs, Held
    <3>3. TaskIsSound(s, q)
      BY <3>1, <2>1 DEF IInv
    <3> QED BY <3>1, <3>2, <3>3, <2>2, <1>2, <1>4
            DEF TaskIsSound, Sold, Vouches
  <2>3. ASSUME Holds(r, q)'
        PROVE  q = p /\ TaskIsSound(r, q)'
    <3>1. q = p
      BY <2>3, <1>1, <1>3 DEF Holds
    <3>2. /\ mem.merchantStatus = "approved" =>
               mem.content \in reviewed[p] \/ by \in {"approver", "editor"}
          /\ mem.pendingUpdate # NoEdit => IsLive(mem)
          /\ by = "merchant" /\ Sold(p)
               => IsLive(mem) /\ mem.content = row[p].content
      BY <3>1, <2>1, <1>2, <1>8
    <3> QED BY <3>1, <3>2, <1>1, <1>2, <1>3 DEF TaskIsSound, Sold, Vouches
  <2>4. ASSUME NEW s \in Requests, Holds(s, q)',
               NEW u \in Requests, Holds(u, q)'
        PROVE  u = s
    <3>1. CASE s = r \/ u = r
      BY <3>1, <2>4, <2>2, <2>3
    <3>2. CASE s # r /\ u # r
      BY <3>2, <2>1, <2>2, <2>4 DEF IInv
    <3> QED BY <3>1, <3>2
  <2> QED BY <2>1, <2>2, <2>3, <2>4
<1> QED BY <1>5, <1>6, <1>7, <1>8 DEF IInv

LEMMA UpdateKeeps ==
  ASSUME IInv, NEW r \in Requests, NEW p \in Products, NEW e \in Edits,
         Update(r, p, e)
  PROVE  IInv'
<1> DEFINE rw == row[p]
           mem == IF IsLive(rw) THEN Staged(rw, e) ELSE Edited(rw, e)
<1>1. rw \in Rows
  BY DEF IInv, TypeOK
<1>2. mem \in Rows
  BY <1>1, HandlerTypes
<1>3. Takes(r, p, "merchant", mem)
  BY DEF Update
<1>4. /\ mem.merchantStatus # "none"
      /\ IsLive(rw) => /\ mem.merchantStatus = "approved" /\ mem.isActive
                       /\ mem.content = rw.content
      /\ ~IsLive(rw) => /\ mem.merchantStatus = "pending"
                        /\ mem.pendingUpdate = rw.pendingUpdate
  BY <1>1, HandlerFacts DEF IsLive
<1> HIDE DEF mem
<1>5. mem.merchantStatus = "approved" \/ mem.pendingUpdate # NoEdit
        => reviewed[p] # {}
  BY <1>4 DEF IInv, GrantsAreApproved, IsLive
<1>6. p \in orderly =>
        /\ mem.merchantStatus = "approved" => mem.content \in reviewed[p]
        /\ mem.pendingUpdate # NoEdit => IsLive(mem)
        /\ Sold(p) => IsLive(mem) /\ mem.content = row[p].content
  BY <1>4 DEF IInv, RowIsSound, IsLive, Sold
<1> QED BY <1>2, <1>3, <1>4, <1>5, <1>6, TakesKeeps

LEMMA ApproveKeeps ==
  ASSUME IInv, NEW r \in Requests, NEW p \in Products, Approve(r, p)
  PROVE  IInv'
<1>1. row[p] \in Rows
  BY DEF IInv, TypeOK
<1>2. PICK e \in Edits : TRUE
  <2>1. [f \in {} |-> f] \in [{} -> Values]
    OBVIOUS
  <2> QED BY <2>1 DEF Edits
<1> DEFINE mem == Approved(row[p])
<1>3. /\ mem \in Rows /\ mem.pendingUpdate = NoEdit
      /\ mem.merchantStatus = "approved"
  BY <1>1, <1>2, HandlerTypes, HandlerFacts
<1>4. Takes(r, p, "approver", mem)
  BY DEF Approve
<1> HIDE DEF mem
<1>5. mem.pendingUpdate # NoEdit => IsLive(mem)
  BY <1>3
<1> QED BY <1>3, <1>4, <1>5, TakesKeeps

LEMMA RejectKeeps ==
  ASSUME IInv, NEW r \in Requests, NEW p \in Products, Reject(r, p)
  PROVE  IInv'
<1> DEFINE mem == Rejected(row[p])
<1>1. row[p] \in Rows
  BY DEF IInv, TypeOK
<1>2. PICK e \in Edits : TRUE
  <2>1. [f \in {} |-> f] \in [{} -> Values]
    OBVIOUS
  <2> QED BY <2>1 DEF Edits
<1>3. /\ mem \in Rows
      /\ mem.pendingUpdate = NoEdit /\ mem.content = row[p].content
      /\ mem.merchantStatus # "none"
      /\ row[p].pendingUpdate = NoEdit => mem.merchantStatus = "rejected"
  BY <1>1, <1>2, HandlerTypes, HandlerFacts
<1>4. Takes(r, p, "rejecter", mem)
  BY DEF Reject
<1> HIDE DEF mem
<1>5. mem.merchantStatus = "approved" => reviewed[p] # {}
  BY <1>3 DEF IInv, GrantsAreApproved
<1>6. p \in orderly /\ mem.merchantStatus = "approved"
        => mem.content \in reviewed[p]
  BY <1>3 DEF IInv, RowIsSound, Sold, IsLive
<1> QED BY <1>3, <1>4, <1>5, <1>6, TakesKeeps

LEMMA AdminUpdateKeeps ==
  ASSUME IInv, NEW r \in Requests, NEW p \in Products, NEW e \in Edits,
         NEW active \in BOOLEAN, AdminUpdate(r, p, e, active)
  PROVE  IInv'
<1> DEFINE mem == [row[p] EXCEPT !.content = Promoted(row[p].content, e),
                                 !.isActive = active]
<1>1. row[p] \in Rows
  BY DEF IInv, TypeOK
<1>2. mem \in Rows
  BY <1>1, HandlerTypes
<1>3. /\ mem.merchantStatus = row[p].merchantStatus
      /\ mem.pendingUpdate = row[p].pendingUpdate
      /\ mem.isActive = active
  BY <1>1 DEF Rows
<1>4. Takes(r, p, "editor", mem) /\ row[p].merchantStatus # "none"
  BY DEF AdminUpdate, Takes, Exists
<1> HIDE DEF mem
<1>5. mem.merchantStatus = "approved" \/ mem.pendingUpdate # NoEdit
        => reviewed[p] # {}
  BY <1>3 DEF IInv, GrantsAreApproved
<1>6. p \in orderly /\ ~Disturbs(p, "editor", mem)
        => (mem.pendingUpdate # NoEdit => IsLive(mem))
  BY <1>3 DEF IInv, RowIsSound, Sold, IsLive, Disturbs
<1> QED BY <1>2, <1>3, <1>4, <1>5, <1>6, TakesKeeps

LEMMA SubmitKeeps ==
  ASSUME IInv, NEW p \in Products, NEW c \in Contents, Submit(p, c)
  PROVE  IInv'
<1> DEFINE rw == [merchantStatus |-> "pending", isActive |-> FALSE,
                  pendingUpdate |-> NoEdit, content |-> c]
<1>1. /\ rw \in Rows
      /\ rw.merchantStatus = "pending" /\ rw.pendingUpdate = NoEdit
  BY DEF Rows, MerchantProductStatus
<1> HIDE DEF rw
<1>2. /\ row' = [row EXCEPT ![p] = rw]
      /\ UNCHANGED <<task, reviewed, orderly>>
      /\ row[p].merchantStatus = "none"
  BY DEF Submit, Exists, rw
<1>3. /\ row' \in [Products -> Rows] /\ row'[p] = rw
      /\ \A q \in Products : q # p => row'[q] = row[q]
  BY <1>1, <1>2 DEF IInv, TypeOK
<1>4. TypeOK'
  BY <1>2, <1>3 DEF IInv, TypeOK
<1>5. GrantsAreApproved'
  BY <1>1, <1>2, <1>3 DEF IInv, GrantsAreApproved
<1>6. ASSUME NEW q \in orderly'
      PROVE  /\ RowIsSound(q)'
             /\ \A r \in Requests :
                  Holds(r, q)' =>
                    /\ TaskIsSound(r, q)'
                    /\ \A u \in Requests : Holds(u, q)' => u = r
  <2>1. q \in orderly /\ q \in Products
    BY <1>2, <1>6 DEF IInv, TypeOK
  <2>2. RowIsSound(q)'
    <3>1. CASE q = p
      BY <3>1, <1>1, <1>3 DEF RowIsSound
    <3>2. CASE q # p
      BY <3>2, <2>1, <1>2, <1>3 DEF IInv, RowIsSound, Sold
    <3> QED BY <3>1, <3>2
  <2>3. ASSUME NEW r \in Requests, Holds(r, q)'
        PROVE  /\ TaskIsSound(r, q)'
               /\ \A u \in Requests : Holds(u, q)' => u = r
    <3>1. Holds(r, q) /\ \A u \in Requests : Holds(u, q)' <=> Holds(u, q)
      BY <2>3, <1>2 DEF Holds
    <3>2. q # p
      BY <3>1, <1>2 DEF IInv, TasksAreOfRows, Holds, Exists
    <3>3. TaskIsSound(r, q)
      BY <3>1, <2>1 DEF IInv
    <3>4. TaskIsSound(r, q)'
      BY <3>2, <3>3, <2>1, <1>2, <1>3 DEF TaskIsSound, Sold, Vouches
    <3> QED BY <3>1, <3>4, <2>1 DEF IInv
  <2> QED BY <2>2, <2>3
<1>7. TasksAreOfRows'
  BY <1>1, <1>2, <1>3 DEF IInv, TasksAreOfRows, Exists, TypeOK, Tasks
<1> QED BY <1>4, <1>5, <1>6, <1>7 DEF IInv

\* A request's own progress, without a change of the tables, keeps the
\* invariant if it ends the request or leaves its soundness.
LEMMA ProgressKeeps ==
  ASSUME IInv, NEW r \in Requests, NEW t \in Tasks,
         task' = [task EXCEPT ![r] = t],
         UNCHANGED <<row, reviewed, orderly>>,
         \/ t.stage = "idle"
         \/ /\ task[r].stage # "idle"
            /\ t.by = task[r].by /\ t.mem = task[r].mem
            /\ t.product = task[r].product
            /\ t.product \in orderly /\ t.stage = "write"
               => Merged(t.mem, row[t.product], t.cols) = t.mem
  PROVE  IInv'
<1>1. task' \in [Requests -> Tasks] /\ task'[r] = t
  BY DEF IInv, TypeOK
<1>2. \A q \in Requests : q # r => task'[q] = task[q]
  BY DEF IInv, TypeOK
<1>3. TypeOK'
  BY <1>1 DEF IInv, TypeOK
<1>4. \A q \in Requests : task'[q].stage # "idle" =>
        /\ task[q].stage # "idle" /\ task'[q].by = task[q].by
        /\ task'[q].mem = task[q].mem /\ task'[q].product = task[q].product
  BY <1>1, <1>2
<1>5. GrantsAreApproved'
  BY <1>4 DEF IInv, GrantsAreApproved
<1>6. TasksAreOfRows'
  BY <1>4 DEF IInv, TasksAreOfRows, Exists
<1>7. ASSUME NEW p \in orderly'
      PROVE  /\ RowIsSound(p)'
             /\ \A s \in Requests :
                  Holds(s, p)' =>
                    /\ TaskIsSound(s, p)'
                    /\ \A u \in Requests : Holds(u, p)' => u = s
  <2>1. p \in orderly /\ RowIsSound(p)'
    BY <1>7 DEF IInv, RowIsSound, Sold
  <2>2. \A s \in Requests : Holds(s, p)' => Holds(s, p)
    BY <1>4 DEF Holds
  <2>3. ASSUME NEW s \in Requests, Holds(s, p)'
        PROVE  TaskIsSound(s, p)'
    <3>1. TaskIsSound(s, p)
      BY <2>1, <2>2, <2>3 DEF IInv
    <3>2. task'[s].stage = "write"
            => Merged(task'[s].mem, row[p], task'[s].cols) = task'[s].mem
      <4>1. CASE s = r
        BY <4>1, <2>1, <2>3, <1>1 DEF Holds
      <4>2. CASE s # r
        BY <4>2, <3>1, <1>2 DEF TaskIsSound
      <4> QED BY <4>1, <4>2
    <3>3. /\ task'[s].by = task[s].by /\ task'[s].mem = task[s].mem
      BY <2>3, <1>4 DEF Holds
    <3> QED BY <3>1, <3>2, <3>3 DEF TaskIsSound, Sold, Vouches
  <2> QED BY <2>1, <2>2, <2>3 DEF IInv
<1> QED BY <1>3, <1>5, <1>6, <1>7 DEF IInv

LEMMA CompareKeeps ==
  ASSUME IInv, NEW r \in Requests, Compare(r)
  PROVE  IInv'
<1> DEFINE cols == Differing(task[r].mem, row[task[r].product])
           t == [task[r] EXCEPT !.stage = "write", !.cols = cols]
<1>1. /\ task[r] \in Tasks /\ task[r].mem \in Rows
      /\ row[task[r].product] \in Rows
  BY DEF IInv, TypeOK, Tasks
<1>2. cols \in SUBSET Columns
  BY DEF Differing, Columns
<1>3. Merged(task[r].mem, row[task[r].product], cols) = task[r].mem
  BY <1>1, SaveStores
<1> HIDE DEF cols
<1>4. /\ t \in Tasks /\ t.stage = "write" /\ t.by = task[r].by
      /\ t.mem = task[r].mem /\ t.product = task[r].product /\ t.cols = cols
  BY <1>1, <1>2 DEF Tasks
<1>5. /\ task' = [task EXCEPT ![r] = t]
      /\ task[r].stage # "idle" /\ UNCHANGED <<row, reviewed, orderly>>
  BY <1>1 DEF Compare, cols, IInv, TypeOK
<1> HIDE DEF t
<1> QED BY <1>3, <1>4, <1>5, ProgressKeeps

LEMMA FailKeeps ==
  ASSUME IInv, NEW r \in Requests, Fail(r)
  PROVE  IInv'
<1>1. Idle \in Tasks /\ Idle.stage = "idle"
  BY IdleType
<1> QED BY <1>1, ProgressKeeps DEF Fail

LEMMA WriteKeeps ==
  ASSUME IInv, NEW r \in Requests, Write(r)
  PROVE  IInv'
<1> DEFINE t == task[r]
           p == t.product
           rw == Merged(t.mem, row[p], t.cols)
<1>1. /\ t \in Tasks /\ t.stage = "write" /\ p \in Products /\ t.mem \in Rows
      /\ row[p] \in Rows /\ t.cols \in SUBSET Columns
  BY DEF IInv, TypeOK, Tasks, Write
<1>2. /\ rw \in Rows
      /\ rw.merchantStatus \in {t.mem.merchantStatus, row[p].merchantStatus}
      /\ rw.pendingUpdate \in {t.mem.pendingUpdate, row[p].pendingUpdate}
  <2>1. rw \in Rows
    BY <1>1, MergedType
  <2> QED BY <2>1 DEF Merged
<1>3. Holds(r, p)
  BY <1>1 DEF Holds
<1>4. p \in orderly => rw = t.mem
  BY <1>1, <1>3 DEF IInv, TaskIsSound
<1>5. Idle \in Tasks /\ Idle.stage = "idle"
  BY IdleType
<1>6. /\ row' = [row EXCEPT ![p] = rw]
      /\ reviewed' = [reviewed EXCEPT ![p] =
                        IF Vouches(t) THEN reviewed[p] \cup {t.mem.content}
                        ELSE reviewed[p]]
      /\ task' = [task EXCEPT ![r] = Idle]
      /\ orderly' = orderly
  BY DEF Write
<1> HIDE DEF rw
<1>7. /\ row' \in [Products -> Rows] /\ row'[p] = rw
      /\ \A q \in Products : q # p => row'[q] = row[q]
  BY <1>1, <1>2, <1>6 DEF IInv, TypeOK
<1>8. /\ reviewed' \in [Products -> SUBSET Contents]
      /\ \A q \in Products : reviewed[q] \subseteq reviewed'[q]
      /\ \A q \in Products : q # p => reviewed'[q] = reviewed[q]
      /\ Vouches(t) => t.mem.content \in reviewed'[p]
  <2>1. t.mem.content \in Contents
    BY <1>1 DEF Rows
  <2>2. reviewed \in [Products -> SUBSET Contents]
    BY DEF IInv, TypeOK
  <2> HIDE DEF t
  <2> QED BY <2>1, <2>2, <1>1, <1>6
<1>9. /\ task' \in [Requests -> Tasks] /\ task'[r] = Idle
      /\ \A q \in Requests : task'[q].stage # "idle"
           => q # r /\ task'[q] = task[q] /\ task[q].product \in Products
  BY <1>5, <1>6 DEF IInv, TypeOK, Tasks
<1>10. TypeOK'
  BY <1>6, <1>7, <1>8, <1>9 DEF IInv, TypeOK
<1>11. GrantsAreApproved'
  <2>1. rw.merchantStatus = "approved" \/ rw.pendingUpdate # NoEdit
          => reviewed'[p] # {}
    <3>1. CASE row[p].merchantStatus = "approved" \/ row[p].pendingUpdate # NoEdit
      BY <3>1, <1>1, <1>8 DEF IInv, GrantsAreApproved
    <3>2. CASE t.by = "approver"
      BY <3>2, <1>1, <1>8 DEF IInv, GrantsAreApproved, Vouches
    <3>3. CASE /\ t.by # "approver"
               /\ \/ t.mem.merchantStatus = "approved"
                  \/ t.mem.pendingUpdate # NoEdit
      BY <3>3, <1>1, <1>8 DEF IInv, GrantsAreApproved
    <3> QED BY <3>1, <3>2, <3>3, <1>2
  <2>2. ASSUME NEW q \in Products,
               row'[q].merchantStatus = "approved"
                 \/ row'[q].pendingUpdate # NoEdit
        PROVE  reviewed'[q] # {}
    <3>1. CASE q = p
      BY <3>1, <2>1, <2>2, <1>7
    <3>2. CASE q # p
      BY <3>2, <2>2, <1>7, <1>8 DEF IInv, GrantsAreApproved
    <3> QED BY <3>1, <3>2
  <2>3. ASSUME NEW q \in Requests, task'[q].stage # "idle"
        PROVE  /\ task'[q].by # "approver"
                  /\ \/ task'[q].mem.merchantStatus = "approved"
                     \/ task'[q].mem.pendingUpdate # NoEdit
                  => reviewed'[task'[q].product] # {}
               /\ task'[q].by = "approver"
                  => task'[q].mem.merchantStatus = "approved"
    <3>1. task'[q] = task[q] /\ task[q].product \in Products
      BY <2>3, <1>9
    <3> QED BY <3>1, <2>3, <1>8 DEF IInv, GrantsAreApproved
  <2> QED BY <2>2, <2>3 DEF GrantsAreApproved
<1>12. TasksAreOfRows'
  <2>1. rw.merchantStatus # "none"
    BY <1>1, <1>2 DEF IInv, TasksAreOfRows, Exists
  <2> QED BY <2>1, <1>7, <1>9 DEF IInv, TasksAreOfRows, Exists
<1>13. ASSUME NEW q \in orderly'
       PROVE  /\ RowIsSound(q)'
              /\ \A s \in Requests :
                   Holds(s, q)' =>
                     /\ TaskIsSound(s, q)'
                     /\ \A u \in Requests : Holds(u, q)' => u = s
  <2>1. q \in orderly /\ q \in Products /\ RowIsSound(q)
    BY <1>6, <1>13 DEF IInv, TypeOK
  <2>2. RowIsSound(q)'
    <3>1. CASE q # p
      BY <3>1, <2>1, <1>7, <1>8 DEF RowIsSound, Sold
    <3>2. CASE q = p
      <4>1. TaskIsSound(r, q)
        BY <3>2, <2>1, <1>3 DEF IInv
      <4>2. row'[q] = t.mem
        BY <3>2, <2>1, <1>4, <1>7
      <4> QED BY <4>1, <4>2, <3>2, <2>1, <1>8 DEF TaskIsSound, RowIsSound, Sold
    <3> QED BY <3>1, <3>2
  <2>3. ASSUME NEW s \in Requests, Holds(s, q)'
        PROVE  Holds(s, q) /\ q # p /\ TaskIsSound(s, q)'
    <3>1. s # r /\ task'[s] = task[s] /\ Holds(s, q)
      BY <2>3, <1>9 DEF Holds
    <3>2. q # p
      BY <3>1, <2>1, <1>3 DEF IInv
    <3>3. TaskIsSound(s, q)
      BY <3>1, <2>1 DEF IInv
    <3> QED BY <3>1, <3>2, <3>3, <2>1, <1>7, <1>8
            DEF TaskIsSound, Sold, Vouches
  <2>4. ASSUME NEW s \in Requests, Holds(s, q)',
               NEW u \in Requests, Holds(u, q)'
        PROVE  u = s
    BY <2>1, <2>3, <2>4 DEF IInv
  <2> QED BY <2>2, <2>3, <2>4
<1> QED BY <1>10, <1>11, <1>12, <1>13 DEF IInv

LEMMA StutterKeeps == IInv /\ UNCHANGED vars => IInv'
<1> SUFFICES ASSUME IInv, UNCHANGED vars PROVE IInv'
  OBVIOUS
<1>1. UNCHANGED <<row, task, reviewed, orderly>>
  BY DEF vars
<1> QED BY <1>1 DEF IInv, TypeOK, GrantsAreApproved, TasksAreOfRows, RowIsSound,
                    TaskIsSound, Holds, Sold, Exists, Vouches

-----------------------------------------------------------------------------
(* The theorems *)

\* Every step of every request keeps what the properties rest on.
THEOREM Inductive == IInv /\ [Next]_vars => IInv'
<1> SUFFICES ASSUME IInv, [Next]_vars PROVE IInv'
  OBVIOUS
<1> USE PatchesAssumption
<1>1. ASSUME NEW p \in Products, NEW c \in First, Submit(p, c) PROVE IInv'
  BY <1>1, SubmitKeeps
<1>2. ASSUME NEW r \in Requests, NEW p \in Products, NEW e \in Patches,
             Update(r, p, e)
      PROVE  IInv'
  BY <1>2, UpdateKeeps
<1>3. ASSUME NEW r \in Requests, NEW p \in Products, Approve(r, p) PROVE IInv'
  BY <1>3, ApproveKeeps
<1>4. ASSUME NEW r \in Requests, NEW p \in Products, Reject(r, p) PROVE IInv'
  BY <1>4, RejectKeeps
<1>5. ASSUME NEW r \in Requests, NEW p \in Products, NEW e \in Patches,
             NEW active \in BOOLEAN, AdminUpdate(r, p, e, active)
      PROVE  IInv'
  BY <1>5, AdminUpdateKeeps
<1>6. ASSUME NEW r \in Requests, Compare(r) PROVE IInv'
  BY <1>6, CompareKeeps
<1>7. ASSUME NEW r \in Requests, Write(r) PROVE IInv'
  BY <1>7, WriteKeeps
<1>8. ASSUME NEW r \in Requests, Fail(r) PROVE IInv'
  BY <1>8, FailKeeps
<1>9. CASE UNCHANGED vars
  BY <1>9, StutterKeeps
<1> QED BY <1>1, <1>2, <1>3, <1>4, <1>5, <1>6, <1>7, <1>8, <1>9 DEF Next

THEOREM Invariance == Spec => []IInv
<1> QED BY Initially, Inductive, PTL DEF Spec

\* Every row and every task keeps its type.
THEOREM TypeCorrect == Spec => []TypeOK
<1>1. IInv => TypeOK
  BY DEF IInv
<1> QED  BY <1>1, Invariance, PTL

\* However requests overlap, nothing is sold that was never approved.
THEOREM SoldWereApproved == Spec => []SoldWasApproved
<1>1. IInv => SoldWasApproved
  BY DEF IInv, GrantsAreApproved, SoldWasApproved, Sold, IsLive
<1> QED BY <1>1, Invariance, PTL

\* What is sold of an orderly product is what an admin approved or wrote.
THEOREM SoldAreReviewed == Spec => []SoldIsReviewed
<1>1. IInv => SoldIsReviewed
  BY DEF IInv, RowIsSound, SoldIsReviewed, Sold, IsLive
<1> QED BY <1>1, Invariance, PTL

\* No write of a merchant disturbs the sale of an orderly product.
THEOREM LiveStaysLive == Spec => StaysLive
<1> DEFINE Kept ==
      \A r \in Requests, p \in orderly :
        /\ Holds(r, p) /\ task[r].by = "merchant" /\ ~Holds(r, p)'
        /\ Sold(p)
        => Sold(p)' /\ row'[p].content = row[p].content
<1>1. IInv /\ [Next]_vars => [Kept]_vars
  <2> SUFFICES ASSUME IInv, Next,
                      NEW r \in Requests, NEW p \in orderly,
                      Holds(r, p), task[r].by = "merchant", ~Holds(r, p)',
                      Sold(p)
               PROVE  Sold(p)' /\ row'[p].content = row[p].content
    BY DEF vars
  <2>1. p \in Products /\ TaskIsSound(r, p) /\ row[p] \in Rows
    BY DEF IInv, TypeOK
  <2>2. CASE row'[p] = row[p]
    BY <2>2 DEF Sold
  <2>3. ASSUME NEW s \in Requests, Write(s), row'[p] # row[p]
        PROVE  Sold(p)' /\ row'[p].content = row[p].content
    <3>1. /\ task[s].product = p /\ task[s].stage = "write"
          /\ row'[p] = Merged(task[s].mem, row[p], task[s].cols)
      BY <2>1, <2>3 DEF Write, IInv, TypeOK
    <3>2. s = r
      BY <3>1 DEF IInv, Holds
    <3>3. row'[p] = task[r].mem
      BY <3>1, <3>2, <2>1 DEF TaskIsSound
    <3> QED BY <3>3, <2>1 DEF TaskIsSound, Sold
  <2>4. ASSUME NEW q \in Products, NEW c \in First, Submit(q, c)
        PROVE  row'[p] = row[p]
    BY <2>1, <2>4 DEF Submit, Exists, Sold, IsLive, IInv, TypeOK
  <2> QED BY <2>2, <2>3, <2>4
          DEF Next, Update, Approve, Reject, AdminUpdate, Takes, Compare, Fail
<1> QED BY <1>1, Invariance, PTL DEF Spec, StaysLive
=============================================================================
