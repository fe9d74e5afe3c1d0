---------------------------- MODULE MerchantBanners ----------------------------
(***************************************************************************)
(* Banners of merchants: MerchantBannersService, by which a merchant        *)
(* submits one and admins replace its image, review and publish it, and     *)
(* PromotionsService.create and remove, by which it reaches the storefront  *)
(* and leaves it.                                                           *)
(*                                                                          *)
(* Each admin request reads the row, changes it in memory and saves it;     *)
(* save reads the row again and updates the columns that differ.  Nothing   *)
(* is done in a transaction: publish can stop between the promotion and     *)
(* the row.  Checks of files and sizes, notes and texts are left out.       *)
(***************************************************************************)
EXTENDS Naturals

CONSTANTS
  Requests,       \* requests in flight
  Banners,        \* submissions, each of a product of its own
  Images,
  MostPromotions  \* bound: promotions that are made, a number

BannerStatus == {"pending", "approved", "rejected", "published"}

VARIABLES
  product,  \* product[b]: what products.findOne finds of the product of b
  banner,   \* the merchant_banner_submissions table
  made,     \* made[b]: the promotions publish has made of b
  removed,  \* promotions that were deleted again
  count,    \* promotions made so far
  task,     \* task[r]: what request r holds across an await
  apart     \* history: banners on which no two requests overlapped and no
            \* publish stopped halfway

vars == <<product, banner, made, removed, count, task, apart>>

-----------------------------------------------------------------------------
(* Data *)

\* Approved and active, or not, or deleted.
ProductStates == {"offered", "withheld", "gone"}

NoImage == "none"

\* promotion is 0 where it is null.
Rows == [status : BannerStatus, final : Images \cup {NoImage},
         promotion : 0..MostPromotions]

Columns == {"status", "final", "promotion"}

NoBanner == [status |-> "none", final |-> NoImage, promotion |-> 0]

Submitted == [NoBanner EXCEPT !.status = "pending"]

Idle == [kind |-> "idle"]

Tasks ==
  {Idle}
  \cup [kind : {"submit"}, banner : Banners]
  \cup [kind : {"publish"}, banner : Banners, mem : Rows]
  \cup [kind : {"save", "write"}, banner : Banners, mem : Rows,
        cols : SUBSET Columns, publishes : BOOLEAN]

Exists(b) == banner[b].status # "none"

\* The requests that hold b.
Holders(b) == {r \in Requests : task[r] # Idle /\ task[r].banner = b}

Init ==
  /\ product \in [Banners -> ProductStates]
  /\ banner = [b \in Banners |-> NoBanner]
  /\ made = [b \in Banners |-> {}] /\ removed = {} /\ count = 0
  /\ task = [r \in Requests |-> Idle]
  /\ apart = Banners

ProductChanges(b, state) ==
  /\ state # product[b]
  /\ product' = [product EXCEPT ![b] = state]
  /\ UNCHANGED <<banner, made, removed, count, task, apart>>

\* A request begins: it has read b, and holds t.
Begin(r, b, t) ==
  /\ task[r] = Idle
  /\ task' = [task EXCEPT ![r] = t]
  /\ apart' = IF Holders(b) = {} THEN apart ELSE apart \ {b}
  /\ UNCHANGED <<product, banner, made, removed, count>>

Saving(b, mem, publishes) ==
  [kind |-> "save", banner |-> b, mem |-> mem, cols |-> {},
   publishes |-> publishes]

-----------------------------------------------------------------------------
(* MerchantBannersService *)

\* submit: the product is looked up, and the file stored ...
Submit(r, b) ==
  /\ ~Exists(b)
  /\ product[b] = "offered"
  /\ Begin(r, b, [kind |-> "submit", banner |-> b])

\* ... before the row is inserted.
Insert(r) ==
  LET b == task[r].banner
  IN  /\ task[r].kind = "submit"
      /\ ~Exists(b)
      /\ banner' = [banner EXCEPT ![b] = Submitted]
      /\ task' = [task EXCEPT ![r] = Idle]
      /\ UNCHANGED <<product, made, removed, count, apart>>

\* uploadFinal, in any status.
UploadFinal(r, b, image) ==
  /\ Exists(b)
  /\ Begin(r, b, Saving(b, [banner[b] EXCEPT !.final = image], FALSE))

\* Faulty: a published banner is reviewed again.
IsReviewable(b) == Exists(b)

MayBeReviewed(b) == Exists(b) /\ banner[b].status # "published"

Review(r, b, verdict) ==
  /\ MayBeReviewed(b)
  /\ Begin(r, b, Saving(b, [banner[b] EXCEPT !.status = verdict], FALSE))

\* publish, with the image of the request or else the one of the row ...
Publish(r, b, image) ==
  /\ banner[b].status = "approved"
  /\ product[b] # "gone"
  /\ image = NoImage => banner[b].final # NoImage
  /\ Begin(r, b,
       [kind |-> "publish", banner |-> b,
        mem |-> [banner[b] EXCEPT !.final = IF image = NoImage THEN @
                                            ELSE image]])

\* ... makes the promotion, and then saves the row.
CreatePromotion(r) ==
  LET t == task[r]
      b == t.banner
  IN  /\ t.kind = "publish"
      /\ count < MostPromotions
      /\ count' = count + 1
      /\ made' = [made EXCEPT ![b] = @ \cup {count + 1}]
      /\ task' = [task EXCEPT ![r] =
           Saving(b, [t.mem EXCEPT !.promotion = count + 1,
                                   !.status = "published"], TRUE)]
      /\ UNCHANGED <<product, banner, removed, apart>>

\* save reads the row again ...
Compare(r) ==
  LET t == task[r]
  IN  /\ t.kind = "save"
      /\ task' = [task EXCEPT
                    ![r].kind = "write",
                    ![r].cols = {c \in Columns :
                                   t.mem[c] # banner[t.banner][c]}]
      /\ UNCHANGED <<product, banner, made, removed, count, apart>>

\* ... and updates the columns that differ; the foreign key refuses a promotion
\* that was deleted meanwhile.
Write(r) ==
  LET t == task[r]
      Column(c) == IF c \in t.cols THEN t.mem[c] ELSE banner[t.banner][c]
  IN  /\ t.kind = "write"
      /\ "promotion" \in t.cols => t.mem.promotion \notin removed
      /\ banner' = [banner EXCEPT ![t.banner] =
                      [status |-> Column("status"), final |-> Column("final"),
                       promotion |-> Column("promotion")]]
      /\ task' = [task EXCEPT ![r] = Idle]
      /\ UNCHANGED <<product, made, removed, count, apart>>

-----------------------------------------------------------------------------
(* PromotionsService.remove, and failures *)

\* The foreign key sets the column null in the rows that name the promotion.
RemovePromotion(n) ==
  /\ n \in (1..count) \ removed
  /\ removed' = removed \cup {n}
  /\ banner' = [b \in Banners |->
                  [banner[b] EXCEPT !.promotion = IF @ = n THEN 0 ELSE @]]
  /\ UNCHANGED <<product, made, count, task, apart>>

\* A request fails, after the promotion if it publishes: nobody removes that.
Fail(r) ==
  LET t == task[r]
  IN  /\ t # Idle
      /\ task' = [task EXCEPT ![r] = Idle]
      /\ apart' = IF t.kind \in {"save", "write"} /\ t.publishes
                  THEN apart \ {t.banner} ELSE apart
      /\ UNCHANGED <<product, banner, made, removed, count>>

Next ==
  \/ \E b \in Banners, state \in ProductStates : ProductChanges(b, state)
  \/ \E r \in Requests, b \in Banners : Submit(r, b)
  \/ \E r \in Requests, b \in Banners, image \in Images : UploadFinal(r, b, image)
  \/ \E r \in Requests, b \in Banners, verdict \in {"approved", "rejected"} :
       Review(r, b, verdict)
  \/ \E r \in Requests, b \in Banners, image \in Images \cup {NoImage} :
       Publish(r, b, image)
  \/ \E r \in Requests :
       \/ Insert(r) \/ CreatePromotion(r) \/ Compare(r) \/ Write(r) \/ Fail(r)
  \/ \E n \in 1..MostPromotions : RemovePromotion(n)

Spec == Init /\ [][Next]_vars

-----------------------------------------------------------------------------
(* Properties *)

\* Rows and requests have their shapes.
TypeOK ==
  /\ product \in [Banners -> ProductStates]
  /\ banner \in [Banners -> Rows \cup {NoBanner}]
  /\ made \in [Banners -> SUBSET (1..MostPromotions)]
  /\ removed \in SUBSET (1..MostPromotions)
  /\ count \in 0..MostPromotions
  /\ task \in [Requests -> Tasks]
  /\ apart \subseteq Banners

\* What was made of b is what its row says: one promotion where it is published,
\* named until it is deleted, and none otherwise.
Agrees(b) ==
  IF banner[b].status = "published"
  THEN \E n \in 1..MostPromotions :
         made[b] = {n} /\ banner[b].promotion = IF n \in removed THEN 0 ELSE n
  ELSE made[b] = {} /\ banner[b].promotion = 0

\* A banner reaches the storefront once: where no two requests on it overlapped
\* and no publish stopped halfway, it is published if and only if a promotion
\* was made of it, one, that its row names until an admin deletes it, whatever
\* reviews, uploads and deletions follow one another.
OnePromotionPerBanner ==
  \A b \in apart : Holders(b) = {} => Agrees(b)

-----------------------------------------------------------------------------
(* The inductive invariant *)

RowsStay ==
  \A r \in Requests :
    task[r].kind \in {"publish", "save", "write"} => Exists(task[r].banner)

OneHolder ==
  \A b \in apart : \A r, s \in Holders(b) : r = s

\* What a request that is alone on its banner knows of it.
KnowsBanner(t) ==
  LET b == t.banner
      row == banner[b]
  IN  /\ t.kind \in {"submit", "publish"} => Agrees(b)
      /\ t.kind = "publish" => row.status = "approved"
      /\ t.kind \in {"save", "write"} =>
           IF t.publishes
           THEN /\ made[b] = {t.mem.promotion} /\ t.mem.promotion # 0
                /\ t.mem.status = "published"
                /\ row.status = "approved" /\ row.promotion = 0
           ELSE /\ Agrees(b)
                /\ \/ t.mem.promotion = row.promotion
                   \/ t.mem.promotion \in removed
                /\ t.mem.status = "published" <=> row.status = "published"
      /\ t.kind = "write" =>
           /\ "status" \in t.cols <=> t.mem.status # row.status
           /\ "promotion" \in t.cols =>
                t.publishes \/ t.mem.promotion \in removed
           /\ t.publishes => "promotion" \in t.cols

ApartIsKnown ==
  \A r \in Requests :
    task[r] # Idle /\ task[r].banner \in apart => KnowsBanner(task[r])

IInv ==
  /\ TypeOK
  /\ RowsStay /\ OneHolder /\ ApartIsKnown
  /\ OnePromotionPerBanner
=============================================================================
