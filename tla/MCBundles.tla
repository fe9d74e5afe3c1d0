------------------------------ MODULE MCBundles ------------------------------
(* Small instances of Bundles. *)
EXTENDS Bundles, TLC

CONSTANTS r1, r2, b1, p, q

Of(product, qty) == [product |-> product, qty |-> qty]

Draft(content, margin, limit, complete) ==
  [items |-> content, margin |-> margin, maxQty |-> limit,
   complete |-> complete]

\* With and without a member of quantity 1.
SomeDrafts ==
  {Draft(<<Of(q, 2), Of(p, 1)>>, 7, 0, FALSE),
   Draft(<<Of(p, 3), Of(q, 2)>>, 10, 2, TRUE)}

View(published, status, max, base) ==
  [gone |-> FALSE, published |-> published, poStatus |-> status,
   maxQty |-> max, basePrice |-> base, seller |-> "shop"]

SomeViews ==
  (p :> {View(TRUE, "available", 0, 3), View(FALSE, "available", 0, 3),
         [View(TRUE, "limited", 4, 3) EXCEPT !.gone = TRUE]}) @@
  (q :> {View(TRUE, "limited", 3, 5),
         [View(TRUE, "available", 0, 0) EXCEPT !.seller = "unapproved"]})

SomePatches ==
  {"margin" :> 9, "items" :> <<Of(q, 2), Of(p, 1)>>,
   ("isActive" :> FALSE) @@ ("maxQty" :> 1) @@ ("complete" :> TRUE)}

RequestsOnly == Permutations(Requests)
=============================================================================
