------------------------------ MODULE MCCatalog ------------------------------
(* Small instances of Catalog. *)
EXTENDS Catalog, TLC

CONSTANTS r1, m, s, name

\* Two SKUs of one name: a manual product and the supplier's.
OneName == [p \in Products |-> name]

Row(base, margin, market, status) ==
  [basePrice |-> base, margin |-> margin, market |-> market,
   poStatus |-> status]

\* The policy puts 3000 on 12000 and the market of 12600 allows it 2000.
SomeOffers ==
  [p \in Products |->
     IF p = m THEN {Row(12000, 1000, 12600, "available")}
     ELSE {Row(12000, 1000, 12600, "limited"), Row(5000, 9000, 0, "hidden")}]

FileRow(p, status) == [sku |-> p, basePrice |-> 5000, margin |-> 9000,
                       poStatus |-> status]

SomeFiles == {<<FileRow(m, "available")>>, <<FileRow(s, "hidden")>>,
              <<FileRow(m, "available"), FileRow(s, "available")>>}

\* In stock, out of stock, and not named (a snapshot of other products only).
SomeSnapshots ==
  {[p \in {s} |-> [available |-> TRUE, basePrice |-> 5000, margin |-> Unset]],
   [p \in {s} |-> [available |-> FALSE, basePrice |-> 5000, margin |-> Unset]],
   <<>>}
=============================================================================
