---------------------------- MODULE BundlePricing ----------------------------
(***************************************************************************)
(* priceBundle: the margin of a bundle, spread over its members so that the *)
(* order lines add up.  Members are a sequence in the order of the bundle;  *)
(* of a member the base price and the quantity count, and quantities are    *)
(* positive.  Money is in cents.                                            *)
(***************************************************************************)
EXTENDS Integers, Sequences, FiniteSets

\* reduce: the sum of a sequence of numbers, from its first to its last.
Sums(f) ==
  LET sum[k \in 0..Len(f)] == IF k = 0 THEN 0 ELSE sum[k - 1] + f[k]
  IN  sum

Total(f) == Sums(f)[Len(f)]

Weight(ms, i) == ms[i].basePrice * ms[i].qty

\* What the purchase of the members costs.
Modal(ms) == Total([i \in DOMAIN ms |-> Weight(ms, i)])

\* A member's proportional share, floored to cents per unit.
FlooredMargin(ms, margin, i) ==
  IF Modal(ms) = 0 THEN 0
  ELSE ((margin * Weight(ms, i)) \div Modal(ms)) \div ms[i].qty

\* What the lines carry, if a unit of member i carries unit[i].
Carried(ms, unit) == Total([i \in DOMAIN ms |-> unit[i] * ms[i].qty])

Floored(ms, margin) == [i \in DOMAIN ms |-> FlooredMargin(ms, margin, i)]

\* What the flooring left behind.
Remainder(ms, margin) == margin - Carried(ms, Floored(ms, margin))

\* The members take turns, the smallest quantity first.
Before(ms, i, j) ==
  \/ ms[i].qty < ms[j].qty
  \/ ms[i].qty = ms[j].qty /\ i < j

Rank(ms, i) == Cardinality({j \in DOMAIN ms : Before(ms, j, i)})

Turns(ms) == [k \in DOMAIN ms |-> CHOOSE i \in DOMAIN ms : Rank(ms, i) = k - 1]

\* A member takes a cent per unit if that much is left.
Takes(ms, i, left) == ms[i].qty <= left

\* h is what is left, and what a unit of each member carries.
Visit(ms, h, i) ==
  IF Takes(ms, i, h.left)
  THEN [left |-> h.left - ms[i].qty, unit |-> [h.unit EXCEPT ![i] = @ + 1]]
  ELSE h

\* The inner loop: every member has its turn.
Round(ms, h) ==
  LET visited[k \in 0..Len(ms)] ==
        IF k = 0 THEN h ELSE Visit(ms, visited[k - 1], Turns(ms)[k])
  IN  visited[Len(ms)]

\* The outer loop.  A round that hands nothing out is the last, and every other
\* one leaves less, so that there are no more rounds than cents.
HandedOut(ms, margin) ==
  LET handed[k \in 0..Remainder(ms, margin)] ==
        IF k = 0
        THEN [left |-> Remainder(ms, margin), unit |-> Floored(ms, margin)]
        ELSE Round(ms, handed[k - 1])
  IN  handed[Remainder(ms, margin)]

\* What a unit of each member carries of the margin.
UnitMargins(ms, margin) == HandedOut(ms, margin).unit

\* The part of the margin that the lines do carry.
RealizedMargin(ms, margin) == Carried(ms, UnitMargins(ms, margin))

\* Faulty: the price has the margin of the bundle and not that of the lines.
ConfiguredPrice(ms, margin) == Modal(ms) + margin

\* The price of the bundle, and nothing for an empty one.
Price(ms, margin) ==
  IF ms = <<>> THEN 0 ELSE Modal(ms) + RealizedMargin(ms, margin)

\* The lines of one bundle in an order.
Lines(ms, margin) ==
  LET unit == UnitMargins(ms, margin)
  IN  [i \in DOMAIN ms |-> [qty |-> ms[i].qty, basePrice |-> ms[i].basePrice,
                            margin |-> unit[i]]]
=============================================================================
