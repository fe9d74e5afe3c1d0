----------------------------- MODULE MCDelivery -----------------------------
(* Small instances of Delivery. *)
EXTENDS Delivery, TLC

CONSTANTS r1, r2, p1, p2

Renamings == Permutations(Requests) \cup Permutations(Products)

\* 00:00 in Jakarta is 17:00:00 in UTC, 23:59:59 the second before it.
Midnights == {0, 61199, 61200, 86398, 86399}

\* The schedule of the tests (Monday 00:05 in Jakarta to Wednesday 06:59:59, for
\* Thursday), the default one, and one that is delivered before it closes, in a
\* week of which they give the Monday.
InWeekOf(monday) ==
  {[opensAt |-> monday * DAY - WIB + 300,
    closesAt |-> (monday + 1) * DAY + 86399, deliveryDate |-> monday + 3],
   [opensAt |-> monday * DAY - WIB,
    closesAt |-> (monday + 3) * DAY - WIB - 1, deliveryDate |-> monday + 5],
   [opensAt |-> monday * DAY,
    closesAt |-> (monday + 5) * DAY, deliveryDate |-> monday + 2]}

Configured == InWeekOf(FirstDay + 7)
=============================================================================
