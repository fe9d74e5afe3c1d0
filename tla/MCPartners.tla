------------------------------ MODULE MCPartners ------------------------------
(* Small instances of Partners. *)
EXTENDS Partners, TLC

CONSTANTS r1, r2, m1, m2, e1, e2, b1, i1, i2, p1

Renamings ==
  Permutations(Requests) \cup Permutations(Merchants) \cup Permutations(Emails)
  \cup Permutations(Images)

\* The name goes back and forth, the price stays.
Renames == {[f \in {"name"} |-> v] : v \in Values}

AllOnes == {[f \in Fields |-> 1]}
=============================================================================
