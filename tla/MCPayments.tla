----------------------------- MODULE MCPayments -----------------------------
(* Small instances of Payments. *)
EXTENDS Payments, TLC

CONSTANTS o1, o2, w1, w2, p1, p2

OneOrder == {o1}
OneBatch == {{o1}}

\* Requests are interchangeable, and so are provider references.
WorkersAndRefs == Permutations(Workers) \cup Permutations(ProvRefs)
=============================================================================
