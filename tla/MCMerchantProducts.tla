-------------------------- MODULE MCMerchantProducts --------------------------
(* A small instance of MerchantProducts. *)
EXTENDS MerchantProducts

CONSTANTS r1, p1

\* Each field is changed by an edit of its own.
OneFieldEach == {[f \in {g} |-> 2] : g \in Fields}

AllOnes == {[f \in Fields |-> 1]}
=============================================================================
