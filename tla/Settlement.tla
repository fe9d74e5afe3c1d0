----------------------------- MODULE Settlement -----------------------------
(***************************************************************************)
(* What the shop promises about one order and its money, with no rows,     *)
(* locks, QR codes, callbacks or retries in it: an order is fulfilled only *)
(* after its payment was recorded, a payment is recorded once, and only    *)
(* when the provider really collected the money.  Payments implements it.  *)
(***************************************************************************)
EXTENDS Naturals

CONSTANT Orders

VARIABLES stage,     \* stage[o]: orders.status
          collected, \* the orders the provider has collected money for
          settled    \* the orders whose payment is recorded as paid

promiseVars == <<stage, collected, settled>>

Stages == {"pending", "confirmed", "sourced", "delivered", "cancelled"}

Fulfilment == {"confirmed", "sourced", "delivered"}

\* orders.admin.service.ts TRANSITIONS: no step is skipped, nothing is resurrected.
Transitions ==
  {<<"pending", "confirmed">>, <<"pending", "cancelled">>,
   <<"confirmed", "sourced">>, <<"confirmed", "cancelled">>,
   <<"sourced", "delivered">>, <<"sourced", "cancelled">>}

PromiseInit ==
  /\ stage = [o \in Orders |-> "pending"]
  /\ collected = {}
  /\ settled = {}

\* The provider collects the money of an order's QR.
Collect(o) ==
  /\ collected' = collected \cup {o}
  /\ UNCHANGED <<stage, settled>>

\* The payment is recorded; an order still waiting for it is confirmed with it.
Settle(o) ==
  /\ o \in collected \ settled
  /\ settled' = settled \cup {o}
  /\ stage' = [stage EXCEPT ![o] = IF @ = "pending" THEN "confirmed" ELSE @]
  /\ UNCHANGED collected

\* The admin moves some orders along one transition, together.
Move(S, from, to) ==
  /\ <<from, to>> \in Transitions
  /\ \A o \in S : stage[o] = from
  /\ to = "confirmed" => S \subseteq settled
  /\ stage' = [o \in Orders |-> IF o \in S THEN to ELSE stage[o]]
  /\ UNCHANGED <<collected, settled>>

PromiseNext ==
  \/ \E o \in Orders : Collect(o) \/ Settle(o)
  \/ \E S \in SUBSET Orders, from, to \in Stages : Move(S, from, to)

PromiseSpec == PromiseInit /\ [][PromiseNext]_promiseVars
=============================================================================
