------------------------------- MODULE Delivery -------------------------------
(***************************************************************************)
(* The delivery groups and the calendar they are dated by.  Batches counts  *)
(* weeks where Schedule dates them, so the two share no state here, and a   *)
(* behaviour is one of either; what joins them is that the weeks of Batches *)
(* are distinct codes (CodesAreDistinct) and shifts of one template         *)
(* (NextIsNearest).                                                         *)
(***************************************************************************)
EXTENDS Batches, Schedule

VARIABLE part

\* The other part stands still, in one of its initial states.
DeliveryInit ==
  /\ Init /\ ClockInit
  /\ part \in {"groups", "calendar"}
  /\ part = "groups" => time = CHOOSE t \in Times : TRUE
  /\ part = "calendar" =>
       /\ \A n \in Groups : status[n] = "none"
       /\ sold = {}

DeliveryNext ==
  \/ part = "groups" /\ Next /\ UNCHANGED <<clock, part>>
  \/ part = "calendar" /\ ClockNext /\ UNCHANGED <<vars, part>>

DeliverySpec == DeliveryInit /\ [][DeliveryNext]_<<vars, clock, part>>
=============================================================================
