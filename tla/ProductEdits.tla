----------------------------- MODULE ProductEdits -----------------------------
(***************************************************************************)
(* What a merchant's product is made of, and what an edit of it says.  The  *)
(* columns an edit can name are the Fields; margin goes with them.          *)
(***************************************************************************)

CONSTANTS
  Products,
  Fields,   \* what an edit may change: name, basePrice, ...
  Values,   \* of a field
  Patches,  \* bound: the edits that are sent
  First,    \* bound: the contents that are submitted
  NoEdit    \* the null of merchant_pending_update_json

Contents == [Fields -> Values]

\* A PATCH names some fields; one that names none is an edit too.
Edits == UNION {[F -> Values] : F \in SUBSET Fields}

ASSUME NoEditAssumption == NoEdit \notin Edits
ASSUME PatchesAssumption == Patches \subseteq Edits /\ First \subseteq Contents
ASSUME ValuesAssumption == Values # {}
ASSUME ProductsAssumption == Products # {}
ASSUME FieldsAssumption ==
  Fields \cap {"merchantStatus", "isActive", "pendingUpdate"} = {}
=============================================================================
