\* One request at a time, of a merchant or an admin.
SPECIFICATION Spec
CONSTANTS
  r1 = r1
  p1 = p1
  Requests = {r1}
  Products = {p1}
  Fields = {"name", "basePrice"}
  Values = {1, 2}
  Patches <- OneFieldEach
  First <- AllOnes
  NoEdit = NoEdit
INVARIANT
  LiveIsReviewed
