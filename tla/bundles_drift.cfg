\* A bundle is made, and ordered while the catalog changes.
SPECIFICATION Spec
CONSTANTS
  r1 = r1
  r2 = r2
  b1 = b1
  p = p
  q = q
  Requests = {r1}
  Bundles = {b1}
  Products = {p, q}
  Drafts <- SomeDrafts
  Patches <- SomePatches
  Views <- SomeViews
  Profits = {2, 7}
  MostQty = 1
INVARIANT
  PriceNeverDrifts
