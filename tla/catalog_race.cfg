\* Admins, an import, the pricing policy and the supplier's snapshots on two
\* products of one name.
SPECIFICATION Spec
CONSTANTS
  r1 = r1
  m = m
  s = s
  name = name
  Requests = {r1}
  Products = {m, s}
  Names = {name}
  NameOf <- OneName
  Offers <- SomeOffers
  Files <- SomeFiles
  Snapshots <- SomeSnapshots
INVARIANTS
  TypeOK
  SuppliedWhenSold
  ShownIsTaken
PROPERTIES
  ImportAsPreviewed
  PolicyPricesAreSane
