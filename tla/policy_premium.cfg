\* As catalog_race: a policy run over a price that is near the market's.
SPECIFICATION Spec
CONSTANTS
  r1 = r1
  m = m
  s = s
  name = name
  Requests = {r1}
  Products = {m, s}
  Names = {name}
  NameOf <- OneName
  Offers <- SomeOffers
  Files <- SomeFiles
  Snapshots <- SomeSnapshots
PROPERTY
  PremiumIsLimited
