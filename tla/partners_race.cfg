\* Merchants and admins on two accounts, and on one product; admins on one
\* banner.
SPECIFICATION PartnersSpec
CONSTANTS
  r1 = r1
  r2 = r2
  m1 = m1
  m2 = m2
  e1 = e1
  e2 = e2
  b1 = b1
  i1 = i1
  i2 = i2
  p1 = p1
  Requests = {r1, r2}
  Merchants = {m1, m2}
  Emails = {e1, e2}
  Verdicts = {"approved", "rejected"}
  MostLinks = 2
  MostHashes = 2
  Banners = {b1}
  Images = {i1, i2}
  MostPromotions = 2
  Products = {p1}
  Fields = {"name", "basePrice"}
  Values = {1, 2}
  Patches <- Renames
  First <- AllOnes
  NoEdit = NoEdit
SYMMETRY Renamings
INVARIANTS
  ReplacedStaysReplaced
  EmailFindsOneAccount
  OnePromotionPerBanner
  SoldWasApproved
  SoldIsReviewed
PROPERTIES
  LinkSetsPasswordOnce
  StaysLive
