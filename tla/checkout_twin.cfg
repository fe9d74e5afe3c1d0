\* One cart, sent again while the first request is being worked on.
SPECIFICATION Spec
CONSTANTS
  r1 = r1
  r2 = r2
  c1 = c1
  c2 = c2
  phone1 = phone1
  Requests = {r1, r2}
  Carts = {c1}
  NoCart = NoCart
  PhoneOf <- OneCart
  MerchantOnly = {}
  Keyless = {}
  DoubleTaps = TRUE
  Padded = 9
  MaxOrders = 2
  MaxDay = 1
  MaxBatch = 1
  MaxPrice = 1
INVARIANT
  OneOrderPerCart
