\* Two requests at once for two carts of one customer, past midnight, with
\* fairness.
SPECIFICATION FairSpec
CONSTANTS
  r1 = r1
  r2 = r2
  c1 = c1
  c2 = c2
  phone1 = phone1
  Requests = {r1, r2}
  Carts = {c1, c2}
  NoCart = NoCart
  PhoneOf <- OneCustomer
  MerchantOnly = {c2}
  Keyless = {}
  DoubleTaps = FALSE
  Padded = 9
  MaxOrders = 4
  MaxDay = 2
  MaxBatch = 2
  MaxPrice = 2
INVARIANTS
  OrderNosUnique
  OrderNosDense
  OrdersHaveCustomers
  OneOrderPerCart
PROPERTY
  RequestsEnd
