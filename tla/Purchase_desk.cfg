\* Three requests at once, to receive or to pay, for two purchases of one item.
SPECIFICATION Spec
CONSTANTS
  h1 = h1  h2 = h2  h3 = h3  p1 = p1  p2 = p2  k1 = k1  k2 = k2  i1 = i1
  Handlers = {h1, h2, h3}
  Purchases = {p1, p2}
  Keys = {k1, k2}
  Items = {i1}
  Ordered <- SmallOrders
  Total <- SmallTotals
  Amounts = {1}
  Units = {1}
  NoPurchase = NoPurchase
  NoRecord = NoRecord
  NoRequest = NoRequest
SYMMETRY Alike
INVARIANTS
  ReceiptsTellStatus
  ReceiptsAreInStock
  PaidWithinTotal
PROPERTIES
  UnallocatedWithinOwed
  KeepsPromise
