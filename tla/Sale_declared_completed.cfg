\* A request calls a sale COMPLETED that nobody paid.
SPECIFICATION Spec
CONSTANTS
  st1 = st1  st2 = st2  v1 = v1  s1 = s1  s2 = s2  l1 = l1  l2 = l2  c1 = c1
  Stores = {st1}
  Variants = {v1}
  Rows <- OneRow
  Manual = Manual
  Sales = {s1}
  References <- ManualAndSales
  InitialQuantity <- StockOf2
  Units = {1}
  MaxQuantity = 0
  Lines = {l1}
  Customers = {}
  NoSale = NoSale  NoCustomer = NoCustomer  NoStore = NoStore  NoVariant = NoVariant
  Prices = {5}
  Discounts = {0}
  TaxRates = {0}
  Amounts = {5}
  RequestStatuses = {"PENDING", "COMPLETED"}
SYMMETRY SaleSymmetry
INVARIANTS
  PendingUntilCovered
