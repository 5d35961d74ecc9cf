\* A unit is returned, then the sale is cancelled.
SPECIFICATION Spec
CONSTANTS
  st1 = st1  st2 = st2  v1 = v1  s1 = s1  s2 = s2  l1 = l1  l2 = l2  c1 = c1
  Stores = {st1}
  Variants = {v1}
  Rows <- OneRow
  Manual = Manual
  Sales = {s1}
  References <- ManualAndSales
  InitialQuantity <- StockOf2
  Units = {1, 2}
  MaxQuantity = 0
  Lines = {l1}
  Customers = {c1}
  NoSale = NoSale  NoCustomer = NoCustomer  NoStore = NoStore  NoVariant = NoVariant
  Prices = {5}
  Discounts = {0, 1}
  TaxRates = {0, 10}
  Amounts = {5, 6}
  RequestStatuses = {"PENDING"}
SYMMETRY SaleSymmetry
INVARIANTS
  CancelRestoresOnce
