\* One sale with everything that can happen to its price and its money; two
\* sales with everything that can happen to the stock they are sold from.
SPECIFICATION Spec
CONSTANTS
  st1 = st1  st2 = st2  v1 = v1  s1 = s1  s2 = s2  l1 = l1  l2 = l2  c1 = c1
  Stores = {st1, st2}
  Variants = {v1}
  Rows <- TwoStores
  Manual = Manual
  Sales = {s1, s2}
  References <- ManualAndSales
  InitialQuantity <- FirstHolds2
  Units = {1, 2}
  MaxQuantity = 1
  Lines = {l1, l2}
  Customers = {c1}
  NoSale = NoSale  NoCustomer = NoCustomer  NoStore = NoStore  NoVariant = NoVariant
  Prices = {5}
  Discounts = {0, 1}
  TaxRates = {0, 10}
  Amounts = {5, 6}
  RequestStatuses = {"PENDING", "CONFIRMED", "COMPLETED", "CANCELLED"}
SYMMETRY SaleSymmetry
CONSTRAINT InBounds
INVARIANTS
  LedgerExplainsStock
  CompletedIsCovered
  TotalMatchesLines
  MovementsFollowSale
  ReservedUnitsAreThere
PROPERTIES
  SettledIsFinal
