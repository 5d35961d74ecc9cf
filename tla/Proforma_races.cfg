\* Two requests at once on one proforma of up to two items.
SPECIFICATION Spec
CONSTANTS
  h1 = h1  h2 = h2  l1 = l1  l2 = l2
  Handlers = {h1, h2}
  Lines = {l1, l2}
  Nets = {0, 5}
  TaxRates = {0, 10}
  RequestStatuses = {"DRAFT", "ACCEPTED"}
SYMMETRY Alike
INVARIANTS
  ConvertedOnce
  SalePricedByItsItems
  AgreedTotalIsTheItems
  SoldAsAgreed
