\* Two requests of one user, with one key or two, for one sale or for two that
\* need the same two goods, of which there are two each.
SPECIFICATION FairSpec
CONSTANTS
  h1 = h1  h2 = h2  k1 = k1  k2 = k2  u1 = u1
  s1 = s1  s2 = s2  r1 = r1  r2 = r2
  NoRecord = NoRecord  NoRow = NoRow
  Handlers = {h1, h2}
  Keys = {k1, k2}
  Users = {u1}
  Sales = {s1, s2}
  Rows = {r1, r2}
  Total <- TotalOf2
  Need <- OneUnitOrTwo
  InitialQuantity <- StockOf2
  Amounts = {1, 2}
  MayWithdraw = {r1}
PROPERTIES
  KeepsPromise
  EveryHandlerEnds
INVARIANTS
  PaidOncePerKey
  OneCheckoutPerSale
  PaymentsWithinTotal
  SuccessIsTrue
