\* A sale of two lines, returned in up to three returns; with prices in whole
\* units, two returns of two sales, refunded out of the payments of each.
SPECIFICATION MCSpec
CONSTANTS
  s1 = s1  s2 = s2  p1 = p1  p2 = p2  p3 = p3  t1 = t1  t2 = t2  t3 = t3
  k1 = k1  k2 = k2  k3 = k3  note = note
  NoReference = NoReference  NoReturn = NoReturn  NoRefund = NoRefund
  Sales = {s1, s2}
  Lines = {1, 2, 3}
  Payments = {p1, p2, p3}
  Returns = {t1, t2, t3}
  Keys = {k1, k2, k3}
  SaleOf <- LinesOfTwo
  PaymentOf <- TwoPayOne
  Nets = {0, 4, 5, 7}
  Quantities = {1, 3}
  Taxes = {0, 1, 2}
  PaidAmounts = {1, 4, 8}
  Baskets <- OfOneSale
  RefundAmounts = {2, 6}
  References = {note}
SYMMETRY KeySymmetry
CONSTRAINT InBounds
CHECK_DEADLOCK FALSE
INVARIANTS
  ReturnedMoneyAddsUp
  ReturnedOncePerKey
  RefundsWithinBoth
  RefundedOncePerKey
