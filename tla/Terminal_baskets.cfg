\* Two baskets of two variants, three sales for them, three attempts to pay,
\* two lost answers.
SPECIFICATION PageSpec
CONSTANTS
  v1 = v1  v2 = v2
  Variants = {v1, v2}
  MaxUnits = 1
  MaxSales = 3
  MaxTries = 3
  MaxBaskets = 2
  MaxLost = 2
SYMMETRY Alike
INVARIANTS
  SoldIsTheCart
  BasketPaidOnce
