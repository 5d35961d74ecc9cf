\* Two sessions, two stores, two handlers at once.
SPECIFICATION Spec
CONSTANTS
  h1 = h1  h2 = h2  c1 = c1  c2 = c2  a = a  b = b
  Handlers = {h1, h2}
  Stores = {a, b}
  Sessions = {c1, c2}
  NoSession = NoSession  NoStore = NoStore
  Openings = {0, 1}
  Cash <- ReceiveOrPay
  MaxCash = 3
SYMMETRY Alike
INVARIANTS
  OneOpenPerStore
  ExpectedAddsUp
