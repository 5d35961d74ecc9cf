CONSTANTS
  Handlers = {h1, h2}
  Passwords = {old, new}
  NoPassword = NoPassword
  MaxSessions = 2
  MaxFailures = 2
  MaxAttempts = 1

SPECIFICATION Spec
SYMMETRY Alike
CHECK_DEADLOCK FALSE

INVARIANTS SessionsBounded ReplacedPasswordEndsSessions FailuresBounded
