\* Setup on a fresh computer or over an older build, killed anywhere and run
\* again, with two ports that other programs take and release; then three first
\* accounts and two processes that run the scripts.
SPECIFICATION SetupSpec
CONSTANTS
  w1 = w1  w2 = w2  e1 = e1  e2 = e2  e3 = e3  x1 = x1  x2 = x2
  Ports = {5433, 5434}
  Passwords = {w1, w2}
  Codes = {"sale.create", "tax.manage"}
  NoFile = NoFile  Blank = Blank  NoPort = NoPort  NoUrl = NoUrl
  Emails = {e1, e2, e3}
  Processes = {x1, x2}
  NoAttempt = NoAttempt
CONSTRAINT InBounds
INVARIANTS
  CredentialsKept
  AdministratorsHoldEverything
  ScriptsRunOnce
PROPERTIES
  InstalledServes
  RerunsSucceed
