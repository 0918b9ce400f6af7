SPECIFICATION Spec
CONSTANTS
  FirstRound = 9
  PageSize = 2
  MaxModel = 3
  MaxStoreCrashes = 1
  c1 = c1
  c2 = c2
  Clients = {c1}
  Tokens <- MCTokens
  Fingerprints = {fp}
  NoCert = NoCert
  Leeway = 1
  Ttl = 2
  MaxTime = 3
  MaxEdits = 2
  MaxRestarts = 1
INVARIANTS LoadsAnswerTheStore AdmittedWereVouched LiveClientKept
CHECK_DEADLOCK FALSE
