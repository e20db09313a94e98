SPECIFICATION FairSpec
CONSTANTS
  f1 = f1
  f2 = f2
  f3 = f3
  h1 = h1
  h2 = h2
  None = None
  Files = {f1, f2, f3}
  Hashes = {h1, h2}
  HashOf <- MCHashOf
  MaxRetries = 3
  MaxXfer = 2
  Threads = {0, 1}
  Failures = {"error", "write_error"}
  FaultBudget = 1
  MultiErrorBudget = 1
  SetupErrorBudget = 1
  FailedCallbackReturns = {TRUE, FALSE}
INVARIANTS
  IInv
  OneFaultRecovered
PROPERTY
  SessionEnds
