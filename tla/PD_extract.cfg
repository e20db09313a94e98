SPECIFICATION FairSpec
CONSTANTS
  f1 = f1
  f2 = f2
  f3 = f3
  h1 = h1
  h2 = h2
  None = None
  Files = {f1, f2}
  Hashes = {f1, f2}
  HashOf <- MCHashOfDistinct
  MaxRetries = 3
  MaxXfer = 2
  Threads = {1}
  Failures = {}
  FaultBudget = 1
  MultiErrorBudget = 0
  SetupErrorBudget = 0
  FailedCallbackReturns = {TRUE}
INVARIANT
  OkMeansDelivered
