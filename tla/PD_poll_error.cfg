SPECIFICATION FairSpec
CONSTANTS
  f1 = f1
  f2 = f2
  f3 = f3
  h1 = h1
  h2 = h2
  None = None
  Files = {f1, f2}
  Hashes = {f1, f2}
  HashOf <- MCHashOfDistinct
  MaxRetries = 1
  MaxXfer = 2
  Threads = {1}
  Failures = {"error"}
  FaultBudget = 1
  MultiErrorBudget = 1
  SetupErrorBudget = 0
  FailedCallbackReturns = {FALSE}
INVARIANT
  OkMeansDelivered
