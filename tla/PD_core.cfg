SPECIFICATION FairSpec
CONSTANTS
  f1 = f1
  f2 = f2
  f3 = f3
  h1 = h1
  h2 = h2
  None = None
  Files = {f1, f2, f3}
  Hashes = {h1, h2}
  HashOf <- MCHashOf
  MaxRetries = 2
  MaxXfer = 2
  Threads = {0, 1}
  Failures = {"not_found", "error"}
  FaultBudget = 3
  MultiErrorBudget = 0
  SetupErrorBudget = 1
  FailedCallbackReturns = {TRUE, FALSE}
INVARIANTS
  TypeOK
  TarExclusive
  CallbackOnWholeTar
  StackEmptyAtScan
  EveryFileAccounted
PROPERTIES
  DeliveredIsFinal
  ImplementsSession
