CONSTANTS
  w1 = w1
  w2 = w2
  w3 = w3
  r1 = r1
  r2 = r2
  r3 = r3
  u1 = u1
  u2 = u2
  a1 = a1
  a2 = a2
  None = None
  Workers = {w1, w2}
  RunIds = {r1, r2}
  Users = {u1}
  Articles = {a1}
  Invocations <- Mixed
  InitialIndex = {a1}
  Workflow = "notify"
  SyncUsers = {u1}
  LeaseLen = 1
  Retention = 1
  MaxClock = 3
  MaxFaults = 1
SPECIFICATION Spec
SYMMETRY WorkerSymmetry
INVARIANTS AtMostOnce OneActiveRun
PROPERTIES KeepsContract CompletedIsClean
\* Every invocation may have returned or crashed: the system really stops.
CHECK_DEADLOCK FALSE
