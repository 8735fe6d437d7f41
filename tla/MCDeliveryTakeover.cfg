CONSTANTS
  w1 = w1
  w2 = w2
  w3 = w3
  r1 = r1
  r2 = r2
  r3 = r3
  u1 = u1
  u2 = u2
  a1 = a1
  a2 = a2
  None = None
  Workers = {w1, w2, w3}
  RunIds = {r1}
  Users = {u1}
  Articles = {a1}
  Invocations <- Repeated
  InitialIndex = {a1}
  Workflow = "notify"
  SyncUsers = {}
  LeaseLen = 1
  Retention = 0
  MaxClock = 2
  MaxFaults = 0
SPECIFICATION Spec
SYMMETRY WorkerSymmetry
CONSTRAINT Generations
INVARIANTS DeliveryInv ReportIsDurable
\* Every invocation may have returned or crashed: the system really stops.
CHECK_DEADLOCK FALSE
