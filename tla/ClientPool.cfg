SPECIFICATION Spec
CONSTANTS
  c1 = c1  c2 = c2  a1 = a1
  i1 = i1  i2 = i2  i3 = i3  i4 = i4  i5 = i5  i6 = i6
  None = None
  Clients <- TwoClients
  Callers <- OneCaller
  Sandboxes <- ThreeIds
  MaxIdle = 2
  WarmupConcurrency = 2
  MaxAcquireRetries = 2
  FallsThrough = TRUE
  MaxEvents = 2
  Env = {"expire", "destroy", "shutdown", "halt", "age", "timeout", "outage", "crash", "kill", "release", "restart", "renew", "die", "create"}
SYMMETRY Symmetry
CHECK_DEADLOCK FALSE
INVARIANTS
  TypeOK
  HeldOnce
  NothingForgotten
  DestroyedIsEmpty
