SPECIFICATION Spec
CONSTANTS
  p1 = p1  p2 = p2  p3 = p3
  s1 = s1  s2 = s2  s3 = s3
  Pods <- ThreePods
  Sandboxes <- OneSandbox
  NoSandbox = NoSandbox
  MaxReplicas = 2
  Recycle = "Delete"
  BufferMin = 0
  BufferMax = 0
  PoolMin = 1
  PoolMax = 2
  ScalePercent = 100
  UpdatePercent = 25
  MaxFaults = 1
  Env = {"resize", "podlag", "kill"}
INVARIANTS
  TypeOK
  PoolMaxRespected
PROPERTIES
  AllocationsAccumulate
  DeletesOnlyFreePods
SYMMETRY Symmetry
