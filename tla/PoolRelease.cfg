SPECIFICATION FairSpec
CONSTANTS
  p1 = p1  p2 = p2  p3 = p3
  s1 = s1  s2 = s2  s3 = s3
  Pods <- TwoPods
  Sandboxes <- OneSandbox
  NoSandbox = NoSandbox
  MaxReplicas = 2
  Recycle = "Delete"
  BufferMin = 0
  BufferMax = 1
  PoolMin = 0
  PoolMax = 2
  ScalePercent = 100
  UpdatePercent = 25
  MaxFaults = 1
  Env = {"detach", "kill", "release", "podlag", "slow"}
PROPERTIES
  ReleaseCompletes
  OrphansAreDeleted
