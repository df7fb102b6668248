SPECIFICATION Spec
CONSTANTS
  session = session
  drain = drain
  host = host
  k1 = k1
  k2 = k2
  Tasks <- ThreeWriters
  Kernels = {k1, k2}
  KernelOf <- MCKernelOf
  KindsOf <- MCKindsOf
  WindowSize = 2
  MaxRetries = 1
  MaxOps <- MCMaxOps
INVARIANTS WindowedWritersReplay
PROPERTIES GivesUpOnlyUnderContention
CHECK_DEADLOCK FALSE
