SPECIFICATION BlockSpec
CONSTANTS
  Threads = 4
  WarpSize = 2
  Kernels = {"split"}
  Elements = 4
  Values = {0, 1}
  NegInf <- McNegInf
  MaxSplits = 3
INVARIANT BlockAsOnCpu
CHECK_DEADLOCK FALSE
