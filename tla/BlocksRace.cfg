SPECIFICATION BlockSpec
CONSTANTS
  Threads = 4
  WarpSize = 2
  Kernels = {"layernorm"}
  Elements = 4
  Values = {0, 1, 2}
  NegInf <- McNegInf
  MaxSplits = 1
INVARIANT LayerNormAsOnCpu
CHECK_DEADLOCK FALSE
