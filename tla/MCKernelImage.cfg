CONSTANTS
  PAGE = 2
  MIN_READ_CHUNK = 4
  TSBP_HEADER = 1
  PIXEL_BITS = 32
  VECTOR_FIRST = 1
  TOP_MINUS_2GB = 100
  TOP = 160
  SegAlignments = {2, 4}
  Bases = {3, 4}
  Kernels <- MCKernels
  Consoles <- MCConsoles
SPECIFICATION FairSpec
 
 
INVARIANT KernelIsToldTheTruth
 
CHECK_DEADLOCK FALSE
