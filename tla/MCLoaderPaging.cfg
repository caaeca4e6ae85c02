CONSTANTS
  TABLE = 4
  LOW_END = 32
  PAGE_POOL_ALLOC_SIZE = 4
  Machines <- MCMachines
SPECIFICATION FairSpec
INVARIANT KernelSeesTheMachine
 
PROPERTY MappingEnds
CHECK_DEADLOCK FALSE
