CONSTANTS
  Machines <- MCMachines
  EFI_MAP_FIRST = 4
  EFI_MAP_MARGIN = 1
  TSBP_MAP_FIRST = 3
  TSBP_MAP_BUMP = 1
  MAX_EVENTS = 3
SPECIFICATION FairSpec
INVARIANT MapIsExact
 
CHECK_DEADLOCK FALSE
