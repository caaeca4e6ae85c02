CONSTANTS
  PAGE_SIZE = 2
  MAX_PHYS_REGIONS = 2
  MemMaps <- MCMemMaps
  FreeArgs <- MCFreeArgs
SPECIFICATION Spec
INVARIANTS
  FreeListCoalesced
  FreeCountExact
  NoPageInTwoHands
  ManagedIsUsable
PROPERTIES
  ImplementsPageAllocator
