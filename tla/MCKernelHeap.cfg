CONSTANTS
  PAGE_SIZE = 2
  ENTRIES = 2
  FIRST_4GB = 8
  KERNEL_VADDR = 28
  KERNEL_PADDR = 24
  KERNEL_SIZE = 3
  FB_PHYS = 60
  FB_VIRT = 16
  FB_SIZE = 5
  ManagedSets <- MCManagedSets
  kernel_heap = 8
  kernel_stack = 13
  FREE_SPACES = 2
  ALLOCATIONS = 3
  Sizes = {0, 1, 3}
  FreedAddrs <- MCFreedAddrs
SPECIFICATION Spec
INVARIANTS
  AddressesInOneHand
  
  MappedWhileMemoryLasts
PROPERTIES
  SpaceLostOnlyWhenFull
  MappingIsLocal
  FreeKeepsSharedPages
