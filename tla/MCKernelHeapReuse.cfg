CONSTANTS
  PAGE_SIZE = 2
  ENTRIES = 2
  FIRST_4GB = 8
  KERNEL_VADDR = 28
  KERNEL_PADDR = 60
  KERNEL_SIZE = 3
  FB_PHYS = 60
  FB_VIRT = 16
  FB_SIZE = 0
  ManagedSets <- MCManagedPlenty
  kernel_heap = 8
  kernel_stack = 14
  FREE_SPACES = 2
  ALLOCATIONS = 3
  Sizes = {2, 4}
  FreedAddrs <- MCFreedAddrs
SPECIFICATION Spec
INVARIANTS
  LiveMemoryIsNotFree
