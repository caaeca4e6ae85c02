----------------------------- MODULE KernelHeap -----------------------------
(***************************************************************************)
(* The kernel heap of kernel/memory/memory.c, on top of the page tables:   *)
(* malloc() takes address space from a table of free spaces and maps pages *)
(* under it, free() gives both back.  init_memory() is init_paging()       *)
(* followed by init_malloc().                                              *)
(*                                                                         *)
(* The heap is heap 0; heap 1 is separate and nothing allocates from it.   *)
(***************************************************************************)
EXTENDS Paging, Sequences

CONSTANTS
  kernel_heap, kernel_stack,    \* the heap's first address and its end
  FREE_SPACES, ALLOCATIONS,     \* slots of the two tables
  Sizes,                        \* sizes malloc() is called with
  FreedAddrs                    \* addresses free() is called with

ASSUME HeapAssumption ==
  /\ kernel_heap \in Nat \ {0} /\ kernel_stack \in Nat /\ kernel_heap < kernel_stack
  /\ FREE_SPACES \in Nat \ {0} /\ ALLOCATIONS \in Nat \ {0}
  /\ Sizes \subseteq Nat /\ FreedAddrs \subseteq Nat

PageOf(addr) == addr \div PAGE_SIZE

HeapPages == PageOf(kernel_heap) .. PageOf(kernel_stack - 1)

(* The heap's pages are none of those that init_paging() maps: they lie    *)
(* above the low memory, within the address space, and apart from the      *)
(* kernel and the framebuffer.                                             *)
ASSUME HeapIsApartAssumption ==
  /\ FIRST_4GB <= kernel_heap
  /\ HeapPages \subseteq VIRT_PAGES
  /\ \A o \in 0 .. (KERNEL_SIZE - 1) : VirtPage(KERNEL_VADDR + o) \notin HeapPages
  /\ \A o \in 0 .. (FB_SIZE - 1) : VirtPage(FB_VIRT + o) \notin HeapPages

VARIABLES
  freespace,    \* address space that is free
  allocations,  \* address space that is in use; a slot of size 0 is unused
  ret,          \* what malloc() returned last
  freed         \* history: whether free() has given a page back

vars == <<pagingVars, freespace, allocations, ret, freed>>

mem_t == [addr : Nat, size : Nat]

NoMem == [addr |-> 0, size |-> 0]

End(space) == space.addr + space.size

Bytes(space) == space.addr .. (End(space) - 1)

(* The tables before init_malloc() are zero.                               *)
Init ==
  /\ PagingInit
  /\ freespace = [k \in 1 .. FREE_SPACES |-> NoMem]
  /\ allocations = [k \in 1 .. ALLOCATIONS |-> NoMem]
  /\ ret = 0
  /\ freed = FALSE

init_malloc ==
  /\ pc = "up"
  /\ pc' = "heap"
  /\ freespace' = [freespace EXCEPT ![1] = [addr |-> kernel_heap,
                                            size |-> kernel_stack - kernel_heap]]
  /\ UNCHANGED <<managed, mem, fb_addr, loaded, offset, allocations, ret, freed>>

init_memory ==
  \/ init_paging /\ UNCHANGED <<freespace, allocations, ret, freed>>
  \/ init_malloc

(* The loops that search a table stop at the first slot that satisfies P.  *)
IsFirst(k, table, P(_)) == P(table[k]) /\ \A j \in 1 .. (k - 1) : ~P(table[j])

None(table, P(_)) == \A k \in DOMAIN table : ~P(table[k])

Unused(entry) == entry.size = 0

-----------------------------------------------------------------------------
(* malloc()                                                                *)

(* Pages that [addr, addr + size) touches                                  *)
PagesOfSize(addr, size) == size \div PAGE_SIZE

PagesTouched(addr, size) ==
  ((addr + size + PAGE_SIZE - 1) \div PAGE_SIZE) - (addr \div PAGE_SIZE)

(* ... and the address at which the code looks each of them up             *)
PageAddrs(addr, size) ==
  [k \in 1 .. PagesTouched(addr, size) |-> addr + (k - 1) * PAGE_SIZE]

(* One round of the mapping loop: a new page at virt, if none is there     *)
MapIfMissing(m, virt) ==
  LET page == phys_page_alloc(m) IN
  IF find_physaddr(m, virt) # 0 THEN m
  ELSE map_page(Without(m, page), page * PAGE_SIZE, virt)

MapPages(addr, size) ==
  LET after[k \in 0 .. PagesTouched(addr, size)] ==
        IF k = 0 THEN mem ELSE MapIfMissing(after[k - 1], PageAddrs(addr, size)[k])
  IN  after[PagesTouched(addr, size)]

(* The free space is cut before the allocation's slot is looked for.       *)
CutSpaceOneByteMore(space, size) ==
  freespace' = [freespace EXCEPT ![space] = [addr |-> @.addr + size,
                                             size |-> @.size - size - 1]]

CutSpaceAtItsEnd(space, size) ==
  freespace' = [freespace EXCEPT ![space] = [addr |-> @.addr,
                                             size |-> @.size - size]]

CutSpace(space, size) ==
  freespace' = [freespace EXCEPT ![space] = [addr |-> @.addr + size,
                                             size |-> @.size - size]]

Allocate(space, size) ==
  LET addr == freespace[space].addr IN
  /\ CutSpace(space, size)
  /\ \/ \E alloc \in 1 .. ALLOCATIONS :
          /\ IsFirst(alloc, allocations, Unused)
          /\ allocations' = [allocations EXCEPT ![alloc] = [addr |-> addr, size |-> size]]
          /\ mem' = MapPages(addr, size)
          /\ ret' = addr
     \/ /\ None(allocations, Unused)
        /\ ret' = 0
        /\ UNCHANGED <<allocations, mem>>

malloc(size) ==
  LET Fits(space) == space.size >= size IN
  /\ pc = "heap"
  /\ \/ /\ size = 0 \/ None(freespace, Fits)
        /\ ret' = 0
        /\ UNCHANGED <<freespace, allocations, mem>>
     \/ /\ size # 0
        /\ \E space \in 1 .. FREE_SPACES :
             IsFirst(space, freespace, Fits) /\ Allocate(space, size)
  /\ UNCHANGED <<managed, fb_addr, loaded, pc, offset, freed>>

-----------------------------------------------------------------------------
(* free()                                                                  *)

(* The space is joined to the first free space that it touches, or takes   *)
(* an unused slot.                                                         *)
Touches(space, block) == End(block) = space.addr \/ block.addr = End(space)

Joined(space, block) ==
  [addr |-> IF End(block) = space.addr THEN block.addr ELSE space.addr,
   size |-> space.size + block.size]

ReturnSpace(block) ==
  LET TouchesBlock(space) == Touches(space, block) IN
  \/ \E k \in 1 .. FREE_SPACES :
       /\ IsFirst(k, freespace, TouchesBlock)
       /\ freespace' = [freespace EXCEPT ![k] = Joined(@, block)]
  \/ \E k \in 1 .. FREE_SPACES :
       /\ None(freespace, TouchesBlock)
       /\ IsFirst(k, freespace, Unused)
       /\ freespace' = [freespace EXCEPT ![k] = block]

LastPage(block) == PageOf(End(block) - 1)

(* Another allocation ends in the block's first page, or starts in its     *)
(* last one.  An unused slot, with its end at -1, matches no block.        *)
SusedNever(block, table) == FALSE

sused(block, table) ==
  \E k \in 1 .. ALLOCATIONS :
    table[k].size # 0 /\ LastPage(table[k]) = PageOf(block.addr)

eused(block, table) ==
  \E k \in 1 .. ALLOCATIONS :
    table[k].size # 0 /\ PageOf(table[k].addr) = LastPage(block)

(* The addresses whose pages are given back, in the code's order           *)
AddrsToFree(block, table) ==
  (IF sused(block, table) THEN << >> ELSE <<block.addr>>)
  \o (IF eused(block, table) THEN << >> ELSE <<End(block) - 1>>)
  \o SubSeq(PageAddrs(block.addr, block.size), 2, PagesTouched(block.addr, block.size) - 1)

FreePages(addrs) ==
  LET after[k \in 0 .. Len(addrs)] ==
        IF k = 0 THEN mem
        ELSE phys_page_free(after[k - 1], find_physaddr(after[k - 1], addrs[k]))
  IN  after[Len(addrs)]

(* Only an address that malloc() returned is accepted.  When neither a     *)
(* neighbour nor an unused slot takes the space, free() returns early.     *)
free(addr) ==
  LET StartsHere(entry) == entry.addr = addr IN
  /\ pc = "heap"
  /\ \/ /\ addr \notin kernel_heap .. (kernel_stack - 1) \/ None(allocations, StartsHere)
        /\ UNCHANGED <<freespace, allocations, mem, freed>>
     \/ /\ addr \in kernel_heap .. (kernel_stack - 1)
        /\ \E alloc \in 1 .. ALLOCATIONS :
             /\ IsFirst(alloc, allocations, StartsHere)
             /\ LET block == allocations[alloc] IN
                  /\ allocations' = [allocations EXCEPT ![alloc] = NoMem]
                  /\ \/ /\ ReturnSpace(block)
                        /\ mem' = FreePages(AddrsToFree(block, allocations'))
                     \/ /\ None(freespace, LAMBDA space : Touches(space, block) \/ Unused(space))
                        /\ UNCHANGED <<freespace, mem>>
        /\ freed' = (freed \/ mem'.free # mem.free)
  /\ UNCHANGED <<managed, fb_addr, loaded, pc, offset, ret>>

-----------------------------------------------------------------------------
Next ==
  \/ init_memory
  \/ \E size \in Sizes : malloc(size)
  \/ \E addr \in FreedAddrs : free(addr)

Spec == Init /\ [][Next]_vars

-----------------------------------------------------------------------------
(* Properties                                                              *)

Live == {allocations[k] : k \in {l \in 1 .. ALLOCATIONS : allocations[l].size # 0}}

(* Every variable has its type; addresses and sizes do not wrap, and every *)
(* table is a managed page and has all its entries.                        *)
TypeOK ==
  /\ managed \in ManagedSets
  /\ mem.free \subseteq managed
  /\ DOMAIN mem.tables \subseteq managed \cup {PML4}
  /\ \A t \in DOMAIN mem.tables : mem.tables[t] \in [0 .. (ENTRIES - 1) -> Entry]
  /\ fb_addr \in {FB_PHYS, FB_VIRT}
  /\ loaded \in BOOLEAN
  /\ pc \in {"identity", "kernel", "framebuffer", "up", "heap"}
  /\ offset \in Nat
  /\ freespace \in [1 .. FREE_SPACES -> mem_t]
  /\ allocations \in [1 .. ALLOCATIONS -> mem_t]
  /\ ret \in Nat
  /\ freed \in BOOLEAN

(* No address is in two allocations, in two free spaces, or in use and     *)
(* free, whatever order of malloc() and free() calls led here; and all of  *)
(* them are addresses of the heap.                                         *)
AddressesInOneHand ==
  /\ \A k, l \in 1 .. ALLOCATIONS :
       k # l => Bytes(allocations[k]) \cap Bytes(allocations[l]) = {}
  /\ \A k, l \in 1 .. FREE_SPACES :
       k # l => Bytes(freespace[k]) \cap Bytes(freespace[l]) = {}
  /\ \A k \in 1 .. ALLOCATIONS, l \in 1 .. FREE_SPACES :
       Bytes(allocations[k]) \cap Bytes(freespace[l]) = {}
  /\ \A k \in 1 .. ALLOCATIONS : Bytes(allocations[k]) \subseteq kernel_heap .. (kernel_stack - 1)
  /\ \A k \in 1 .. FREE_SPACES : Bytes(freespace[k]) \subseteq kernel_heap .. (kernel_stack - 1)

(* The addresses the two tables account for                                *)
Known ==
  (UNION {Bytes(allocations[k]) : k \in 1 .. ALLOCATIONS})
  \cup (UNION {Bytes(freespace[k]) : k \in 1 .. FREE_SPACES})

(* The heap loses address space in two situations only: malloc() finds no  *)
(* slot for the allocation it has already cut from a free space, or free() *)
(* finds no slot for the space it has already taken from the allocations.  *)
SpaceLostOnlyWhenFull ==
  [][pc = "heap" /\ Known' # Known =>
       /\ Known' \subseteq Known
       /\ \/ ret' = 0 /\ None(allocations, Unused) /\ allocations' = allocations
          \/ None(freespace, Unused) /\ freespace' = freespace]_vars

VirtPagesOf(block) == PageOf(block.addr) .. LastPage(block)

(* Physical pages behind a block of memory                                 *)
Backing(block) ==
  {PageOf(find_physaddr(mem, v * PAGE_SIZE)) :
     v \in {w \in VirtPagesOf(block) : find_physaddr(mem, w * PAGE_SIZE) # 0}}

(* Until free() gives its first page back, every page of memory behind the *)
(* heap is behind one page of the heap only, is not free and is no table.  *)
BackingIsExclusive ==
  ~freed =>
    /\ \A v, w \in HeapPages :
         v # w /\ find_physaddr(mem, v * PAGE_SIZE) # 0
           => find_physaddr(mem, v * PAGE_SIZE) # find_physaddr(mem, w * PAGE_SIZE)
    /\ \A v \in HeapPages :
         PageOf(find_physaddr(mem, v * PAGE_SIZE))
           \notin mem.free \cup (DOMAIN mem.tables \ {PML4})

(* Until then the page tables are the tree that TablesFormATree describes, *)
(* whatever malloc() mapped and wherever the memory for a table ran out.   *)
TablesStayATree == ~freed => TablesFormATree

(* Every page of memory has one use: it is free, or one table of the tree, *)
(* or behind one page of the heap, until free() gives its first page back. *)
EveryPageHasOneUse == TypeOK /\ BackingIsExclusive /\ TablesStayATree

(* Mapping is local: a step of init_paging() changes the translation of    *)
(* the page it is at (of one large page in the first loop), malloc() those *)
(* of the pages its block touches, and neither any other, even where a     *)
(* table had to be made or the memory for one ran out.  A page malloc()    *)
(* maps was free before.  free() changes no translation.                   *)
MappingIsLocal ==
  [][/\ MapIdentity => \A v \in Remapped : v \div ENTRIES = offset \div PAGE_2M
     /\ MapKernel => Remapped \subseteq {VirtPage(KERNEL_VADDR + offset)}
     /\ MapFramebuffer => Remapped \subseteq {VirtPage(FB_VIRT + offset)}
     /\ pc = "heap" /\ ~freed =>
          \A v \in Remapped :
            /\ \E block \in Live' \ Live : v \in VirtPagesOf(block)
            /\ PageOf(Translation(mem')[v]) \in mem.free \ mem'.free
    ]_vars

(* "Map pages to that part if no pages are mapped there already": every    *)
(* page of a block that starts on a page boundary is mapped, as long as    *)
(* physical pages are left.  (A block that starts inside a page may be     *)
(* left without memory: map_page() refuses the address the loop computes.) *)
AlignedBlocksAreMapped ==
  ~freed /\ mem.free # {} =>
    \A block \in Live :
      block.addr % PAGE_SIZE = 0 =>
        \A v \in VirtPagesOf(block) : find_physaddr(mem, v * PAGE_SIZE) # 0

(* As long as physical pages are left, boot has mapped the low memory, the *)
(* kernel and the framebuffer, and malloc() every page of a block that     *)
(* starts on a page boundary.                                              *)
MappedWhileMemoryLasts == BootMapsEverything /\ AlignedBlocksAreMapped

(* "Free pages (if there is no other memory in the page)": the first pages *)
(* free() gives back lie behind no block still in use that fits into one   *)
(* page.  (A longer neighbour that starts in the freed block's first page  *)
(* is not noticed.)                                                        *)
FreeKeepsSharedPages ==
  [][\A block \in Live' :
       ~freed /\ block \in Live /\ PageOf(block.addr) = LastPage(block)
         => Backing(block) \cap (mem'.free \ mem.free) = {}]_vars

(* A page that free() has given back is not the memory of a later malloc().*)
LiveMemoryIsNotFree == \A block \in Live : Backing(block) \cap mem.free = {}

=============================================================================
