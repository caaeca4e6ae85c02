------------------------------- MODULE Paging -------------------------------
(***************************************************************************)
(* The kernel's four-level page tables: kernel/x86_64/memory/paging.c.     *)
(*                                                                         *)
(* The tables and the physical pages that are free form one value, mem, so *)
(* that the functions of the code, which change both, are operators from   *)
(* one value of mem to the next.  The physical page allocator is used      *)
(* through what PageAllocator promises: the lowest free page comes first.  *)
(***************************************************************************)
EXTENDS Integers, FiniteSets, FiniteSetsExt

CONSTANTS
  PAGE_SIZE,            \* bytes of a page
  ENTRIES,              \* entries of a table (512)
  FIRST_4GB,            \* bytes that are mapped one to one, with large pages
  KERNEL_VADDR, KERNEL_PADDR, KERNEL_SIZE,      \* the kernel's image
  FB_PHYS, FB_VIRT, FB_SIZE,                    \* the framebuffer
  ManagedSets           \* the sets of pages the allocator may manage

PAGE_2M == PAGE_SIZE * ENTRIES
VIRT_PAGES == 0 .. (ENTRIES * ENTRIES * ENTRIES * ENTRIES - 1)

(* The page of a virtual address: what lies above the four indices, the    *)
(* extended sign, does not count.                                          *)
VirtPage(virt) == (virt \div PAGE_SIZE) % (ENTRIES * ENTRIES * ENTRIES * ENTRIES)

ASSUME PagingSizesAssumption ==
  /\ PAGE_SIZE \in Nat \ {0}
  /\ ENTRIES \in Nat \ {0}
  /\ {FIRST_4GB, KERNEL_VADDR, KERNEL_PADDR, KERNEL_SIZE, FB_PHYS, FB_VIRT, FB_SIZE} \subseteq Nat
ASSUME ManagedSetsAssumption ==
  \A S \in ManagedSets : IsFiniteSet(S) /\ S \subseteq Nat \ {0}
(* The loader's memory map gives the kernel's image and the framebuffer    *)
(* types of their own, and only usable memory is managed.                  *)
ASSUME NotManagedAssumption ==
  \A S \in ManagedSets :
    /\ \A o \in 0 .. (KERNEL_SIZE - 1) : (KERNEL_PADDR + o) \div PAGE_SIZE \notin S
    /\ FB_PHYS # 0 => \A o \in 0 .. (FB_SIZE - 1) : (FB_PHYS + o) \div PAGE_SIZE \notin S

(* The low memory is whole large pages.  The kernel's image and the        *)
(* framebuffer start on page boundaries, and each of their pages is above  *)
(* the low memory and none of any other.  The image is not at physical     *)
(* address 0, which the loader and find_physaddr() take for no address.    *)
ASSUME RegionsAreApartAssumption ==
  LET KernelBytes == 0 .. (KERNEL_SIZE - 1)
      FbBytes == 0 .. (FB_SIZE - 1)
  IN  /\ FIRST_4GB % PAGE_2M = 0
      /\ \A addr \in {KERNEL_VADDR, KERNEL_PADDR, FB_VIRT, FB_PHYS} : addr % PAGE_SIZE = 0
      /\ KERNEL_SIZE # 0 /\ KERNEL_PADDR # 0 /\ FB_VIRT # 0
      /\ \A o \in KernelBytes : FIRST_4GB <= VirtPage(KERNEL_VADDR + o) * PAGE_SIZE
      /\ \A o \in FbBytes : FIRST_4GB <= VirtPage(FB_VIRT + o) * PAGE_SIZE
      /\ \A o \in KernelBytes, q \in FbBytes :
           VirtPage(KERNEL_VADDR + o) # VirtPage(FB_VIRT + q)
      /\ \A o, q \in KernelBytes :
           VirtPage(KERNEL_VADDR + o) = VirtPage(KERNEL_VADDR + q)
             => o \div PAGE_SIZE = q \div PAGE_SIZE
      /\ \A o, q \in FbBytes :
           VirtPage(FB_VIRT + o) = VirtPage(FB_VIRT + q)
             => o \div PAGE_SIZE = q \div PAGE_SIZE

VARIABLES
  managed,      \* pages of the physical page allocator
  mem,          \* free pages and page tables
  fb_addr,      \* where the terminal writes
  loaded,       \* whether CR3 holds pml4
  pc,           \* the loop init_paging() is in, or "up"
  offset        \* its induction variable

pagingVars == <<managed, mem, fb_addr, loaded, pc, offset>>

(* An entry; a table's entry that is not present is zero.                  *)
Entry == [present : BOOLEAN, ps : BOOLEAN, page : Nat]

Zero == [present |-> FALSE, ps |-> FALSE, page |-> 0]

EmptyTable == [idx \in 0 .. (ENTRIES - 1) |-> Zero]

(* The static pml4, which no allocation provides, has the name of page 0,  *)
(* which is never allocated; every other table has the name of its page.   *)
PML4 == 0

(* Bytes behind one entry of a table of each level                         *)
Span == <<PAGE_SIZE, PAGE_2M, PAGE_2M * ENTRIES, PAGE_2M * ENTRIES * ENTRIES>>

Index(virt, level) == (virt \div Span[level]) % ENTRIES

-----------------------------------------------------------------------------
(* The physical page allocator, as PageAllocator specifies it              *)

phys_page_alloc(m) == IF m.free = {} THEN 0 ELSE Min(m.free)

Without(m, page) == [m EXCEPT !.free = @ \ {page}]

phys_page_free(m, addr) ==
  IF addr % PAGE_SIZE = 0 /\ addr \div PAGE_SIZE \in managed
    THEN [m EXCEPT !.free = @ \cup {addr \div PAGE_SIZE}]
    ELSE m

-----------------------------------------------------------------------------
(* Mapping                                                                 *)

SetEntry(m, table, idx, entry) == [m EXCEPT !.tables[table][idx] = entry]

(* A page that was allocated becomes a table without entries.              *)
new_table(m, page) ==
  [Without(m, page) EXCEPT
     !.tables = [t \in DOMAIN m.tables \cup {page} |->
                   IF t = page THEN EmptyTable ELSE m.tables[t]]]

(* A step of the walk from r.table down: the table behind entry idx, which *)
(* is made when the entry is not present.  A failed walk stays failed.     *)
(* (get_pdpt(), get_pd(), and the same code in map_page().)                *)
get_table_always_new(r, idx) ==
  LET page == phys_page_alloc(r.mem) IN
  IF ~r.ok \/ page = 0 THEN [r EXCEPT !.ok = FALSE]
  ELSE [ok |-> TRUE,
        mem |-> SetEntry(new_table(r.mem, page), r.table, idx,
                         [present |-> TRUE, ps |-> FALSE, page |-> page]),
        table |-> page]

get_table(r, idx) ==
  LET entry == r.mem.tables[r.table][idx]
      page == phys_page_alloc(r.mem)
  IN  IF ~r.ok THEN r
      ELSE IF entry.present THEN [r EXCEPT !.table = entry.page]
      ELSE IF page = 0 THEN [r EXCEPT !.ok = FALSE]
      ELSE [ok |-> TRUE,
            mem |-> SetEntry(new_table(r.mem, page), r.table, idx,
                             [present |-> TRUE, ps |-> FALSE, page |-> page]),
            table |-> page]

get_pd(m, virt) ==
  get_table(get_table([ok |-> TRUE, mem |-> m, table |-> PML4], Index(virt, 4)),
            Index(virt, 3))

map_2mb_page(m, phys, virt) ==
  LET pd == get_pd(m, virt) IN
  IF phys % PAGE_2M # 0 \/ virt % PAGE_2M # 0 THEN m
  ELSE IF ~pd.ok THEN pd.mem
  ELSE SetEntry(pd.mem, pd.table, Index(virt, 2),
                [present |-> TRUE, ps |-> TRUE, page |-> phys \div PAGE_SIZE])

map_page_wrong_index(m, phys, virt) ==
  LET pd == get_pd(m, virt)
      pt == get_table(pd, Index(virt, 2))
  IN  IF phys % PAGE_SIZE # 0 \/ virt % PAGE_SIZE # 0 THEN m
      ELSE IF ~pd.ok \/ pd.mem.tables[pd.table][Index(virt, 2)].ps THEN pd.mem
      ELSE IF ~pt.ok THEN pt.mem
      ELSE SetEntry(pt.mem, pt.table, Index(virt, 2),
                    [present |-> TRUE, ps |-> FALSE, page |-> phys \div PAGE_SIZE])

map_page(m, phys, virt) ==
  LET pd == get_pd(m, virt)
      pt == get_table(pd, Index(virt, 2))
  IN  IF phys % PAGE_SIZE # 0 \/ virt % PAGE_SIZE # 0 THEN m
      ELSE IF ~pd.ok \/ pd.mem.tables[pd.table][Index(virt, 2)].ps THEN pd.mem
      ELSE IF ~pt.ok THEN pt.mem
      ELSE SetEntry(pt.mem, pt.table, Index(virt, 1),
                    [present |-> TRUE, ps |-> FALSE, page |-> phys \div PAGE_SIZE])

(* The physical address of a virtual one, 0 when it is not mapped          *)
find_physaddr(m, virt) ==
  LET e4 == m.tables[PML4][Index(virt, 4)]
      e3 == m.tables[e4.page][Index(virt, 3)]
      e2 == m.tables[e3.page][Index(virt, 2)]
      e1 == m.tables[e2.page][Index(virt, 1)]
  IN  IF ~e4.present \/ ~e3.present \/ ~e2.present THEN 0
      ELSE IF e2.ps THEN e2.page * PAGE_SIZE + (virt % PAGE_2M)
      ELSE IF ~e1.present THEN 0
      ELSE e1.page * PAGE_SIZE + (virt % PAGE_SIZE)

-----------------------------------------------------------------------------
(* init_paging()                                                           *)

PagingInit ==
  /\ managed \in ManagedSets
  /\ mem = [free |-> managed, tables |-> [t \in {PML4} |-> EmptyTable]]
  /\ fb_addr = FB_PHYS
  /\ loaded = FALSE
  /\ pc = "identity"
  /\ offset = 0

MapIdentity ==
  /\ pc = "identity"
  /\ offset < FIRST_4GB
  /\ mem' = map_2mb_page(mem, offset, offset)
  /\ offset' = offset + PAGE_2M
  /\ UNCHANGED <<managed, fb_addr, loaded, pc>>

MapKernel ==
  /\ pc = "kernel"
  /\ offset < KERNEL_SIZE
  /\ mem' = map_page(mem, KERNEL_PADDR + offset, KERNEL_VADDR + offset)
  /\ offset' = offset + PAGE_SIZE
  /\ UNCHANGED <<managed, fb_addr, loaded, pc>>

MapFramebuffer ==
  /\ pc = "framebuffer"
  /\ FB_PHYS # 0
  /\ offset < FB_SIZE
  /\ mem' = map_page(mem, FB_PHYS + offset, FB_VIRT + offset)
  /\ offset' = offset + PAGE_SIZE
  /\ UNCHANGED <<managed, fb_addr, loaded, pc>>

(* A loop ends and the next one starts.                                    *)
NextLoop(from, size, to) ==
  /\ pc = from
  /\ offset >= size
  /\ pc' = to
  /\ offset' = 0

IdentityDone ==
  /\ NextLoop("identity", FIRST_4GB, "kernel")
  /\ UNCHANGED <<managed, mem, fb_addr, loaded>>

KernelDone ==
  /\ NextLoop("kernel", KERNEL_SIZE, "framebuffer")
  /\ UNCHANGED <<managed, mem, fb_addr, loaded>>

(* The terminal moves to the virtual framebuffer, and pml4, a variable of  *)
(* the kernel's image, is loaded if its address can be found.              *)
FramebufferDone ==
  /\ NextLoop("framebuffer", IF FB_PHYS # 0 THEN FB_SIZE ELSE 0, "up")
  /\ fb_addr' = IF FB_PHYS # 0 /\ FB_SIZE # 0 THEN FB_VIRT ELSE fb_addr
  /\ loaded' = (find_physaddr(mem, KERNEL_VADDR) # 0)
  /\ UNCHANGED <<managed, mem>>

init_paging ==
  \/ MapIdentity \/ IdentityDone
  \/ MapKernel \/ KernelDone
  \/ MapFramebuffer \/ FramebufferDone

-----------------------------------------------------------------------------
(* Properties                                                              *)

(* The entries of table t that lead to another table                       *)
Links(t) == {idx \in 0 .. (ENTRIES - 1) : mem.tables[t][idx].present /\ ~mem.tables[t][idx].ps}

Below(S) == UNION {{mem.tables[t][idx].page : idx \in Links(t)} : t \in S}

Tables3 == Below({PML4})
Tables2 == Below(Tables3)
Tables1 == Below(Tables2)

(* The tables form a tree: an entry that is present leads to a table, each *)
(* table hangs on one entry of one level, and none is lost.  No page of a  *)
(* table is free or mapped as memory, and no page that is mapped is free.  *)
TablesFormATree ==
  /\ Tables3 \cup Tables2 \cup Tables1 = DOMAIN mem.tables \ {PML4}
  /\ Cardinality(DOMAIN mem.tables) - 1
       = Cardinality(UNION {{<<t, idx>> : idx \in Links(t)} : t \in {PML4} \cup Tables3 \cup Tables2})
  /\ DOMAIN mem.tables \cap mem.free = {}
  /\ Below(Tables1) \cap (mem.free \cup (DOMAIN mem.tables \ {PML4})) = {}

Translation(m) == [v \in VIRT_PAGES |-> find_physaddr(m, v * PAGE_SIZE)]

Remapped == {v \in VIRT_PAGES : Translation(mem)[v] # Translation(mem')[v]}

(* If the memory for tables did not run out, init_paging() has mapped the  *)
(* low memory one to one, the whole kernel and the whole framebuffer when  *)
(* it loads the new tables and moves the terminal.                         *)
BootMapsEverything ==
  pc = "up" /\ mem.free # {} =>
    /\ loaded
    /\ \A v \in VIRT_PAGES : v * PAGE_SIZE < FIRST_4GB =>
         find_physaddr(mem, v * PAGE_SIZE) = v * PAGE_SIZE
    /\ \A o \in 0 .. (KERNEL_SIZE - 1) : find_physaddr(mem, KERNEL_VADDR + o) = KERNEL_PADDR + o
    /\ fb_addr = FB_VIRT =>
         \A o \in 0 .. (FB_SIZE - 1) : find_physaddr(mem, FB_VIRT + o) = FB_PHYS + o

=============================================================================
