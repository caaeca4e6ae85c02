---------------------------- MODULE LoaderPaging ----------------------------
(***************************************************************************)
(* The page tables the boot loader makes for the kernel (load_tsbp() of    *)
(* bootloader/uefi/src/tosaithe-proto.cc).                                 *)
(*                                                                         *)
(* All memory is mapped to itself, and once more in the upper half of the  *)
(* address space; the kernel is mapped where it was linked.  do_mapping()  *)
(* takes the largest pages that fit, changing from one size to another in  *)
(* the middle of a range, and splits large pages that are in its way.      *)
(* With these tables in place the loader jumps into the kernel.            *)
(*                                                                         *)
(* Addresses are numbers of 4 kB pages; a table has TABLE entries, so that *)
(* a page of 2 MB is TABLE and one of 1 GB TABLE^2 of them.  A step of     *)
(* do_mapping() fills consecutive entries of one table.                    *)
(***************************************************************************)
EXTENDS Integers, Sequences, SequencesExt, FiniteSetsExt

CONSTANTS
  TABLE,                \* entries of a table
  LOW_END,              \* the first page behind the first 4 GB
  PAGE_POOL_ALLOC_SIZE, \* pages taken from the firmware at a time
  Machines              \* memory, framebuffer, kernel, and what the processor has

PAGE2MB == TABLE
PAGE1GB == TABLE ^ 2
Slot == TABLE ^ 3       \* what an entry of the first table maps
HalfSlots == TABLE \div 2
Half == HalfSlots * Slot
Virtual == 0 .. (TABLE * Slot - 1)

ASSUME TableAssumption ==
  /\ TABLE \in Nat /\ TABLE % 2 = 0 /\ TABLE > 0
  /\ PAGE_POOL_ALLOC_SIZE \in Nat /\ PAGE_POOL_ALLOC_SIZE > 2

(* Memory ends below the entry that the kernel's would share a table with. *)
ASSUME MachinesAssumption ==
  \A mc \in Machines : \A d \in Range(mc.memory) :
    d.start + d.pages <= Half - Slot

VARIABLES
  m,                    \* the machine
  tables,               \* the tables, the first one first
  pool,                 \* pages left of those taken from the firmware
  pc,                   \* what is mapped next
  k,                    \* the next descriptor
  todo,                 \* calls of do_mapping() to be made; the first one is
                        \* under way
  pat                   \* the processor's IA32_PAT, entry by entry

vars == <<m, tables, pool, pc, k, todo, pat>>

have_pat == "pat" \in m.cpuid
have_1gb_pages == "1gbpages" \in m.cpuid

-----------------------------------------------------------------------------
(* Entries.  Memory types are numbers; bits 0 and 1 are PWT and PCD, bit 2 *)
(* is PAT.  In the entry of a large page PAT is the lowest bit of what is  *)
(* the address in other entries.                                           *)

CACHE_WB == 0
CACHE_WT == 1
CACHE_UC == 2
CACHE_WP == 4
CACHE_WC == 5

NoEntry == [kind |-> "none", addr |-> 0, cache |-> 0, w |-> FALSE]

TableEntry(t) == [kind |-> "table", addr |-> t, cache |-> 0, w |-> TRUE]

PageEntry(phys, mem_type, w, size) ==
  IF size = 1
    THEN [kind |-> "page", addr |-> phys, cache |-> mem_type, w |-> w]
    ELSE [kind |-> "large", addr |-> phys + (mem_type \div 4), cache |-> mem_type % 4, w |-> w]

EmptyTable == [x \in 0 .. (TABLE - 1) |-> NoEntry]

(* The pages of a large page, one size smaller.  The address is taken with *)
(* its lowest bit.                                                         *)
SplitPage(e, size) ==
  [x \in 0 .. (TABLE - 1) |->
     IF size = 1
       THEN [kind |-> "page", addr |-> e.addr + x,
             cache |-> e.cache + 4 * (e.addr % 2), w |-> e.w]
       ELSE [e EXCEPT !.addr = @ + x * size]]

(* There is a table below entry x of table t; its pages are of this size.  *)
allocate_int_pt(T, t, x, size) ==
  LET e == T[t][x]
      new == IF e.kind = "none" THEN EmptyTable ELSE SplitPage(e, size)
  IN  IF e.kind = "table" THEN T
      ELSE Append([T EXCEPT ![t][x] = TableEntry(Len(T) + 1)], new)

Index(v, size) == (v \div size) % TABLE

(* The tables on the way to the entries of this size                       *)
WithTables(T, v, size) ==
  LET T2 == allocate_int_pt(T, 1, Index(v, Slot), PAGE1GB)
      pdpt == T2[1][Index(v, Slot)].addr
      T3 == allocate_int_pt(T2, pdpt, Index(v, PAGE1GB), PAGE2MB)
      pd == T3[pdpt][Index(v, PAGE1GB)].addr
      T4 == allocate_int_pt(T3, pd, Index(v, PAGE2MB), 1)
      pt == T4[pd][Index(v, PAGE2MB)].addr
  IN  CASE size = PAGE1GB -> [T |-> T2, at |-> pdpt]
        [] size = PAGE2MB -> [T |-> T3, at |-> pd]
        [] OTHER -> [T |-> T4, at |-> pt]

(* What the processor makes of the tables (external)                       *)
NotMapped == [phys |-> 0, type |-> 0, w |-> FALSE, present |-> FALSE]

Translate(T, v) ==
  LET Found(e, size) ==
        IF e.kind = "none" THEN NotMapped
        ELSE IF e.kind = "page"
          THEN [phys |-> e.addr, type |-> e.cache, w |-> e.w, present |-> TRUE]
          ELSE [phys |-> (e.addr - (e.addr % 2)) + (v % size),
                type |-> e.cache + 4 * (e.addr % 2), w |-> e.w, present |-> TRUE]
      e1 == T[1][Index(v, Slot)]
      e2 == T[e1.addr][Index(v, PAGE1GB)]
      e3 == T[e2.addr][Index(v, PAGE2MB)]
      e4 == T[e3.addr][Index(v, 1)]
  IN  IF e1.kind # "table" THEN NotMapped
      ELSE IF e2.kind # "table" THEN Found(e2, PAGE1GB)
      ELSE IF e3.kind # "table" THEN Found(e3, PAGE2MB)
      ELSE Found(e4, 1)

-----------------------------------------------------------------------------
(* do_mapping()                                                            *)

(* A call: from is the size of the pages mapped last.                      *)
Call(virt_addr, phys_beg, phys_end, mem_type, w) ==
  [virt |-> virt_addr, beg |-> phys_beg, end |-> phys_end, type |-> mem_type,
   w |-> w, from |-> 0]

use_1gb_pages(c) == have_1gb_pages /\ (c.virt - c.beg) % PAGE1GB = 0
use_2mb_pages(c) == (c.virt - c.beg) % PAGE2MB = 0

(* The size of the pages to go on with.  After a full table of smaller     *)
(* pages the address is not looked at again, except for 1 GB after 4 kB.   *)
PageSizeUnaligned(c) ==
  LET left == c.end - c.beg
      is1gb == /\ use_1gb_pages(c) /\ left >= PAGE1GB
               /\ c.beg % PAGE1GB = 0 \/ c.from = PAGE2MB
      is2mb == use_2mb_pages(c) /\ left >= PAGE2MB
  IN  IF is1gb THEN PAGE1GB ELSE IF is2mb THEN PAGE2MB ELSE 1

PageSize(c) ==
  LET left == c.end - c.beg
      is1gb == /\ use_1gb_pages(c) /\ left >= PAGE1GB
               /\ c.beg % PAGE1GB = 0 \/ c.from = PAGE2MB
      is2mb == /\ use_2mb_pages(c) /\ left >= PAGE2MB
               /\ c.beg % PAGE2MB = 0 \/ c.from \in {1, PAGE2MB}
  IN  IF is1gb THEN PAGE1GB ELSE IF is2mb THEN PAGE2MB ELSE 1

(* Entries that are filled before the table or the range ends              *)
Entries(c) ==
  LET size == PageSize(c)
  IN  Min({TABLE - Index(c.virt, size), (c.end - c.beg) \div size})

do_mapping ==
  /\ todo # << >>
  /\ LET c == Head(todo)
         size == PageSize(c)
         n == Entries(c)
         below == WithTables(tables, c.virt, size)
         first == Index(c.virt, size)
         used == Len(below.T) - Len(tables)
     IN  IF c.beg = c.end
           THEN todo' = Tail(todo) /\ UNCHANGED <<tables, pool, pc>>
           ELSE \/ /\ tables' = [below.T EXCEPT ![below.at] =
                                  [x \in DOMAIN @ |->
                                     IF x \in first .. (first + n - 1)
                                       THEN PageEntry(c.beg + (x - first) * size,
                                                      c.type, c.w, size)
                                       ELSE @[x]]]
                   /\ pool' = IF used > pool THEN pool + PAGE_POOL_ALLOC_SIZE - used
                              ELSE pool - used
                   /\ todo' = [todo EXCEPT ![1] =
                                 [c EXCEPT !.virt = @ + n * size, !.beg = @ + n * size,
                                           !.from = size]]
                   /\ UNCHANGED pc
                \/ /\ used > pool       \* no memory for a page_pool_record
                   /\ pc' = "halted" /\ todo' = << >>
                   /\ UNCHANGED <<tables, pool>>
  /\ UNCHANGED <<m, k, pat>>

-----------------------------------------------------------------------------
(* What load_tsbp() maps                                                   *)

(* What the processor's memory types mean unless somebody changes it       *)
PatAtReset == << "WB", "WT", "UC-", "UC", "WB", "WT", "UC-", "UC" >>

Init ==
  /\ m \in Machines
  /\ tables = << EmptyTable >>
  /\ pool = PAGE_POOL_ALLOC_SIZE - 1
  /\ pc = "memory"
  /\ k = 1
  /\ todo = << >>
  /\ pat = PatAtReset

mem_type_for_efi_attr(attr) ==
  CASE "WB" \in attr -> CACHE_WB
    [] "WB" \notin attr /\ "WT" \in attr -> CACHE_WT
    [] attr \cap {"WB", "WT"} = {} /\ have_pat /\ "WP" \in attr -> CACHE_WP
    [] attr \cap {"WB", "WT", "WP"} = {} /\ have_pat /\ "WC" \in attr -> CACHE_WC
    [] OTHER -> CACHE_UC

page_attrs_for_efi_mem(type) == type \notin {"RuntimeServicesCode", "UnusableMemory"}

TypeOfDesc(d) == mem_type_for_efi_attr(d.attr)
WritableDesc(d) == page_attrs_for_efi_mem(d.type)
EndOf(d) == d.start + d.pages

(* The last of the descriptors that are mapped together with the first     *)
RunEndAnyPermission(first) ==
  LET mm == m.memory
  IN  Min({j \in first .. Len(mm) :
             \/ j = Len(mm)
             \/ mm[j + 1].start # EndOf(mm[j])
             \/ TypeOfDesc(mm[j + 1]) # TypeOfDesc(mm[first])})

RunEnd(first) ==
  LET mm == m.memory
  IN  Min({j \in first .. Len(mm) :
             \/ j = Len(mm)
             \/ mm[j + 1].start # EndOf(mm[j])
             \/ TypeOfDesc(mm[j + 1]) # TypeOfDesc(mm[first])
             \/ WritableDesc(mm[j + 1]) # WritableDesc(mm[first])})

(* A round of the loop over the descriptors: the memory, and within the    *)
(* first 4 GB what is behind it.  What is before the first descriptor is   *)
(* passed as an empty range.                                               *)
Round(first) ==
  LET mm == m.memory
      last == RunEnd(first)
      beg == mm[first].start
      end == EndOf(mm[last])
      gap_end == IF last < Len(mm) /\ mm[last + 1].start # end
                   THEN Min({mm[last + 1].start, LOW_END}) ELSE LOW_END
      low0_end == Min({beg, LOW_END})
  IN  (IF first = 1 /\ beg # 0
         THEN << Call(0, low0_end, low0_end, CACHE_UC, FALSE) >> ELSE << >>)
      \o << Call(beg, beg, end, TypeOfDesc(mm[first]), WritableDesc(mm[first])) >>
      \o (IF end < LOW_END
            THEN << Call(end, end, gap_end, CACHE_UC, FALSE) >> ELSE << >>)

MapMemoryAgain ==
  /\ pc = "memory" /\ todo = << >>
  /\ IF k <= Len(m.memory)
       THEN todo' = Round(k) /\ k' = RunEnd(k) /\ UNCHANGED pc
       ELSE pc' = "framebuffer" /\ UNCHANGED <<todo, k>>
  /\ UNCHANGED <<m, tables, pool, pat>>

MapMemory ==
  /\ pc = "memory" /\ todo = << >>
  /\ IF k <= Len(m.memory)
       THEN todo' = Round(k) /\ k' = RunEnd(k) + 1 /\ UNCHANGED pc
       ELSE pc' = "framebuffer" /\ UNCHANGED <<todo, k>>
  /\ UNCHANGED <<m, tables, pool, pat>>

(* The descriptor the framebuffer begins in is taken for the framebuffer.  *)
FbRegion ==
  LET found == {d \in Range(m.memory) : m.fb.start \in d.start .. (EndOf(d) - 1)}
  IN  IF m.fb.pages = 0 \/ found = {} THEN m.fb
      ELSE LET d == CHOOSE x \in found : TRUE
           IN  [start |-> d.start, pages |-> d.pages]

MapFramebuffer ==
  /\ pc = "framebuffer" /\ todo = << >>
  /\ todo' = IF m.fb.pages = 0 THEN << >>
             ELSE << Call(FbRegion.start, FbRegion.start, EndOf(FbRegion), CACHE_WC, TRUE) >>
  /\ pc' = IF m.fb.pages = 0 /\ m.needs_fb THEN "failed" ELSE "mirror"
  /\ UNCHANGED <<m, tables, pool, k, pat>>

(* The upper half shares the tables of the lower half.                     *)
Mirror ==
  /\ pc = "mirror" /\ todo = << >>
  /\ tables' = [tables EXCEPT ![1] =
                  [x \in DOMAIN @ |-> IF x < HalfSlots THEN @[x] ELSE @[x - HalfSlots]]]
  /\ pc' = "kernel"
  /\ UNCHANGED <<m, pool, k, todo, pat>>

MapKernel ==
  /\ pc = "kernel" /\ todo = << >>
  /\ todo' = [x \in DOMAIN m.kernel |->
                LET s == m.kernel[x]
                IN  Call(s.virt, s.phys, s.phys + s.pages, CACHE_WB, s.w)]
  /\ pc' = "done"
  /\ UNCHANGED <<m, tables, pool, k, pat>>

-----------------------------------------------------------------------------
(* The jump into the kernel                                                *)

(* The memory types in the order of memory_types                           *)
Pat == << "WB", "WT", "UC-", "UC", "WP", "WC", "UC", "UC" >>

(* The loader's tables take effect, and its segments, with interrupts off. *)
Jump ==
  /\ pc = "done" /\ todo = << >>
  /\ pat' = IF have_pat THEN Pat ELSE pat
  /\ pc' = "entered"
  /\ UNCHANGED <<m, tables, pool, k, todo>>

Next == do_mapping \/ MapMemory \/ MapFramebuffer \/ Mirror \/ MapKernel \/ Jump

Spec == Init /\ [][Next]_vars

(* The loader is the only thread and never waits.                          *)
FairSpec == Spec /\ WF_vars(Next)

-----------------------------------------------------------------------------
(* Properties                                                              *)

Done == pc \in {"done", "entered"} /\ todo = << >>

Entry == [kind : {"none", "table", "page", "large"}, addr : Nat, cache : 0 .. 7, w : BOOLEAN]

(* Every variable has its type; an entry points to a table that exists,    *)
(* which is not the first one.                                             *)
TypeOK ==
  /\ \A t \in DOMAIN tables : \A x \in 0 .. (TABLE - 1) :
       /\ tables[t][x] \in Entry
       /\ tables[t][x].kind = "table" => tables[t][x].addr \in 2 .. Len(tables)
  /\ pool \in 0 .. PAGE_POOL_ALLOC_SIZE
  /\ pc \in {"memory", "framebuffer", "mirror", "kernel", "done", "entered", "failed",
             "halted"}
  /\ k \in 1 .. (Len(m.memory) + 1)
  /\ \A x \in DOMAIN todo : todo[x].beg <= todo[x].end

(* do_mapping(), whichever sizes of pages it takes and whatever it has to  *)
(* split, maps the pages it goes over as it was told to, and no other page *)
(* is mapped in another way than before.                                   *)
MapsWhatItIsTold ==
  [][todo # << >> /\ Head(todo).beg # Head(todo).end /\ pc' # "halted" =>
       LET c == Head(todo)
           n == todo'[1].virt - c.virt
       IN  /\ n > 0
           /\ \A v \in Virtual :
                Translate(tables', v) =
                  IF v \in c.virt .. (c.virt + n - 1)
                    THEN [phys |-> c.beg + (v - c.virt), type |-> c.type, w |-> c.w,
                          present |-> TRUE]
                    ELSE Translate(tables, v)]_vars

InFb(p) == p \in FbRegion.start .. (EndOf(FbRegion) - 1)

(* In the end all memory is mapped to itself, with the memory type and the *)
(* permission of its descriptor, and again in the upper half; so is the    *)
(* framebuffer, for write-combining.                                       *)
MemoryIsMapped ==
  Done =>
    \A half \in {0, Half} :
      /\ \A d \in Range(m.memory) : \A p \in d.start .. (EndOf(d) - 1) :
           ~InFb(p) => Translate(tables, half + p) =
             [phys |-> p, type |-> TypeOfDesc(d), w |-> WritableDesc(d), present |-> TRUE]
      /\ \A p \in FbRegion.start .. (EndOf(FbRegion) - 1) :
           Translate(tables, half + p) =
             [phys |-> p, type |-> CACHE_WC, w |-> TRUE, present |-> TRUE]

(* The kernel is mapped where it was linked, and writable where it may be. *)
KernelIsMapped ==
  Done =>
    \A s \in Range(m.kernel) : \A x \in 0 .. (s.pages - 1) :
      Translate(tables, s.virt + x) =
        [phys |-> s.phys + x, type |-> CACHE_WB, w |-> s.w, present |-> TRUE]

MappedBelow(lo) == \A p \in lo .. (LOW_END - 1) : Translate(tables, p).present

(* Everything in the first 4 GB behind the first descriptor is mapped,     *)
(* memory or not.                                                          *)
GapsAreMapped == Done => MappedBelow(m.memory[1].start)

(* The loader gets to an end of its mapping: do_mapping() meets the end of *)
(* its range exactly, and no loop over descriptors, entries or sizes of    *)
(* pages goes round without getting on.                                    *)
MappingEnds == <>(pc \in {"failed", "halted", "entered"})

(* The kernel sees all memory through a cache that the firmware allows for *)
(* it, or through none, and the framebuffer as it should be seen: the bits *)
(* in the tables mean what they mean only with the loader's own IA32_PAT.  *)
CachingIsAllowed ==
  pc = "entered" =>
    LET Caching(v) == pat[Translate(tables, v).type + 1] IN
    /\ \A d \in Range(m.memory) : \A p \in d.start .. (EndOf(d) - 1) :
         ~InFb(p) => Caching(p) \in d.attr \cup {"UC-"} /\ Caching(Half + p) = Caching(p)
    /\ have_pat => \A p \in FbRegion.start .. (EndOf(FbRegion) - 1) : Caching(p) = "WC"
    /\ \A g \in Range(m.kernel) : \A x \in 0 .. (g.pages - 1) : Caching(g.virt + x) = "WB"

(* The kernel starts with all that it may use before its own tables are    *)
(* loaded: its image, the memory, the framebuffer and what lies between,   *)
(* each with the permissions and the caching that it allows.               *)
KernelSeesTheMachine ==
  TypeOK /\ MemoryIsMapped /\ KernelIsMapped /\ GapsAreMapped /\ CachingIsAllowed

=============================================================================
