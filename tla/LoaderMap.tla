----------------------------- MODULE LoaderMap -----------------------------
(***************************************************************************)
(* The memory map that the boot loader hands to the kernel                 *)
(* (load_tsbp() of bootloader/uefi/src/tosaithe-proto.cc).                 *)
(*                                                                         *)
(* The loader asks the firmware for its map, translates it into entries of *)
(* its own, inserts the kernel and the framebuffer, and leaves the boot    *)
(* services.  The firmware lets it go only if its memory is still as the   *)
(* map says; but every allocation changes that, the loader's own too, and  *)
(* so do the firmware's timers.  Then the map is built again.              *)
(*                                                                         *)
(* The firmware is external.  Every call of it is a step, and between any  *)
(* two steps it may change its memory.  Addresses are page numbers.        *)
(***************************************************************************)
EXTENDS Integers, Sequences, SequencesExt, FiniteSetsExt

CONSTANTS
  Machines,             \* memory at the start, kernel, framebuffer, ramdisk
  EFI_MAP_FIRST,        \* descriptors of the first buffer
  EFI_MAP_MARGIN,       \* descriptors added to what the firmware asks for
  TSBP_MAP_FIRST,       \* entries allocated at first
  TSBP_MAP_BUMP,        \* entries added by increase_capacity()
  MAX_EVENTS            \* bound: how often the firmware acts by itself

ASSUME SizesAssumption ==
  /\ EFI_MAP_FIRST \in Nat \ {0} /\ EFI_MAP_MARGIN \in Nat
  /\ TSBP_MAP_FIRST \in Nat \ {0} /\ TSBP_MAP_BUMP \in Nat \ {0}
  /\ MAX_EVENTS \in Nat

VARIABLES
  m,                    \* the machine
  fw,                   \* the firmware's descriptors, in its own order
  fresh,                \* memMapKey is the firmware's key
  events,               \* how often the firmware has acted
  pc,
  efi_memmap,           \* the loader's copy of the descriptors
  room,                 \* descriptors its buffer has room for
  entries,              \* tsbp_memmap
  capacity,
  i,                    \* index of the loop
  todo,                 \* what is still to be inserted
  fb,                   \* fb_region and fb_size
  tables                \* where the page tables are

vars == <<m, fw, fresh, events, pc, efi_memmap, room, entries, capacity, i,
          todo, fb, tables>>
firmware == <<m, fw, fresh, events>>

Span(d) == d.start .. (d.start + d.pages - 1)

-----------------------------------------------------------------------------
(* The firmware (external)                                                 *)

(* The last page of a free descriptor gets another type.  The descriptor   *)
(* of the page is listed next to the old one, or last.                     *)
Retyped(k, type) ==
  LET d == fw[k]
      page == [d EXCEPT !.start = d.start + d.pages - 1, !.pages = 1, !.type = type]
      rest == [fw EXCEPT ![k].pages = @ - 1]
  IN  IF d.pages = 1 THEN {[fw EXCEPT ![k] = page]}
      ELSE {Append(rest, page), InsertAt(rest, k + 1, page)}

FreeDescriptors == {k \in DOMAIN fw : fw[k].type = "Conventional"}

Take(type) ==
  /\ \E k \in FreeDescriptors : fw' \in Retyped(k, type)
  /\ fresh' = FALSE
  /\ UNCHANGED <<m, events>>

(* A pool may have room left.                                              *)
AllocatePool == Take("LoaderData") \/ UNCHANGED firmware

Event ==
  /\ pc \notin {"entered", "failed", "halted"}
  /\ events < MAX_EVENTS
  /\ events' = events + 1
  /\ \E k \in FreeDescriptors : fw' \in Retyped(k, "BootServicesData")
  /\ fresh' = FALSE
  /\ UNCHANGED <<m, pc, efi_memmap, room, entries, capacity, i, todo, fb, tables>>

-----------------------------------------------------------------------------
(* get_efi_memmap(), called twice                                          *)

Init ==
  /\ m \in Machines
  /\ fw = m.memory
  /\ fresh = FALSE
  /\ events = 0
  /\ pc = "alloc_1"
  /\ efi_memmap = << >>
  /\ room = EFI_MAP_FIRST
  /\ entries = << >>
  /\ capacity = 0
  /\ i = 1
  /\ todo = << >>
  /\ fb = [start |-> 0, pages |-> 0]
  /\ tables = {}

AllocateBuffer ==
  /\ \/ pc = "alloc_1" /\ pc' = "get_1" /\ AllocatePool
     \/ pc = "alloc_2" /\ pc' = "get_2" /\ AllocatePool
     \/ pc \in {"alloc_1", "alloc_2"} /\ pc' = "failed" /\ UNCHANGED firmware
  /\ UNCHANGED <<efi_memmap, room, entries, capacity, i, todo, fb, tables>>

(* GetMemoryMap() fills the buffer, wants a larger one, or fails.          *)
GetMemoryMap ==
  /\ pc \in {"get_1", "get_2"}
  /\ \/ /\ Len(fw) <= room
        /\ efi_memmap' = fw
        /\ fresh' = TRUE
        /\ pc' = IF pc = "get_1" THEN "sort_efi" ELSE "convert"
        /\ UNCHANGED <<fw, room>>
     \/ /\ Len(fw) > room
        /\ room' = Len(fw) + EFI_MAP_MARGIN
        /\ pc' = IF pc = "get_1" THEN "alloc_1" ELSE "alloc_2"
        /\ UNCHANGED <<fw, fresh, efi_memmap>>
     \/ pc' = "failed" /\ UNCHANGED <<fw, fresh, efi_memmap, room>>
  /\ i' = 1
  /\ UNCHANGED <<m, events, entries, capacity, todo, fb, tables>>

-----------------------------------------------------------------------------
(* The first copy is sorted and compacted; the page tables are made from   *)
(* it (module LoaderPaging), and the framebuffer is looked for in it.      *)

Swapped(s, k) == [s EXCEPT ![k] = s[k + 1], ![k + 1] = s[k]]

(* A pass of a bubble sort (by address) over the first elements: the       *)
(* sequence, and the place of the last exchange (0 if there was none)      *)
BubblePass(s, last) ==
  LET pass[k \in 0 .. last] ==
        IF k = 0 THEN [seq |-> s, at |-> 0]
        ELSE LET before == pass[k - 1]
             IN  IF before.seq[k].start > before.seq[k + 1].start
                   THEN [seq |-> Swapped(before.seq, k), at |-> k]
                   ELSE before
  IN  pass[last]

sort_efi_memmap ==
  /\ pc = "sort_efi"
  /\ LET pass == BubblePass(efi_memmap, Len(efi_memmap) - 1)
     IN  /\ efi_memmap' = pass.seq
         /\ pc' = IF pass.at # 0 THEN "sort_efi" ELSE "compact"
  /\ UNCHANGED <<firmware, room, entries, capacity, i, todo, fb, tables>>

CanMerge(a, b) ==
  /\ a.type = b.type
  /\ "RUNTIME" \notin a.attr
  /\ a.attr = b.attr
  /\ b.start = a.start + a.pages

Compacted(s) ==
  LET compact[k \in 1 .. Len(s)] ==
        IF k = 1 THEN << s[1] >>
        ELSE LET done == compact[k - 1]
             IN  IF CanMerge(Last(done), s[k])
                   THEN [done EXCEPT ![Len(done)].pages = @ + s[k].pages]
                   ELSE Append(done, s[k])
  IN  compact[Len(s)]

compact_efi_memmap ==
  /\ pc = "compact"
  /\ efi_memmap' = Compacted(efi_memmap)
  /\ pc' = "framebuffer"
  /\ UNCHANGED <<firmware, room, entries, capacity, i, todo, fb, tables>>

(* The descriptor of a sorted map that an address is in, if any            *)
efi_memmap_find(s, addr) == {k \in DOMAIN s : addr \in Span(s[k])}

(* What is known as the framebuffer is all of its descriptor.              *)
FindFramebuffer ==
  /\ pc = "framebuffer"
  /\ LET found == efi_memmap_find(efi_memmap, m.fb.start)
     IN  fb' = IF m.fb.pages = 0 \/ found = {} THEN m.fb
               ELSE LET d == efi_memmap[Min(found)]
                    IN  [start |-> d.start, pages |-> d.pages]
  /\ pc' = IF m.fb.pages = 0 /\ m.needs_fb THEN "failed" ELSE "tables"
  /\ UNCHANGED <<firmware, efi_memmap, room, entries, capacity, i, todo, tables>>

(* take_page(): memory of type LoaderCode, as all from efi_page_alloc.     *)
(* allocate() does not say when there is none; the tables then are at 0.   *)
MakeTables ==
  /\ pc = "tables"
  /\ \/ \E k \in FreeDescriptors :
          /\ fw' \in Retyped(k, "LoaderCode")
          /\ tables' = {fw[k].start + fw[k].pages - 1}
          /\ fresh' = FALSE
     \/ /\ FreeDescriptors = {}
        /\ tables' = {0}
        /\ UNCHANGED <<fw, fresh>>
  /\ pc' = "allocate"
  /\ UNCHANGED <<m, events, efi_memmap, room, entries, capacity, i, todo, fb>>

-----------------------------------------------------------------------------
(* tosaithe_memmap                                                         *)

allocate ==
  /\ pc = "allocate"
  /\ \/ AllocatePool /\ capacity' = TSBP_MAP_FIRST /\ pc' = "alloc_2"
     \/ pc' = "halted" /\ UNCHANGED <<firmware, capacity>>
  /\ room' = EFI_MAP_FIRST
  /\ efi_memmap' = << >>
  /\ UNCHANGED <<entries, i, todo, fb, tables>>

(* Entries are appended; there may be too few slots, and then a failed     *)
(* allocation ends in abort().                                             *)
add_entry(s, next) ==
  \/ /\ Len(s) <= capacity
     /\ entries' = s /\ pc' = next
     /\ UNCHANGED <<firmware, capacity>>
  \/ /\ Len(s) > capacity
     /\ AllocatePool
     /\ capacity' = capacity + TSBP_MAP_BUMP
     /\ entries' = s /\ pc' = next
  \/ /\ Len(s) > capacity
     /\ pc' = "halted"
     /\ UNCHANGED <<firmware, capacity, entries>>

UsableTypes == {"LoaderCode", "Conventional", "BootServicesCode", "BootServicesData"}
DeviceTypes == {"MemoryMappedIO", "MemoryMappedIOPortSpace", "PalCode"}

st_type(t) ==
  CASE t \in UsableTypes -> "USABLE"
    [] t = "LoaderData" -> "BOOTLOADER_RECLAIMABLE"
    [] t = "RuntimeServicesCode" -> "UEFI_RUNTIME_CODE"
    [] t = "RuntimeServicesData" -> "UEFI_RUNTIME_DATA"
    [] t = "UnusableMemory" -> "BAD_MEMORY"
    [] t = "ACPIReclaimMemory" -> "ACPI_RECLAIMABLE"
    [] t = "ACPIMemoryNVS" -> "ACPI_NVS"
    [] t = "PersistentMemory" -> "PERSISTENT_MEMORY"
    [] OTHER -> "RESERVED"

(* The descriptor types that may be merged to one before them              *)
MergedTypes(t) ==
  CASE st_type(t) = "BOOTLOADER_RECLAIMABLE" -> {"LoaderData"}
    [] st_type(t) = "RESERVED" -> DeviceTypes
    [] st_type(t) = "USABLE" -> UsableTypes
    [] OTHER -> {}

efi_attrib_to_tosaithe(attr) ==
  LET modes == SelectSeq(<< "WB", "WT", "WC", "WP" >>, LAMBDA c : c \in attr)
  IN  [cache |-> IF modes = << >> THEN "UC" ELSE modes[1],
       runtime |-> "RUNTIME" \in attr]

(* The last descriptor of the run that begins at k: each continues where   *)
(* the one before ends, with the same attributes.                          *)
RunEnd(s, k) ==
  Min({j \in k .. Len(s) :
         \/ j = Len(s)
         \/ s[j + 1].start # s[j].start + s[j].pages
         \/ s[j + 1].type \notin MergedTypes(s[k].type)
         \/ s[j + 1].attr # s[k].attr})

Convert ==
  /\ pc = "convert"
  /\ i <= Len(efi_memmap)
  /\ LET first == efi_memmap[i]
         last == efi_memmap[RunEnd(efi_memmap, i)]
     IN  add_entry(Append(entries,
                     [type |-> st_type(first.type), start |-> first.start,
                      pages |-> last.start + last.pages - first.start,
                      flags |-> efi_attrib_to_tosaithe(first.attr)]), "convert")
  /\ i' = RunEnd(efi_memmap, i) + 1
  /\ UNCHANGED <<efi_memmap, room, todo, fb, tables>>

Entry(type, region, cache) ==
  [type |-> type, start |-> region.start, pages |-> region.pages,
   flags |-> [cache |-> cache, runtime |-> FALSE]]

ConvertEnds ==
  /\ pc = "convert"
  /\ i > Len(efi_memmap)
  /\ todo' = << Entry("KERNEL", m.kernel, "WB") >>
             \o (IF fb.pages # 0 THEN << Entry("FRAMEBUFFER", fb, "WC") >> ELSE << >>)
             \o (IF m.ramdisk.pages # 0 THEN << Entry("RAMDISK", m.ramdisk, "WB") >>
                 ELSE << >>)
  /\ pc' = "insert"
  /\ i' = 1
  /\ UNCHANGED <<firmware, efi_memmap, room, entries, capacity, fb, tables>>

(* insert_entry(), one round of its loop: what the old entry loses         *)
Trimmed(e, n) ==
  LET end == e.start + e.pages  nend == n.start + n.pages
  IN  IF n.start <= e.start
        THEN << [e EXCEPT !.start = nend, !.pages = end - nend] >>
      ELSE IF nend >= end
        THEN << [e EXCEPT !.pages = n.start - e.start] >>
        ELSE << [e EXCEPT !.pages = n.start - e.start],
                [e EXCEPT !.start = nend, !.pages = end - nend] >>

insert_entry ==
  /\ pc = "insert"
  /\ todo # << >>
  /\ i <= Len(entries)
  /\ LET e == entries[i]
         n == Head(todo)
     IN  IF Span(e) \subseteq Span(n)
           THEN entries' = Front([entries EXCEPT ![i] = Last(entries)])
                /\ UNCHANGED <<firmware, capacity, pc>>
         ELSE IF Span(e) \cap Span(n) # {}
           THEN LET kept == Trimmed(e, n)
                IN  add_entry([entries EXCEPT ![i] = kept[1]] \o Tail(kept), "insert")
         ELSE UNCHANGED <<firmware, capacity, pc, entries>>
  /\ i' = i + 1
  /\ UNCHANGED <<efi_memmap, room, todo, fb, tables>>

InsertEnds ==
  /\ pc = "insert"
  /\ todo # << >>
  /\ i > Len(entries)
  /\ add_entry(Append(entries, Head(todo)), "insert")
  /\ todo' = Tail(todo)
  /\ i' = 1
  /\ UNCHANGED <<efi_memmap, room, fb, tables>>

AllInserted ==
  /\ pc = "insert"
  /\ todo = << >>
  /\ pc' = "sort"
  /\ i' = Len(entries) - 1
  /\ UNCHANGED <<firmware, efi_memmap, room, entries, capacity, todo, fb, tables>>

(* i is end_i, counted from 1: entries after it are in place.              *)
sort ==
  /\ pc = "sort"
  /\ LET pass == BubblePass(entries, i)
     IN  /\ entries' = pass.seq
         /\ i' = IF pass.at > 0 THEN pass.at - 1 ELSE 0
         /\ pc' = IF i' > 0 THEN "sort" ELSE "exit"
  /\ UNCHANGED <<firmware, efi_memmap, room, capacity, todo, fb, tables>>

-----------------------------------------------------------------------------
(* Leaving the boot services                                               *)

ExitBootServicesAnyway ==
  /\ pc = "exit"
  /\ pc' = IF m.la57 THEN "failed" ELSE "entered"
  /\ UNCHANGED <<firmware, efi_memmap, room, entries, capacity, i, todo, fb, tables>>

ExitBootServices ==
  /\ pc = "exit"
  /\ pc' = IF m.la57 THEN "failed" ELSE IF fresh THEN "entered" ELSE "clear"
  /\ UNCHANGED <<firmware, efi_memmap, room, entries, capacity, i, todo, fb, tables>>

(* The entries are dropped, their memory is kept; the map is fetched into  *)
(* the old buffer if it fits.                                              *)
ClearWithoutAsking ==
  /\ pc = "clear"
  /\ entries' = << >>
  /\ i' = 1
  /\ pc' = "convert"
  /\ UNCHANGED <<firmware, efi_memmap, room, capacity, todo, fb, tables>>

Clear ==
  /\ pc = "clear"
  /\ entries' = << >>
  /\ \/ /\ Len(fw) <= Len(efi_memmap)
        /\ efi_memmap' = fw
        /\ fresh' = TRUE
        /\ pc' = "convert"
        /\ UNCHANGED room
     \/ /\ Len(fw) > Len(efi_memmap)
        /\ room' = EFI_MAP_FIRST
        /\ pc' = "alloc_2"
        /\ efi_memmap' = << >>
        /\ UNCHANGED fresh
     \/ pc' = "failed" /\ UNCHANGED <<fresh, efi_memmap, room>>
  /\ i' = 1
  /\ UNCHANGED <<m, fw, events, capacity, todo, fb, tables>>

load_tsbp ==
  \/ AllocateBuffer
  \/ GetMemoryMap
  \/ sort_efi_memmap
  \/ compact_efi_memmap
  \/ FindFramebuffer
  \/ MakeTables
  \/ allocate
  \/ Convert
  \/ ConvertEnds
  \/ insert_entry
  \/ InsertEnds
  \/ AllInserted
  \/ sort
  \/ ExitBootServices
  \/ Clear

Next == load_tsbp \/ Event

Spec == Init /\ [][Next]_vars

(* The loader goes on: nothing else runs but the firmware's events.        *)
FairSpec == Spec /\ WF_vars(load_tsbp)

-----------------------------------------------------------------------------
(* Properties                                                              *)

Region(r) == r.start \in Nat /\ r.pages \in Nat

(* Every variable has its type; no more entries are stored than there is   *)
(* memory for, and the firmware never writes behind the buffer.            *)
TypeOK ==
  /\ \A k \in DOMAIN fw : Region(fw[k]) /\ fw[k].pages > 0
  /\ fresh \in BOOLEAN /\ events \in 0 .. MAX_EVENTS
  /\ pc \in {"alloc_1", "get_1", "sort_efi", "compact", "framebuffer", "tables",
            "allocate", "alloc_2", "get_2", "convert", "insert", "sort", "exit",
            "clear", "entered", "failed", "halted"}
  /\ Len(efi_memmap) <= room
  /\ \A k \in DOMAIN entries : Region(entries[k]) /\ entries[k].pages > 0
  /\ Len(entries) <= capacity
  /\ i \in Nat /\ Region(fb) /\ tables \subseteq Nat

MemoryPages == UNION {Span(d) : d \in Range(fw)}

(* What the kernel should be told about a page, from what the page is when *)
(* the kernel starts                                                       *)
TypeOf(p) ==
  IF p \in Span(m.ramdisk) THEN "RAMDISK"
  ELSE IF p \in Span(fb) THEN "FRAMEBUFFER"
  ELSE IF p \in Span(m.kernel) THEN "KERNEL"
  ELSE st_type((CHOOSE d \in Range(fw) : p \in Span(d)).type)

(* When the kernel is entered, its map says of every page of the machine,  *)
(* once, what the page is at that moment: after all retries, whatever the  *)
(* firmware and the loader itself have allocated meanwhile.  It says       *)
(* nothing of other pages.  (phys_memory_init() relies on it: its proof    *)
(* assumes entries that do not overlap.)  It is in the order of addresses, *)
(* and was never longer than the memory for it.                            *)
MapIsExact ==
  /\ TypeOK
  /\ pc = "entered" =>
       /\ \A p \in MemoryPages \cup Span(fb) \cup Span(m.ramdisk) \cup Span(m.kernel) :
            \E k \in DOMAIN entries :
              /\ p \in Span(entries[k]) /\ entries[k].type = TypeOf(p)
              /\ \A j \in DOMAIN entries : p \in Span(entries[j]) => j = k
       /\ UNION {Span(e) : e \in Range(entries)} \subseteq
            MemoryPages \cup Span(fb) \cup Span(m.ramdisk) \cup Span(m.kernel)
       /\ \A j, k \in DOMAIN entries : j < k => entries[j].start < entries[k].start

(* Once the firmware leaves memory alone the loader gets through: building *)
(* the map again does not for ever need memory that makes it stale.        *)
LoaderFinishes == <>(pc \in {"entered", "failed", "halted"})

=============================================================================
