------------------------------ MODULE PhysMem ------------------------------
(***************************************************************************)
(* The physical page allocator of kernel/memory/memory.c.                  *)
(*                                                                         *)
(* Two tables of regions (base, number of pages) are kept: the regions the *)
(* boot loader reported as usable, and the regions that are free now.      *)
(* Addresses of the loader's map are byte addresses; a region's base, which*)
(* the code keeps as a page-aligned byte address, is its page number here. *)
(*                                                                         *)
(* phys_memory_init() is modelled one loop iteration at a time, so that    *)
(* what its loops establish can be proved.  Nothing else runs before it    *)
(* returns.  phys_page_alloc() and phys_page_free() are one step each: no  *)
(* interrupt handler calls them, and the kernel has one thread.            *)
(***************************************************************************)
EXTENDS Integers, Sequences, FiniteSets, SequencesExt

CONSTANTS
  PAGE_SIZE,            \* bytes of a page
  MAX_PHYS_REGIONS,     \* slots of each region table
  MemMaps,              \* the memory maps the loader may pass
  FreeArgs              \* the byte addresses phys_page_free() is called with

USABLE == 0             \* tsbp_mmap_type USABLE

MemMapEntry == [base : Nat, length : Nat, type : Nat]

(* Firmware memory ranges do not overlap.                                  *)
EntriesDisjoint(m) ==
  \A a, b \in DOMAIN m :
    a # b => \/ m[a].base + m[a].length <= m[b].base
             \/ m[b].base + m[b].length <= m[a].base

ASSUME PageSizeAssumption == PAGE_SIZE \in Nat \ {0}
ASSUME MaxRegionsAssumption == MAX_PHYS_REGIONS \in Nat \ {0}
ASSUME MemMapsAssumption ==
  \A m \in MemMaps : m \in Seq(MemMapEntry) /\ EntriesDisjoint(m)
ASSUME FreeArgsAssumption == FreeArgs \subseteq Nat

VARIABLES
  memmap,                 \* loader_data->memmap; a null map is the empty one
  pc,                     \* the loop phys_memory_init() is in, or "up"
  i,                      \* the loop's index
  out,                    \* regions the merging loop has written
  managed_regions,
  free_regions,
  phys_total_pages,
  phys_free_pages_count,
  ret,                    \* page last returned by phys_page_alloc(), 0 if none
  allocated               \* history: pages handed out and not given back

vars == <<memmap, pc, i, out, managed_regions, free_regions,
          phys_total_pages, phys_free_pages_count, ret, allocated>>

Region == [base : Nat, pages : Nat]

End(r) == r.base + r.pages

Pages(r) == r.base .. (End(r) - 1)

PagesOf(s) == UNION {Pages(s[k]) : k \in 1 .. Len(s)}

Init ==
  /\ memmap \in MemMaps
  /\ pc = "collect"
  /\ i = 1
  /\ out = 0
  /\ managed_regions = << >>
  /\ free_regions = << >>
  /\ phys_total_pages = 0
  /\ phys_free_pages_count = 0
  /\ ret = 0
  /\ allocated = {}

-----------------------------------------------------------------------------
(* phys_memory_init()                                                      *)

(* First whole page of an entry, never page 0, and the page after its last *)
(* one.  (Here as elsewhere, a definition whose name says what is wrong is *)
(* a mutant of the one that follows it: a plausible slip in that code,     *)
(* which the properties must notice.)                                      *)
FirstPageRoundedDown(e) ==
  LET begin == e.base \div PAGE_SIZE
  IN  IF begin = 0 THEN 1 ELSE begin

FirstPage(e) ==
  LET begin == (e.base + PAGE_SIZE - 1) \div PAGE_SIZE
  IN  IF begin = 0 THEN 1 ELSE begin

EndPage(e) == (e.base + e.length) \div PAGE_SIZE

(* Page 0 alone, an entry without a whole page and an entry of another     *)
(* type are skipped.                                                       *)
Kept(e) == e.type = USABLE /\ FirstPage(e) < EndPage(e)

EntryRegion(e) == [base |-> FirstPage(e), pages |-> EndPage(e) - FirstPage(e)]

(* The loop over the map's entries; it breaks when the table is full.      *)
Collect ==
  /\ pc = "collect"
  /\ i <= Len(memmap)
  /\ Kept(memmap[i]) => Len(managed_regions) < MAX_PHYS_REGIONS
  /\ managed_regions' =
       IF Kept(memmap[i])
         THEN Append(managed_regions, EntryRegion(memmap[i]))
         ELSE managed_regions
  /\ i' = i + 1
  /\ UNCHANGED <<memmap, pc, out, free_regions, phys_total_pages,
                 phys_free_pages_count, ret, allocated>>

CollectDone ==
  /\ pc = "collect"
  /\ i <= Len(memmap) =>
       Kept(memmap[i]) /\ Len(managed_regions) >= MAX_PHYS_REGIONS
  /\ pc' = "sort"
  /\ i' = 2
  /\ UNCHANGED <<memmap, out, managed_regions, free_regions, phys_total_pages,
                 phys_free_pages_count, ret, allocated>>

(* One round of the insertion sort: element n of s moves down to j.        *)
MoveDown(s, n, j) == InsertAt(RemoveAt(s, n), j, s[n])

SortStep ==
  /\ pc = "sort"
  /\ i <= Len(managed_regions)
  /\ \E j \in 1 .. i :
       /\ \A k \in j .. (i - 1) : managed_regions[k].base > managed_regions[i].base
       /\ j > 1 => managed_regions[j - 1].base <= managed_regions[i].base
       /\ managed_regions' = MoveDown(managed_regions, i, j)
  /\ i' = i + 1
  /\ UNCHANGED <<memmap, pc, out, free_regions, phys_total_pages,
                 phys_free_pages_count, ret, allocated>>

SortDone ==
  /\ pc = "sort"
  /\ i > Len(managed_regions)
  /\ pc' = "merge"
  /\ i' = 1
  /\ UNCHANGED <<memmap, out, managed_regions, free_regions, phys_total_pages,
                 phys_free_pages_count, ret, allocated>>

(* One round of the merging loop, which compacts the table in place: an    *)
(* empty region is dropped, one that starts where the last written region  *)
(* ends is added to it, any other is written behind it.                    *)
MergeStep ==
  /\ pc = "merge"
  /\ i <= Len(managed_regions)
  /\ LET s == managed_regions
         empty == s[i].pages = 0
         adjacent == out # 0 /\ End(s[out]) = s[i].base
     IN  /\ managed_regions' =
              IF empty THEN s
              ELSE IF adjacent
                THEN ReplaceAt(s, out, [base |-> s[out].base,
                                        pages |-> s[out].pages + s[i].pages])
                ELSE ReplaceAt(s, out + 1, s[i])
         /\ out' = IF empty \/ adjacent THEN out ELSE out + 1
  /\ i' = i + 1
  /\ UNCHANGED <<memmap, pc, free_regions, phys_total_pages,
                 phys_free_pages_count, ret, allocated>>

MergeDone ==
  /\ pc = "merge"
  /\ i > Len(managed_regions)
  /\ managed_regions' = SubSeq(managed_regions, 1, out)
  /\ pc' = "copy"
  /\ i' = 1
  /\ UNCHANGED <<memmap, out, free_regions, phys_total_pages,
                 phys_free_pages_count, ret, allocated>>

CopyStep ==
  /\ pc = "copy"
  /\ i <= Len(managed_regions)
  /\ free_regions' = Append(free_regions, managed_regions[i])
  /\ phys_total_pages' = phys_total_pages + managed_regions[i].pages
  /\ i' = i + 1
  /\ UNCHANGED <<memmap, pc, out, managed_regions, phys_free_pages_count, ret,
                 allocated>>

CopyDone ==
  /\ pc = "copy"
  /\ i > Len(managed_regions)
  /\ phys_free_pages_count' = phys_total_pages
  /\ pc' = "up"
  /\ UNCHANGED <<memmap, i, out, managed_regions, free_regions,
                 phys_total_pages, ret, allocated>>

phys_memory_init ==
  \/ Collect \/ CollectDone
  \/ SortStep \/ SortDone
  \/ MergeStep \/ MergeDone
  \/ CopyStep \/ CopyDone

-----------------------------------------------------------------------------
(* phys_page_alloc()                                                       *)

(* The first page of the first region that is not empty is taken; a region *)
(* left empty leaves the table.                                            *)
TakePageOfLastRegion ==
  \E k \in 1 .. Len(free_regions) :
    /\ free_regions[k].pages # 0
    /\ \A j \in (k + 1) .. Len(free_regions) : free_regions[j].pages = 0
    /\ free_regions' =
         IF free_regions[k].pages = 1
           THEN RemoveAt(free_regions, k)
           ELSE ReplaceAt(free_regions, k, [base |-> free_regions[k].base + 1,
                                            pages |-> free_regions[k].pages - 1])
    /\ phys_free_pages_count' = phys_free_pages_count - 1
    /\ ret' = free_regions[k].base
    /\ allocated' = allocated \cup {free_regions[k].base}

TakePage ==
  \E k \in 1 .. Len(free_regions) :
    /\ free_regions[k].pages # 0
    /\ \A j \in 1 .. (k - 1) : free_regions[j].pages = 0
    /\ free_regions' =
         IF free_regions[k].pages = 1
           THEN RemoveAt(free_regions, k)
           ELSE ReplaceAt(free_regions, k, [base |-> free_regions[k].base + 1,
                                            pages |-> free_regions[k].pages - 1])
    /\ phys_free_pages_count' = phys_free_pages_count - 1
    /\ ret' = free_regions[k].base
    /\ allocated' = allocated \cup {free_regions[k].base}

NoPage ==
  /\ \A k \in 1 .. Len(free_regions) : free_regions[k].pages = 0
  /\ ret' = 0
  /\ UNCHANGED <<free_regions, phys_free_pages_count, allocated>>

phys_page_alloc ==
  /\ pc = "up"
  /\ TakePage \/ NoPage
  /\ UNCHANGED <<memmap, pc, i, out, managed_regions, phys_total_pages>>

-----------------------------------------------------------------------------
(* phys_page_free()                                                        *)

phys_managed(p) ==
  \E k \in 1 .. Len(managed_regions) : p \in Pages(managed_regions[k])

phys_free_already(p) ==
  \E k \in 1 .. Len(free_regions) : p \in Pages(free_regions[k])

(* The index at which the search of phys_insert_free_page() stops          *)
InsertPos(p, pos) ==
  /\ \A k \in 1 .. (pos - 1) : free_regions[k].base < p
  /\ pos <= Len(free_regions) => free_regions[pos].base >= p

EndsAt(pos, p) == pos > 1 /\ End(free_regions[pos - 1]) = p

StartsAfterOffByOne(pos, p) == pos <= Len(free_regions) /\ p = free_regions[pos].base

StartsAfter(pos, p) == pos <= Len(free_regions) /\ p + 1 = free_regions[pos].base

(* p joins the region below it, and closes the gap to the one above it     *)
JoinBoth(p, pos) ==
  /\ EndsAt(pos, p) /\ StartsAfter(pos, p)
  /\ LET prev == free_regions[pos - 1] IN
       free_regions' =
         ReplaceAt(RemoveAt(free_regions, pos), pos - 1,
                   [base |-> prev.base,
                    pages |-> prev.pages + 1 + free_regions[pos].pages])

ExtendBelow(p, pos) ==
  /\ EndsAt(pos, p) /\ ~StartsAfter(pos, p)
  /\ LET prev == free_regions[pos - 1] IN
       free_regions' = ReplaceAt(free_regions, pos - 1,
                                 [base |-> prev.base, pages |-> prev.pages + 1])

ExtendAbove(p, pos) ==
  /\ ~EndsAt(pos, p) /\ StartsAfter(pos, p)
  /\ free_regions' =
       ReplaceAt(free_regions, pos, [base |-> p, pages |-> free_regions[pos].pages + 1])

NewRegion(p, pos) ==
  /\ ~EndsAt(pos, p) /\ ~StartsAfter(pos, p)
  /\ Len(free_regions) < MAX_PHYS_REGIONS
  /\ free_regions' = InsertAt(free_regions, pos, [base |-> p, pages |-> 1])

TableFull(p, pos) ==
  /\ ~EndsAt(pos, p) /\ ~StartsAfter(pos, p)
  /\ Len(free_regions) >= MAX_PHYS_REGIONS

phys_insert_free_page(p, pos) ==
  \/ JoinBoth(p, pos)
  \/ ExtendBelow(p, pos)
  \/ ExtendAbove(p, pos)
  \/ NewRegion(p, pos)

(* The early returns: null, a misaligned address, a page that is not       *)
(* managed or is free already.                                             *)
RejectsOnlyFree(addr) ==
  \/ addr = 0
  \/ addr % PAGE_SIZE # 0
  \/ phys_free_already(addr \div PAGE_SIZE)

Rejects(addr) ==
  \/ addr = 0
  \/ addr % PAGE_SIZE # 0
  \/ ~phys_managed(addr \div PAGE_SIZE)
  \/ phys_free_already(addr \div PAGE_SIZE)

(* The page given back is inserted, or is lost when the table is full.     *)
GiveBackCountsLostPage(addr) ==
  LET p == addr \div PAGE_SIZE IN
  /\ ~Rejects(addr)
  /\ \E pos \in 1 .. (Len(free_regions) + 1) :
       /\ InsertPos(p, pos)
       /\ \/ phys_insert_free_page(p, pos)
          \/ TableFull(p, pos) /\ UNCHANGED free_regions
  /\ phys_free_pages_count' = phys_free_pages_count + 1
  /\ allocated' = allocated \ {p}

GiveBack(addr) ==
  LET p == addr \div PAGE_SIZE IN
  /\ ~Rejects(addr)
  /\ \E pos \in 1 .. (Len(free_regions) + 1) :
       /\ InsertPos(p, pos)
       /\ \/ /\ phys_insert_free_page(p, pos)
             /\ phys_free_pages_count' = phys_free_pages_count + 1
          \/ /\ TableFull(p, pos)
             /\ UNCHANGED <<free_regions, phys_free_pages_count>>
  /\ allocated' = allocated \ {p}

phys_page_free(addr) ==
  /\ pc = "up"
  /\ \/ GiveBack(addr)
     \/ Rejects(addr) /\ UNCHANGED <<free_regions, phys_free_pages_count, allocated>>
  /\ UNCHANGED <<memmap, pc, i, out, managed_regions, phys_total_pages, ret>>

-----------------------------------------------------------------------------
Next ==
  \/ phys_memory_init
  \/ phys_page_alloc
  \/ \E addr \in FreeArgs : phys_page_free(addr)

Spec == Init /\ [][Next]_vars

-----------------------------------------------------------------------------
(* Properties                                                              *)

FreePages == PagesOf(free_regions)

ManagedPages == PagesOf(managed_regions)

(* Every variable has its type; the tables never outgrow their arrays, and *)
(* no region in use is empty.                                              *)
TypeOK ==
  /\ memmap \in MemMaps
  /\ pc \in {"collect", "sort", "merge", "copy", "up"}
  /\ i \in Nat \ {0}
  /\ out \in 0 .. Len(managed_regions)
  /\ managed_regions \in Seq(Region)
  /\ free_regions \in Seq(Region)
  /\ Len(managed_regions) <= MAX_PHYS_REGIONS
  /\ Len(free_regions) <= MAX_PHYS_REGIONS
  /\ phys_total_pages \in Nat
  /\ phys_free_pages_count \in Int
  /\ ret \in Nat
  /\ allocated \subseteq Nat

(* A table is sorted, its regions are disjoint and not empty, and no two of *)
(* them touch: adjacent regions have been merged.                          *)
Coalesced(s) ==
  /\ \A k \in 1 .. Len(s) : s[k].pages > 0
  /\ \A k, l \in 1 .. Len(s) : k < l => End(s[k]) < s[l].base

(* Once phys_memory_init() has run, the managed table and, through every   *)
(* phys_page_alloc() and phys_page_free(), the free table stay sorted,     *)
(* disjoint and fully merged (phys_insert_free_page() relies on it).       *)
FreeListCoalesced ==
  pc = "up" => Coalesced(managed_regions) /\ Coalesced(free_regions)

(* phys_memory_free_pages() reports exactly the pages the free table holds.*)
FreeCountExact ==
  pc = "up" => phys_free_pages_count = Cardinality(FreePages)

(* A page that is handed out and not given back is managed, is not free,   *)
(* and so cannot be handed out a second time; page 0, which stands for     *)
(* "out of memory", is never handed out.                                   *)
NoPageInTwoHands ==
  /\ allocated \cap FreePages = {}
  /\ pc = "up" => FreePages \cup allocated \subseteq ManagedPages
  /\ 0 \notin FreePages \cup ManagedPages

(* The whole pages of the map's usable entries, page 0 excluded            *)
UsablePages(m) ==
  UNION {{p \in 1 .. (m[k].base + m[k].length) :
            /\ m[k].base <= p * PAGE_SIZE
            /\ (p + 1) * PAGE_SIZE <= m[k].base + m[k].length} : k \in {l \in DOMAIN m : m[l].type = USABLE}}

(* Sorting and merging neither lose nor invent memory: what is managed is  *)
(* exactly the usable pages, or a part of them when the map has more       *)
(* entries than the table has slots.                                       *)
ManagedIsUsable ==
  pc \in {"copy", "up"} =>
    /\ ManagedPages \subseteq UsablePages(memmap)
    /\ Cardinality({k \in DOMAIN memmap : Kept(memmap[k])}) <= MAX_PHYS_REGIONS
         => ManagedPages = UsablePages(memmap)

(* Whatever phys_page_free() was called with before, a page returned by    *)
(* phys_page_alloc() is in nobody else's hands, and the allocator reports  *)
(* "out of memory" only when it holds no page.                             *)
AllocReturnsFreshPage ==
  [][phys_page_alloc =>
       IF FreePages = {} THEN ret' = 0
       ELSE ret' \in FreePages \ (allocated \cup FreePages')]_vars

(* The region tables implement the abstract allocator: lowest page first,  *)
(* and a page is lost only when it is isolated and the table is full.      *)
Abstract == INSTANCE PageAllocator WITH
  managed <- IF pc = "up" THEN ManagedPages ELSE {},
  free <- IF pc = "up" THEN FreePages ELSE {},
  free_count <- phys_free_pages_count

ImplementsPageAllocator == Abstract!Spec

-----------------------------------------------------------------------------
(* The inductive invariant: what each loop of phys_memory_init() leaves to *)
(* the next one, and what the two operations keep.                         *)

Apart(r, q) == End(r) <= q.base \/ End(q) <= r.base

(* No region in use is empty or holds page 0.                              *)
Proper(s) == \A k \in 1 .. Len(s) : s[k].base > 0 /\ s[k].pages > 0

(* Collecting: the regions are apart from each other and from every entry  *)
(* still to come.                                                          *)
CollectInv ==
  pc = "collect" =>
    \A k \in 1 .. Len(managed_regions), a \in i .. Len(memmap) :
      Kept(memmap[a]) => Apart(managed_regions[k], EntryRegion(memmap[a]))

(* Sorting: the regions before i are in order.                             *)
SortInv ==
  /\ pc \in {"collect", "sort"} =>
       \A k, l \in 1 .. Len(managed_regions) :
         k # l => Apart(managed_regions[k], managed_regions[l])
  /\ pc = "sort" =>
       \A k, l \in 1 .. Len(managed_regions) :
         k < l /\ l < i => managed_regions[k].base <= managed_regions[l].base

(* Merging: what is written is merged and lies below what is still to be   *)
(* read, which is in order.                                                *)
MergeInv ==
  pc = "merge" =>
    /\ out < i
    /\ i <= Len(managed_regions) + 1
    /\ \A k, l \in 1 .. out :
         k < l => End(managed_regions[k]) < managed_regions[l].base
    /\ \A k \in 1 .. Len(managed_regions), l \in i .. Len(managed_regions) :
         k < l /\ (k <= out \/ k >= i)
           => End(managed_regions[k]) <= managed_regions[l].base

(* Copying: the free table is the part of the managed one copied so far.   *)
CopyInv ==
  /\ pc \in {"collect", "sort", "merge"} => free_regions = << >> /\ phys_total_pages = 0
  /\ pc \in {"collect", "sort"} => out = 0
  /\ pc = "copy" =>
       /\ i = Len(free_regions) + 1
       /\ Len(free_regions) <= Len(managed_regions)
       /\ \A k \in 1 .. Len(free_regions) : free_regions[k] = managed_regions[k]
       /\ phys_total_pages = Cardinality(FreePages)
  /\ pc \in {"copy", "up"} => Coalesced(managed_regions)
  /\ pc # "up" => allocated = {} /\ ret = 0 /\ phys_free_pages_count = 0

UpInv ==
  pc = "up" =>
    /\ Coalesced(free_regions)
    /\ FreePages \subseteq ManagedPages
    /\ allocated \subseteq ManagedPages \ FreePages
    /\ phys_free_pages_count = Cardinality(FreePages)

IInv ==
  /\ TypeOK
  /\ Proper(managed_regions) /\ Proper(free_regions)
  /\ IsFiniteSet(FreePages)
  /\ CollectInv /\ SortInv /\ MergeInv /\ CopyInv /\ UpInv

(* What the tables cover: the entries collected so far, then all of them,  *)
(* or as many as the table has slots.  While the merging loop compacts the *)
(* table, the slots from out + 1 to i - 1 hold leftovers.                  *)
KeptEntries(n) == {k \in 1 .. n : Kept(memmap[k])}

EntryPages(n) == UNION {Pages(EntryRegion(memmap[k])) : k \in KeptEntries(n)}

SlotsInUse ==
  IF pc = "merge" THEN (1 .. out) \cup (i .. Len(managed_regions))
  ELSE 1 .. Len(managed_regions)

PagesInUse == UNION {Pages(managed_regions[k]) : k \in SlotsInUse}

Covers(pages) ==
  /\ pages \subseteq EntryPages(Len(memmap))
  /\ Cardinality(KeptEntries(Len(memmap))) <= MAX_PHYS_REGIONS
       => pages = EntryPages(Len(memmap))

CoverInv ==
  /\ pc = "collect" =>
       /\ i <= Len(memmap) + 1
       /\ PagesInUse = EntryPages(i - 1)
       /\ Len(managed_regions) = Cardinality(KeptEntries(i - 1))
  /\ pc # "collect" => Covers(PagesInUse)

=============================================================================
