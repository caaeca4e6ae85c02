--------------------------- MODULE PageAllocator ---------------------------
(***************************************************************************)
(* What the physical page allocator of kernel/memory/memory.c promises,    *)
(* stated on sets of page numbers.  PhysMem, which models the region       *)
(* tables of the code, implements this specification.                      *)
(*                                                                         *)
(* The promise is deterministic: an allocation returns the lowest free     *)
(* page, and a page that is given back is lost only when it would need a   *)
(* region of its own and the region table is full.                         *)
(***************************************************************************)
EXTENDS Integers, FiniteSets

CONSTANT MAX_PHYS_REGIONS       \* slots of the table of free regions

VARIABLES
  managed,      \* pages the allocator was given at boot
  free,         \* pages it can hand out
  allocated,    \* pages handed out and not given back
  ret,          \* result of the last allocation (0: out of memory)
  free_count    \* the number phys_memory_free_pages() reports

absVars == <<managed, free, allocated, ret, free_count>>

(* The maximal runs of consecutive free pages, each named by its first     *)
(* page: the least number of regions that can describe the free set.       *)
RunStarts(S) == {p \in S : p - 1 \notin S}

(* A page that touches no free page needs a region of its own.             *)
Isolated(p, S) == p - 1 \notin S /\ p + 1 \notin S

Init ==
  /\ managed = {}
  /\ free = {}
  /\ allocated = {}
  /\ ret = 0
  /\ free_count = 0

(* Boot: the allocator receives its pages, never page 0, all at once.      *)
Boot ==
  /\ managed = {}
  /\ 0 \notin managed'
  /\ IsFiniteSet(managed')
  /\ free' = managed'
  /\ free_count' = Cardinality(managed')
  /\ UNCHANGED <<allocated, ret>>

Alloc ==
  \E p \in free :
    /\ \A q \in free : p <= q
    /\ ret' = p
    /\ free' = free \ {p}
    /\ allocated' = allocated \cup {p}
    /\ free_count' = free_count - 1
    /\ UNCHANGED managed

OutOfMemory ==
  /\ free = {}
  /\ ret' = 0
  /\ UNCHANGED <<managed, free, allocated, free_count>>

Free ==
  \E p \in managed \ free :
    /\ Isolated(p, free) => Cardinality(RunStarts(free)) < MAX_PHYS_REGIONS
    /\ free' = free \cup {p}
    /\ allocated' = allocated \ {p}
    /\ free_count' = free_count + 1
    /\ UNCHANGED <<managed, ret>>

(* A page given back is lost only here.                                    *)
Lose ==
  \E p \in allocated :
    /\ Isolated(p, free)
    /\ Cardinality(RunStarts(free)) >= MAX_PHYS_REGIONS
    /\ allocated' = allocated \ {p}
    /\ UNCHANGED <<managed, free, ret, free_count>>

Next == Boot \/ Alloc \/ OutOfMemory \/ Free \/ Lose

Spec == Init /\ [][Next]_absVars

=============================================================================
