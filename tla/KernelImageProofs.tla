------------------------- MODULE KernelImageProofs -------------------------
(***************************************************************************)
(* Proofs about the start of the boot loader, for every kernel a linker    *)
(* makes, every screen, every size of a page and of the first chunk and    *)
(* every call of the firmware that fails: the loader gives back what it    *)
(* has when it gives up; if it does not, the kernel's memory holds its     *)
(* segments, and the kernel is told where they and the screen are.  That   *)
(* the loader comes to an end is left to TLC.                              *)
(***************************************************************************)
EXTENDS KernelImage, FiniteSetTheorems, SequenceTheorems, WellFoundedInduction, TLAPS

-----------------------------------------------------------------------------
(* The inductive invariant: what holds at each of the loader's stages      *)

Opening == {"path", "relative", "volume"}

Opened == {"text", "open"}

Asking == {"info_1", "info_2", "get_1", "get_2"}

Reading == {"read", "extend"}

Placed == {"load", "map", "header", "clear"} \cup
          {"console", "variable", "search", "locate", "screen", "no_screen", "ready", "kernel"}

Mapped == Placed \ {"load", "map"}

Vectors == {"kernel_path", "bss_areas", "tsbp_kernel_map"}

(* The blocks of the firmware's pool that are in use                       *)
PoolInv ==
  /\ pc \in {"path", "returned"} => pool = {}
  /\ pc = "relative" => pool = {"path_devpath"}
  /\ pc \in {"volume", "text", "info_1", "info_2"} \cup Reading => pool = {"kernel_path"}
  /\ pc = "open" => pool = {"kernel_path", "file_path"}
  /\ pc \in {"get_1", "get_2"} => pool = {"kernel_path", "file_info"}
  /\ pc \in {"variable", "search"} => pool \subseteq Vectors \cup {"conout_var_val"}
  /\ pc \in ({"scan", "allocate"} \cup Placed) \ {"variable", "search"} => pool \subseteq Vectors
  /\ pc = "halted" => pool \subseteq Vectors \cup {"conout_var_val"}

(* The files that are open; the kernel's is to be closed until it has been *)
(* read, and from then on there is something to map.                       *)
FilesInv ==
  /\ pc \in Opening => handles = {} /\ kernel_handle = FALSE
  /\ pc \in Opened => handles = {"root"} /\ kernel_handle = FALSE
  /\ pc \in Asking \cup Reading \cup {"scan", "allocate", "load"} =>
       handles = {"kernel"} /\ kernel_handle = TRUE
  /\ pc \in Mapped \cup {"map"} => handles = {"kernel"} /\ kernel_handle = FALSE
  /\ pc = "returned" => handles \subseteq (IF tsbp_kernel_map # << >> THEN {"kernel"} ELSE {})
  /\ handles \subseteq {"root", "kernel"} /\ kernel_handle \in BOOLEAN

Stages ==
  Opening \cup Opened \cup Asking \cup Reading \cup {"scan", "allocate"} \cup Placed
  \cup {"returned", "halted"}

(* What has been read, and the pages for it                                *)
HeaderInv ==
  /\ header_pages \in Nat /\ first_chunk \in 0 .. elf.size
  /\ moved \in BOOLEAN /\ ignored \in BOOLEAN
  /\ pc \in Opening \cup Opened \cup Asking \cup {"read", "returned"} => header_pages = 0
  /\ ~ignored /\ header_pages # 0 => first_chunk <= header_pages * PAGE
  /\ pc = "extend" /\ ~ignored => header_pages # 0

(* The loops over program headers and over the path of devices             *)
IndexInv ==
  /\ i \in Nat
  /\ pc \in Opening \cup Opened \cup Asking \cup Reading => i = 1
  /\ pc \in {"scan", "load"} => i \in 1 .. (Len(elf.ph) + 1)
  /\ pc \in {"variable", "search"} => console.devices # << >>
  /\ pc = "search" => i \in 0 .. Len(console.devices)

(* The headers before n have been seen.                                    *)
Scan == [found : BOOLEAN, low : Nat, high : Nat, align : Nat]

LoadableBelow(n) == {j \in DOMAIN elf.ph : j < n /\ Loadable(j)}

BssOf(p) == [begin |-> p.vaddr + p.filesz, size |-> p.memsz - p.filesz]

Seen(n) ==
  /\ scan.found <=> LoadableBelow(n) # {}
  /\ scan.found => /\ scan.align \in SegAlignments
                   /\ \E j \in LoadableBelow(n) : elf.ph[j].vaddr = scan.low
  /\ \A j \in LoadableBelow(n) :
       LET p == elf.ph[j] IN
       /\ scan.low <= p.vaddr /\ p.vaddr + p.memsz <= scan.high
       /\ p.vaddr % scan.align = 0
       /\ p.memsz > p.filesz => \E k \in DOMAIN bss_areas : bss_areas[k] = BssOf(p)
  /\ \A k \in DOMAIN bss_areas :
       \E j \in LoadableBelow(n) : elf.ph[j].memsz > elf.ph[j].filesz /\ bss_areas[k] = BssOf(elf.ph[j])

ScanInv ==
  /\ scan \in Scan /\ scan.low <= scan.high
  /\ bss_areas \in Seq([begin : Nat, size : Nat])
  /\ pc \in Opening \cup Opened \cup Asking \cup Reading =>
       scan = NoScan /\ bss_areas = << >>
  /\ pc = "scan" => Seen(i)
  /\ pc \in {"allocate"} \cup Placed =>
       scan.found /\ scan.low >= TOP_MINUS_2GB /\ Seen(Len(elf.ph) + 1)

(* The pages of the kernel                                                 *)
PagesInv ==
  /\ pc \in Opening \cup Opened \cup Asking \cup Reading \cup {"scan", "allocate", "returned"} =>
       owned = {} /\ kernel_alloc = NoPages
  /\ kernel_alloc.address \in Nat /\ kernel_alloc.pages \in Nat /\ owned \subseteq Nat
  /\ pc \in Placed => /\ kernel_alloc.pages = req_pages
                      /\ DOMAIN image = 0 .. (kernel_alloc.pages * PAGE - 1)
  /\ kernel_alloc.pages # 0 /\ ~ignored =>
       /\ (kernel_alloc.address * PAGE) % scan.align = 0
       /\ owned = kernel_alloc.address .. (kernel_alloc.address + kernel_alloc.pages - 1)

(* The segments before n are in memory, as far as the file has them.       *)
FilledBelow(n) ==
  \A j \in LoadableBelow(n) : \A x \in 0 .. (elf.ph[j].filesz - 1) :
    image[elf.ph[j].vaddr - scan.low + x] = elf.ph[j].offset + x

FilledInv ==
  /\ ~moved => /\ pc = "load" => FilledBelow(i)
               /\ pc \in {"map", "header", "clear"} => FilledBelow(Len(elf.ph) + 1)
  /\ ImageIsTheFile

(* The map has an entry for each segment, and no others.                   *)
MapInv ==
  /\ pc \notin Mapped \cup {"returned", "halted"} => tsbp_kernel_map = << >>
  /\ pc \in Mapped =>
       /\ DOMAIN tsbp_kernel_map = 1 .. Len(tsbp_kernel_map) /\ tsbp_kernel_map # << >>
       /\ \A j \in LoadableBelow(Len(elf.ph) + 1) :
            \E n \in DOMAIN tsbp_kernel_map : tsbp_kernel_map[n] = Mapping(elf.ph[j])
       /\ \A n \in DOMAIN tsbp_kernel_map :
            \E j \in LoadableBelow(Len(elf.ph) + 1) : tsbp_kernel_map[n] = Mapping(elf.ph[j])

(* What the kernel is told                                                 *)
ScreenInv ==
  /\ pc \in {"ready", "kernel"} => fbinfo \in {NoFramebuffer, Framebuffer(console.graphics)}
  /\ pc = "kernel" => KernelRemapsItself

ImageInv ==
  /\ elf \in Kernels /\ console \in Consoles /\ pc \in Stages
  /\ PoolInv /\ FilesInv /\ HeaderInv /\ IndexInv /\ ScanInv /\ PagesInv /\ FilledInv /\ MapInv
  /\ ScreenInv

-----------------------------------------------------------------------------
(* Numbers                                                                 *)

LEMMA QuotientAndRest ==
  ASSUME NEW n \in Nat, NEW d \in Nat \ {0}
  PROVE  \E q \in Nat, r \in Nat : q = n \div d /\ r = n % d /\ r < d /\ n = d * q + r
  <1>1. /\ n \div d \in Nat /\ n % d \in Nat /\ n % d < d
        /\ n = d * (n \div d) + (n % d)
    OBVIOUS
  <1> QED BY <1>1, Zenon

LEMMA QuotientIsUnique ==
  ASSUME NEW d \in Nat \ {0}, NEW q \in Nat, NEW r \in Nat, r < d, NEW n, n = d * q + r
  PROVE  n \div d = q /\ n % d = r
  <1>1. PICK p \in Nat, s \in Nat : p = n \div d /\ s = n % d /\ s < d /\ n = d * p + s
    <2>1. n \in Nat
      OBVIOUS
    <2> QED BY <2>1, QuotientAndRest
  <1>2. ASSUME NEW x \in Nat, NEW y \in Nat, NEW u \in Nat, NEW v \in Nat,
               d * x + u = d * y + v, v < d, x > y
        PROVE  FALSE
    <2>1. d * x >= d * (y + 1)
      BY <1>2
    <2>2. d * (y + 1) = d * y + d
      OBVIOUS
    <2> QED BY <1>2, <2>1, <2>2
  <1>3. ~(p > q) /\ ~(q > p)
    BY <1>1, <1>2
  <1>4. p = q
    BY <1>3
  <1> QED BY <1>1, <1>4

(* a divides n                                                             *)
Multiple(n, a) == \E q \in Nat : n = a * q

LEMMA MultipleIs ==
  ASSUME NEW a \in Nat \ {0}, NEW n \in Nat
  PROVE  Multiple(n, a) <=> n % a = 0
  <1>1. PICK q \in Nat, r \in Nat : q = n \div a /\ r = n % a /\ n = a * q + r
    BY QuotientAndRest
  <1>2. ASSUME r = 0 PROVE Multiple(n, a)
    <2>1. n = a * q
      BY <1>1, <1>2
    <2> QED BY <2>1, Zenon DEF Multiple
  <1>3. ASSUME Multiple(n, a) PROVE n % a = 0
    <2>1. PICK s \in Nat : n = a * s
      BY <1>3 DEF Multiple
    <2>2. n = a * s + 0
      BY <2>1
    <2> QED BY <2>2, QuotientIsUnique
  <1> QED BY <1>1, <1>2, <1>3

(* The sum and the difference of two multiples, and multiples of multiples *)
LEMMA MultiplesAdd ==
  ASSUME NEW a \in Nat \ {0}, NEW m \in Nat, NEW n \in Nat, Multiple(m, a), Multiple(n, a)
  PROVE  Multiple(m + n, a) /\ (m >= n => Multiple(m - n, a))
  <1>1. PICK p \in Nat, q \in Nat : m = a * p /\ n = a * q
    BY DEF Multiple
  <1>2. m + n = a * (p + q) /\ m - n = a * (p - q)
    BY <1>1
  <1>3. ASSUME m >= n, p < q PROVE FALSE
    <2>1. a * (p + 1) <= a * q
      BY <1>3
    <2>2. a * (p + 1) = a * p + a
      OBVIOUS
    <2> QED BY <1>1, <1>3, <2>1, <2>2
  <1>4. p + q \in Nat /\ (m >= n => p - q \in Nat)
    BY <1>3
  <1> QED BY <1>2, <1>4, Zenon DEF Multiple

(* Rounding up finds the first multiple that is not below x.               *)
LEMMA RoundUpFacts ==
  ASSUME NEW x \in Nat, NEW a \in Nat \ {0}, NEW u, u = RoundUp(x, a)
  PROVE  /\ u \in Nat /\ Multiple(u, a) /\ x <= u /\ u < x + a
         /\ \A y \in Nat : Multiple(y, a) /\ x <= y => u <= y
  <1>1. PICK q \in Nat, r \in Nat :
          q = (x + a - 1) \div a /\ r < a /\ x + a - 1 = a * q + r
    <2>1. x + a - 1 \in Nat
      OBVIOUS
    <2> QED BY <2>1, QuotientAndRest
  <1>2. u = a * q /\ u \in Nat /\ x <= u /\ u < x + a
    BY <1>1 DEF RoundUp
  <1>3. ASSUME NEW y \in Nat, Multiple(y, a), x <= y PROVE u <= y
    <2>1. PICK p \in Nat : y = a * p
      BY <1>3 DEF Multiple
    <2>2. ASSUME p < q PROVE FALSE
      <3>1. a * (p + 1) <= a * q
        BY <2>2
      <3>2. a * (p + 1) = a * p + a
        OBVIOUS
      <3> QED BY <1>2, <1>3, <2>1, <3>1, <3>2
    <2>3. a * q <= a * p
      BY <2>2
    <2> QED BY <1>2, <2>1, <2>3
  <1> QED BY <1>2, <1>3 DEF Multiple

LEMMA PagesForFacts ==
  ASSUME NEW x \in Nat
  PROVE  PagesFor(x) \in Nat /\ PagesFor(x) * PAGE = RoundUp(x, PAGE) /\ x <= PagesFor(x) * PAGE
  <1>1. PAGE \in Nat \ {0}
    BY ImageAssumption
  <1>2. PICK u \in Nat, q \in Nat : u = RoundUp(x, PAGE) /\ u = PAGE * q /\ x <= u
    <2>1. PICK v : v = RoundUp(x, PAGE)
      OBVIOUS
    <2>2. v \in Nat /\ Multiple(v, PAGE) /\ x <= v
      BY <1>1, <2>1, RoundUpFacts
    <2> QED BY <2>1, <2>2 DEF Multiple
  <1>3. u = PAGE * q + 0 /\ q * PAGE = u
    BY <1>1, <1>2
  <1>4. u \div PAGE = q
    BY <1>1, <1>3, QuotientIsUnique
  <1> QED BY <1>2, <1>3, <1>4 DEF PagesFor

LEMMA MinOfTwo ==
  ASSUME NEW a \in Int, NEW b \in Int
  PROVE  /\ Min({a, b}) = IF a <= b THEN a ELSE b
         /\ Max({a, b}) = IF a >= b THEN a ELSE b
  BY DEF Min, Max

(* The least and the greatest number of a set                              *)
LEMMA MinOfSet ==
  ASSUME NEW T, T \subseteq Nat, T # {}
  PROVE  Min(T) \in T /\ \A x \in T : Min(T) <= x
  <1> DEFINE R == {pair \in Nat \X Nat : pair[1] < pair[2]}
  <1>1. IsWellFoundedOn(R, Nat)
    BY NatLessThanWellFounded, Zenon DEF OpToRel
  <1>2. \A x, y \in Nat : <<y, x>> \notin R => x <= y
    OBVIOUS
  <1> HIDE DEF R
  <1>3. PICK x \in T : \A y \in T : <<y, x>> \notin R
    BY <1>1, WFMin, Zenon
  <1>4. \A y \in T : x <= y
    BY <1>2, <1>3
  <1> QED BY <1>3, <1>4, Zenon DEF Min

LEMMA MaxOfSet ==
  ASSUME NEW n \in Nat, NEW T, T \subseteq 0 .. n, T # {}
  PROVE  Max(T) \in T /\ \A x \in T : x <= Max(T)
  <1> DEFINE U == {n - x : x \in T}
  <1>1. U \subseteq Nat
    OBVIOUS
  <1>2. U # {}
    OBVIOUS
  <1>3. PICK u \in U : \A y \in U : u <= y
    <2> HIDE DEF U
    <2> QED BY <1>1, <1>2, MinOfSet
  <1>4. PICK x \in T : u = n - x
    BY <1>3
  <1>5. \A y \in T : u <= n - y /\ y \in Int
    BY <1>3
  <1>6. \A y \in T : x >= y
    BY <1>4, <1>5
  <1> QED BY <1>4, <1>6, Zenon DEF Max

-----------------------------------------------------------------------------
(* What the loader holds, action by action                                 *)

LEMMA PoolPreserved == ImageInv /\ [Next]_vars => PoolInv'
  <1> SUFFICES ASSUME ImageInv, [Next]_vars
               PROVE  PoolInv'
    OBVIOUS
  <1> USE DEF Opening, Opened, Asking, Reading, Placed, Vectors
  <1>0. PoolInv /\ pc \in Stages
    BY DEF ImageInv
  <1>1. CASE ConvertTextToDevicePath
    BY <1>0, <1>1 DEF PoolInv, Stages, ConvertTextToDevicePath, Step
  <1>2. CASE JoinPaths
    BY <1>0, <1>2 DEF PoolInv, Stages, JoinPaths, Step
  <1>3. CASE OpenVolume
    BY <1>0, <1>3 DEF PoolInv, Stages, OpenVolume, LoadError, CloseFile, FreePages
  <1>4. CASE ConvertDevicePathToText
    BY <1>0, <1>4 DEF PoolInv, Stages, ConvertDevicePathToText, OpenKernelFails, Step
  <1>5. CASE OpenFile
    BY <1>0, <1>5 DEF PoolInv, Stages, OpenFile, OpenKernelFails
  <1>6. CASE AllocateInfo
    BY <1>0, <1>6 DEF PoolInv, Stages, AllocateInfo, OpenKernelFails, Step
  <1>7. CASE GetInfo
    BY <1>0, <1>7 DEF PoolInv, Stages, GetInfo, OpenKernelFails, Step
  <1>8. CASE ReadHeader
    BY <1>0, <1>8 DEF PoolInv, Stages, ReadHeader, LoadError, CloseFile, FreePages
  <1>9. CASE ExtendHeader
    BY <1>0, <1>9 DEF PoolInv, Stages, ExtendHeader, LoadError, CloseFile, FreePages, Halt, resources
  <1>10. CASE ScanHeader
    BY <1>0, <1>10 DEF PoolInv, Stages, ScanHeader, LoadError, CloseFile, FreePages, Halt, resources
  <1>11. CASE ScanEnds
    BY <1>0, <1>11 DEF PoolInv, Stages, ScanEnds, LoadError, CloseFile, FreePages, resources
  <1>12. CASE AllocateKernel
    BY <1>0, <1>12 DEF PoolInv, Stages, AllocateKernel
  <1>13. CASE LoadSegments
    BY <1>0, <1>13 DEF PoolInv, Stages, LoadSegments, LoadError, CloseFile, FreePages, resources
  <1>14. CASE FindEntryHeader
    BY <1>0, <1>14 DEF PoolInv, Stages, FindEntryHeader, resources
  <1>15. CASE LoadEnds
    BY <1>0, <1>15 DEF PoolInv, Stages, LoadEnds, release
  <1>16. CASE BuildMap
    BY <1>0, <1>16 DEF PoolInv, Stages, BuildMap, Halt, resources
  <1>17. CASE CheckHeader
    BY <1>0, <1>17 DEF PoolInv, Stages, CheckHeader, LoadError, CloseFile, FreePages, Halt, resources
  <1>18. CASE ClearBss
    BY <1>0, <1>18 DEF PoolInv, Stages, ClearBss, resources
  <1>19. CASE AskConsole
    BY <1>0, <1>19 DEF PoolInv, Stages, AskConsole, Step
  <1>20. CASE GetVariable
    BY <1>0, <1>20 DEF PoolInv, Stages, GetVariable, Step, resources
  <1>21. CASE SearchConsole
    BY <1>0, <1>21 DEF PoolInv, Stages, SearchConsole, Step, Halt, resources
  <1>22. CASE locate_protocol
    BY <1>0, <1>22 DEF PoolInv, Stages, locate_protocol, Step
  <1>23. CASE check_framebuffer
    BY <1>0, <1>23 DEF PoolInv, Stages, check_framebuffer, LoadError, CloseFile, FreePages, Step
  <1>24. CASE init
    BY <1>0, <1>24 DEF PoolInv, Stages, init, resources
  <1>25. CASE UNCHANGED vars
    BY <1>0, <1>25 DEF PoolInv, vars, resources
  <1> QED
    BY <1>1, <1>2, <1>3, <1>4, <1>5, <1>6, <1>7, <1>8, <1>9, <1>10, <1>11, <1>12, <1>13, <1>14, <1>15, <1>16, <1>17, <1>18, <1>19, <1>20, <1>21, <1>22, <1>23, <1>24, <1>25 DEF Next, loader

LEMMA FilesPreserved == ImageInv /\ [Next]_vars => FilesInv'
  <1> SUFFICES ASSUME ImageInv, [Next]_vars
               PROVE  FilesInv'
    OBVIOUS
  <1> USE DEF Opening, Opened, Asking, Reading, Placed, Mapped
  <1>0. FilesInv /\ pc \in Stages /\ (pc \notin Mapped \cup {"returned", "halted"} => tsbp_kernel_map = << >>) /\ (pc \in Mapped => tsbp_kernel_map # << >>)
    BY DEF ImageInv, MapInv
  <1>1. CASE ConvertTextToDevicePath
    BY <1>0, <1>1 DEF FilesInv, Stages, ConvertTextToDevicePath, Step, loading
  <1>2. CASE JoinPaths
    BY <1>0, <1>2 DEF FilesInv, Stages, JoinPaths, Step, loading
  <1>3. CASE OpenVolume
    BY <1>0, <1>3 DEF FilesInv, Stages, OpenVolume, LoadError, CloseFile, FreePages, loading
  <1>4. CASE ConvertDevicePathToText
    BY <1>0, <1>4 DEF FilesInv, Stages, ConvertDevicePathToText, OpenKernelFails, Step, loading
  <1>5. CASE OpenFile
    BY <1>0, <1>5 DEF FilesInv, Stages, OpenFile, OpenKernelFails, loading
  <1>6. CASE AllocateInfo
    BY <1>0, <1>6 DEF FilesInv, Stages, AllocateInfo, OpenKernelFails, Step, loading
  <1>7. CASE GetInfo
    BY <1>0, <1>7 DEF FilesInv, Stages, GetInfo, OpenKernelFails, Step, loading
  <1>8. CASE ReadHeader
    BY <1>0, <1>8 DEF FilesInv, Stages, ReadHeader, LoadError, CloseFile, FreePages, loading
  <1>9. CASE ExtendHeader
    BY <1>0, <1>9 DEF FilesInv, Stages, ExtendHeader, LoadError, CloseFile, FreePages, Halt, resources, loading
  <1>10. CASE ScanHeader
    BY <1>0, <1>10 DEF FilesInv, Stages, ScanHeader, LoadError, CloseFile, FreePages, Halt, resources, loading
  <1>11. CASE ScanEnds
    BY <1>0, <1>11 DEF FilesInv, Stages, ScanEnds, LoadError, CloseFile, FreePages, resources, loading
  <1>12. CASE AllocateKernel
    BY <1>0, <1>12 DEF FilesInv, Stages, AllocateKernel, loading
  <1>13. CASE LoadSegments
    BY <1>0, <1>13 DEF FilesInv, Stages, LoadSegments, LoadError, CloseFile, FreePages, resources, loading
  <1>14. CASE FindEntryHeader
    BY <1>0, <1>14 DEF FilesInv, Stages, FindEntryHeader, resources, loading
  <1>15. CASE LoadEnds
    BY <1>0, <1>15 DEF FilesInv, Stages, LoadEnds, release, loading
  <1>16. CASE BuildMap
    BY <1>0, <1>16 DEF FilesInv, Stages, BuildMap, Halt, resources, loading
  <1>17. CASE CheckHeader
    BY <1>0, <1>17 DEF FilesInv, Stages, CheckHeader, LoadError, CloseFile, FreePages, Halt, resources, loading
  <1>18. CASE ClearBss
    BY <1>0, <1>18 DEF FilesInv, Stages, ClearBss, resources, loading
  <1>19. CASE AskConsole
    BY <1>0, <1>19 DEF FilesInv, Stages, AskConsole, Step, loading
  <1>20. CASE GetVariable
    BY <1>0, <1>20 DEF FilesInv, Stages, GetVariable, Step, resources, loading
  <1>21. CASE SearchConsole
    BY <1>0, <1>21 DEF FilesInv, Stages, SearchConsole, Step, Halt, resources, loading
  <1>22. CASE locate_protocol
    BY <1>0, <1>22 DEF FilesInv, Stages, locate_protocol, Step, loading
  <1>23. CASE check_framebuffer
    BY <1>0, <1>23 DEF FilesInv, Stages, check_framebuffer, LoadError, CloseFile, FreePages, Step, loading
  <1>24. CASE init
    BY <1>0, <1>24 DEF FilesInv, Stages, init, resources, loading
  <1>25. CASE UNCHANGED vars
    BY <1>0, <1>25 DEF FilesInv, vars, resources, loading, info, loading
  <1> QED
    BY <1>1, <1>2, <1>3, <1>4, <1>5, <1>6, <1>7, <1>8, <1>9, <1>10, <1>11, <1>12, <1>13, <1>14, <1>15, <1>16, <1>17, <1>18, <1>19, <1>20, <1>21, <1>22, <1>23, <1>24, <1>25 DEF Next, loader

(* The header lies within the pages that were given for it.                *)
LEMMA KernelFacts ==
  ImageInv => /\ elf.size \in Nat /\ elf.phoff \in Nat /\ elf.ph \in Seq(ProgramHeader)
              /\ Len(elf.ph) \in Nat /\ DOMAIN elf.ph = 1 .. Len(elf.ph)
  <1>1. \A e \in Kernels : e.size \in Nat /\ e.phoff \in Nat /\ e.ph \in Seq(ProgramHeader)
    BY KernelsAssumption
  <1> QED BY <1>1, LenProperties DEF ImageInv

LEMMA Extended ==
  ASSUME NEW pages, NEW n, NEW r \in extend_or_move(pages, n)
  PROVE  /\ r.abort \in BOOLEAN /\ r.moved \in BOOLEAN
         /\ r.abort = FALSE => r.pages = pages + n
  <1>1. extend_nx(pages, n) \subseteq {pages + n}
    BY DEF extend_nx
  <1>2. CASE r \in {[pages |-> p, moved |-> FALSE, abort |-> FALSE] : p \in extend_nx(pages, n)}
    <2>1. PICK p \in {pages + n} : r = [pages |-> p, moved |-> FALSE, abort |-> FALSE]
      BY <1>1, <1>2
    <2> QED BY <2>1
  <1>3. CASE r = [pages |-> pages + n, moved |-> TRUE, abort |-> FALSE]
    BY <1>3
  <1>4. CASE r = [pages |-> pages, moved |-> FALSE, abort |-> TRUE]
    BY <1>4
  <1> QED BY <1>2, <1>3, <1>4, Zenon DEF extend_or_move

LEMMA HeaderPreserved == ImageInv /\ [Next]_vars => HeaderInv'
  <1> SUFFICES ASSUME ImageInv, [Next]_vars
               PROVE  HeaderInv'
    OBVIOUS
  <1> USE DEF Opening, Opened, Asking, Reading, Placed
  <1>0. HeaderInv /\ pc \in Stages /\ elf' = elf
    BY DEF ImageInv, Next, vars
  <1>1. CASE ConvertTextToDevicePath
    BY <1>0, <1>1 DEF HeaderInv, Stages, ConvertTextToDevicePath, Step, loading
  <1>2. CASE JoinPaths
    BY <1>0, <1>2 DEF HeaderInv, Stages, JoinPaths, Step, loading
  <1>3. CASE OpenVolume
    BY <1>0, <1>3 DEF HeaderInv, Stages, OpenVolume, LoadError, CloseFile, FreePages, loading
  <1>4. CASE ConvertDevicePathToText
    BY <1>0, <1>4 DEF HeaderInv, Stages, ConvertDevicePathToText, OpenKernelFails, Step, loading
  <1>5. CASE OpenFile
    BY <1>0, <1>5 DEF HeaderInv, Stages, OpenFile, OpenKernelFails, loading
  <1>6. CASE AllocateInfo
    BY <1>0, <1>6 DEF HeaderInv, Stages, AllocateInfo, OpenKernelFails, Step, loading
  <1>7. CASE GetInfo
    BY <1>0, <1>7 DEF HeaderInv, Stages, GetInfo, OpenKernelFails, Step, loading
  <1>8. CASE ReadHeader
    <2>1. CASE LoadError
      BY <1>0, <1>8, <2>1 DEF HeaderInv, LoadError, FreePages, loading
    <2>2. CASE ~LoadError
      <3>1. PICK size \in Nat : /\ size = Min({MIN_READ_CHUNK, elf.size}) /\ size <= elf.size
                                /\ first_chunk' = size /\ header_pages' \in allocate_nx(PagesFor(size))
                                /\ ignored' = (header_pages' = 0)
                                /\ moved' = moved /\ pc' \in {"extend", "scan"}
        <4>1. \A m \in Nat, n \in Nat : Min({m, n}) = IF m <= n THEN m ELSE n
          BY MinOfTwo
        <4>2. MIN_READ_CHUNK \in Nat /\ elf.size \in Nat
          BY ImageAssumption, KernelFacts
        <4>3. Min({MIN_READ_CHUNK, elf.size}) \in Nat /\ Min({MIN_READ_CHUNK, elf.size}) <= elf.size
          BY <4>1, <4>2
        <4> QED BY <1>8, <2>2, <4>3 DEF ReadHeader
      <3>2. header_pages' \in {PagesFor(size), 0} /\ PagesFor(size) \in Nat /\ size <= PagesFor(size) * PAGE
        BY <3>1, PagesForFacts DEF allocate_nx
      <3>3. elf' = elf /\ ignored' \in BOOLEAN
        BY <3>1 DEF Next, vars
      <3>4. header_pages' = 0 => ignored' = TRUE
        BY <3>1
      <3> QED BY <1>0, <3>1, <3>2, <3>3, <3>4, KernelFacts DEF HeaderInv
    <2> QED BY <2>1, <2>2
  <1>9. CASE ExtendHeader
    <2>1. CASE LoadError
      BY <1>0, <1>9, <2>1 DEF HeaderInv, LoadError, FreePages, loading
    <2>2. CASE Halt
      BY <1>0, <1>9, <2>2 DEF HeaderInv, Halt, loading, resources
    <2>3. CASE ~LoadError /\ ~Halt
      <3> DEFINE read == Min({Max({elf_ph_end - first_chunk, MIN_READ_CHUNK}), elf.size - first_chunk})
      <3>1. read \in Nat /\ first_chunk + read <= elf.size
        <4>1. \A m \in Int, n \in Int : /\ Min({m, n}) = IF m <= n THEN m ELSE n
                                          /\ Max({m, n}) = IF m >= n THEN m ELSE n
          BY MinOfTwo
        <4>2. /\ MIN_READ_CHUNK \in Nat /\ elf.size \in Nat /\ elf_ph_end \in Nat
              /\ first_chunk \in 0 .. elf.size
          BY <1>0, ImageAssumption, KernelFacts DEF HeaderInv, elf_ph_end
        <4>3. PICK n \in Nat : n = Max({elf_ph_end - first_chunk, MIN_READ_CHUNK})
          <5>1. PICK k \in Int : k = elf_ph_end - first_chunk
            BY <4>2
          <5>2. PICK c \in Nat : c = MIN_READ_CHUNK
            BY <4>2
          <5>3. Max({k, c}) \in Nat
            BY DEF Max
          <5> QED BY <5>1, <5>2, <5>3, Zenon
        <4>4. PICK m \in Nat : m = elf.size - first_chunk
          BY <4>2
        <4>5. read = Min({n, m})
          BY <4>3, <4>4, Zenon
        <4>6. Min({n, m}) = IF n <= m THEN n ELSE m
          BY <4>1
        <4> HIDE DEF read
        <4> QED BY <4>2, <4>4, <4>5, <4>6
      <3>2. PICK r \in extend_or_move(header_pages, PagesFor(read)) :
              /\ header_pages' = r.pages /\ r.abort = FALSE
              /\ moved' = (moved \/ r.moved) /\ first_chunk' = first_chunk + read
              /\ pc' = "scan" /\ ignored' = ignored
        <4>1. PICK r \in extend_or_move(header_pages, PagesFor(read)) :
                \/ r.abort /\ Halt
                \/ ~r.abort /\ LoadError
                \/ /\ ~r.abort
                   /\ header_pages' = r.pages
                   /\ moved' = (moved \/ r.moved)
                   /\ first_chunk' = first_chunk + read
                   /\ pc' = "scan" /\ ignored' = ignored
          BY <1>9, Zenon DEF ExtendHeader
        <4>2. r.abort \in BOOLEAN
          BY Extended
        <4> HIDE DEF read
        <4>3. r.abort = FALSE
          BY <2>3, <4>1, <4>2
        <4> QED BY <2>3, <4>1, <4>3, Zenon
      <3> HIDE DEF read
      <3>3. PagesFor(read) \in Nat /\ read <= PagesFor(read) * PAGE
        BY <3>1, PagesForFacts
      <3>4. r.moved \in BOOLEAN /\ r.pages = header_pages + PagesFor(read)
        BY <3>2, Extended
      <3>5. (header_pages + PagesFor(read)) * PAGE = header_pages * PAGE + PagesFor(read) * PAGE
        BY <1>0, <3>3, ImageAssumption DEF HeaderInv
      <3>6. moved' \in BOOLEAN /\ pc = "extend"
        BY <1>9, <3>2 DEF ExtendHeader
      <3>7. header_pages' = header_pages + PagesFor(read)
        BY <3>2, <3>4
      <3>8. first_chunk' \in 0 .. elf'.size /\ header_pages' \in Nat
        BY <1>0, <3>1, <3>2, <3>3, <3>7, KernelFacts DEF HeaderInv
      <3>9. ~ignored' => first_chunk' <= header_pages' * PAGE
        <4>1. PICK n \in Nat : n = PagesFor(read)
          BY <3>3
        <4>2. PICK u \in Nat, v \in Nat : u = header_pages * PAGE /\ v = n * PAGE
          BY <1>0, ImageAssumption DEF HeaderInv
        <4>3. ~ignored => first_chunk <= u
          BY <1>0, <3>6, <4>2 DEF HeaderInv
        <4> QED BY <1>0, <3>1, <3>2, <3>3, <3>5, <3>7, <4>1, <4>2, <4>3 DEF HeaderInv
      <3> QED BY <1>0, <3>2, <3>6, <3>8, <3>9 DEF HeaderInv
    <2> QED BY <2>1, <2>2, <2>3
  <1>10. CASE ScanHeader
    BY <1>0, <1>10 DEF HeaderInv, Stages, ScanHeader, LoadError, CloseFile, FreePages, Halt, resources, loading
  <1>11. CASE ScanEnds
    BY <1>0, <1>11 DEF HeaderInv, Stages, ScanEnds, LoadError, CloseFile, FreePages, resources, loading
  <1>12. CASE AllocateKernel
    BY <1>0, <1>12 DEF HeaderInv, Stages, AllocateKernel, loading
  <1>13. CASE LoadSegments
    BY <1>0, <1>13 DEF HeaderInv, Stages, LoadSegments, LoadError, CloseFile, FreePages, resources, loading
  <1>14. CASE FindEntryHeader
    BY <1>0, <1>14 DEF HeaderInv, Stages, FindEntryHeader, resources, loading
  <1>15. CASE LoadEnds
    BY <1>0, <1>15 DEF HeaderInv, Stages, LoadEnds, release, loading
  <1>16. CASE BuildMap
    BY <1>0, <1>16 DEF HeaderInv, Stages, BuildMap, Halt, resources, loading
  <1>17. CASE CheckHeader
    BY <1>0, <1>17 DEF HeaderInv, Stages, CheckHeader, LoadError, CloseFile, FreePages, Halt, resources, loading
  <1>18. CASE ClearBss
    BY <1>0, <1>18 DEF HeaderInv, Stages, ClearBss, resources, loading
  <1>19. CASE AskConsole
    BY <1>0, <1>19 DEF HeaderInv, Stages, AskConsole, Step, loading
  <1>20. CASE GetVariable
    BY <1>0, <1>20 DEF HeaderInv, Stages, GetVariable, Step, resources, loading
  <1>21. CASE SearchConsole
    BY <1>0, <1>21 DEF HeaderInv, Stages, SearchConsole, Step, Halt, resources, loading
  <1>22. CASE locate_protocol
    BY <1>0, <1>22 DEF HeaderInv, Stages, locate_protocol, Step, loading
  <1>23. CASE check_framebuffer
    BY <1>0, <1>23 DEF HeaderInv, Stages, check_framebuffer, LoadError, CloseFile, FreePages, Step, loading
  <1>24. CASE init
    BY <1>0, <1>24 DEF HeaderInv, Stages, init, resources, loading
  <1>25. CASE UNCHANGED vars
    BY <1>0, <1>25 DEF HeaderInv, vars, resources, loading, info, loading
  <1> QED
    BY <1>1, <1>2, <1>3, <1>4, <1>5, <1>6, <1>7, <1>8, <1>9, <1>10, <1>11, <1>12, <1>13, <1>14, <1>15, <1>16, <1>17, <1>18, <1>19, <1>20, <1>21, <1>22, <1>23, <1>24, <1>25 DEF Next, loader

(* Segments that are combined are side by side in the table.               *)
LEMMA CombinedFacts ==
  ASSUME ImageInv, NEW k \in 1 .. Len(elf.ph), Loadable(k)
  PROVE  Combined(k) \in k .. Len(elf.ph) /\ SideBySide(elf.ph, k, Combined(k))
  <1> DEFINE Offs(j) == elf.ph[j].paddr - elf.ph[j].vaddr
             stops == {j \in (k + 1) .. Len(elf.ph) : ~Loadable(j) \/ Offs(j) # Offs(k)}
  <1>1. PICK n \in Nat : n = Len(elf.ph)
    BY KernelFacts
  <1>2. Combined(k) = IF stops = {} THEN n ELSE Min(stops) - 1
    BY <1>1 DEF Combined
  <1>3. \A j \in (k + 1) .. n : j \notin stops => Loadable(j) /\ Offs(j) = Offs(k)
    BY <1>1
  <1>4. stops \subseteq (k + 1) .. n
    BY <1>1
  <1>5. stops # {} => Min(stops) \in stops /\ \A j \in stops : Min(stops) <= j
    <2>1. stops \subseteq Nat
      BY <1>4
    <2> HIDE DEF stops
    <2> QED BY <2>1, MinOfSet
  <1> HIDE DEF stops, Offs
  <1>6. Combined(k) \in k .. n /\ \A j \in (k + 1) .. Combined(k) : j \notin stops
    <2>1. CASE stops = {}
      BY <1>1, <1>2, <2>1
    <2>2. CASE stops # {}
      <3>1. PICK m \in (k + 1) .. n : m = Min(stops) /\ \A j \in stops : m <= j
        BY <1>4, <1>5, <2>2
      <3>2. Combined(k) = m - 1
        BY <1>2, <2>2, <3>1
      <3> QED BY <1>1, <3>1, <3>2
    <2> QED BY <2>1, <2>2
  <1>7. \A j \in k .. Combined(k) : Loadable(j) /\ Offs(j) = Offs(k)
    <2>1. \A j \in k .. Combined(k) : j = k \/ j \in (k + 1) .. Combined(k)
      BY <1>6
    <2> QED BY <1>1, <1>3, <1>6, <2>1
  <1> QED BY <1>1, <1>6, <1>7 DEF SideBySide, Loadable, Offs

(* Behind an instance of a path is another one, or the path ends with it.  *)
LEMMA NextInstance ==
  ASSUME console \in Consoles, console.devices # << >>, NEW k \in 1 .. Len(console.devices)
  PROVE  find_next_devpath_instance(console.devices, k) \in 0 .. Len(console.devices)
  <1> DEFINE dp == console.devices
             ends == {j \in k .. Len(dp) : dp[j] \in {"end_instance", "end"}}
  <1>1. PICK n \in Nat : n = Len(dp) /\ dp[n] = "end"
    <2>1. \A c \in Consoles : /\ c.devices \in Seq(STRING)
                              /\ c.devices # << >> => c.devices[Len(c.devices)] = "end"
      BY ConsolesAssumption
    <2> QED BY <2>1, LenProperties
  <1>2. n \in ends /\ ends \subseteq k .. n /\ k .. n \subseteq Nat
    BY <1>1
  <1>3. PICK e \in ends : e = find_devpath_end(dp, k)
    <2>1. Min(ends) \in ends
      <3> HIDE DEF ends
      <3> QED BY <1>2, MinOfSet
    <2> QED BY <2>1 DEF find_devpath_end
  <1>4. dp[e] = "end_instance" => e # n
    BY <1>1
  <1>5. e \in k .. n
    BY <1>2, <1>3
  <1> QED BY <1>1, <1>3, <1>4, <1>5 DEF find_next_devpath_instance

(* A loop's index stays within what the loop goes through.                 *)
LEMMA IndexPreserved == ImageInv /\ [Next]_vars => IndexInv'
  <1> SUFFICES ASSUME ImageInv, [Next]_vars
               PROVE  IndexInv'
    OBVIOUS
  <1> USE DEF Opening, Opened, Asking, Reading, Placed
  <1>0. IndexInv /\ pc \in Stages /\ elf' = elf /\ console' = console
    BY DEF ImageInv, Next, vars
  <1>n. PICK n \in Nat : n = Len(elf.ph)
    BY KernelFacts
  <1>1. CASE ConvertTextToDevicePath
    BY <1>0, <1>n, <1>1 DEF IndexInv, Stages, ConvertTextToDevicePath, Step, loading
  <1>2. CASE JoinPaths
    BY <1>0, <1>n, <1>2 DEF IndexInv, Stages, JoinPaths, Step, loading
  <1>3. CASE OpenVolume
    BY <1>0, <1>n, <1>3 DEF IndexInv, Stages, OpenVolume, LoadError, CloseFile, FreePages, loading
  <1>4. CASE ConvertDevicePathToText
    BY <1>0, <1>n, <1>4 DEF IndexInv, Stages, ConvertDevicePathToText, OpenKernelFails, Step, loading
  <1>5. CASE OpenFile
    BY <1>0, <1>n, <1>5 DEF IndexInv, Stages, OpenFile, OpenKernelFails, loading
  <1>6. CASE AllocateInfo
    BY <1>0, <1>n, <1>6 DEF IndexInv, Stages, AllocateInfo, OpenKernelFails, Step, loading
  <1>7. CASE GetInfo
    BY <1>0, <1>n, <1>7 DEF IndexInv, Stages, GetInfo, OpenKernelFails, Step, loading
  <1>8. CASE ReadHeader
    BY <1>0, <1>n, <1>8 DEF IndexInv, Stages, ReadHeader, LoadError, CloseFile, FreePages, loading
  <1>9. CASE ExtendHeader
    BY <1>0, <1>n, <1>9 DEF IndexInv, Stages, ExtendHeader, LoadError, CloseFile, FreePages, Halt, resources, loading
  <1>10. CASE ScanHeader
    BY <1>0, <1>n, <1>10 DEF IndexInv, Stages, ScanHeader, LoadError, CloseFile, FreePages, Halt, resources, loading
  <1>11. CASE ScanEnds
    BY <1>0, <1>n, <1>11 DEF IndexInv, Stages, ScanEnds, LoadError, CloseFile, FreePages, resources, loading
  <1>12. CASE AllocateKernel
    BY <1>0, <1>n, <1>12 DEF IndexInv, Stages, AllocateKernel, loading
  <1>13. CASE LoadSegments
    <2>1. CASE LoadError
      BY <1>0, <1>13, <2>1 DEF IndexInv, LoadError, loading
    <2>2. CASE ~LoadError
      <3>1. i \in 1 .. Len(elf.ph) /\ Loadable(i) /\ i' = Combined(i) + 1 /\ pc' = "load"
        BY <1>0, <1>13, <2>2 DEF IndexInv, LoadSegments
      <3>2. Combined(i) \in i .. n
        BY <1>n, <3>1, CombinedFacts
      <3> QED BY <1>0, <1>n, <3>1, <3>2 DEF IndexInv
    <2> QED BY <2>1, <2>2
  <1>14. CASE FindEntryHeader
    BY <1>0, <1>n, <1>14 DEF IndexInv, Stages, FindEntryHeader, resources, loading
  <1>15. CASE LoadEnds
    BY <1>0, <1>n, <1>15 DEF IndexInv, Stages, LoadEnds, release, loading
  <1>16. CASE BuildMap
    BY <1>0, <1>n, <1>16 DEF IndexInv, Stages, BuildMap, Halt, resources, loading
  <1>17. CASE CheckHeader
    BY <1>0, <1>n, <1>17 DEF IndexInv, Stages, CheckHeader, LoadError, CloseFile, FreePages, Halt, resources, loading
  <1>18. CASE ClearBss
    BY <1>0, <1>n, <1>18 DEF IndexInv, Stages, ClearBss, resources, loading
  <1>19. CASE AskConsole
    BY <1>0, <1>n, <1>19 DEF IndexInv, Stages, AskConsole, Step, loading
  <1>20. CASE GetVariable
    BY <1>0, <1>n, <1>20 DEF IndexInv, Stages, GetVariable, Step, resources, loading
  <1>21. CASE SearchConsole
    <2>1. CASE pc' = "search"
      <3>1. /\ i \in 1 .. Len(console.devices) /\ console.devices # << >>
            /\ i' = find_next_devpath_instance(console.devices, i)
        BY <1>0, <1>21, <2>1 DEF IndexInv, SearchConsole, Step, Halt
      <3>2. i' \in 0 .. Len(console.devices)
        BY <3>1, NextInstance DEF ImageInv
      <3> QED BY <1>0, <2>1, <3>1, <3>2 DEF IndexInv
    <2>2. CASE pc' # "search"
      BY <1>0, <1>21, <2>2 DEF IndexInv, SearchConsole, Step, Halt, loading
    <2> QED BY <2>1, <2>2
  <1>22. CASE locate_protocol
    BY <1>0, <1>n, <1>22 DEF IndexInv, Stages, locate_protocol, Step, loading
  <1>23. CASE check_framebuffer
    BY <1>0, <1>n, <1>23 DEF IndexInv, Stages, check_framebuffer, LoadError, CloseFile, FreePages, Step, loading
  <1>24. CASE init
    BY <1>0, <1>n, <1>24 DEF IndexInv, Stages, init, resources, loading
  <1>25. CASE UNCHANGED vars
    BY <1>0, <1>n, <1>25 DEF IndexInv, vars, resources, loading, info, loading
  <1> QED
    BY <1>1, <1>2, <1>3, <1>4, <1>5, <1>6, <1>7, <1>8, <1>9, <1>10, <1>11, <1>12, <1>13, <1>14, <1>15, <1>16, <1>17, <1>18, <1>19, <1>20, <1>21, <1>22, <1>23, <1>24, <1>25 DEF Next, loader

(* A program header that is seen extends what is known of the ones before. *)
LEMMA RangeGrows ==
  ASSUME NEW v \in Nat, NEW m \in Nat, NEW low \in Nat, NEW high \in Nat
  PROVE  \E l \in Nat, h \in Nat :
           /\ l = Min({low, v}) /\ h = Max({high, v + m})
           /\ l <= low /\ l <= v /\ high <= h /\ v + m <= h /\ (l = low \/ l = v)
  <1>1. PICK t \in Nat : t = v + m
    OBVIOUS
  <1>2. Min({low, v}) \in Nat /\ Min({low, v}) = IF low <= v THEN low ELSE v
    BY DEF Min
  <1>3. Max({high, t}) \in Nat /\ Max({high, t}) = IF high >= t THEN high ELSE t
    BY DEF Max
  <1> QED BY <1>1, <1>2, <1>3

LEMMA SegmentIsSeen ==
  ASSUME scan \in Scan, scan.low <= scan.high, NEW p, NEW v \in Nat, NEW m \in Nat,
         p.vaddr = v, p.memsz = m, ~Unsupported(p), scan' = WithSegment(p),
         scan.found => scan.align \in SegAlignments
  PROVE  \E low \in Nat, high \in Nat, align \in SegAlignments :
           /\ scan' = [found |-> TRUE, low |-> low, high |-> high, align |-> align]
           /\ low <= v /\ v + m <= high /\ low <= high /\ v % align = 0
           /\ scan.found => low <= scan.low /\ scan.high <= high /\ align = scan.align
           /\ low = v \/ (scan.found /\ low = scan.low)
  <1>1. PICK sl \in Nat, sh \in Nat : /\ sl = scan.low /\ sh = scan.high /\ sl <= sh
                                      /\ scan.found \in BOOLEAN
    BY DEF Scan
  <1>2. CASE scan.found = TRUE
    <2>1. PICK low \in Nat, high \in Nat :
            /\ low = Min({sl, v}) /\ high = Max({sh, v + m})
            /\ low <= sl /\ low <= v /\ sh <= high /\ v + m <= high /\ (low = sl \/ low = v)
      BY RangeGrows
    <2>2. scan.align \in SegAlignments /\ v % scan.align = 0
      BY <1>2 DEF Unsupported
    <2>3. scan' = [scan EXCEPT !.low = low, !.high = high]
      BY <1>1, <1>2, <2>1 DEF WithSegment
    <2>4. scan' = [found |-> TRUE, low |-> low, high |-> high, align |-> scan.align]
      BY <1>2, <2>3 DEF Scan
    <2>5. low <= high
      BY <1>1, <2>1
    <2> QED BY <1>1, <1>2, <2>1, <2>2, <2>4, <2>5
  <1>3. CASE scan.found = FALSE
    <2>1. PICK align \in SegAlignments : align = p.align /\ v % align = 0
      BY <1>3 DEF Unsupported
    <2>2. PICK t \in Nat : t = v + m /\ v <= t
      OBVIOUS
    <2>3. scan' = [found |-> TRUE, low |-> v, high |-> t, align |-> align]
      BY <1>3, <2>1, <2>2 DEF WithSegment
    <2>4. ~scan.found
      BY <1>3
    <2>5. v <= t /\ v + m <= t
      BY <2>2
    <2> WITNESS v \in Nat, t \in Nat, align \in SegAlignments
    <2> QED BY <2>1, <2>3, <2>4, <2>5
  <1> QED BY <1>1, <1>2, <1>3

LEMMA AreaIsAdded ==
  ASSUME NEW S, NEW t \in Seq(S), NEW e \in S, NEW u, u = Append(t, e)
  PROVE  /\ u \in Seq(S)
         /\ \A k \in DOMAIN t : k \in DOMAIN u /\ u[k] = t[k]
         /\ \E k \in DOMAIN u : u[k] = e
         /\ \A k \in DOMAIN u : (k \in DOMAIN t /\ u[k] = t[k]) \/ u[k] = e
  <1>1. PICK L \in Nat : L = Len(t) /\ DOMAIN t = 1 .. L
    BY LenProperties
  <1>2. /\ u \in Seq(S) /\ Len(u) = L + 1
        /\ \A k \in 1 .. L : u[k] = t[k]
        /\ u[L + 1] = e
    BY <1>1, AppendProperties
  <1>3. DOMAIN u = 1 .. (L + 1)
    BY <1>2, LenProperties
  <1>4. L + 1 \in DOMAIN u /\ \A k \in DOMAIN u : k \in 1 .. L \/ k = L + 1
    BY <1>3
  <1>5. \A k \in 1 .. L : k \in DOMAIN u
    BY <1>3
  <1> QED BY <1>1, <1>2, <1>4, <1>5

LEMMA HeaderIsSeen ==
  ASSUME ImageInv, ScanHeader, elf' = elf, i' = i + 1, Loadable(i), ~LoadError, ~Halt
  PROVE  ScanInv'
  <1> DEFINE p == elf.ph[i]
             Area == [begin : Nat, size : Nat]
  <1>1. /\ i \in 1 .. Len(elf.ph) /\ Len(elf.ph) \in Nat /\ DOMAIN elf.ph = 1 .. Len(elf.ph)
        /\ scan \in Scan /\ scan.low <= scan.high /\ Seen(i) /\ bss_areas \in Seq(Area)
        /\ pc' = "scan" /\ scan' = WithSegment(p) /\ ~Unsupported(p)
        /\ bss_areas' = IF p.memsz > p.filesz THEN Append(bss_areas, BssOf(p)) ELSE bss_areas
    BY KernelFacts DEF ImageInv, IndexInv, ScanInv, ScanHeader, BssOf
  <1>2. elf.ph[i] \in ProgramHeader
    BY <1>1, KernelFacts
  <1>3. PICK v \in Nat, m \in Nat, u \in Nat : v = p.vaddr /\ m = p.memsz /\ u = p.filesz
    BY <1>2 DEF ProgramHeader
  <1> HIDE DEF p
  <1>4. scan.found => scan.align \in SegAlignments
    BY <1>1 DEF Seen
  <1>5. PICK low \in Nat, high \in Nat, align \in SegAlignments :
          /\ scan' = [found |-> TRUE, low |-> low, high |-> high, align |-> align]
          /\ low <= v /\ v + m <= high /\ low <= high /\ v % align = 0
          /\ scan.found => low <= scan.low /\ scan.high <= high /\ align = scan.align
          /\ low = v \/ (scan.found /\ low = scan.low)
    BY <1>1, <1>3, <1>4, SegmentIsSeen
  <1>6. align \in Nat
    BY ImageAssumption
  <1>7. scan' \in Scan /\ scan'.low <= scan'.high
    BY <1>5, <1>6 DEF Scan
  <1>8. /\ bss_areas' \in Seq(Area)
        /\ \A k \in DOMAIN bss_areas : k \in DOMAIN bss_areas' /\ bss_areas'[k] = bss_areas[k]
        /\ p.memsz > p.filesz => \E k \in DOMAIN bss_areas' : bss_areas'[k] = BssOf(p)
        /\ \A k \in DOMAIN bss_areas' : \/ k \in DOMAIN bss_areas /\ bss_areas'[k] = bss_areas[k]
                                        \/ p.memsz > p.filesz /\ bss_areas'[k] = BssOf(p)
    <2>1. CASE p.memsz > p.filesz
      <3>1. PICK e \in Area : e = BssOf(p)
        <4>1. m > u
          BY <1>3, <2>1
        <4>2. [begin |-> v + u, size |-> m - u] \in Area
          BY <4>1
        <4> QED BY <1>3, <4>2 DEF BssOf
      <3>2. bss_areas' = Append(bss_areas, e)
        BY <1>1, <2>1, <3>1
      <3> HIDE DEF Area
      <3> QED BY <1>1, <2>1, <3>1, <3>2, AreaIsAdded
    <2>2. CASE ~(p.memsz > p.filesz)
      <3>1. bss_areas' = bss_areas
        BY <1>1, <2>2, Zenon
      <3> HIDE DEF Area
      <3> QED BY <1>1, <2>2, <3>1
    <2> QED BY <2>1, <2>2
  <1>9. \A j : j \in LoadableBelow(i)' <=> j \in LoadableBelow(i) \/ j = i
    BY <1>1 DEF LoadableBelow, Loadable
  <1>10. Seen(i)'
    <2>1. scan'.found = TRUE /\ LoadableBelow(i)' # {}
      BY <1>5, <1>9
    <2>2. scan'.align \in SegAlignments /\ \E j \in LoadableBelow(i)' : elf.ph[j].vaddr = scan'.low
      BY <1>1, <1>3, <1>5, <1>9 DEF Seen, p
    <2>3. ASSUME NEW j \in LoadableBelow(i)'
          PROVE  /\ scan'.low <= elf.ph[j].vaddr
                 /\ elf.ph[j].vaddr + elf.ph[j].memsz <= scan'.high
                 /\ elf.ph[j].vaddr % scan'.align = 0
                 /\ elf.ph[j].memsz > elf.ph[j].filesz =>
                      \E k \in DOMAIN bss_areas' : bss_areas'[k] = BssOf(elf.ph[j])
      <3>1. CASE j = i
        <4>1. elf.ph[j] = p
          BY <3>1 DEF p
        <4>2. scan'.low <= p.vaddr /\ p.vaddr + p.memsz <= scan'.high /\ p.vaddr % scan'.align = 0
          BY <1>3, <1>5
        <4> QED BY <1>8, <4>1, <4>2, Zenon
      <3>2. CASE j \in LoadableBelow(i)
        <4>1. scan.found /\ elf.ph[j] \in ProgramHeader
          BY <1>1, <3>2, KernelFacts DEF Seen, LoadableBelow
        <4>2. /\ scan.low <= elf.ph[j].vaddr /\ elf.ph[j].vaddr + elf.ph[j].memsz <= scan.high
              /\ elf.ph[j].vaddr % scan.align = 0
              /\ elf.ph[j].memsz > elf.ph[j].filesz =>
                   \E k \in DOMAIN bss_areas : bss_areas[k] = BssOf(elf.ph[j])
          BY <1>1, <3>2 DEF Seen
        <4>3. PICK w \in Nat, n \in Nat : w = elf.ph[j].vaddr /\ n = elf.ph[j].memsz
          BY <4>1 DEF ProgramHeader
        <4>4. PICK l \in Nat, h \in Nat : l = scan.low /\ h = scan.high
          BY <1>1 DEF Scan
        <4>5. low <= w /\ w + n <= high /\ w % align = 0
          BY <1>5, <4>1, <4>2, <4>3, <4>4
        <4>6. elf.ph[j].memsz > elf.ph[j].filesz =>
                \E k \in DOMAIN bss_areas' : bss_areas'[k] = BssOf(elf.ph[j])
          BY <1>8, <4>2, Zenon
        <4> QED BY <1>5, <4>3, <4>5, <4>6
      <3> QED BY <1>9, <2>3, <3>1, <3>2
    <2>4. ASSUME NEW k \in DOMAIN bss_areas'
          PROVE  \E j \in LoadableBelow(i)' :
                   elf.ph[j].memsz > elf.ph[j].filesz /\ bss_areas'[k] = BssOf(elf.ph[j])
      <3>1. CASE k \in DOMAIN bss_areas /\ bss_areas'[k] = bss_areas[k]
        BY <1>1, <1>9, <3>1 DEF Seen
      <3>2. CASE p.memsz > p.filesz /\ bss_areas'[k] = BssOf(p)
        BY <1>9, <3>2 DEF p
      <3> QED BY <1>8, <3>1, <3>2
    <2> QED BY <2>1, <2>2, <2>3, <2>4 DEF Seen, BssOf
  <1> QED BY <1>1, <1>7, <1>8, <1>10 DEF ScanInv, Opening, Opened, Asking, Reading, Placed

LEMMA ScanPreserved == ImageInv /\ [Next]_vars => ScanInv'
  <1> SUFFICES ASSUME ImageInv, [Next]_vars
               PROVE  ScanInv'
    OBVIOUS
  <1> USE DEF Opening, Opened, Asking, Reading, Placed
  <1>0. ScanInv /\ pc \in Stages /\ elf' = elf
    BY DEF ImageInv, Next, vars
  <1>1. CASE ConvertTextToDevicePath
    BY <1>0, <1>1 DEF ScanInv, Stages, ConvertTextToDevicePath, Step, loading, Seen, LoadableBelow, Loadable, BssOf
  <1>2. CASE JoinPaths
    BY <1>0, <1>2 DEF ScanInv, Stages, JoinPaths, Step, loading, Seen, LoadableBelow, Loadable, BssOf
  <1>3. CASE OpenVolume
    BY <1>0, <1>3 DEF ScanInv, Stages, OpenVolume, LoadError, CloseFile, FreePages, loading, Seen, LoadableBelow, Loadable, BssOf
  <1>4. CASE ConvertDevicePathToText
    BY <1>0, <1>4 DEF ScanInv, Stages, ConvertDevicePathToText, OpenKernelFails, Step, loading, Seen, LoadableBelow, Loadable, BssOf
  <1>5. CASE OpenFile
    BY <1>0, <1>5 DEF ScanInv, Stages, OpenFile, OpenKernelFails, loading, Seen, LoadableBelow, Loadable, BssOf
  <1>6. CASE AllocateInfo
    BY <1>0, <1>6 DEF ScanInv, Stages, AllocateInfo, OpenKernelFails, Step, loading, Seen, LoadableBelow, Loadable, BssOf
  <1>7. CASE GetInfo
    BY <1>0, <1>7 DEF ScanInv, Stages, GetInfo, OpenKernelFails, Step, loading, Seen, LoadableBelow, Loadable, BssOf
  <1>8. CASE ReadHeader
    <2>1. CASE pc' = "scan"
      <3>1. /\ scan' = scan /\ bss_areas' = bss_areas /\ i' = i /\ i = 1
            /\ scan = NoScan /\ bss_areas = << >>
        BY <1>0, <1>8, <2>1 DEF ImageInv, IndexInv, ScanInv, ReadHeader, LoadError, Halt
      <3>2. LoadableBelow(i)' = {}
        BY <1>0, <3>1, KernelFacts DEF LoadableBelow
      <3>3. bss_areas' \in Seq([begin : Nat, size : Nat]) /\ DOMAIN bss_areas' = {}
        BY <3>1
      <3>4. Seen(i)'
        BY <3>1, <3>2, <3>3 DEF Seen, NoScan
      <3> QED BY <1>0, <2>1, <3>1, <3>4 DEF ScanInv, Seen
    <2>2. CASE pc' # "scan"
      BY <1>0, <1>8, <2>2 DEF ScanInv, ReadHeader, LoadError, Halt, loading, resources
    <2> QED BY <2>1, <2>2
  <1>9. CASE ExtendHeader
    <2>1. CASE pc' = "scan"
      <3>1. /\ scan' = scan /\ bss_areas' = bss_areas /\ i' = i /\ i = 1
            /\ scan = NoScan /\ bss_areas = << >>
        BY <1>0, <1>9, <2>1 DEF ImageInv, IndexInv, ScanInv, ExtendHeader, LoadError, Halt
      <3>2. LoadableBelow(i)' = {}
        BY <1>0, <3>1, KernelFacts DEF LoadableBelow
      <3>3. bss_areas' \in Seq([begin : Nat, size : Nat]) /\ DOMAIN bss_areas' = {}
        BY <3>1
      <3>4. Seen(i)'
        BY <3>1, <3>2, <3>3 DEF Seen, NoScan
      <3> QED BY <1>0, <2>1, <3>1, <3>4 DEF ScanInv, Seen
    <2>2. CASE pc' # "scan"
      BY <1>0, <1>9, <2>2 DEF ScanInv, ExtendHeader, LoadError, Halt, loading, resources
    <2> QED BY <2>1, <2>2
  <1>10. CASE ScanHeader
    <2>1. CASE LoadError \/ Halt
      BY <1>0, <2>1 DEF ScanInv, LoadError, Halt, loading, Stages
    <2>2. CASE ~LoadError /\ ~Halt /\ Loadable(i)
      <3>1. i' = i + 1
        BY <1>10, <2>2 DEF ScanHeader
      <3> QED BY <1>0, <1>10, <2>2, <3>1, HeaderIsSeen
    <2>3. CASE ~LoadError /\ ~Halt /\ ~Loadable(i)
      <3>1. /\ i' = i + 1 /\ scan' = scan /\ bss_areas' = bss_areas /\ pc = "scan" /\ pc' = "scan"
            /\ i \in 1 .. Len(elf.ph) /\ Seen(i)
        BY <1>0, <1>10, <2>3, KernelFacts DEF ScanHeader, ScanInv, ImageInv, IndexInv
      <3>2. \A j : j \in LoadableBelow(i)' <=> j \in LoadableBelow(i)
        BY <1>0, <2>3, <3>1, KernelFacts DEF LoadableBelow, Loadable
      <3>3. Seen(i)'
        BY <1>0, <3>1, <3>2 DEF Seen, BssOf
      <3> QED BY <1>0, <3>1, <3>3 DEF ScanInv
    <2> QED BY <2>1, <2>2, <2>3
  <1>11. CASE ScanEnds
    <2>1. CASE LoadError
      BY <1>0, <2>1 DEF ScanInv, LoadError, loading
    <2>2. CASE ~LoadError
      <3>1. /\ i = Len(elf.ph) + 1 /\ scan' = scan /\ bss_areas' = bss_areas /\ Seen(i)
            /\ pc' = "allocate" /\ scan.found /\ ~(scan.low < TOP_MINUS_2GB)
        BY <1>0, <1>11, <2>2, KernelFacts DEF ScanEnds, ScanInv, ImageInv, IndexInv, resources, loading
      <3>2. scan.low >= TOP_MINUS_2GB
        BY <1>0, <3>1, ImageAssumption DEF ScanInv, Scan
      <3>3. Seen(Len(elf.ph) + 1)'
        BY <1>0, <3>1 DEF Seen, LoadableBelow, Loadable, BssOf
      <3> QED BY <1>0, <3>1, <3>2, <3>3 DEF ScanInv
    <2> QED BY <2>1, <2>2
  <1>12. CASE AllocateKernel
    BY <1>0, <1>12 DEF ScanInv, Stages, AllocateKernel, loading, Seen, LoadableBelow, Loadable, BssOf
  <1>13. CASE LoadSegments
    <2>1. /\ pc = "load" /\ pc' \in {"load", "returned"}
          /\ scan' = scan /\ bss_areas' = bss_areas
      BY <1>13, Zenon DEF LoadSegments, LoadError, loading
    <2> QED BY <1>0, <2>1 DEF ScanInv, Seen, LoadableBelow, Loadable, BssOf
  <1>14. CASE FindEntryHeader
    BY <1>0, <1>14 DEF ScanInv, Stages, FindEntryHeader, resources, loading, Seen, LoadableBelow, Loadable, BssOf
  <1>15. CASE LoadEnds
    BY <1>0, <1>15 DEF ScanInv, Stages, LoadEnds, release, loading, Seen, LoadableBelow, Loadable, BssOf
  <1>16. CASE BuildMap
    BY <1>0, <1>16 DEF ScanInv, Stages, BuildMap, Halt, resources, loading, Seen, LoadableBelow, Loadable, BssOf
  <1>17. CASE CheckHeader
    BY <1>0, <1>17 DEF ScanInv, Stages, CheckHeader, LoadError, CloseFile, FreePages, Halt, resources, loading, Seen, LoadableBelow, Loadable, BssOf
  <1>18. CASE ClearBss
    BY <1>0, <1>18 DEF ScanInv, Stages, ClearBss, resources, loading, Seen, LoadableBelow, Loadable, BssOf
  <1>19. CASE AskConsole
    BY <1>0, <1>19 DEF ScanInv, Stages, AskConsole, Step, loading, Seen, LoadableBelow, Loadable, BssOf
  <1>20. CASE GetVariable
    BY <1>0, <1>20 DEF ScanInv, Stages, GetVariable, Step, resources, loading, Seen, LoadableBelow, Loadable, BssOf
  <1>21. CASE SearchConsole
    BY <1>0, <1>21 DEF ScanInv, Stages, SearchConsole, Step, Halt, resources, loading, Seen, LoadableBelow, Loadable, BssOf
  <1>22. CASE locate_protocol
    BY <1>0, <1>22 DEF ScanInv, Stages, locate_protocol, Step, loading, Seen, LoadableBelow, Loadable, BssOf
  <1>23. CASE check_framebuffer
    BY <1>0, <1>23 DEF ScanInv, Stages, check_framebuffer, LoadError, CloseFile, FreePages, Step, loading, Seen, LoadableBelow, Loadable, BssOf
  <1>24. CASE init
    BY <1>0, <1>24 DEF ScanInv, Stages, init, resources, loading, Seen, LoadableBelow, Loadable, BssOf
  <1>25. CASE UNCHANGED vars
    BY <1>0, <1>25 DEF ScanInv, vars, resources, loading, info, loading, Seen, LoadableBelow, Loadable, BssOf
  <1> QED
    BY <1>1, <1>2, <1>3, <1>4, <1>5, <1>6, <1>7, <1>8, <1>9, <1>10, <1>11, <1>12, <1>13, <1>14, <1>15, <1>16, <1>17, <1>18, <1>19, <1>20, <1>21, <1>22, <1>23, <1>24, <1>25 DEF Next, loader

(* More is asked for than the kernel needs, so that an aligned part of it  *)
(* can be kept wherever it begins; what is kept is that part.              *)
LEMMA AlignmentInPages ==
  ASSUME NEW align \in SegAlignments
  PROVE  \E a \in Nat \ {0} : /\ align = PAGE * a /\ align \div PAGE = a
                               /\ (align - 1) \div PAGE = a - 1
  <1>1. PAGE \in Nat \ {0} /\ align \in Nat \ {0} /\ align % PAGE = 0
    BY ImageAssumption
  <1>2. PICK a \in Nat : align = PAGE * a
    BY <1>1, MultipleIs DEF Multiple
  <1>3. a # 0
    BY <1>1, <1>2
  <1>4. PICK c \in Nat, r \in Nat : c = a - 1 /\ r = PAGE - 1 /\ r < PAGE
    BY <1>1, <1>3
  <1>5. align = PAGE * a + 0 /\ align - 1 = PAGE * c + r
    BY <1>1, <1>2, <1>4
  <1>6. align \div PAGE = a
    BY <1>1, <1>5, QuotientIsUnique
  <1>7. r \in Nat /\ r < PAGE
    BY <1>4
  <1>8. (align - 1) \div PAGE = c
    <2>1. \A n \in Nat : n = PAGE * c + r => n \div PAGE = c
      BY <1>1, <1>7, QuotientIsUnique
    <2>2. align - 1 \in Nat
      BY <1>1
    <2> QED BY <1>5, <2>1, <2>2
  <1> QED BY <1>2, <1>3, <1>4, <1>6, <1>7, <1>8

LEMMA AlignedPart ==
  ASSUME NEW a \in Nat \ {0}, NEW base \in Nat, NEW b,
         b = IF base % a = 0 THEN base ELSE base - (base % a) + a
  PROVE  b \in Nat /\ base <= b /\ b < base + a /\ \E q \in Nat : b = a * q
  <1>1. PICK q \in Nat, r \in Nat : r = base % a /\ r < a /\ base = a * q + r
    BY QuotientAndRest
  <1>2. CASE r = 0
    <2>1. b = base /\ b = a * q
      BY <1>1, <1>2
    <2> QED BY <2>1
  <1>3. CASE r # 0
    <2>1. b = base - r + a
      BY <1>1, <1>3
    <2>2. PICK n \in Nat : n = a * q
      OBVIOUS
    <2>3. PICK k \in Nat : k = q + 1
      OBVIOUS
    <2>4. b = n + a /\ a * k = n + a
      BY <1>1, <2>1, <2>2, <2>3
    <2>5. b \in Nat /\ base <= b /\ b < base + a
      BY <1>1, <1>3, <2>2, <2>4
    <2> QED BY <2>4, <2>5
  <1> QED BY <1>2, <1>3

LEMMA KernelIsAllocated ==
  ASSUME ImageInv, AllocateKernel, elf' = elf
  PROVE  PagesInv'
  <1>1. /\ scan \in Scan /\ scan.found /\ scan.low <= scan.high /\ scan.align \in SegAlignments
        /\ scan' = scan
    BY DEF ImageInv, ScanInv, Seen, AllocateKernel
  <1>2. PICK req \in Nat : req = req_pages
    <2>1. PICK n \in Nat : n = scan.high - scan.low
      BY <1>1 DEF Scan
    <2> QED BY <2>1, PagesForFacts DEF req_pages
  <1>3. PICK a \in Nat \ {0} : /\ scan.align = PAGE * a /\ scan.align \div PAGE = a
                               /\ (scan.align - 1) \div PAGE = a - 1
    BY <1>1, AlignmentInPages
  <1>4. PICK base \in Bases \cup {0} :
          LET count == req + (a - 1)
              begin == AlignedBegin(base)
              given == IF base = 0 THEN {} ELSE base .. (base + count - 1)
          IN  /\ ignored' = (ignored \/ base = 0)
              /\ owned' = given \ ((base .. (begin - 1))
                                   \cup ((begin + req) .. (base + count - 1)))
              /\ kernel_alloc' = [address |-> begin, pages |-> req]
              /\ image' = [x \in 0 .. (req * PAGE - 1) |-> Junk]
    BY <1>2, <1>3 DEF AllocateKernel
  <1>5. base \in Nat
    BY ImageAssumption
  <1>6. PICK b \in Nat : /\ b = AlignedBegin(base) /\ base <= b /\ b < base + a
                         /\ \E q \in Nat : b = a * q
    <2>1. AlignedBegin(base) = IF base % a = 0 THEN base ELSE base - (base % a) + a
      BY <1>3 DEF AlignedBegin
    <2> QED BY <1>5, <2>1, AlignedPart
  <1>7. (b * PAGE) % scan.align = 0
    <2>1. PICK q \in Nat : b = a * q
      BY <1>6
    <2>2. b * PAGE \in Nat /\ b * PAGE = scan.align * q /\ scan.align \in Nat \ {0}
      BY <1>1, <1>3, <2>1, ImageAssumption
    <2> QED BY <2>2, MultipleIs DEF Multiple
  <1>8. kernel_alloc' = [address |-> b, pages |-> req] /\ DOMAIN image' = 0 .. (req * PAGE - 1)
    BY <1>4, <1>6
  <1>9. owned' \subseteq Nat /\ (base # 0 => owned' = b .. (b + req - 1))
    <2>1. PICK n \in Int : n = base + (req + (a - 1)) - 1
      BY <1>5
    <2>2. owned' = (IF base = 0 THEN {} ELSE base .. n) \ ((base .. (b - 1)) \cup ((b + req) .. n))
      BY <1>4, <1>6, <2>1
    <2>3. CASE base = 0
      BY <2>2, <2>3
    <2>4. CASE base # 0
      <3>1. \A x \in Int : x \in owned' <=> x \in b .. (b + req - 1)
        BY <1>5, <1>6, <2>1, <2>2, <2>4
      <3>2. owned' \subseteq Int
        BY <2>2
      <3>3. b .. (b + req - 1) \subseteq Nat
        OBVIOUS
      <3>4. owned' = b .. (b + req - 1)
        <4>1. b .. (b + req - 1) \subseteq Int
          OBVIOUS
        <4> QED BY <3>1, <3>2, <4>1, Zenon
      <3> QED BY <2>4, <3>3, <3>4
    <2> QED BY <2>3, <2>4
  <1>10. ~ignored' => base # 0
    BY <1>4
  <1>11. pc' = "load" /\ req_pages' = req
    BY <1>1, <1>2 DEF AllocateKernel, req_pages
  <1> QED BY <1>1, <1>7, <1>8, <1>9, <1>10, <1>11
          DEF PagesInv, Opening, Opened, Asking, Reading, Placed

LEMMA PagesPreserved == ImageInv /\ [Next]_vars => PagesInv'
  <1> SUFFICES ASSUME ImageInv, [Next]_vars
               PROVE  PagesInv'
    OBVIOUS
  <1> USE DEF Opening, Opened, Asking, Reading, Placed
  <1>0. PagesInv /\ pc \in Stages /\ elf' = elf
    BY DEF ImageInv, Next, vars
  <1> DEFINE Early == Opening \cup Opened \cup Asking \cup Reading \cup {"scan", "allocate"}
  <1>e. pc' \in Early \cup {"returned", "halted"} /\ kernel_alloc' = NoPages /\ owned' = {} => PagesInv'
    BY DEF PagesInv, NoPages
  <1> HIDE DEF Early
  <1>1. CASE ConvertTextToDevicePath
    BY <1>0, <1>1 DEF PagesInv, Stages, ConvertTextToDevicePath, Step, loading, NoPages, req_pages
  <1>2. CASE JoinPaths
    BY <1>0, <1>2 DEF PagesInv, Stages, JoinPaths, Step, loading, NoPages, req_pages
  <1>3. CASE OpenVolume
    BY <1>0, <1>3 DEF PagesInv, Stages, OpenVolume, LoadError, CloseFile, FreePages, loading, NoPages, req_pages
  <1>4. CASE ConvertDevicePathToText
    BY <1>0, <1>4 DEF PagesInv, Stages, ConvertDevicePathToText, OpenKernelFails, Step, loading, NoPages, req_pages
  <1>5. CASE OpenFile
    BY <1>0, <1>5 DEF PagesInv, Stages, OpenFile, OpenKernelFails, loading, NoPages, req_pages
  <1>6. CASE AllocateInfo
    <2>1. pc' \in Early \cup {"returned", "halted"} /\ kernel_alloc' = NoPages /\ owned' = {}
      BY <1>0, <1>6 DEF PagesInv, Early, AllocateInfo, OpenKernelFails, Step
    <2> QED BY <2>1, <1>e
  <1>7. CASE GetInfo
    <2>1. pc' \in Early \cup {"returned", "halted"} /\ kernel_alloc' = NoPages /\ owned' = {}
      BY <1>0, <1>7 DEF PagesInv, Early, GetInfo, OpenKernelFails, Step
    <2> QED BY <2>1, <1>e
  <1>8. CASE ReadHeader
    <2>1. pc' \in Early \cup {"returned", "halted"} /\ kernel_alloc' = NoPages /\ owned' = {}
      BY <1>0, <1>8 DEF PagesInv, Early, ReadHeader, LoadError, FreePages
    <2> QED BY <2>1, <1>e
  <1>9. CASE ExtendHeader
    <2>1. pc' \in Early \cup {"returned", "halted"} /\ kernel_alloc' = NoPages /\ owned' = {}
      BY <1>0, <1>9 DEF PagesInv, Early, ExtendHeader, LoadError, FreePages, Halt, resources
    <2> QED BY <2>1, <1>e
  <1>10. CASE ScanHeader
    <2>1. pc' \in Early \cup {"returned", "halted"} /\ kernel_alloc' = NoPages /\ owned' = {}
      BY <1>0, <1>10 DEF PagesInv, Early, ScanHeader, LoadError, FreePages, Halt, resources
    <2> QED BY <2>1, <1>e
  <1>11. CASE ScanEnds
    BY <1>0, <1>11 DEF PagesInv, Stages, ScanEnds, LoadError, CloseFile, FreePages, resources, loading, NoPages, req_pages
  <1>12. CASE AllocateKernel
    BY <1>0, <1>12, KernelIsAllocated
  <1>13. CASE LoadSegments
    <2>1. CASE LoadError
      BY <1>0, <1>13, <2>1 DEF PagesInv, LoadError, FreePages, NoPages, loading
    <2>2. CASE ~LoadError
      <3>1. /\ pc = "load" /\ pc' = "load" /\ DOMAIN image' = DOMAIN image
            /\ scan' = scan /\ kernel_alloc' = kernel_alloc /\ owned' = owned /\ ignored' = ignored
        BY <1>13, <2>2 DEF LoadSegments, resources
      <3> QED BY <1>0, <3>1 DEF PagesInv, req_pages
    <2> QED BY <2>1, <2>2
  <1>14. CASE FindEntryHeader
    BY <1>0, <1>14 DEF PagesInv, Stages, FindEntryHeader, resources, loading, NoPages, req_pages
  <1>15. CASE LoadEnds
    BY <1>0, <1>15 DEF PagesInv, Stages, LoadEnds, release, loading, NoPages, req_pages
  <1>16. CASE BuildMap
    BY <1>0, <1>16 DEF PagesInv, Stages, BuildMap, Halt, resources, loading, NoPages, req_pages
  <1>17. CASE CheckHeader
    <2>1. CASE LoadError
      BY <2>1, <1>e DEF LoadError, FreePages
    <2>2. CASE ~LoadError
      <3>1. /\ pc \in Placed /\ pc' \in Placed \cup {"halted"} /\ UNCHANGED <<loading, owned, kernel_alloc>>
        BY <1>17, <2>2 DEF CheckHeader, Halt, resources
      <3> QED BY <1>0, <3>1 DEF PagesInv, req_pages, loading
    <2> QED BY <2>1, <2>2
  <1>18. CASE ClearBss
    BY <1>0, <1>18 DEF PagesInv, Stages, ClearBss, resources, loading, NoPages, req_pages
  <1>19. CASE AskConsole
    BY <1>0, <1>19 DEF PagesInv, Stages, AskConsole, Step, loading, NoPages, req_pages
  <1>20. CASE GetVariable
    BY <1>0, <1>20 DEF PagesInv, Stages, GetVariable, Step, resources, loading, NoPages, req_pages
  <1>21. CASE SearchConsole
    BY <1>0, <1>21 DEF PagesInv, Stages, SearchConsole, Step, Halt, resources, loading, NoPages, req_pages
  <1>22. CASE locate_protocol
    BY <1>0, <1>22 DEF PagesInv, Stages, locate_protocol, Step, loading, NoPages, req_pages
  <1>23. CASE check_framebuffer
    <2>1. CASE LoadError
      BY <2>1, <1>e DEF LoadError, FreePages
    <2>2. CASE ~LoadError
      <3>1. /\ pc \in Placed /\ pc' \in Placed \cup {"halted"} /\ UNCHANGED <<loading, owned, kernel_alloc>>
        BY <1>23, <2>2 DEF check_framebuffer, Step
      <3> QED BY <1>0, <3>1 DEF PagesInv, req_pages, loading
    <2> QED BY <2>1, <2>2
  <1>24. CASE init
    BY <1>0, <1>24 DEF PagesInv, Stages, init, resources, loading, NoPages, req_pages
  <1>25. CASE UNCHANGED vars
    BY <1>0, <1>25 DEF PagesInv, vars, resources, loading, info, loading, NoPages, req_pages
  <1> QED
    BY <1>1, <1>2, <1>3, <1>4, <1>5, <1>6, <1>7, <1>8, <1>9, <1>10, <1>11, <1>12, <1>13, <1>14, <1>15, <1>16, <1>17, <1>18, <1>19, <1>20, <1>21, <1>22, <1>23, <1>24, <1>25 DEF Next, loader

-----------------------------------------------------------------------------
(* The kernel in memory                                                    *)

(* What a linker makes, in numbers                                         *)
LEMMA LinkedSegment ==
  ASSUME ImageInv, NEW j \in LoadableBelow(Len(elf.ph) + 1)
  PROVE  /\ j \in 1 .. Len(elf.ph) /\ Loadable(j)
         /\ elf.ph[j].vaddr \in Nat /\ elf.ph[j].memsz \in Nat /\ elf.ph[j].filesz \in Nat
         /\ elf.ph[j].offset \in Nat /\ elf.ph[j].paddr \in Nat
         /\ elf.ph[j].filesz <= elf.ph[j].memsz
  <1>1. j \in DOMAIN elf.ph /\ elf.ph[j].type = "LOAD" /\ elf.ph[j] \in ProgramHeader
    BY KernelFacts DEF LoadableBelow, Loadable
  <1>2. elf.ph[j].filesz <= elf.ph[j].memsz
    BY <1>1, KernelsAssumption DEF ImageInv
  <1> QED BY <1>1, <1>2, KernelFacts DEF LoadableBelow, ProgramHeader

LEMMA SegmentsApart ==
  ASSUME ImageInv, NEW j \in LoadableBelow(Len(elf.ph) + 1), NEW h \in LoadableBelow(Len(elf.ph) + 1),
         j # h
  PROVE  Before(elf.ph[j], elf.ph[h]) \/ Before(elf.ph[h], elf.ph[j])
  <1>1. /\ j \in DOMAIN elf.ph /\ elf.ph[j].type = "LOAD"
        /\ h \in DOMAIN elf.ph /\ elf.ph[h].type = "LOAD"
    BY DEF LoadableBelow, Loadable
  <1> QED BY <1>1, KernelsAssumption DEF ImageInv

LEMMA SegmentsTogether ==
  ASSUME ImageInv, NEW j \in LoadableBelow(Len(elf.ph) + 1), NEW h \in LoadableBelow(Len(elf.ph) + 1),
         j < h, SideBySide(elf.ph, j, h)
  PROVE  /\ elf.ph[h].offset - elf.ph[j].offset = elf.ph[h].vaddr - elf.ph[j].vaddr
         /\ Before(elf.ph[j], elf.ph[h])
         /\ \A k \in LoadableBelow(Len(elf.ph) + 1) :
              k \notin j .. h => Before(elf.ph[k], elf.ph[j]) \/ Before(elf.ph[h], elf.ph[k])
  <1> DEFINE loadable == {k \in DOMAIN elf.ph : elf.ph[k].type = "LOAD"}
  <1>1. j \in loadable /\ h \in loadable /\ LoadableBelow(Len(elf.ph) + 1) \subseteq loadable
    BY DEF LoadableBelow, Loadable
  <1>2. /\ elf.ph[h].offset - elf.ph[j].offset = elf.ph[h].vaddr - elf.ph[j].vaddr
        /\ Before(elf.ph[j], elf.ph[h])
        /\ \A k \in loadable \ (j .. h) : Before(elf.ph[k], elf.ph[j]) \/ Before(elf.ph[h], elf.ph[k])
    BY <1>1, KernelsAssumption DEF ImageInv
  <1> QED BY <1>1, <1>2

(* The units read for segments that are combined end with the last of them *)
(* that has any.                                                           *)
LEMMA SegSizeFacts ==
  ASSUME ImageInv, NEW k \in 1 .. Len(elf.ph), Loadable(k)
  PROVE  \E e \in k .. Combined(k) :
           /\ SegSize(k, Combined(k)) = elf.ph[e].vaddr - elf.ph[k].vaddr + elf.ph[e].filesz
           /\ \A j \in k .. Combined(k) : elf.ph[j].filesz # 0 => j <= e
  <1>0. PICK n \in Nat : n = Len(elf.ph)
    BY KernelFacts
  <1>1. PICK last \in k .. n : last = Combined(k) /\ SideBySide(elf.ph, k, last)
    BY <1>0, CombinedFacts
  <1> DEFINE filled == {j \in (k + 1) .. last : elf.ph[j].filesz # 0}
  <1>2. SegSize(k, last) = IF filled = {} THEN elf.ph[k].filesz
                           ELSE (elf.ph[Max(filled)].paddr - elf.ph[k].paddr)
                                + elf.ph[Max(filled)].filesz
    BY DEF SegSize
  <1>3. \A j \in k .. last : j \in LoadableBelow(Len(elf.ph) + 1)
    BY <1>0, <1>1, KernelFacts DEF SideBySide, LoadableBelow, Loadable
  <1>4. CASE filled = {}
    <2>1. \A j \in k .. last : elf.ph[j].filesz # 0 => j <= k
      BY <1>4
    <2>2. SegSize(k, last) = elf.ph[k].filesz
      BY <1>2, <1>4
    <2>3. k \in k .. last /\ elf.ph[k].vaddr \in Nat /\ elf.ph[k].filesz \in Nat
      BY <1>1, <1>3, LinkedSegment
    <2>4. SegSize(k, last) = elf.ph[k].vaddr - elf.ph[k].vaddr + elf.ph[k].filesz
      BY <2>2, <2>3
    <2> QED BY <1>1, <2>1, <2>3, <2>4
  <1>5. CASE filled # {}
    <2>1. PICK e \in filled : e = Max(filled) /\ \A j \in filled : j <= e
      <3>1. filled \subseteq 0 .. n
        BY <1>1
      <3> HIDE DEF filled
      <3> QED BY <1>5, <3>1, MaxOfSet
    <2>2. e \in k .. last /\ \A j \in k .. last : elf.ph[j].filesz # 0 => j <= e
      <3>1. e \in (k + 1) .. last /\ \A j \in (k + 1) .. last : elf.ph[j].filesz # 0 => j <= e
        BY <2>1
      <3>2. \A j \in k .. last : j = k \/ j \in (k + 1) .. last
        BY <1>1
      <3>3. k \in Nat /\ k <= e
        BY <3>1
      <3> HIDE DEF filled
      <3> QED BY <1>1, <3>1, <3>2, <3>3
    <2>3. SegSize(k, last) = (elf.ph[e].paddr - elf.ph[k].paddr) + elf.ph[e].filesz
      BY <1>2, <1>5, <2>1
    <2>4. elf.ph[e].paddr - elf.ph[e].vaddr = elf.ph[k].paddr - elf.ph[k].vaddr
      BY <1>1, <2>2 DEF SideBySide
    <2>5. k \in k .. last
      BY <1>1
    <2>6. PICK ve \in Nat, pe \in Nat, fe \in Nat :
            ve = elf.ph[e].vaddr /\ pe = elf.ph[e].paddr /\ fe = elf.ph[e].filesz
      BY <1>3, <2>2, LinkedSegment
    <2>7. PICK vk \in Nat, pk \in Nat : vk = elf.ph[k].vaddr /\ pk = elf.ph[k].paddr
      BY <1>3, <2>5, LinkedSegment
    <2>8. pe - ve = pk - vk /\ SegSize(k, last) = (pe - pk) + fe
      BY <2>3, <2>4, <2>6, <2>7, Zenon
    <2>9. (pe - pk) + fe = ve - vk + fe
      BY <2>8
    <2> QED BY <1>1, <2>2, <2>6, <2>7, <2>8, <2>9, Zenon
  <1> QED BY <1>4, <1>5

(* The units of a segment are within the kernel's memory.                  *)
LEMMA SegmentFits ==
  ASSUME ImageInv, pc \in Placed, NEW j \in LoadableBelow(Len(elf.ph) + 1),
         NEW x \in 0 .. (elf.ph[j].memsz - 1)
  PROVE  elf.ph[j].vaddr - scan.low + x \in DOMAIN image /\ scan.low \in Nat
  <1>1. /\ scan \in Scan /\ scan.low <= elf.ph[j].vaddr
        /\ elf.ph[j].vaddr + elf.ph[j].memsz <= scan.high /\ scan.low <= scan.high
    BY DEF ImageInv, ScanInv, Seen
  <1>2. PICK v \in Nat, m \in Nat : v = elf.ph[j].vaddr /\ m = elf.ph[j].memsz
    BY LinkedSegment
  <1>3. PICK low \in Nat, high \in Nat : low = scan.low /\ high = scan.high
    BY <1>1 DEF Scan
  <1>4. PICK d \in Nat : d = high - low
    BY <1>1, <1>3
  <1>5. PICK size \in Nat : /\ d <= size /\ DOMAIN image = 0 .. (size - 1)
    <2>1. PagesFor(d) \in Nat /\ d <= PagesFor(d) * PAGE
      BY PagesForFacts
    <2>2. req_pages = PagesFor(d)
      BY <1>3, <1>4 DEF req_pages
    <2>3. DOMAIN image = 0 .. (kernel_alloc.pages * PAGE - 1) /\ kernel_alloc.pages = req_pages
      BY DEF ImageInv, PagesInv
    <2>4. PagesFor(d) * PAGE \in Nat
      BY <2>1, ImageAssumption
    <2> QED BY <2>1, <2>2, <2>3, <2>4
  <1>6. x \in 0 .. (m - 1)
    BY <1>2, Zenon
  <1>7. x \in Nat /\ x < m
    BY <1>6
  <1>8. low <= v /\ v + m <= high
    BY <1>1, <1>2, <1>3, Zenon
  <1>9. v - low + x \in 0 .. (size - 1)
    BY <1>4, <1>5, <1>7, <1>8
  <1> QED BY <1>2, <1>3, <1>5, <1>9, Zenon

(* A round of the loop loads the segments side by side, whether it copies  *)
(* them or reads them, and leaves those that are loaded as they are.       *)
LEMMA SegmentsAreLoaded ==
  ASSUME ImageInv, pc = "load", ~moved, i \in 1 .. Len(elf.ph), Loadable(i), FilledBelow(i),
         elf' = elf, scan' = scan, i' = Combined(i) + 1,
         NEW seg, seg = SegSize(i, Combined(i)), NEW offs, offs = elf.ph[i].vaddr - scan.low,
         image' = [x \in DOMAIN image |->
                     IF x \in offs .. (offs + seg - 1)
                       THEN UnitAt(elf.ph[i].offset + x - offs) ELSE image[x]]
  PROVE  FilledBelow(i)'
  <1> DEFINE V(j) == elf.ph[j].vaddr
             All == LoadableBelow(Len(elf.ph) + 1)
  <1>0. PICK n \in Nat : n = Len(elf.ph) /\ DOMAIN elf.ph = 1 .. n
    BY KernelFacts
  <1>1. PICK last \in i .. n : last = Combined(i) /\ SideBySide(elf.ph, i, last)
    BY <1>0, CombinedFacts
  <1>2. PICK e \in i .. last : /\ seg = V(e) - V(i) + elf.ph[e].filesz
                              /\ \A j \in i .. last : elf.ph[j].filesz # 0 => j <= e
    BY <1>0, <1>1, SegSizeFacts
  <1>3. \A j \in i .. last : j \in All /\ SideBySide(elf.ph, i, j)
    BY <1>0, <1>1 DEF SideBySide, LoadableBelow, Loadable
  <1>4. i \in All /\ e \in All /\ i <= e
    BY <1>0, <1>1, <1>2, <1>3
  <1>5. ASSUME NEW j \in LoadableBelow(i)', NEW x \in 0 .. (elf'.ph[j].filesz - 1)
        PROVE  image'[elf'.ph[j].vaddr - scan'.low + x] = elf'.ph[j].offset + x
    <2>1. /\ j \in All /\ (j \in i .. last \/ (j < i /\ j \in LoadableBelow(i)))
          /\ x \in 0 .. (elf.ph[j].filesz - 1)
      BY <1>0, <1>1 DEF LoadableBelow, Loadable
    <2>2. PICK vj \in Nat, mj \in Nat, fj \in Nat, oj \in Nat :
            /\ vj = V(j) /\ mj = elf.ph[j].memsz /\ fj = elf.ph[j].filesz /\ oj = elf.ph[j].offset
            /\ fj <= mj
      BY <2>1, LinkedSegment
    <2>a. x \in Nat /\ x < fj /\ x \in 0 .. (mj - 1)
      <3>1. x \in 0 .. (fj - 1)
        BY <2>1, <2>2, Zenon
      <3>2. fj \in Nat /\ mj \in Nat /\ fj <= mj
        BY <2>2
      <3>3. x \in Nat /\ x < fj
        BY <3>1, <3>2
      <3> QED BY <3>2, <3>3
    <2>i. /\ j \in Int /\ i \in Int /\ e \in Int /\ last \in Int
          /\ (j \in i .. last => i <= j /\ j <= last)
      BY <1>0, <1>1, <1>2, <2>1 DEF LoadableBelow
    <2>3. PICK vi \in Nat, mi \in Nat, oi \in Nat :
            vi = V(i) /\ mi = elf.ph[i].memsz /\ oi = elf.ph[i].offset
      BY <1>4, LinkedSegment
    <2>4. PICK ve \in Nat, me \in Nat, fe \in Nat :
            ve = V(e) /\ me = elf.ph[e].memsz /\ fe = elf.ph[e].filesz /\ fe <= me
      BY <1>4, LinkedSegment
    <2>5. PICK low \in Nat, y \in Int : low = scan.low /\ y = vj - low + x /\ y \in DOMAIN image
      <3>1. x \in 0 .. (elf.ph[j].memsz - 1)
        BY <2>2, <2>a, Zenon
      <3>2. V(j) - scan.low + x \in DOMAIN image /\ scan.low \in Nat
        BY <2>1, <3>1, SegmentFits DEF Placed
      <3>3. PICK low \in Nat : low = scan.low
        BY <3>2
      <3>4. vj - low + x \in Int
        BY <2>a
      <3> QED BY <2>2, <3>2, <3>3, <3>4, Zenon
    <2>6. offs = vi - low /\ seg = ve - vi + fe /\ x < fj
      BY <1>2, <2>3, <2>4, <2>5, <2>a, Zenon
    <2>t. /\ vj \in Nat /\ mj \in Nat /\ fj \in Nat /\ oj \in Nat /\ fj <= mj
          /\ vi \in Nat /\ mi \in Nat /\ oi \in Nat
          /\ ve \in Nat /\ me \in Nat /\ fe \in Nat /\ fe <= me
          /\ low \in Nat /\ y \in Int /\ y = vj - low + x /\ x \in Nat /\ x < fj
      BY <2>2, <2>3, <2>4, <2>5, <2>a
    <2>7. image'[y] = IF y \in offs .. (offs + seg - 1) THEN UnitAt(oi + y - offs) ELSE image[y]
      BY <2>3, <2>5
    <2>8. CASE j \in i .. last
      <3>1. vj + x < ve + fe /\ j <= e
        <4>1. j <= e
          BY <1>2, <2>2, <2>6, <2>8
        <4>2. CASE j = e
          <5>1. vj = ve /\ fj = fe
            BY <2>2, <2>4, <4>2
          <5> QED BY <2>a, <4>1, <5>1
        <4>3. CASE j < e
          <5>1. SideBySide(elf.ph, j, e)
            <6>1. \A k \in j .. e : k \in i .. last
              BY <1>2, <2>i, <2>8
            <6>2. j \in i .. last
              BY <2>8
            <6>3. \A k \in i .. last : /\ elf.ph[k].type = "LOAD"
                                      /\ elf.ph[k].paddr - elf.ph[k].vaddr = elf.ph[i].paddr - elf.ph[i].vaddr
              BY <1>1 DEF SideBySide
            <6> QED BY <6>1, <6>2, <6>3, Zenon DEF SideBySide
          <5>2. vj + mj <= ve
            BY <1>4, <2>1, <2>2, <2>4, <4>3, <5>1, SegmentsTogether DEF Before
          <5> QED BY <2>t, <4>1, <5>2
        <4> QED BY <2>i, <4>1, <4>2, <4>3
      <3>2. vi <= vj /\ oj - oi = vj - vi
        <4>1. CASE j = i
          BY <2>2, <2>3, <4>1
        <4>2. CASE i < j
          <5>1. SideBySide(elf.ph, i, j)
            BY <1>3, <2>8
          <5>2. elf.ph[j].offset - elf.ph[i].offset = V(j) - V(i) /\ Before(elf.ph[i], elf.ph[j])
            BY <1>4, <2>1, <4>2, <5>1, SegmentsTogether
          <5>3. oj - oi = vj - vi /\ vi + mi <= vj
            BY <2>2, <2>3, <5>2, Zenon DEF Before
          <5> QED BY <2>t, <5>3
        <4> QED BY <2>i, <2>8, <4>1, <4>2
      <3>3. y \in offs .. (offs + seg - 1) /\ oi + y - offs = oj + x
        <4>1. /\ vi - low <= y /\ y < vi - low + (ve - vi + fe)
              /\ oi + y - (vi - low) = oj + x
          <5>1. vi - low <= y
            BY <2>t, <3>2
          <5>2. y < vi - low + (ve - vi + fe)
            BY <2>t, <3>1
          <5>3. oj = oi + (vj - vi)
            BY <2>t, <3>2
          <5>4. oi + y - (vi - low) = oj + x
            BY <2>t, <5>3
          <5> QED BY <5>1, <5>2, <5>4
        <4>2. /\ vi - low \in Int /\ ve - vi + fe \in Int
              /\ y \in (vi - low) .. ((vi - low) + (ve - vi + fe) - 1)
          BY <2>t, <4>1
        <4> QED BY <2>6, <4>1, <4>2, Zenon
      <3>4. image'[y] = UnitAt(oj + x) /\ UnitAt(oj + x) = oj + x
        BY <2>7, <3>3 DEF UnitAt
      <3> QED BY <2>2, <2>5, <3>4
    <2>9. CASE j < i /\ j \in LoadableBelow(i)
      <3>1. vj + mj <= vi \/ ve + me <= vj
        <4>1. CASE e = i
          <5>1. Before(elf.ph[j], elf.ph[i]) \/ Before(elf.ph[i], elf.ph[j])
            BY <1>4, <2>1, <2>9, SegmentsApart
          <5> QED BY <2>2, <2>3, <2>4, <4>1, <5>1 DEF Before
        <4>2. CASE i < e
          <5>1. SideBySide(elf.ph, i, e) /\ j \notin i .. e
            BY <1>2, <1>3, <2>9
          <5>2. Before(elf.ph[j], elf.ph[i]) \/ Before(elf.ph[e], elf.ph[j])
            BY <1>4, <2>1, <4>2, <5>1, SegmentsTogether
          <5> QED BY <2>2, <2>3, <2>4, <5>2 DEF Before
        <4> QED BY <1>1, <1>2, <1>4, <4>1, <4>2
      <3>2. y \notin offs .. (offs + seg - 1)
        BY <2>6, <2>t, <3>1
      <3>3. image[y] = oj + x
        BY <2>1, <2>2, <2>5, <2>9 DEF FilledBelow
      <3> QED BY <2>2, <2>5, <2>7, <3>2, <3>3
    <2> QED BY <2>1, <2>8, <2>9
  <1> QED BY <1>5 DEF FilledBelow

(* The areas behind the segments' units of the file are cleared, and       *)
(* nothing else is.                                                        *)
LEMMA BssIsCleared ==
  ASSUME ImageInv, pc = "clear", ~moved,
         image' = [x \in DOMAIN image |->
                     IF \E b \in Range(bss_areas) :
                          x \in (b.begin - scan.low) .. (b.begin - scan.low + b.size - 1)
                       THEN Zero ELSE image[x]]
  PROVE  \A p \in Segments : \A x \in 0 .. (p.memsz - 1) :
           image'[p.vaddr - scan.low + x] = IF x < p.filesz THEN p.offset + x ELSE Zero
  <1> DEFINE All == LoadableBelow(Len(elf.ph) + 1)
  <1>1. \A p \in Segments : \E j \in All : p = elf.ph[j]
    BY KernelFacts DEF Segments, LoadableBelow, Loadable, Range
  <1>2. Seen(Len(elf.ph) + 1) /\ FilledBelow(Len(elf.ph) + 1)
    BY DEF ImageInv, ScanInv, FilledInv, Placed
  <1>3. ASSUME NEW j \in All, NEW x \in 0 .. (elf.ph[j].memsz - 1)
        PROVE  image'[elf.ph[j].vaddr - scan.low + x]
                 = IF x < elf.ph[j].filesz THEN elf.ph[j].offset + x ELSE Zero
    <2>1. PICK v \in Nat, m \in Nat, f \in Nat, o \in Nat :
            v = elf.ph[j].vaddr /\ m = elf.ph[j].memsz /\ f = elf.ph[j].filesz /\ o = elf.ph[j].offset
      BY LinkedSegment
    <2>2. x \in Nat /\ x < m
      <3>1. x \in 0 .. (m - 1)
        BY <2>1, Zenon
      <3> QED BY <2>1, <3>1
    <2>3. PICK low \in Nat, y \in Int : low = scan.low /\ y = v - low + x /\ y \in DOMAIN image
      <3>1. elf.ph[j].vaddr - scan.low + x \in DOMAIN image /\ scan.low \in Nat
        BY SegmentFits DEF Placed
      <3>2. PICK low \in Nat : low = scan.low
        BY <3>1
      <3>3. v - low + x \in Int
        BY <2>2
      <3> QED BY <2>1, <3>1, <3>2, <3>3, Zenon
    <2> DEFINE Cleared == \E b \in Range(bss_areas) :
                            y \in (b.begin - scan.low) .. (b.begin - scan.low + b.size - 1)
    <2>4. image'[y] = IF Cleared THEN Zero ELSE image[y]
      BY <2>3
    <2>5. CASE x < f
      <3>1. ASSUME NEW h \in All, NEW vh \in Nat, NEW mh \in Nat, NEW fh \in Nat,
                   vh = elf.ph[h].vaddr, mh = elf.ph[h].memsz, fh = elf.ph[h].filesz,
                   y \in (vh + fh - low) .. (vh + fh - low + (mh - fh) - 1)
            PROVE  FALSE
        <4>1. vh + fh <= v + x /\ v + x < vh + mh
          <5>1. /\ vh \in Nat /\ mh \in Nat /\ fh \in Nat /\ v \in Nat /\ low \in Nat
                /\ x \in Nat /\ y = v - low + x
            BY <2>2, <2>3, <3>1
          <5>2. vh + fh - low \in Int /\ vh + fh - low + (mh - fh) - 1 \in Int /\ y \in Int
            BY <5>1
          <5>3. vh + fh - low <= y /\ y <= vh + fh - low + (mh - fh) - 1
            BY <3>1, <5>2
          <5> QED BY <5>1, <5>3
        <4>2. CASE h = j
          <5>1. vh = v /\ fh = f
            BY <2>1, <3>1, <4>2
          <5> QED BY <2>2, <2>5, <4>1, <5>1
        <4>3. CASE h # j
          <5>1. v + m <= vh \/ vh + mh <= v
            BY <2>1, <3>1, <4>3, SegmentsApart DEF Before
          <5> QED BY <2>2, <4>1, <5>1
        <4> QED BY <4>2, <4>3
      <3>2. ~Cleared
        <4> SUFFICES ASSUME NEW b \in Range(bss_areas),
                            y \in (b.begin - scan.low) .. (b.begin - scan.low + b.size - 1)
                     PROVE  FALSE
          OBVIOUS
        <4>1. PICK k \in DOMAIN bss_areas : b = bss_areas[k]
          BY DEF Range
        <4>2. PICK h \in All : b = BssOf(elf.ph[h])
          BY <1>2, <4>1 DEF Seen
        <4>3. PICK vh \in Nat, mh \in Nat, fh \in Nat :
                vh = elf.ph[h].vaddr /\ mh = elf.ph[h].memsz /\ fh = elf.ph[h].filesz
          BY LinkedSegment
        <4>4. b.begin = vh + fh /\ b.size = mh - fh
          BY <4>2, <4>3 DEF BssOf
        <4>5. y \in (vh + fh - low) .. (vh + fh - low + (mh - fh) - 1)
          <5>1. b.begin - scan.low = vh + fh - low
            BY <2>3, <4>4
          <5> QED BY <4>4, <5>1
        <4> QED BY <3>1, <4>3, <4>5
      <3>3. x \in 0 .. (f - 1)
        BY <2>1, <2>2, <2>5
      <3>4. image[y] = o + x
        BY <1>2, <2>1, <2>3, <3>3, Zenon DEF FilledBelow
      <3> QED BY <2>1, <2>3, <2>4, <2>5, <3>2, <3>4
    <2>6. CASE ~(x < f)
      <3>1. m > f /\ elf.ph[j].memsz > elf.ph[j].filesz
        BY <2>1, <2>2, <2>6
      <3>2. PICK k \in DOMAIN bss_areas : bss_areas[k] = BssOf(elf.ph[j])
        BY <1>2, <3>1 DEF Seen
      <3>3. PICK b \in Range(bss_areas) : b = BssOf(elf.ph[j])
        BY <3>2 DEF Range
      <3>4. b.begin = v + f /\ b.size = m - f
        BY <2>1, <3>3 DEF BssOf
      <3>5. y \in (v + f - low) .. (v + f - low + (m - f) - 1)
        <4>1. v \in Nat /\ m \in Nat /\ f \in Nat /\ low \in Nat /\ x \in Nat /\ x < m /\ y = v - low + x
          BY <2>1, <2>2, <2>3
        <4> QED BY <2>6, <4>1
      <3>6. Cleared
        <4>1. b.begin - scan.low = v + f - low
          BY <2>3, <3>4
        <4>2. y \in (b.begin - scan.low) .. (b.begin - scan.low + b.size - 1)
          BY <3>4, <3>5, <4>1
        <4> QED BY <3>3, <4>2
      <3> QED BY <2>1, <2>3, <2>4, <2>6, <3>6
    <2> QED BY <2>5, <2>6
  <1> QED BY <1>1, <1>3

(* The image of the whole file                                             *)
AllFilled ==
  \A p \in Segments : \A x \in 0 .. (p.memsz - 1) :
    image[p.vaddr - scan.low + x] = IF x < p.filesz THEN p.offset + x ELSE Zero

LEMMA FilledStays ==
  ASSUME UNCHANGED <<elf, scan, image>>
  PROVE  (AllFilled => AllFilled') /\ (FilledBelow(Len(elf.ph) + 1) => FilledBelow(Len(elf.ph) + 1)')
  BY Zenon DEF AllFilled, FilledBelow, Segments, LoadableBelow, Loadable

LEMMA FilledPreserved == ImageInv /\ [Next]_vars => FilledInv'
  <1> SUFFICES ASSUME ImageInv, [Next]_vars
               PROVE  FilledInv'
    OBVIOUS
  <1> USE DEF Opening, Opened, Asking, Reading, Placed
  <1>0. FilledInv /\ pc \in Stages
    BY DEF ImageInv
  <1>e. elf' = elf
    BY DEF Next, vars
  <1>f. FilledInv' <=>
          /\ ~moved' => /\ pc' = "load" => FilledBelow(i)'
                        /\ pc' \in {"map", "header", "clear"} => FilledBelow(Len(elf.ph) + 1)'
          /\ pc' \in Placed \ {"load", "map", "header", "clear"} /\ ~moved' => AllFilled'
    BY DEF FilledInv, ImageIsTheFile, Loaded, AllFilled
  <1>g. /\ ~moved => /\ pc = "load" => FilledBelow(i)
                     /\ pc \in {"map", "header", "clear"} => FilledBelow(Len(elf.ph) + 1)
        /\ pc \in Placed \ {"load", "map", "header", "clear"} /\ ~moved => AllFilled
    BY <1>0 DEF FilledInv, ImageIsTheFile, Loaded, AllFilled
  <1>1. CASE ConvertTextToDevicePath
    BY <1>0, <1>1, <1>f DEF Stages, ConvertTextToDevicePath, Step
  <1>2. CASE JoinPaths
    BY <1>0, <1>2, <1>f DEF Stages, JoinPaths, Step
  <1>3. CASE OpenVolume
    BY <1>0, <1>3, <1>f DEF Stages, OpenVolume, LoadError, CloseFile, FreePages
  <1>4. CASE ConvertDevicePathToText
    BY <1>0, <1>4, <1>f DEF Stages, ConvertDevicePathToText, OpenKernelFails, Step
  <1>5. CASE OpenFile
    BY <1>0, <1>5, <1>f DEF Stages, OpenFile, OpenKernelFails
  <1>6. CASE AllocateInfo
    BY <1>0, <1>6, <1>f DEF Stages, AllocateInfo, OpenKernelFails, Step
  <1>7. CASE GetInfo
    BY <1>0, <1>7, <1>f DEF Stages, GetInfo, OpenKernelFails, Step
  <1>8. CASE ReadHeader
    BY <1>0, <1>8, <1>f DEF Stages, ReadHeader, LoadError, CloseFile, FreePages
  <1>9. CASE ExtendHeader
    BY <1>0, <1>9, <1>f DEF Stages, ExtendHeader, LoadError, CloseFile, FreePages, Halt, resources
  <1>10. CASE ScanHeader
    BY <1>0, <1>10, <1>f DEF Stages, ScanHeader, LoadError, CloseFile, FreePages, Halt, resources
  <1>11. CASE ScanEnds
    BY <1>0, <1>11, <1>f DEF Stages, ScanEnds, LoadError, CloseFile, FreePages, resources
  <1>12. CASE AllocateKernel
    <2>1. pc' = "load" /\ i' = 1
      BY <1>12 DEF AllocateKernel
    <2>2. LoadableBelow(1) = {}
      BY KernelFacts DEF LoadableBelow
    <2>3. FilledBelow(i)'
      BY <1>e, <2>1, <2>2 DEF FilledBelow, LoadableBelow, Loadable
    <2> QED BY <1>f, <2>1, <2>3
  <1>13. CASE LoadSegments
    <2> DEFINE p == elf.ph[i]
               seg == SegSize(i, Combined(i))
               offs == p.vaddr - scan.low
               image1 == [x \in DOMAIN image |->
                            IF x \in offs .. (offs + seg - 1)
                              THEN UnitAt(p.offset + x - offs) ELSE image[x]]
    <2>1. pc = "load" /\ i <= Len(elf.ph) /\ Loadable(i) /\ moved' = moved
      BY <1>13, Zenon DEF LoadSegments, LoadError, loading
    <2>2. CASE LoadError
      BY <1>f, <2>2 DEF LoadError
    <2>3. CASE ~LoadError
      <3>1. image' = image1 /\ i' = Combined(i) + 1 /\ UNCHANGED <<pc, scan>>
        BY <1>13, <2>3, Zenon DEF LoadSegments
      <3>2. i \in 1 .. Len(elf.ph)
        BY <2>1, KernelFacts DEF ImageInv, IndexInv
      <3>3. ~moved => FilledBelow(i)
        BY <1>g, <2>1
      <3>4. ~moved => FilledBelow(i)'
        <4> SUFFICES ASSUME ~moved PROVE FilledBelow(i)'
          OBVIOUS
        <4> HIDE DEF seg, offs
        <4>1. seg = SegSize(i, Combined(i)) /\ offs = elf.ph[i].vaddr - scan.low
          BY DEF seg, offs
        <4> QED BY <1>e, <2>1, <3>1, <3>2, <3>3, <4>1, SegmentsAreLoaded
      <3> QED BY <1>f, <2>1, <3>1, <3>4
    <2> QED BY <2>2, <2>3
  <1>14. CASE FindEntryHeader
    <2>1. pc = "load" /\ i <= Len(elf.ph) /\ ~Loadable(i) /\ i' = i + 1
      BY <1>14 DEF FindEntryHeader
    <2>2. UNCHANGED <<pc, scan, image, moved>>
      BY <1>14, Zenon DEF FindEntryHeader
    <2>3. LoadableBelow(i + 1) = LoadableBelow(i)
      <3>1. \A j \in 1 .. Len(elf.ph) : j < i + 1 <=> j < i \/ j = i
        BY KernelFacts DEF ImageInv, IndexInv
      <3> QED BY <2>1, <3>1, KernelFacts DEF LoadableBelow
    <2>4. ~moved => FilledBelow(i)'
      <3>1. LoadableBelow(i)' = LoadableBelow(i)
        BY <1>e, <2>1, <2>3 DEF LoadableBelow, Loadable
      <3> QED BY <1>e, <1>g, <2>1, <2>2, <3>1, Zenon DEF FilledBelow
    <2> QED BY <1>f, <2>1, <2>2, <2>4
  <1>15. CASE LoadEnds
    <2>1. pc = "load" /\ pc' = "map" /\ UNCHANGED <<scan, image, moved>> /\ ~(i <= Len(elf.ph))
      BY <1>15, KernelFacts DEF LoadEnds, loading, ImageInv, IndexInv
    <2>2. i = Len(elf.ph) + 1
      BY <2>1, KernelFacts DEF ImageInv, IndexInv
    <2>3. ~moved => FilledBelow(Len(elf.ph) + 1)'
      BY <1>e, <1>g, <2>1, <2>2, FilledStays
    <2> QED BY <1>f, <2>1, <2>3
  <1>16. CASE BuildMap
    <2>1. pc = "map" /\ pc' \in {"header", "halted"} /\ UNCHANGED <<scan, image, moved>>
      BY <1>16 DEF BuildMap, Halt, loading
    <2> QED BY <1>e, <1>f, <1>g, <2>1, FilledStays
  <1>17. CASE CheckHeader
    <2>1. /\ pc = "header" /\ pc' \in {"clear", "returned", "halted"}
          /\ UNCHANGED <<scan, image, moved>>
      BY <1>17 DEF CheckHeader, Halt, LoadError, loading
    <2> QED BY <1>e, <1>f, <1>g, <2>1, FilledStays
  <1>18. CASE ClearBss
    <2>1. pc = "clear" /\ pc' = "console" /\ UNCHANGED <<scan, moved>>
      BY <1>18, Zenon DEF ClearBss
    <2>2. ~moved => AllFilled'
      <3> SUFFICES ASSUME ~moved PROVE AllFilled'
        OBVIOUS
      <3>1. \A p \in Segments : \A x \in 0 .. (p.memsz - 1) :
              image'[p.vaddr - scan.low + x] = IF x < p.filesz THEN p.offset + x ELSE Zero
        BY <1>18, <2>1, BssIsCleared DEF ClearBss
      <3> QED BY <1>e, <2>1, <3>1 DEF AllFilled, Segments
    <2> QED BY <1>f, <2>1, <2>2
  <1>19. CASE AskConsole
    <2>1. /\ pc \in {"console", "variable", "search", "locate", "screen", "no_screen", "ready"}
          /\ pc' \in Placed \ {"load", "map", "header", "clear"} \/ pc' = "halted"
          /\ UNCHANGED <<scan, image, moved>>
      BY <1>19 DEF AskConsole, Step, loading
    <2> QED BY <1>e, <1>f, <1>g, <2>1, FilledStays
  <1>20. CASE GetVariable
    <2>1. /\ pc \in {"console", "variable", "search", "locate", "screen", "no_screen", "ready"}
          /\ pc' \in Placed \ {"load", "map", "header", "clear"} \/ pc' = "halted"
          /\ UNCHANGED <<scan, image, moved>>
      BY <1>20 DEF GetVariable, Step, loading
    <2> QED BY <1>e, <1>f, <1>g, <2>1, FilledStays
  <1>21. CASE SearchConsole
    <2>1. /\ pc \in {"console", "variable", "search", "locate", "screen", "no_screen", "ready"}
          /\ pc' \in Placed \ {"load", "map", "header", "clear"} \/ pc' = "halted"
          /\ UNCHANGED <<scan, image, moved>>
      BY <1>21 DEF SearchConsole, Step, Halt, loading
    <2> QED BY <1>e, <1>f, <1>g, <2>1, FilledStays
  <1>22. CASE locate_protocol
    <2>1. /\ pc \in {"console", "variable", "search", "locate", "screen", "no_screen", "ready"}
          /\ pc' \in Placed \ {"load", "map", "header", "clear"} \/ pc' = "halted"
          /\ UNCHANGED <<scan, image, moved>>
      BY <1>22 DEF locate_protocol, Step, loading
    <2> QED BY <1>e, <1>f, <1>g, <2>1, FilledStays
  <1>23. CASE check_framebuffer
    <2>1. /\ pc \in {"console", "variable", "search", "locate", "screen", "no_screen", "ready"}
          /\ pc' \in {"returned", "ready", "kernel"} /\ UNCHANGED <<scan, image, moved>>
      BY <1>23 DEF check_framebuffer, Step, LoadError, loading
    <2> QED BY <1>e, <1>f, <1>g, <2>1, FilledStays
  <1>24. CASE init
    <2>1. /\ pc \in {"console", "variable", "search", "locate", "screen", "no_screen", "ready"}
          /\ pc' \in {"returned", "ready", "kernel"} /\ UNCHANGED <<scan, image, moved>>
      BY <1>24 DEF init, loading
    <2> QED BY <1>e, <1>f, <1>g, <2>1, FilledStays
  <1>25. CASE UNCHANGED vars
    BY <1>0, <1>25, Zenon
       DEF vars, loading, FilledInv, FilledBelow, LoadableBelow, Loadable, ImageIsTheFile, Loaded, Segments
  <1> QED
    BY <1>1, <1>2, <1>3, <1>4, <1>5, <1>6, <1>7, <1>8, <1>9, <1>10, <1>11, <1>12, <1>13, <1>14, <1>15, <1>16, <1>17, <1>18, <1>19, <1>20, <1>21, <1>22, <1>23, <1>24, <1>25 DEF Next, loader

-----------------------------------------------------------------------------
(* The map of the kernel                                                   *)

(* The numbers of a set, counted in their order: each is one of the first, *)
(* second, ... and there is no other that is as well.                      *)
UpTo(S, m) == {h \in S : h <= m}

LEMMA CountIsFinite ==
  ASSUME NEW n \in Nat, NEW S, S \subseteq 1 .. n, NEW m \in Int
  PROVE  /\ IsFiniteSet(S) /\ IsFiniteSet(UpTo(S, m)) /\ UpTo(S, m) \subseteq S
         /\ Cardinality(S) \in Nat /\ Cardinality(UpTo(S, m)) \in Nat
         /\ Cardinality(UpTo(S, m)) <= Cardinality(S)
  <1>1. IsFiniteSet(1 .. n)
    BY FS_Interval
  <1>2. IsFiniteSet(S)
    BY <1>1, FS_Subset
  <1>3. UpTo(S, m) \subseteq S
    BY DEF UpTo
  <1>4. IsFiniteSet(UpTo(S, m)) /\ Cardinality(UpTo(S, m)) <= Cardinality(S)
    BY <1>2, <1>3, FS_Subset
  <1> QED BY <1>2, <1>3, <1>4, FS_CardinalityType

LEMMA EachIsCounted ==
  ASSUME NEW n \in Nat, NEW S, S \subseteq 1 .. n, NEW j \in S
  PROVE  /\ Cardinality(UpTo(S, j)) \in 1 .. Cardinality(S)
         /\ \A m \in S : Cardinality(UpTo(S, m)) = Cardinality(UpTo(S, j)) => m = j
  <1>1. \A m \in S : m \in Int
    OBVIOUS
  <1>2. Cardinality(UpTo(S, j)) \in 1 .. Cardinality(S)
    <2>1. j \in UpTo(S, j)
      BY <1>1 DEF UpTo
    <2>2. Cardinality(UpTo(S, j)) # 0
      BY <1>1, <2>1, CountIsFinite, FS_EmptySet
    <2>3. PICK c \in Nat, d \in Nat :
            c = Cardinality(UpTo(S, j)) /\ d = Cardinality(S) /\ c <= d
      BY <1>1, CountIsFinite
    <2>4. c \in 1 .. d
      BY <2>2, <2>3
    <2> QED BY <2>3, <2>4
  <1>3. ASSUME NEW a \in S, NEW b \in S, a < b
        PROVE  Cardinality(UpTo(S, a)) # Cardinality(UpTo(S, b))
    <2>1. UpTo(S, a) \subseteq UpTo(S, b) /\ b \in UpTo(S, b) /\ b \notin UpTo(S, a)
      <3>1. (\A h \in S : h <= a => h <= b) /\ b <= b /\ ~(b <= a)
        BY <1>1, <1>3
      <3> QED BY <3>1 DEF UpTo
    <2>2. IsFiniteSet(UpTo(S, b))
      BY <1>1, CountIsFinite
    <2> QED BY <2>1, <2>2, FS_Subset
  <1>4. \A m \in S : m = j \/ m < j \/ j < m
    BY <1>1
  <1> QED BY <1>2, <1>3, <1>4

LEMMA EachIsReached ==
  ASSUME NEW n \in Nat, NEW S, S \subseteq 1 .. n, NEW k \in 1 .. Cardinality(S)
  PROVE  \E j \in S : Cardinality(UpTo(S, j)) = k
  <1> DEFINE T == {m \in 0 .. n : Cardinality(UpTo(S, m)) >= k}
  <1>1. n \in T
    <2>1. UpTo(S, n) = S
      <3>1. \A h \in S : h <= n
        OBVIOUS
      <3> QED BY <3>1 DEF UpTo
    <2>2. Cardinality(S) >= k
      OBVIOUS
    <2> QED BY <2>1, <2>2
  <1>2. PICK m \in T : \A x \in T : m <= x
    <2>1. T \subseteq Nat /\ T # {}
      BY <1>1
    <2> HIDE DEF T
    <2> QED BY <2>1, MinOfSet
  <1>3. m \in 0 .. n /\ Cardinality(UpTo(S, m)) >= k
    OBVIOUS
  <1>4. m # 0
    <2>1. UpTo(S, 0) = {}
      <3>1. \A h \in S : ~(h <= 0)
        OBVIOUS
      <3> QED BY <3>1 DEF UpTo
    <2>2. ~(Cardinality(UpTo(S, 0)) >= k)
      BY <2>1, FS_EmptySet
    <2> QED BY <1>3, <2>2
  <1>5. ~(Cardinality(UpTo(S, m - 1)) >= k)
    <2>1. m - 1 \in 0 .. n /\ ~(m <= m - 1)
      BY <1>3, <1>4
    <2> QED BY <1>2, <2>1
  <1>6. /\ Cardinality(UpTo(S, m)) \in Nat /\ Cardinality(UpTo(S, m - 1)) \in Nat
        /\ IsFiniteSet(UpTo(S, m - 1))
    <2>1. m \in Int /\ m - 1 \in Int
      BY <1>3
    <2> QED BY <2>1, CountIsFinite
  <1>7. m \in S
    <2> SUFFICES ASSUME m \notin S PROVE FALSE
      OBVIOUS
    <2>1. UpTo(S, m) = UpTo(S, m - 1)
      <3>1. \A h \in S : h <= m <=> h <= m - 1
        BY <1>3
      <3> QED BY <3>1 DEF UpTo
    <2> QED BY <1>3, <1>5, <2>1
  <1>8. UpTo(S, m) = UpTo(S, m - 1) \cup {m} /\ m \notin UpTo(S, m - 1)
    <2>1. \A h \in S : h <= m <=> h <= m - 1 \/ h = m
      BY <1>3
    <2>2. ~(m <= m - 1) /\ m <= m
      BY <1>3
    <2>3. \A h : h \in UpTo(S, m) <=> h \in UpTo(S, m - 1) \cup {m}
      BY <1>7, <2>1, <2>2 DEF UpTo
    <2> QED BY <2>2, <2>3 DEF UpTo
  <1>9. Cardinality(UpTo(S, m)) = Cardinality(UpTo(S, m - 1)) + 1
    BY <1>6, <1>8, FS_AddElement
  <1>10. Cardinality(UpTo(S, m)) = k
    <2>1. k \in Nat
      OBVIOUS
    <2> QED BY <1>3, <1>5, <1>6, <1>9, <2>1
  <1> QED BY <1>7, <1>10

(* The map that BuildMap makes of the loadable segments                    *)
MapOf(L) ==
  [n \in 1 .. Cardinality(L) |->
     Mapping(elf.ph[CHOOSE j \in L : Cardinality({h \in L : h <= j}) = n])]

LEMMA MapIsBuilt ==
  ASSUME ImageInv, pc = "map",
         NEW L, L = LoadableBelow(Len(elf.ph) + 1),
         NEW map, map = MapOf(L)
  PROVE  /\ DOMAIN map = 1 .. Len(map) /\ map # << >>
         /\ \A j \in L : \E n \in DOMAIN map : map[n] = Mapping(elf.ph[j])
         /\ \A n \in DOMAIN map : \E j \in L : map[n] = Mapping(elf.ph[j])
  <1> DEFINE Nth(n) == CHOOSE j \in L : Cardinality(UpTo(L, j)) = n
  <1>1. PICK l \in Nat : l = Len(elf.ph) /\ L \subseteq 1 .. l
    BY KernelFacts DEF LoadableBelow
  <1>2. L # {}
    BY DEF ImageInv, ScanInv, Seen, Placed
  <1>3. PICK c \in Nat : c = Cardinality(L)
    BY <1>1, CountIsFinite
  <1>4. DOMAIN map = 1 .. c /\ \A n \in 1 .. c : map[n] = Mapping(elf.ph[Nth(n)])
    BY <1>3 DEF UpTo, MapOf
  <1>5. \A n \in 1 .. c : Nth(n) \in L
    BY <1>1, <1>3, EachIsReached
  <1>6. \A j \in L : \E n \in 1 .. c : j = Nth(n)
    <2> SUFFICES ASSUME NEW j \in L PROVE \E n \in 1 .. c : j = Nth(n)
      OBVIOUS
    <2>1. /\ Cardinality(UpTo(L, j)) \in 1 .. c
          /\ \A m \in L : Cardinality(UpTo(L, m)) = Cardinality(UpTo(L, j)) => m = j
      BY <1>1, <1>3, EachIsCounted
    <2>2. j = Nth(Cardinality(UpTo(L, j)))
      BY <2>1
    <2> QED BY <2>1, <2>2
  <1> HIDE DEF Nth
  <1>7. c # 0
    BY <1>2, <1>6
  <1>8. Len(map) = c /\ map # << >>
    <2>1. \A n \in 1 .. c : map[n] \in {map[m] : m \in 1 .. c}
      OBVIOUS
    <2>2. map \in Seq({map[m] : m \in 1 .. c})
      <3>1. map \in [1 .. c -> {map[m] : m \in 1 .. c}]
        BY <1>3, <1>4, <2>1 DEF MapOf
      <3> QED BY <3>1, SeqDef
    <2>3. Len(map) = c
      BY <1>3, <1>4, <2>2, LenProperties
    <2> QED BY <1>7, <2>3
  <1>9. \A j \in L : \E n \in DOMAIN map : map[n] = Mapping(elf.ph[j])
    <2> SUFFICES ASSUME NEW j \in L PROVE \E n \in DOMAIN map : map[n] = Mapping(elf.ph[j])
      OBVIOUS
    <2>1. PICK n \in 1 .. c : j = Nth(n)
      BY <1>6
    <2> QED BY <1>4, <2>1
  <1>10. \A n \in DOMAIN map : \E j \in L : map[n] = Mapping(elf.ph[j])
    BY <1>4, <1>5
  <1> QED BY <1>4, <1>8, <1>9, <1>10

LEMMA MapPreserved == ImageInv /\ [Next]_vars => MapInv'
  <1> SUFFICES ASSUME ImageInv, [Next]_vars
               PROVE  MapInv'
    OBVIOUS
  <1> USE DEF Opening, Opened, Asking, Reading, Placed, Mapped
  <1>0. MapInv /\ pc \in Stages
    BY DEF ImageInv
  <1>e. elf' = elf
    BY DEF Next, vars
  <1>f. LoadableBelow(Len(elf.ph) + 1)' = LoadableBelow(Len(elf.ph) + 1)
    BY <1>e DEF LoadableBelow, Loadable
  <1>g. ASSUME UNCHANGED <<scan, kernel_alloc>> PROVE \A p : Mapping(p)' = Mapping(p)
    BY <1>g DEF Mapping
  <1>h. ASSUME UNCHANGED <<scan, kernel_alloc, tsbp_kernel_map>>, pc \in Mapped,
               pc' \in Mapped \cup {"returned", "halted"}
        PROVE  MapInv'
    BY <1>0, <1>e, <1>f, <1>g, <1>h DEF MapInv
  <1>k. ASSUME UNCHANGED tsbp_kernel_map, pc \notin Mapped \cup {"returned", "halted"}, pc' \notin Mapped
        PROVE  MapInv'
    BY <1>0, <1>k DEF MapInv
  <1>l. ASSUME pc' \in {"returned", "halted"} PROVE MapInv'
    BY <1>l DEF MapInv
  <1>1. CASE ConvertTextToDevicePath
    BY <1>k, <1>l, <1>1 DEF ConvertTextToDevicePath, Step, loading, resources
  <1>2. CASE JoinPaths
    BY <1>k, <1>l, <1>2 DEF JoinPaths, Step, loading, resources
  <1>3. CASE OpenVolume
    BY <1>k, <1>l, <1>3 DEF OpenVolume, LoadError, CloseFile, FreePages, loading, resources
  <1>4. CASE ConvertDevicePathToText
    BY <1>k, <1>l, <1>4 DEF ConvertDevicePathToText, OpenKernelFails, Step, loading, resources
  <1>5. CASE OpenFile
    BY <1>k, <1>l, <1>5 DEF OpenFile, OpenKernelFails, loading, resources
  <1>6. CASE AllocateInfo
    BY <1>k, <1>l, <1>6 DEF AllocateInfo, OpenKernelFails, Step, loading, resources
  <1>7. CASE GetInfo
    BY <1>k, <1>l, <1>7 DEF GetInfo, OpenKernelFails, Step, loading, resources
  <1>8. CASE ReadHeader
    BY <1>k, <1>l, <1>8 DEF ReadHeader, LoadError, CloseFile, FreePages, loading, resources
  <1>9. CASE ExtendHeader
    BY <1>k, <1>l, <1>9 DEF ExtendHeader, LoadError, CloseFile, FreePages, Halt, resources, loading
  <1>10. CASE ScanHeader
    BY <1>k, <1>l, <1>10 DEF ScanHeader, LoadError, CloseFile, FreePages, Halt, resources, loading
  <1>11. CASE ScanEnds
    BY <1>k, <1>l, <1>11 DEF ScanEnds, LoadError, CloseFile, FreePages, resources, loading
  <1>12. CASE AllocateKernel
    BY <1>k, <1>l, <1>12 DEF AllocateKernel, loading, resources
  <1>13. CASE LoadSegments
    BY <1>k, <1>l, <1>13 DEF LoadSegments, LoadError, CloseFile, FreePages, resources, loading
  <1>14. CASE FindEntryHeader
    BY <1>k, <1>l, <1>14 DEF FindEntryHeader, resources, loading
  <1>15. CASE LoadEnds
    BY <1>k, <1>l, <1>15 DEF LoadEnds, release, loading, resources
  <1>16. CASE BuildMap
    <2> DEFINE loadable == {j \in DOMAIN elf.ph : Loadable(j)}
               map == [n \in 1 .. Cardinality(loadable) |->
                         Mapping(elf.ph[CHOOSE j \in loadable : Cardinality({h \in loadable : h <= j}) = n])]
    <2>1. CASE Halt
      BY <1>l, <2>1 DEF Halt
    <2>2. CASE ~Halt
      <3>1. /\ pc = "map" /\ tsbp_kernel_map' = map /\ pc' = "header"
            /\ UNCHANGED <<scan, kernel_alloc>>
        BY <1>16, <2>2, Zenon DEF BuildMap
      <3>2. loadable = LoadableBelow(Len(elf.ph) + 1)
        BY KernelFacts DEF LoadableBelow
      <3> HIDE DEF loadable
      <3>a. map = MapOf(loadable)
        BY DEF MapOf
      <3> HIDE DEF map
      <3>3. /\ DOMAIN map = 1 .. Len(map) /\ map # << >>
            /\ \A j \in loadable : \E n \in DOMAIN map : map[n] = Mapping(elf.ph[j])
            /\ \A n \in DOMAIN map : \E j \in loadable : map[n] = Mapping(elf.ph[j])
        BY <3>1, <3>2, <3>a, MapIsBuilt
      <3> QED BY <1>e, <1>f, <1>g, <3>1, <3>2, <3>3 DEF MapInv
    <2> QED BY <2>1, <2>2
  <1>17. CASE CheckHeader
    BY <1>h, <1>l, <1>17 DEF CheckHeader, LoadError, CloseFile, FreePages, Halt, resources, loading
  <1>18. CASE ClearBss
    BY <1>h, <1>l, <1>18 DEF ClearBss, resources, loading
  <1>19. CASE AskConsole
    BY <1>h, <1>l, <1>19 DEF AskConsole, Step, loading, resources
  <1>20. CASE GetVariable
    BY <1>h, <1>l, <1>20 DEF GetVariable, Step, resources, loading
  <1>21. CASE SearchConsole
    BY <1>h, <1>l, <1>21 DEF SearchConsole, Step, Halt, resources, loading
  <1>22. CASE locate_protocol
    BY <1>h, <1>l, <1>22 DEF locate_protocol, Step, loading, resources
  <1>23. CASE check_framebuffer
    BY <1>h, <1>l, <1>23 DEF check_framebuffer, Step, LoadError, loading, resources
  <1>24. CASE init
    BY <1>h, <1>l, <1>24 DEF init, Step, LoadError, loading, resources
  <1>25. CASE UNCHANGED vars
    <2>1. pc' = pc /\ UNCHANGED <<scan, kernel_alloc, tsbp_kernel_map>>
      BY <1>25 DEF vars, loading, resources
    <2> QED BY <1>h, <1>k, <1>l, <2>1
  <1> QED
    BY <1>1, <1>2, <1>3, <1>4, <1>5, <1>6, <1>7, <1>8, <1>9, <1>10, <1>11, <1>12, <1>13, <1>14, <1>15, <1>16, <1>17, <1>18, <1>19, <1>20, <1>21, <1>22, <1>23, <1>24, <1>25 DEF Next, loader

-----------------------------------------------------------------------------
(* What the kernel is told                                                 *)

(* An entry of the map in numbers, and the segment it maps                 *)
EntryIs(s, low, base, high, align) ==
  \E j \in LoadableBelow(Len(elf.ph) + 1) : \E v \in Nat, m \in Nat, length \in Nat :
    /\ s = Mapping(elf.ph[j]) /\ v = elf.ph[j].vaddr /\ m = elf.ph[j].memsz
    /\ length = RoundUp(m, align) /\ length < m + align
    /\ s.virt = v /\ s.length = length /\ s.phys = (v - low) + base
    /\ low <= v /\ v + m <= high

LEMMA EntryFacts ==
  ASSUME ImageInv, pc \in Mapped
  PROVE  \E low \in Nat, base \in Nat, high \in Nat, align \in Nat \ {0} :
           /\ low = scan.low /\ base = kernel_alloc.address * PAGE
           /\ high = scan.high /\ align = scan.align
           /\ \A s \in Range(tsbp_kernel_map) :
                EntryIs(s, low, base, high, align)
  <1>1. /\ scan \in Scan /\ scan.align \in SegAlignments
        /\ \A j \in LoadableBelow(Len(elf.ph) + 1) :
             scan.low <= elf.ph[j].vaddr /\ elf.ph[j].vaddr + elf.ph[j].memsz <= scan.high
    BY DEF ImageInv, ScanInv, Seen, Mapped, Placed
  <1>2. PICK low \in Nat, high \in Nat, align \in Nat \ {0} :
          low = scan.low /\ high = scan.high /\ align = scan.align
    BY <1>1, ImageAssumption DEF Scan
  <1>3. PICK base \in Nat : base = kernel_alloc.address * PAGE
    BY ImageAssumption DEF ImageInv, PagesInv
  <1>4. ASSUME NEW s \in Range(tsbp_kernel_map)
        PROVE  EntryIs(s, low, base, high, align)
    <2>1. PICK j \in LoadableBelow(Len(elf.ph) + 1) : s = Mapping(elf.ph[j])
      BY DEF ImageInv, MapInv, Range
    <2>2. PICK v \in Nat, m \in Nat : v = elf.ph[j].vaddr /\ m = elf.ph[j].memsz
      BY LinkedSegment
    <2>3. PICK length : length = RoundUp(m, align)
      OBVIOUS
    <2>4. length \in Nat /\ length < m + align
      BY <1>2, <2>3, RoundUpFacts
    <2>5. s.virt = v /\ s.length = length /\ s.phys = (v - low) + base
      BY <1>2, <1>3, <2>1, <2>2, <2>3 DEF Mapping
    <2>6. low <= v /\ v + m <= high
      BY <1>1, <1>2, <2>2, Zenon
    <2> QED BY <2>1, <2>2, <2>3, <2>4, <2>5, <2>6, Zenon DEF EntryIs
  <1> QED BY <1>2, <1>3, <1>4

LEMMA KernelKnowsWhereItIs ==
  ASSUME ImageInv, pc = "ready",
         NEW k, k.vaddr = Min({s.virt : s \in Range(tsbp_kernel_map)}),
         k.paddr = lowest_paddr(tsbp_kernel_map),
         k.size = Max({s.virt + s.length : s \in Range(tsbp_kernel_map)}) - k.vaddr
  PROVE  \A s \in Range(tsbp_kernel_map) :
           /\ k.paddr + (s.virt - k.vaddr) = s.phys
           /\ s.virt >= k.vaddr /\ s.virt + s.length <= k.vaddr + k.size
  <1> DEFINE All == Range(tsbp_kernel_map)
             Virts == {s.virt : s \in All}
             Ends == {s.virt + s.length : s \in All}
  <1>1. PICK low \in Nat, base \in Nat, high \in Nat, align \in Nat \ {0} :
          \A s \in All :
            \E v \in Nat, m \in Nat, length \in Nat :
               /\ length < m + align /\ s.virt = v /\ s.length = length
               /\ s.phys = (v - low) + base /\ v + m <= high
    <2>1. pc \in Mapped
      BY DEF Mapped, Placed
    <2>2. PICK low \in Nat, base \in Nat, high \in Nat, align \in Nat \ {0} :
            \A s \in Range(tsbp_kernel_map) : EntryIs(s, low, base, high, align)
      BY <2>1, EntryFacts
    <2>3. ASSUME NEW s \in All
          PROVE  \E v \in Nat, m \in Nat, length \in Nat :
                    /\ length < m + align /\ s.virt = v /\ s.length = length
                    /\ s.phys = (v - low) + base /\ v + m <= high
      BY <2>2, Zenon DEF EntryIs
    <2> QED BY <2>3, Zenon
  <1>2. All # {} /\ DOMAIN tsbp_kernel_map # {} /\ DOMAIN tsbp_kernel_map \subseteq Nat
    <2>1. PICK l : l = Len(tsbp_kernel_map) /\ DOMAIN tsbp_kernel_map = 1 .. l
      BY DEF ImageInv, MapInv, Mapped, Placed
    <2>2. PICK j \in LoadableBelow(Len(elf.ph) + 1) : TRUE
      BY DEF ImageInv, ScanInv, Seen, Placed
    <2>3. DOMAIN tsbp_kernel_map # {}
      BY <2>2 DEF ImageInv, MapInv, Mapped, Placed
    <2> QED BY <2>1, <2>3 DEF Range
  <1>3. PICK lowest \in Nat : /\ lowest = k.vaddr /\ \E s \in All : s.virt = lowest
                              /\ \A s \in All : lowest <= s.virt
    <2>1. Virts \subseteq Nat /\ Virts # {}
      BY <1>1, <1>2
    <2>2. k.vaddr = Min(Virts) /\ Min(Virts) \in Virts /\ \A x \in Virts : Min(Virts) <= x
      <3> HIDE DEF Virts
      <3>1. k.vaddr = Min(Virts)
        BY DEF Virts
      <3> QED BY <2>1, <3>1, MinOfSet
    <2> QED BY <2>1, <2>2
  <1>4. PICK highest \in Nat : highest = Max(Ends) /\ \A s \in All : s.virt + s.length <= highest
    <2>1. Ends # {}
      BY <1>2
    <2>2. Ends \subseteq 0 .. (high + align)
      <3> SUFFICES ASSUME NEW s \in All PROVE s.virt + s.length \in 0 .. (high + align)
        OBVIOUS
      <3>1. PICK v \in Nat, m \in Nat, length \in Nat :
              length < m + align /\ s.virt = v /\ s.length = length /\ v + m <= high
        BY <1>1
      <3>2. v + length \in 0 .. (high + align)
        BY <3>1
      <3> QED BY <3>1, <3>2
    <2>3. Max(Ends) \in Ends /\ \A x \in Ends : x <= Max(Ends)
      <3> HIDE DEF Ends
      <3>1. high + align \in Nat
        OBVIOUS
      <3> QED BY <2>1, <2>2, <3>1, MaxOfSet
    <2>4. Max(Ends) \in Nat
      BY <2>2, <2>3
    <2>5. \A s \in All : s.virt + s.length \in Ends
      OBVIOUS
    <2>6. PICK highest \in Nat : highest = Max(Ends) /\ \A x \in Ends : x <= highest
      BY <2>3, <2>4
    <2>7. \A s \in All : s.virt + s.length <= highest
      <3> HIDE DEF Ends
      <3> QED BY <2>5, <2>6
    <2> QED BY <2>6, <2>7
  <1>5. \E s \in All : s.virt = lowest /\ k.paddr = s.phys
    <2> DEFINE I == {j \in DOMAIN tsbp_kernel_map :
                       \A h \in DOMAIN tsbp_kernel_map : tsbp_kernel_map[j].virt <= tsbp_kernel_map[h].virt}
    <2>1. PICK n \in DOMAIN tsbp_kernel_map : tsbp_kernel_map[n].virt = lowest
      BY <1>3 DEF Range
    <2>2. \A h \in DOMAIN tsbp_kernel_map : lowest <= tsbp_kernel_map[h].virt
      BY <1>3 DEF Range
    <2>3. n \in I
      BY <2>1, <2>2
    <2>4. I # {} /\ I \subseteq Nat
      BY <1>2, <2>3
    <2>5. Min(I) \in I
      <3> HIDE DEF I
      <3> QED BY <2>4, MinOfSet
    <2>6. k.paddr = tsbp_kernel_map[Min(I)].phys
      BY DEF lowest_paddr
    <2>7. /\ tsbp_kernel_map[Min(I)] \in All
          /\ tsbp_kernel_map[Min(I)].virt <= lowest /\ lowest <= tsbp_kernel_map[Min(I)].virt
      <3>1. Min(I) \in DOMAIN tsbp_kernel_map
        BY <2>5
      <3>2. tsbp_kernel_map[Min(I)] \in All
        BY <3>1 DEF Range
      <3>3. tsbp_kernel_map[Min(I)].virt <= tsbp_kernel_map[n].virt
        BY <2>5
      <3> QED BY <2>1, <2>2, <3>1, <3>2, <3>3
    <2>8. tsbp_kernel_map[Min(I)].virt = lowest
      <3>1. tsbp_kernel_map[Min(I)].virt \in Nat
        BY <1>1, <2>7
      <3> QED BY <2>7, <3>1
    <2> QED BY <2>6, <2>7, <2>8
  <1>6. ASSUME NEW s \in All
        PROVE  /\ k.paddr + (s.virt - k.vaddr) = s.phys
               /\ s.virt >= k.vaddr /\ s.virt + s.length <= k.vaddr + k.size
    <2>1. PICK v \in Nat, length \in Nat :
            s.virt = v /\ s.length = length /\ s.phys = (v - low) + base
      BY <1>1
    <2>2. k.paddr = (lowest - low) + base
      BY <1>1, <1>5
    <2>3. k.vaddr = lowest /\ k.size = highest - lowest /\ lowest <= v /\ v + length <= highest
      BY <1>3, <1>4, <2>1
    <2>4. (lowest - low) + base + (v - lowest) = (v - low) + base
      OBVIOUS
    <2>5. lowest + (highest - lowest) = highest
      OBVIOUS
    <2> QED BY <2>1, <2>2, <2>3, <2>4, <2>5
  <1> QED BY <1>6

LEMMA ScreenPreserved == ImageInv /\ [Next]_vars => ScreenInv'
  <1> SUFFICES ASSUME ImageInv, [Next]_vars
               PROVE  ScreenInv'
    OBVIOUS
  <1> USE DEF Opening, Opened, Asking, Reading, Placed, Mapped
  <1>0. ScreenInv /\ pc \in Stages
    BY DEF ImageInv
  <1>e. console' = console
    BY DEF Next, vars
  <1>k. ASSUME pc' \notin {"ready", "kernel"} PROVE ScreenInv'
    BY <1>k DEF ScreenInv
  <1>1. CASE ConvertTextToDevicePath
    BY <1>0, <1>k, <1>1 DEF Stages, ConvertTextToDevicePath, Step
  <1>2. CASE JoinPaths
    BY <1>0, <1>k, <1>2 DEF Stages, JoinPaths, Step
  <1>3. CASE OpenVolume
    BY <1>0, <1>k, <1>3 DEF Stages, OpenVolume, LoadError, CloseFile, FreePages
  <1>4. CASE ConvertDevicePathToText
    BY <1>0, <1>k, <1>4 DEF Stages, ConvertDevicePathToText, OpenKernelFails, Step
  <1>5. CASE OpenFile
    BY <1>0, <1>k, <1>5 DEF Stages, OpenFile, OpenKernelFails
  <1>6. CASE AllocateInfo
    BY <1>0, <1>k, <1>6 DEF Stages, AllocateInfo, OpenKernelFails, Step
  <1>7. CASE GetInfo
    BY <1>0, <1>k, <1>7 DEF Stages, GetInfo, OpenKernelFails, Step
  <1>8. CASE ReadHeader
    BY <1>0, <1>k, <1>8 DEF Stages, ReadHeader, LoadError, CloseFile, FreePages
  <1>9. CASE ExtendHeader
    BY <1>0, <1>k, <1>9 DEF Stages, ExtendHeader, LoadError, CloseFile, FreePages, Halt, resources
  <1>10. CASE ScanHeader
    BY <1>0, <1>k, <1>10 DEF Stages, ScanHeader, LoadError, CloseFile, FreePages, Halt, resources
  <1>11. CASE ScanEnds
    BY <1>0, <1>k, <1>11 DEF Stages, ScanEnds, LoadError, CloseFile, FreePages, resources
  <1>12. CASE AllocateKernel
    BY <1>0, <1>k, <1>12 DEF Stages, AllocateKernel
  <1>13. CASE LoadSegments
    BY <1>0, <1>k, <1>13 DEF Stages, LoadSegments, LoadError, CloseFile, FreePages, resources
  <1>14. CASE FindEntryHeader
    BY <1>0, <1>k, <1>14 DEF Stages, FindEntryHeader, resources
  <1>15. CASE LoadEnds
    BY <1>0, <1>k, <1>15 DEF Stages, LoadEnds, release
  <1>16. CASE BuildMap
    BY <1>0, <1>k, <1>16 DEF Stages, BuildMap, Halt, resources
  <1>17. CASE CheckHeader
    BY <1>0, <1>k, <1>17 DEF Stages, CheckHeader, LoadError, CloseFile, FreePages, Halt, resources
  <1>18. CASE ClearBss
    BY <1>0, <1>k, <1>18 DEF Stages, ClearBss, resources
  <1>19. CASE AskConsole
    BY <1>0, <1>k, <1>19 DEF Stages, AskConsole, Step
  <1>20. CASE GetVariable
    BY <1>0, <1>k, <1>20 DEF Stages, GetVariable, Step, resources
  <1>21. CASE SearchConsole
    BY <1>0, <1>k, <1>21 DEF Stages, SearchConsole, Step, Halt, resources
  <1>22. CASE locate_protocol
    BY <1>0, <1>k, <1>22 DEF Stages, locate_protocol, Step
  <1>23. CASE check_framebuffer
    <2>1. CASE pc' # "ready"
      BY <1>k, <1>23, <2>1 DEF check_framebuffer, Step, LoadError
    <2>2. CASE pc' = "ready"
      <3>1. fbinfo' = Framebuffer(console.graphics) \/ fbinfo' = NoFramebuffer
        BY <1>23 DEF check_framebuffer
      <3>2. Framebuffer(console.graphics)' = Framebuffer(console.graphics)
        BY <1>e
      <3> QED BY <2>2, <3>1, <3>2 DEF ScreenInv
    <2> QED BY <2>1, <2>2
  <1>24. CASE init
    <2>1. /\ pc = "ready" /\ pc' = "kernel" /\ UNCHANGED <<fbinfo, tsbp_kernel_map>>
      BY <1>24 DEF init, loading
    <2>2. fbinfo' \in {NoFramebuffer, Framebuffer(console.graphics)'}
      BY <1>0, <1>e, <2>1 DEF ScreenInv
    <2>3. \A s \in Range(tsbp_kernel_map) :
            /\ kernel'.paddr + (s.virt - kernel'.vaddr) = s.phys
            /\ s.virt >= kernel'.vaddr /\ s.virt + s.length <= kernel'.vaddr + kernel'.size
      <3>1. /\ kernel'.vaddr = Min({s.virt : s \in Range(tsbp_kernel_map)})
            /\ kernel'.paddr = lowest_paddr(tsbp_kernel_map)
            /\ kernel'.size = Max({s.virt + s.length : s \in Range(tsbp_kernel_map)}) - kernel'.vaddr
        BY <1>24 DEF init
      <3> QED BY <2>1, <3>1, KernelKnowsWhereItIs
    <2>4. KernelRemapsItself'
      BY <2>1, <2>3 DEF KernelRemapsItself
    <2> QED BY <2>1, <2>2, <2>4 DEF ScreenInv
  <1>25. CASE UNCHANGED vars
    <2>1. UNCHANGED <<pc, fbinfo, console, kernel, tsbp_kernel_map>>
      BY <1>25 DEF vars, loading, info
    <2> QED BY <1>0, <2>1, Zenon DEF ScreenInv, KernelRemapsItself
  <1> QED
    BY <1>1, <1>2, <1>3, <1>4, <1>5, <1>6, <1>7, <1>8, <1>9, <1>10, <1>11, <1>12, <1>13, <1>14, <1>15, <1>16, <1>17, <1>18, <1>19, <1>20, <1>21, <1>22, <1>23, <1>24, <1>25 DEF Next, loader

-----------------------------------------------------------------------------
(* The inductive invariant                                                 *)

LEMMA InitHolds == Init => ImageInv
  <1> SUFFICES ASSUME Init PROVE ImageInv
    OBVIOUS
  <1> USE DEF Opening, Opened, Asking, Reading, Placed, Mapped, Vectors, NoScan, NoPages
  <1>1. elf \in Kernels /\ console \in Consoles /\ pc = "path" /\ pc \in Stages
    BY DEF Init, Stages
  <1>2. PoolInv /\ FilesInv
    BY DEF Init, PoolInv, FilesInv
  <1>3. HeaderInv
    <2>1. elf.size \in Nat
      BY KernelsAssumption DEF Init
    <2>2. 0 \in 0 .. elf.size
      BY <2>1
    <2> QED BY <2>2 DEF Init, HeaderInv
  <1>4. IndexInv
    BY DEF Init, IndexInv
  <1>5. ScanInv
    BY DEF Init, ScanInv, Scan
  <1>6. PagesInv
    BY DEF Init, PagesInv
  <1>7. FilledInv /\ MapInv /\ ScreenInv
    BY DEF Init, FilledInv, ImageIsTheFile, Loaded, MapInv, ScreenInv
  <1> QED BY <1>1, <1>2, <1>3, <1>4, <1>5, <1>6, <1>7 DEF ImageInv

LEMMA StageIsKept == ImageInv /\ [Next]_vars => elf' \in Kernels /\ console' \in Consoles /\ pc' \in Stages
  <1> SUFFICES ASSUME ImageInv, [Next]_vars
               PROVE  elf' \in Kernels /\ console' \in Consoles /\ pc' \in Stages
    OBVIOUS
  <1>1. elf' \in Kernels /\ console' \in Consoles
    BY DEF ImageInv, Next, vars
  <1>2. pc \in Stages
    BY DEF ImageInv
  <1>3. ASSUME loader PROVE pc' \in Stages
    BY <1>2, <1>3
       DEF loader, Stages, Opening, Opened, Asking, Reading, Placed,
           ConvertTextToDevicePath, JoinPaths, OpenVolume, ConvertDevicePathToText, OpenFile,
           AllocateInfo, GetInfo, ReadHeader, ExtendHeader, ScanHeader, ScanEnds, AllocateKernel,
           LoadSegments, FindEntryHeader, LoadEnds, BuildMap, CheckHeader, ClearBss, AskConsole,
           GetVariable, SearchConsole, locate_protocol,
           LoadError, OpenKernelFails, Halt, Step
  <1>4. ASSUME check_framebuffer \/ init PROVE pc' \in Stages
    BY <1>4 DEF check_framebuffer, init, Stages, Placed, LoadError, Step
  <1>5. ASSUME UNCHANGED vars PROVE pc' \in Stages
    BY <1>2, <1>5 DEF vars
  <1> QED BY <1>1, <1>3, <1>4, <1>5 DEF Next

(* At every stage of the loader: the blocks of the pool, the files and the *)
(* pages it holds, what it has read, scanned, loaded, cleared and mapped.  *)
THEOREM ImageInvariant == Spec => []ImageInv
  <1>1. Init => ImageInv
    BY InitHolds
  <1>2. ImageInv /\ [Next]_vars => ImageInv'
    BY PoolPreserved, FilesPreserved, HeaderPreserved, IndexPreserved, ScanPreserved, PagesPreserved,
       FilledPreserved, MapPreserved, ScreenPreserved, StageIsKept DEF ImageInv
  <1> QED BY <1>1, <1>2, PTL DEF Spec

(* When the loader gives up, at whichever call, it has given back all      *)
(* memory and closed all files; and what is left of the pages that the     *)
(* firmware gave for the kernel are exactly those it takes to be the       *)
(* kernel's, aligned as its segments are: load_tsbp(), open_kernel_file()  *)
(* and EfiMain().                                                          *)
THEOREM NothingIsKept == Spec => []ResourcesReturned
  <1>1. ImageInv => ResourcesReturned
    <2> SUFFICES ASSUME ImageInv PROVE ResourcesReturned
      OBVIOUS
    <2> USE DEF Opening, Opened, Asking, Reading, Placed, Mapped, Vectors
    <2>1. pool \subseteq {"path_devpath", "kernel_path", "file_path", "file_info", "bss_areas",
                          "tsbp_kernel_map", "conout_var_val"}
      BY DEF ImageInv, PoolInv, Stages
    <2>2. handles \subseteq {"root", "kernel"} /\ kernel_handle \in BOOLEAN
      BY DEF ImageInv, FilesInv
    <2>3. scan.high >= scan.low /\ i \in Nat
      <3>1. scan.low \in Nat /\ scan.high \in Nat /\ scan.low <= scan.high
        BY DEF ImageInv, ScanInv, Scan
      <3> QED BY <3>1 DEF ImageInv, IndexInv
    <2>4. TypeOK
      BY <2>1, <2>2, <2>3 DEF ImageInv, HeaderInv, PagesInv, TypeOK
    <2>5. pc = "returned" =>
            /\ pool = {} /\ header_pages = 0 /\ owned = {}
            /\ handles \subseteq (IF tsbp_kernel_map # << >> THEN {"kernel"} ELSE {})
      BY DEF ImageInv, PoolInv, HeaderInv, PagesInv, FilesInv
    <2>6. kernel_alloc.pages # 0 /\ ~ignored =>
            /\ (kernel_alloc.address * PAGE) % scan.align = 0
            /\ owned = kernel_alloc.address .. (kernel_alloc.address + kernel_alloc.pages - 1)
      BY DEF ImageInv, PagesInv
    <2> QED BY <2>4, <2>5, <2>6 DEF ResourcesReturned
  <1> QED BY <1>1, ImageInvariant, PTL

(* When load_tsbp() goes on, the memory of the kernel is its file's        *)
(* segments, with zeros behind them.                                       *)
THEOREM TheFileIsLoaded == Spec => []ImageIsTheFile
  <1>1. ImageInv => ImageIsTheFile
    BY DEF ImageInv, FilledInv
  <1> QED BY <1>1, ImageInvariant, PTL

-----------------------------------------------------------------------------
(* What the kernel is told is so                                           *)

(* A segment, rounded up to the alignment, ends where another one behind   *)
(* it may begin.                                                           *)
LEMMA RoundedStaysBelow ==
  ASSUME NEW a \in Nat \ {0}, NEW v \in Nat, NEW m \in Nat, NEW w \in Nat,
         v % a = 0, w % a = 0, v + m <= w
  PROVE  v + RoundUp(m, a) <= w
  <1>1. Multiple(v, a) /\ Multiple(w, a)
    BY MultipleIs
  <1>2. w - v \in Nat /\ m <= w - v /\ Multiple(w - v, a)
    BY <1>1, MultiplesAdd
  <1>3. PICK u : u = RoundUp(m, a)
    OBVIOUS
  <1>4. u \in Nat /\ u <= w - v
    BY <1>2, <1>3, RoundUpFacts
  <1>5. v + u <= w
    BY <1>4
  <1> QED BY <1>3, <1>5

LEMMA MapIsRight == ImageInv => MapIsTheKernels
  <1> SUFFICES ASSUME ImageInv, Loaded PROVE MapIsTheKernels
    BY DEF MapIsTheKernels
  <1> DEFINE All == LoadableBelow(Len(elf.ph) + 1)
  <1>1. pc \in Mapped /\ pc \in Placed
    BY DEF Loaded, Mapped, Placed
  <1>2. PICK low \in Nat, base \in Nat, high \in Nat, align \in Nat \ {0} :
          /\ low = scan.low /\ base = kernel_alloc.address * PAGE
          /\ high = scan.high /\ align = scan.align
          /\ \A s \in Range(tsbp_kernel_map) : EntryIs(s, low, base, high, align)
    BY <1>1, EntryFacts
  <1>3. \A p \in Segments : \E j \in All : p = elf.ph[j]
    BY KernelFacts DEF Segments, LoadableBelow, Loadable, Range
  <1>4. \A j \in All : elf.ph[j].vaddr % align = 0
    BY <1>1, <1>2 DEF ImageInv, ScanInv, Seen
  <1>5. ASSUME NEW j \in All
        PROVE  \E s \in Range(tsbp_kernel_map) :
                 /\ s.virt = elf.ph[j].vaddr /\ s.length >= elf.ph[j].memsz
                 /\ s.phys - kernel_alloc.address * PAGE = elf.ph[j].vaddr - scan.low
                 /\ \A h \in All : elf.ph[j].vaddr < elf.ph[h].vaddr => s.virt + s.length <= elf.ph[h].vaddr
    <2>1. PICK v \in Nat, m \in Nat : v = elf.ph[j].vaddr /\ m = elf.ph[j].memsz
      BY LinkedSegment
    <2>2. PICK s \in Range(tsbp_kernel_map) : s = Mapping(elf.ph[j])
      BY <1>1 DEF ImageInv, MapInv, Range
    <2>3. PICK length \in Nat : length = RoundUp(m, align) /\ m <= length
      <3>1. PICK u : u = RoundUp(m, align)
        OBVIOUS
      <3> QED BY <3>1, RoundUpFacts
    <2>4. s.virt = v /\ s.length = length /\ s.phys = (v - low) + base
      BY <1>2, <2>1, <2>2, <2>3 DEF Mapping
    <2>5. ASSUME NEW h \in All, v < elf.ph[h].vaddr PROVE v + length <= elf.ph[h].vaddr
      <3>1. PICK vh \in Nat, mh \in Nat : vh = elf.ph[h].vaddr /\ mh = elf.ph[h].memsz
        BY LinkedSegment
      <3>2. h # j
        BY <2>1, <2>5
      <3>3. v + m <= vh \/ vh + mh <= v
        BY <2>1, <3>1, <3>2, SegmentsApart DEF Before
      <3>4. v + m <= vh
        BY <2>5, <3>1, <3>3
      <3>5. v % align = 0 /\ vh % align = 0
        BY <1>4, <2>1, <3>1
      <3>6. v + RoundUp(m, align) <= vh
        BY <3>4, <3>5, RoundedStaysBelow
      <3> QED BY <2>3, <3>1, <3>6
    <2>6. s.phys - kernel_alloc.address * PAGE = v - low
      <3>1. (v - low) + base - base = v - low
        OBVIOUS
      <3> QED BY <1>2, <2>4, <3>1
    <2> QED BY <1>2, <2>1, <2>3, <2>4, <2>5, <2>6
  <1>6. ASSUME scan.align = PAGE, NEW s \in Range(tsbp_kernel_map)
        PROVE  s.phys + s.length <= (kernel_alloc.address + kernel_alloc.pages) * PAGE
    <2>1. PICK v \in Nat, m \in Nat, length \in Nat :
            /\ length = RoundUp(m, align) /\ s.virt = v /\ s.length = length
            /\ s.phys = (v - low) + base /\ low <= v /\ v + m <= high
            /\ v % align = 0
      <3>1. EntryIs(s, low, base, high, align)
        BY <1>2
      <3> QED BY <1>4, <3>1, Zenon DEF EntryIs
    <2>2. low % align = 0
      <3>1. PICK j \in All : elf.ph[j].vaddr = scan.low
        BY <1>1 DEF ImageInv, ScanInv, Seen
      <3> QED BY <1>2, <1>4, <3>1
    <2>3. PICK room \in Nat : /\ room = RoundUp(high - low, align) /\ high - low <= room
                             /\ Multiple(room, align)
      <3>1. PICK u : u = RoundUp(high - low, align)
        OBVIOUS
      <3>2. high - low \in Nat
        BY <2>1
      <3> QED BY <3>1, <3>2, RoundUpFacts
    <2>4. Multiple(v - low, align) /\ v - low \in Nat
      <3>1. Multiple(v, align) /\ Multiple(low, align)
        BY <2>1, <2>2, MultipleIs
      <3> QED BY <2>1, <3>1, MultiplesAdd
    <2>5. (v - low) + RoundUp(m, align) <= room
      <3>1. (v - low) + m <= room
        BY <2>1, <2>3
      <3>2. (v - low) % align = 0 /\ room % align = 0
        BY <2>3, <2>4, MultipleIs
      <3> QED BY <2>4, <3>1, <3>2, RoundedStaysBelow
    <2>6. (v - low) + base + length <= base + room
      BY <2>1, <2>5
    <2>7. (kernel_alloc.address + kernel_alloc.pages) * PAGE = base + room
      <3>1. kernel_alloc.pages = PagesFor(high - low)
        BY <1>1, <1>2 DEF ImageInv, PagesInv, req_pages
      <3>2. PagesFor(high - low) * PAGE = room
        <4>1. high - low \in Nat
          BY <2>1
        <4>2. align = PAGE
          BY <1>2, <1>6
        <4> QED BY <2>3, <4>1, <4>2, PagesForFacts
      <3>3. PICK a \in Nat, b \in Nat, page \in Nat :
              a = kernel_alloc.address /\ b = kernel_alloc.pages /\ page = PAGE
        BY ImageAssumption DEF ImageInv, PagesInv
      <3>4. (a + b) * page = a * page + b * page
        OBVIOUS
      <3> QED BY <1>2, <3>1, <3>2, <3>3, <3>4
    <2> QED BY <2>1, <2>6, <2>7
  <1> QED BY <1>3, <1>5, <1>6 DEF MapIsTheKernels

(* What the loops over a mask's bits find: the bits from the lowest one on, *)
(* up to the first gap.                                                    *)
LEMMA ByMaskFacts ==
  ASSUME NEW mask, mask \subseteq 0 .. (PIXEL_BITS - 1), mask # {}
  PROVE  ByMask(mask) \subseteq mask /\ (Contiguous(mask) => ByMask(mask) = mask)
  <1>1. PICK bits \in Nat \ {0} : bits = PIXEL_BITS
    BY ImageAssumption
  <1>2. mask \subseteq 0 .. (bits - 1) /\ mask \subseteq Nat
    BY <1>1
  <1>3. PICK shift \in Nat : /\ shift = Min(mask) /\ shift \in mask
                            /\ \A b \in mask : shift <= b
    BY <1>2, MinOfSet
  <1> DEFINE Gaps == {n \in 0 .. bits : shift + n \notin mask}
  <1>4. PICK size \in Gaps : size = Min(Gaps) /\ \A n \in Gaps : size <= n
    <2>1. bits \in Gaps
      BY <1>2, <1>3
    <2>2. Gaps \subseteq Nat /\ Gaps # {}
      BY <2>1
    <2> HIDE DEF Gaps
    <2> QED BY <2>2, MinOfSet
  <1>5. size \in 0 .. bits /\ shift + size \notin mask
    OBVIOUS
  <1>6. ByMask(mask) = shift .. (shift + size - 1)
    BY <1>1, <1>3, <1>4 DEF ByMask, count_shift, count_size
  <1>7. \A n \in 0 .. (size - 1) : shift + n \in mask
    <2> SUFFICES ASSUME NEW n \in 0 .. (size - 1), shift + n \notin mask PROVE FALSE
      OBVIOUS
    <2>1. n \in 0 .. bits /\ ~(size <= n)
      BY <1>5
    <2> QED BY <1>4, <2>1
  <1>8. \A b \in ByMask(mask) : b \in mask
    <2> SUFFICES ASSUME NEW b \in shift .. (shift + size - 1) PROVE b \in mask
      BY <1>6
    <2>1. b - shift \in 0 .. (size - 1) /\ shift + (b - shift) = b
      BY <1>3, <1>5
    <2> QED BY <1>7, <2>1
  <1>9. ASSUME Contiguous(mask) PROVE \A b \in mask : b \in ByMask(mask)
    <2>1. PICK highest \in Nat : highest = Max(mask) /\ highest \in mask /\ \A b \in mask : b <= highest
      <3>1. bits - 1 \in Nat
        BY <1>1
      <3> QED BY <1>2, <3>1, MaxOfSet
    <2>2. mask = shift .. highest
      BY <1>3, <1>9, <2>1 DEF Contiguous
    <2>3. highest < shift + size
      <3> SUFFICES ASSUME shift + size <= highest PROVE FALSE
        BY <1>3, <1>5, <2>1
      <3>1. shift + size \in shift .. highest
        BY <1>3, <1>5, <2>1
      <3> QED BY <1>5, <2>2, <3>1
    <2>4. \A b \in shift .. highest : b \in shift .. (shift + size - 1)
      BY <1>5, <2>3
    <2> QED BY <1>6, <2>2, <2>4
  <1> QED BY <1>8, <1>9

(* A pixel that ends with its reserved bits is as long as all its bits     *)
(* need.                                                                   *)
LEMMA PixelFacts ==
  ASSUME NEW c \in Consoles, NEW g, g = c.graphics, g.format = "BitMask", Usual(g)
  PROVE  /\ (framebuffer_bpp(g) + 7) \div 8 = BytesPerPixel(g)
         /\ BytesPerPixel(g) \in 1 .. 4
  <1>1. /\ g.red \subseteq 0 .. (PIXEL_BITS - 1) /\ g.green \subseteq 0 .. (PIXEL_BITS - 1)
        /\ g.blue \subseteq 0 .. (PIXEL_BITS - 1) /\ g.reserved \subseteq 0 .. (PIXEL_BITS - 1)
        /\ g.red # {} /\ g.green # {} /\ g.blue # {}
    BY ConsolesAssumption
  <1>2. PICK top \in 0 .. 31 : top = PIXEL_BITS - 1
    BY ImageAssumption
  <1>3. /\ g.red \subseteq 0 .. top /\ g.green \subseteq 0 .. top
        /\ g.blue \subseteq 0 .. top /\ g.reserved \subseteq 0 .. top
    BY <1>1, <1>2
  <1>4. g.reserved # {}
    <2>1. ASSUME g.reserved = {} PROVE FALSE
      <3>1. highest_bit(g.reserved) = 0
        BY <2>1 DEF highest_bit
      <3> QED BY <3>1 DEF Usual
    <2> QED BY <2>1
  <1>5. PICK last \in 0 .. top : /\ last = highest_bit(g.reserved) /\ last \in g.reserved
                                /\ \A b \in g.reserved : b <= last
    <2>1. Max(g.reserved) \in g.reserved /\ \A b \in g.reserved : b <= Max(g.reserved)
      BY <1>3, <1>4, MaxOfSet
    <2> QED BY <1>3, <1>4, <2>1 DEF highest_bit
  <1>6. ASSUME NEW mask \in {g.red, g.green, g.blue}
        PROVE  \A b \in mask : b <= last
    <2>1. mask # {} /\ mask \subseteq 0 .. top
      BY <1>1, <1>3
    <2>2. Max(mask) \in mask /\ \A b \in mask : b <= Max(mask)
      <3>1. top \in Nat
        BY <1>2
      <3> QED BY <2>1, <3>1, MaxOfSet
    <2>3. Max(mask) < last
      BY <1>5, <2>1 DEF Usual, highest_bit
    <2>4. PICK m \in 0 .. top : m = Max(mask)
      BY <2>1, <2>2
    <2>5. \A b \in mask : b \in Int
      BY <2>1
    <2> QED BY <2>2, <2>3, <2>4, <2>5
  <1> DEFINE Bits == g.red \cup g.green \cup g.blue \cup g.reserved
  <1>7. last \in Bits /\ \A b \in Bits : b <= last
    BY <1>5, <1>6
  <1>8. Max(Bits) = last
    <2>1. Bits \subseteq 0 .. top /\ Bits # {}
      BY <1>3, <1>7
    <2>2. Max(Bits) \in Bits /\ \A b \in Bits : b <= Max(Bits)
      <3> HIDE DEF Bits
      <3>1. top \in Nat
        BY <1>2
      <3> QED BY <2>1, <3>1, MaxOfSet
    <2>3. Max(Bits) <= last /\ last <= Max(Bits) /\ Max(Bits) \in 0 .. top
      BY <1>7, <2>1, <2>2
    <2> HIDE DEF Bits
    <2> QED BY <2>3
  <1>9. last % 8 # 0
    BY <1>5 DEF Usual
  <1>10. (last + 7) \div 8 = (last \div 8) + 1 /\ (last \div 8) + 1 \in 1 .. 4
    <2>1. last \in 0 .. 31
      OBVIOUS
    <2> QED BY <1>9, <2>1
  <1>11. BytesPerPixel(g) = (last \div 8) + 1 /\ framebuffer_bpp(g) = last
    BY <1>5, <1>8 DEF BytesPerPixel, framebuffer_bpp
  <1> QED BY <1>10, <1>11

LEMMA ScreenIsRight == ImageInv => FramebufferIsTheScreen
  <1> SUFFICES ASSUME ImageInv, pc = "kernel", fbinfo # NoFramebuffer
               PROVE  FramebufferIsTheScreen
    BY DEF FramebufferIsTheScreen
  <1> DEFINE g == console.graphics
  <1>1. fbinfo = Framebuffer(g) /\ g.format # "BltOnly"
    BY DEF ImageInv, ScreenInv, Framebuffer
  <1>2. /\ g.line \in Nat /\ g.size \in Nat /\ g.format \in {"RGB", "BGR", "BitMask"}
        /\ \A mask \in {g.red, g.green, g.blue, g.reserved} : mask \subseteq 0 .. (PIXEL_BITS - 1)
        /\ g.format = "BitMask" => {} \notin {g.red, g.green, g.blue}
    BY <1>1, ConsolesAssumption DEF ImageInv
  <1>3. /\ fbinfo.size = RoundUp(g.size, PAGE) /\ fbinfo.pitch = framebuffer_pitch(g)
        /\ fbinfo.red = Colours(g).red /\ fbinfo.green = Colours(g).green
        /\ fbinfo.blue = Colours(g).blue
    BY <1>1 DEF Framebuffer
  <1>4. fbinfo.size >= g.size
    <2>1. PICK u : u = RoundUp(g.size, PAGE)
      OBVIOUS
    <2>2. PICK size \in Nat : size = g.size
      BY <1>2
    <2>3. u \in Nat /\ size <= u
      <3>1. u = RoundUp(size, PAGE) /\ PAGE \in Nat \ {0}
        BY <2>1, <2>2, ImageAssumption
      <3> QED BY <3>1, RoundUpFacts
    <2> QED BY <1>3, <2>1, <2>2, <2>3
  <1>5. ASSUME g.format = "BitMask"
        PROVE  /\ fbinfo.red \subseteq g.red /\ fbinfo.green \subseteq g.green
               /\ fbinfo.blue \subseteq g.blue
               /\ \A c \in {"red", "green", "blue"} : Contiguous(g[c]) => fbinfo[c] = g[c]
    <2>1. /\ fbinfo.red = ByMask(g.red) /\ fbinfo.green = ByMask(g.green)
          /\ fbinfo.blue = ByMask(g.blue)
      BY <1>3, <1>5 DEF Colours
    <2>2. \A mask \in {g.red, g.green, g.blue} :
            ByMask(mask) \subseteq mask /\ (Contiguous(mask) => ByMask(mask) = mask)
      BY <1>2, <1>5, ByMaskFacts
    <2> QED BY <2>1, <2>2
  <1>6. ASSUME Usual(g), g.line * 4 < 2 ^ 16
        PROVE  fbinfo.pitch = g.line * BytesPerPixel(g)
    <2>1. (framebuffer_bpp(g) + 7) \div 8 = BytesPerPixel(g) /\ BytesPerPixel(g) \in 1 .. 4
      <3>1. CASE g.format = "BitMask"
        BY <1>6, <3>1, PixelFacts DEF ImageInv
      <3>2. CASE g.format # "BitMask"
        <4>1. (32 + 7) \div 8 = 4
          OBVIOUS
        <4> QED BY <3>2, <4>1 DEF framebuffer_bpp, BytesPerPixel
      <3> QED BY <3>1, <3>2
    <2>2. PICK line \in Nat, n \in 1 .. 4 : line = g.line /\ n = BytesPerPixel(g)
      BY <1>2, <2>1
    <2>3. fbinfo.pitch = (line * n) % 65536
      <3>1. 2 ^ 16 = 65536
        OBVIOUS
      <3> QED BY <1>3, <2>1, <2>2, <3>1 DEF framebuffer_pitch
    <2>4. line * 4 < 65536
      <3>1. 2 ^ 16 = 65536
        OBVIOUS
      <3> QED BY <1>6, <2>2, <3>1
    <2>5. line * n \in Nat /\ line * n < 65536
      <3>1. CASE n = 1
        BY <2>4, <3>1
      <3>2. CASE n = 2
        BY <2>4, <3>2
      <3>3. CASE n = 3
        BY <2>4, <3>3
      <3>4. CASE n = 4
        BY <2>4, <3>4
      <3> QED BY <3>1, <3>2, <3>3, <3>4
    <2>6. (line * n) % 65536 = line * n
      <3>1. PICK z \in Nat : z = line * n /\ z < 65536
        BY <2>5
      <3>2. z % 65536 = z
        BY <3>1
      <3> QED BY <3>1, <3>2
    <2> QED BY <2>2, <2>3, <2>6
  <1> QED BY <1>4, <1>5, <1>6 DEF FramebufferIsTheScreen

(* The map handed to the kernel maps every segment to where it was loaded; *)
(* what init() makes of the map leaves each page of the kernel where it    *)
(* is; and the framebuffer is the screen's: load_tsbp(), check_framebuffer *)
(* and the kernel's init().                                                *)
THEOREM TheKernelIsToldTheTruth == Spec => []KernelIsToldTheTruth
  <1>1. ImageInv => KernelRemapsItself
    BY DEF ImageInv, ScreenInv, KernelRemapsItself
  <1>2. ImageInv => KernelIsToldTheTruth
    BY <1>1, MapIsRight, ScreenIsRight DEF KernelIsToldTheTruth
  <1> QED BY <1>2, ImageInvariant, PTL

=============================================================================
