---------------------------- MODULE KernelImage ----------------------------
(***************************************************************************)
(* The boot loader from its start until the kernel's image is in memory:   *)
(* EfiMain(), open_kernel_file() and the first part of load_tsbp(), then   *)
(* the search for the framebuffer; and what the kernel's init() makes of   *)
(* the two.                                                                *)
(*                                                                         *)
(* Every call of the firmware may fail; what the loader holds at that      *)
(* moment (memory of the pool, files, pages) has to be given back.         *)
(*                                                                         *)
(* Positions in the file and addresses of the kernel count units of which  *)
(* PAGE make a page; a unit has 8 bytes or more.  The unit of the file at  *)
(* position p is the number p.                                             *)
(***************************************************************************)
EXTENDS Integers, Sequences, SequencesExt, FiniteSetsExt

CONSTANTS
  PAGE,                 \* units of a page
  MIN_READ_CHUNK,       \* units read at first
  TSBP_HEADER,          \* size of tosaithe_entry_header
  PIXEL_BITS,           \* bits of a pixel's mask
  VECTOR_FIRST,         \* first capacity of an ang_vector
  TOP_MINUS_2GB, TOP,   \* lowest address of a kernel, highest address
  SegAlignments,        \* 4 kB and the sizes of large pages, in units
  Bases,                \* pages at which the firmware may allocate
  Kernels,              \* ELF files
  Consoles              \* what the firmware knows of screens

ASSUME ImageAssumption ==
  /\ PAGE \in Nat \ {0} /\ MIN_READ_CHUNK \in Nat /\ MIN_READ_CHUNK % PAGE = 0
  /\ TSBP_HEADER \in Nat \ {0} /\ PIXEL_BITS \in 1 .. 32 /\ VECTOR_FIRST \in Nat \ {0}
  /\ TOP_MINUS_2GB \in Nat \ {0} /\ TOP \in Nat
  /\ \A align \in SegAlignments : align \in Nat \ {0} /\ align % PAGE = 0
  /\ Bases \subseteq Nat \ {0}

ProgramHeader ==
  [type : STRING, offset : Nat, vaddr : Nat, paddr : Nat, filesz : Nat, memsz : Nat,
   align : Nat \ {0}, flags : SUBSET STRING]

(* The program headers do not lie across the end of the first chunk.  They *)
(* are what a linker makes of them: no address is of two segments, and     *)
(* segments side by side in the table, moved from their virtual addresses  *)
(* by as much, follow each other in the file as they do in memory, with no *)
(* others between them.                                                    *)
Before(p, q) == p.vaddr + p.memsz <= q.vaddr

SideBySide(ph, j, h) ==
  \A k \in j .. h : ph[k].type = "LOAD" /\ ph[k].paddr - ph[k].vaddr = ph[j].paddr - ph[j].vaddr

ASSUME KernelsAssumption ==
  \A e \in Kernels :
    /\ e.size \in Nat /\ e.phoff \in Nat /\ e.ph \in Seq(ProgramHeader)
    /\ e.phoff >= MIN_READ_CHUNK \/ e.phoff + Len(e.ph) <= MIN_READ_CHUNK
    /\ LET ph == e.ph
           loadable == {j \in DOMAIN ph : ph[j].type = "LOAD"}
       IN  /\ \A j \in loadable : ph[j].filesz <= ph[j].memsz
           /\ \A j, h \in loadable : j # h => Before(ph[j], ph[h]) \/ Before(ph[h], ph[j])
           /\ \A j, h \in loadable : j < h /\ SideBySide(ph, j, h) =>
                /\ ph[h].offset - ph[j].offset = ph[h].vaddr - ph[j].vaddr
                /\ Before(ph[j], ph[h])
                /\ \A k \in loadable \ (j .. h) : Before(ph[k], ph[j]) \/ Before(ph[h], ph[k])

(* A path of devices has an end, a pixel a bit for each colour at least.   *)
ASSUME ConsolesAssumption ==
  \A c \in Consoles :
    LET g == c.graphics IN
    /\ c.devices \in Seq(STRING)
    /\ c.devices # << >> => c.devices[Len(c.devices)] = "end"
    /\ g.base \in Nat /\ g.line \in Nat /\ g.size \in Nat
    /\ g.format \in {"RGB", "BGR", "BitMask", "BltOnly"}
    /\ \A mask \in {g.red, g.green, g.blue, g.reserved} : mask \subseteq 0 .. (PIXEL_BITS - 1)
    /\ g.format = "BitMask" => {} \notin {g.red, g.green, g.blue}

VARIABLES
  elf,                  \* the file
  console,              \* the firmware's screens
  pc,
  pool,                 \* blocks of the firmware's pool in use, by name
  handles,              \* open files
  kernel_handle,        \* whether the loader will close the kernel's file
  header_pages,         \* pages of elf_header_alloc
  first_chunk,          \* units of the file that have been read
  moved,                \* the beginning of the header was lost
  ignored,              \* pages were refused, which allocate() does not say
  owned,                \* pages the firmware gave for the kernel
  kernel_alloc,         \* pages that the loader takes to be the kernel's
  i,                    \* index of the loop over program headers
  scan,                 \* lowest_vaddr, highest_vaddr, seg_alignment
  bss_areas,
  image,                \* the units of the kernel in memory
  ts_entry_header,      \* its address, or 0
  tsbp_kernel_map,
  fbinfo,               \* the framebuffer in loader_data
  kernel                \* kernel_vaddr, kernel_paddr and kernel_size

resources == <<pool, handles, kernel_handle, header_pages, owned, kernel_alloc>>
loading == <<first_chunk, moved, ignored, i, scan, bss_areas, image,
             ts_entry_header, tsbp_kernel_map>>
info == <<fbinfo, kernel>>
vars == <<elf, console, pc, resources, loading, info>>

NoPages == [address |-> 0, pages |-> 0]
NoScan == [found |-> FALSE, low |-> 0, high |-> 0, align |-> 0]
NoFramebuffer == [addr |-> 0, size |-> 0, pitch |-> 0, red |-> {}, green |-> {}, blue |-> {}]
NoKernel == [vaddr |-> 0, paddr |-> 0, size |-> 0]
Junk == -1
Zero == -2

Init ==
  /\ elf \in Kernels /\ console \in Consoles
  /\ pc = "path"
  /\ pool = {} /\ handles = {} /\ kernel_handle = FALSE
  /\ header_pages = 0 /\ owned = {} /\ kernel_alloc = NoPages
  /\ first_chunk = 0 /\ moved = FALSE /\ ignored = FALSE
  /\ i = 1 /\ scan = NoScan /\ bss_areas = << >> /\ image = << >>
  /\ ts_entry_header = 0 /\ tsbp_kernel_map = << >>
  /\ fbinfo = NoFramebuffer /\ kernel = NoKernel

-----------------------------------------------------------------------------
(* How the loader ends                                                     *)

(* What the destructors of the owners of pages and files give back        *)
FreePages == header_pages' = 0 /\ owned' = {} /\ kernel_alloc' = NoPages

CloseFile ==
  /\ handles' = IF kernel_handle THEN handles \ {"kernel"} ELSE handles
  /\ kernel_handle' = FALSE

(* load_tsbp() returns: vectors, page allocations and the file go with     *)
(* their owners, and EfiMain() frees the path.                             *)
LoadErrorFileOpen ==
  /\ pc' = "returned"
  /\ pool' = pool \ {"kernel_path", "bss_areas", "tsbp_kernel_map"}
  /\ FreePages
  /\ UNCHANGED <<handles, kernel_handle, loading>>

LoadError ==
  /\ pc' = "returned"
  /\ pool' = pool \ {"kernel_path", "bss_areas", "tsbp_kernel_map"}
  /\ FreePages /\ CloseFile
  /\ UNCHANGED loading

(* abort(), and what stands for it                                         *)
Halt == pc' = "halted" /\ UNCHANGED <<resources, loading>>

Step(next) == pc' = next /\ UNCHANGED <<handles, kernel_handle, header_pages, owned,
                                        kernel_alloc, loading>>

-----------------------------------------------------------------------------
(* EfiMain() and resolve_relative_path()                                   *)

(* Index of the file's node in a path of the firmware, 0 if there is none  *)
find_file_path(dp) ==
  LET files == {j \in DOMAIN dp : dp[j] = "file"}
  IN  IF files = {} THEN 0 ELSE Min(files)

ConvertTextToDevicePath ==
  /\ pc = "path"
  /\ \/ pool' = pool /\ Step("returned")
     \/ pool' = pool \cup {"path_devpath"} /\ Step("relative")
     \/ pool' = pool \cup {"kernel_path"} /\ Step("volume")  \* not a plain file's

JoinPaths ==
  /\ pc = "relative"
  /\ \/ pool' = pool \ {"path_devpath"} /\ Step("returned")
     \/ /\ find_file_path(console.image_path) # 0
        /\ pool' = (pool \ {"path_devpath"}) \cup {"kernel_path"}
        /\ Step("volume")

-----------------------------------------------------------------------------
(* open_kernel_file(), open_file() and get_file_info()                     *)

OpenVolume ==
  /\ pc = "volume"
  /\ \/ LoadError
     \/ /\ handles' = handles \cup {"root"}
        /\ pc' = "text"
        /\ UNCHANGED <<pool, kernel_handle, header_pages, owned, kernel_alloc, loading>>

(* open_kernel_file() fails: what it has opened is closed.                 *)
OpenKernelFails(freed) ==
  /\ handles' = handles \ {"root", "kernel"} /\ kernel_handle' = FALSE
  /\ pool' = pool \ (freed \cup {"kernel_path"})
  /\ pc' = "returned"
  /\ UNCHANGED <<header_pages, owned, kernel_alloc, loading>>

ConvertDevicePathToText ==
  /\ pc = "text"
  /\ \/ OpenKernelFails({})
     \/ pool' = pool \cup {"file_path"} /\ Step("open")

OpenFile ==
  /\ pc = "open"
  /\ \/ OpenKernelFails({"file_path"})
     \/ /\ handles' = (handles \ {"root"}) \cup {"kernel"}
        /\ pool' = pool \ {"file_path"}
        /\ kernel_handle' = TRUE
        /\ pc' = "info_1"
        /\ UNCHANGED <<header_pages, owned, kernel_alloc, loading>>

AllocateInfo ==
  /\ pc \in {"info_1", "info_2"}
  /\ \/ OpenKernelFails({})
     \/ pool' = pool \cup {"file_info"} /\ Step(IF pc = "info_1" THEN "get_1" ELSE "get_2")

(* A buffer that is too small is replaced once.                            *)
GetInfo ==
  /\ pc \in {"get_1", "get_2"}
  /\ \/ pool' = pool \ {"file_info"} /\ Step("read")
     \/ pc = "get_1" /\ pool' = pool \ {"file_info"} /\ Step("info_2")
     \/ OpenKernelFails({"file_info"})

-----------------------------------------------------------------------------
(* The ELF header and the program headers                                  *)

RoundUp(x, align) == ((x + align - 1) \div align) * align

PagesFor(x) == RoundUp(x, PAGE) \div PAGE

elf_ph_end == elf.phoff + Len(elf.ph)

BadStructure == elf.phoff >= elf.size \/ elf.size - elf.phoff < Len(elf.ph)

(* efi_page_alloc: the pages that an owner has after asking for n, which   *)
(* the firmware may refuse, and after asking for n more behind them        *)
allocate_nx(n) == {n, 0}

extend_nx(pages, n) == IF pages = 0 THEN {} ELSE {pages + n}

(* New memory does not get what the old one holds.                         *)
extend_or_move(pages, n) ==
  {[pages |-> p, moved |-> FALSE, abort |-> FALSE] : p \in extend_nx(pages, n)}
  \cup {[pages |-> pages + n, moved |-> TRUE, abort |-> FALSE],
        [pages |-> pages, moved |-> FALSE, abort |-> TRUE]}

ReadHeader ==
  /\ pc = "read"
  /\ \E given \in allocate_nx(PagesFor(Min({MIN_READ_CHUNK, elf.size}))), read_ok \in BOOLEAN :
       IF ~read_ok \/ ~elf.ident \/ BadStructure THEN LoadError
       ELSE /\ first_chunk' = Min({MIN_READ_CHUNK, elf.size})
            /\ header_pages' = given
            /\ ignored' = (given = 0)
            /\ pc' = IF elf_ph_end > first_chunk' THEN "extend" ELSE "scan"
            /\ UNCHANGED <<pool, handles, kernel_handle, owned, kernel_alloc, moved, i,
                           scan, bss_areas, image, ts_entry_header, tsbp_kernel_map>>

ExtendHeader ==
  /\ pc = "extend"
  /\ LET read_amount == Min({Max({elf_ph_end - first_chunk, MIN_READ_CHUNK}),
                             elf.size - first_chunk})
     IN  \E r \in extend_or_move(header_pages, PagesFor(read_amount)) :
           \/ r.abort /\ Halt
           \/ ~r.abort /\ LoadError
           \/ /\ ~r.abort
              /\ header_pages' = r.pages
              /\ moved' = (moved \/ r.moved)
              /\ first_chunk' = first_chunk + read_amount
              /\ pc' = "scan"
              /\ UNCHANGED <<pool, handles, kernel_handle, owned, kernel_alloc, ignored, i,
                             scan, bss_areas, image, ts_entry_header, tsbp_kernel_map>>

(* ang_vector: the lengths at which push_back() allocates, and may halt    *)
grow(length) == length = 0 \/ \E e \in 0 .. length : length = VECTOR_FIRST * 2 ^ e

Loadable(j) == elf.ph[j].type = "LOAD"

Unsupported(p) ==
  \/ p.vaddr > TOP - p.memsz
  \/ p.vaddr % p.align # 0
  \/ ~scan.found /\ p.align \notin SegAlignments
  \/ scan.found /\ p.align # scan.align

WithSegment(p) ==
  IF scan.found
    THEN [scan EXCEPT !.low = Min({@, p.vaddr}), !.high = Max({@, p.vaddr + p.memsz})]
    ELSE [found |-> TRUE, low |-> p.vaddr, high |-> p.vaddr + p.memsz, align |-> p.align]

ScanHeader ==
  /\ pc = "scan" /\ i <= Len(elf.ph)
  /\ LET p == elf.ph[i]
         bss == p.memsz > p.filesz
     IN  \/ ~Loadable(i) /\ i' = i + 1 /\ UNCHANGED <<pc, pool, scan, bss_areas>>
            /\ UNCHANGED <<handles, kernel_handle, header_pages, owned, kernel_alloc,
                           first_chunk, moved, ignored, image, ts_entry_header, tsbp_kernel_map>>
         \/ Loadable(i) /\ Unsupported(p) /\ LoadError
         \/ Loadable(i) /\ ~Unsupported(p) /\ bss /\ grow(Len(bss_areas)) /\ Halt
         \/ /\ Loadable(i) /\ ~Unsupported(p)
            /\ scan' = WithSegment(p)
            /\ bss_areas' = IF bss THEN Append(bss_areas, [begin |-> p.vaddr + p.filesz,
                                                           size |-> p.memsz - p.filesz])
                            ELSE bss_areas
            /\ pool' = IF bss THEN pool \cup {"bss_areas"} ELSE pool
            /\ i' = i + 1
            /\ UNCHANGED <<pc, handles, kernel_handle, header_pages, owned, kernel_alloc,
                           first_chunk, moved, ignored, image, ts_entry_header, tsbp_kernel_map>>

ScanEnds ==
  /\ pc = "scan" /\ i > Len(elf.ph)
  /\ IF ~scan.found \/ scan.low < TOP_MINUS_2GB THEN LoadError
     ELSE /\ pc' = "allocate"
          /\ UNCHANGED <<resources, loading>>

-----------------------------------------------------------------------------
(* Memory for the kernel: more than it needs is taken, and what is before  *)
(* and behind an aligned part of it given back.                            *)

req_pages == PagesFor(scan.high - scan.low)

AlignedBegin(base) ==
  LET align == scan.align \div PAGE
  IN  IF base % align = 0 THEN base ELSE base - (base % align) + align

AllocateKernel ==
  /\ pc = "allocate"
  /\ \E base \in Bases \cup {0} :
       LET count == req_pages + ((scan.align - 1) \div PAGE)
           begin == AlignedBegin(base)
           given == IF base = 0 THEN {} ELSE base .. (base + count - 1)
       IN  /\ ignored' = (ignored \/ base = 0)
           /\ owned' = given \ ((base .. (begin - 1))
                                \cup ((begin + req_pages) .. (base + count - 1)))
           /\ kernel_alloc' = [address |-> begin, pages |-> req_pages]
           /\ image' = [x \in 0 .. (req_pages * PAGE - 1) |-> Junk]
  /\ pc' = "load" /\ i' = 1
  /\ UNCHANGED <<pool, handles, kernel_handle, header_pages, first_chunk, moved, scan,
                 bss_areas, ts_entry_header, tsbp_kernel_map>>

-----------------------------------------------------------------------------
(* Loading the segments                                                    *)

(* Segments that follow are combined if they were moved by as much.        *)
Combined(first) ==
  LET Offs(j) == elf.ph[j].paddr - elf.ph[j].vaddr
      stops == {j \in (first + 1) .. Len(elf.ph) : ~Loadable(j) \/ Offs(j) # Offs(first)}
  IN  IF stops = {} THEN Len(elf.ph) ELSE Min(stops) - 1

SegSize(first, last) ==
  LET filled == {j \in (first + 1) .. last : elf.ph[j].filesz # 0}
      p == elf.ph[first]
  IN  IF filled = {} THEN p.filesz
      ELSE (elf.ph[Max(filled)].paddr - p.paddr) + elf.ph[Max(filled)].filesz

(* What is copied out of the header or read from the file                  *)
UnitAt(pos) ==
  IF pos < MIN_READ_CHUNK /\ pos < first_chunk /\ moved THEN Junk ELSE pos

LoadSegments ==
  /\ pc = "load" /\ i <= Len(elf.ph) /\ Loadable(i)
  /\ LET p == elf.ph[i]
         last == Combined(i)
         seg_size == SegSize(i, last)
         offs == p.vaddr - scan.low
         from_file == p.offset + seg_size > first_chunk /\ seg_size # 0
         short == from_file /\ p.offset + seg_size > elf.size
     IN  \/ from_file /\ LoadError
         \/ /\ ~short
            /\ image' = [x \in DOMAIN image |->
                           IF x \in offs .. (offs + seg_size - 1)
                             THEN UnitAt(p.offset + x - offs) ELSE image[x]]
            /\ i' = last + 1
            /\ UNCHANGED <<pc, resources, first_chunk, moved, ignored, scan, bss_areas,
                           ts_entry_header, tsbp_kernel_map>>

(* A program header that says where the entry header is                    *)
FindEntryHeader ==
  /\ pc = "load" /\ i <= Len(elf.ph) /\ ~Loadable(i)
  /\ LET p == elf.ph[i]
         here == /\ p.type = "TSBP"
                 /\ p.vaddr >= scan.low /\ p.vaddr + TSBP_HEADER <= scan.high
     IN  ts_entry_header' = IF here THEN p.vaddr ELSE ts_entry_header
  /\ i' = i + 1
  /\ UNCHANGED <<pc, resources, first_chunk, moved, ignored, scan, bss_areas, image,
                 tsbp_kernel_map>>

(* The file stays open, and nobody closes it any more.                     *)
release == kernel_handle' = FALSE /\ UNCHANGED handles

LoadEnds ==
  /\ pc = "load" /\ i > Len(elf.ph)
  /\ pc' = "map"
  /\ release
  /\ UNCHANGED <<pool, header_pages, owned, kernel_alloc, loading>>

(* The signature stands where the file has it.                             *)
HasSignature(vaddr) ==
  /\ vaddr - scan.low \in DOMAIN image
  /\ image[vaddr - scan.low] \in elf.signature

Mapping(p) ==
  [phys |-> (p.vaddr - scan.low) + kernel_alloc.address * PAGE, virt |-> p.vaddr,
   length |-> RoundUp(p.memsz, scan.align), flags |-> p.flags]

BuildMap ==
  /\ pc = "map"
  /\ LET loadable == {j \in DOMAIN elf.ph : Loadable(j)}
         nth(n) == CHOOSE j \in loadable : Cardinality({h \in loadable : h <= j}) = n
         starts == {j \in loadable : /\ elf.ph[j].memsz >= TSBP_HEADER
                                     /\ HasSignature(elf.ph[j].vaddr)}
     IN  \/ Halt
         \/ /\ tsbp_kernel_map' = [n \in 1 .. Cardinality(loadable) |-> Mapping(elf.ph[nth(n)])]
            /\ pool' = pool \cup {"tsbp_kernel_map"}
            /\ ts_entry_header' = IF ts_entry_header = 0 /\ starts # {}
                                    THEN elf.ph[Min(starts)].vaddr ELSE ts_entry_header
            /\ pc' = "header"
            /\ UNCHANGED <<handles, kernel_handle, header_pages, owned, kernel_alloc,
                           first_chunk, moved, ignored, i, scan, bss_areas, image>>

(* Without a header the signature is looked for at address 0, where it is  *)
(* not, or where nothing can be read.                                      *)
CheckHeader ==
  /\ pc = "header"
  /\ \/ ts_entry_header = 0 /\ Halt
     \/ /\ ts_entry_header = 0 \/ ~HasSignature(ts_entry_header) \/ ~elf.version
        /\ LoadError
     \/ /\ ts_entry_header # 0 /\ HasSignature(ts_entry_header) /\ elf.version
        /\ pc' = "clear" /\ UNCHANGED <<resources, loading>>

ClearBssAllButLast ==
  /\ pc = "clear"
  /\ image' = [x \in DOMAIN image |->
                 IF \E b \in Range(bss_areas) :
                      x \in (b.begin - scan.low) .. (b.begin - scan.low + b.size - 2)
                   THEN Zero ELSE image[x]]
  /\ pc' = "console"
  /\ UNCHANGED <<resources, first_chunk, moved, ignored, i, scan, bss_areas,
                 ts_entry_header, tsbp_kernel_map>>

ClearBss ==
  /\ pc = "clear"
  /\ image' = [x \in DOMAIN image |->
                 IF \E b \in Range(bss_areas) :
                      x \in (b.begin - scan.low) .. (b.begin - scan.low + b.size - 1)
                   THEN Zero ELSE image[x]]
  /\ pc' = "console"
  /\ UNCHANGED <<resources, first_chunk, moved, ignored, i, scan, bss_areas,
                 ts_entry_header, tsbp_kernel_map>>

-----------------------------------------------------------------------------
(* find_GOP() and check_framebuffer()                                      *)

AskConsole ==
  /\ pc = "console"
  /\ \/ pool' = pool /\ Step("screen")
     \/ pool' = pool /\ Step("locate")
     \/ console.devices # << >> /\ pool' = pool \cup {"conout_var_val"} /\ Step("variable")

GetVariable ==
  /\ pc = "variable"
  /\ \/ pool' = pool \ {"conout_var_val"} /\ Step("locate")
     \/ /\ pc' = "search" /\ i' = 1
        /\ UNCHANGED <<resources, first_chunk, moved, ignored, scan, bss_areas, image,
                       ts_entry_header, tsbp_kernel_map>>

(* A device path has instances, one behind the other.                      *)
find_devpath_end(dp, from) == Min({j \in from .. Len(dp) : dp[j] \in {"end_instance", "end"}})

find_same_devpath_instance(dp, from) == from

(* Where the next instance begins, or 0                                    *)
find_next_devpath_instance(dp, from) ==
  LET end == find_devpath_end(dp, from) IN IF dp[end] = "end_instance" THEN end + 1 ELSE 0

(* LocateDevicePath() looks for a screen in one instance.  Behind the last *)
(* one there is no path, which is not looked at.                           *)
SearchConsole ==
  /\ pc = "search"
  /\ IF i = 0 THEN Halt
     ELSE IF \E j \in i .. find_devpath_end(console.devices, i) : console.devices[j] = "screen"
       THEN pool' = pool \ {"conout_var_val"} /\ Step("screen")
       ELSE /\ i' = find_next_devpath_instance(console.devices, i)
            /\ UNCHANGED <<pc, resources, first_chunk, moved, ignored, scan, bss_areas, image,
                           ts_entry_header, tsbp_kernel_map>>

locate_protocol ==
  /\ pc = "locate"
  /\ \/ pool' = pool /\ Step("screen")
     \/ pool' = pool /\ Step("no_screen")

(* A mask is the set of its bits; a loop counts the bits from the lowest   *)
(* one on.                                                                 *)
count_shift(mask) == Min(mask)

count_size(mask, shift) ==
  Min({n \in 0 .. PIXEL_BITS : shift + n \notin mask})

highest_bit(mask) == IF mask = {} THEN 0 ELSE Max(mask)

ByMask(mask) == LET shift == count_shift(mask) IN shift .. (shift + count_size(mask, shift) - 1)

Colours(g) ==
  CASE g.format = "RGB" -> [red |-> 0 .. 7, green |-> 8 .. 15, blue |-> 16 .. 23]
    [] g.format = "BGR" -> [blue |-> 0 .. 7, green |-> 8 .. 15, red |-> 16 .. 23]
    [] g.format = "BitMask" -> [red |-> ByMask(g.red), green |-> ByMask(g.green),
                                blue |-> ByMask(g.blue)]

(* What is taken for the greatest of the four masks' highest bits is that  *)
(* of the last one.                                                        *)
framebuffer_bpp(g) == IF g.format = "BitMask" THEN highest_bit(g.reserved) ELSE 32

framebuffer_pitch(g) == (g.line * ((framebuffer_bpp(g) + 7) \div 8)) % 2 ^ 16

(* Some formats of pixels have no framebuffer.                             *)
Framebuffer(g) ==
  IF g.format = "BltOnly" THEN NoFramebuffer
  ELSE [addr |-> g.base, size |-> RoundUp(g.size, PAGE), pitch |-> framebuffer_pitch(g),
        red |-> Colours(g).red, green |-> Colours(g).green, blue |-> Colours(g).blue]

check_framebuffer ==
  /\ pc \in {"screen", "no_screen"}
  /\ fbinfo' = IF pc = "screen" THEN Framebuffer(console.graphics) ELSE NoFramebuffer
  /\ IF fbinfo'.size = 0 /\ elf.needs_fb THEN LoadError
     ELSE pool' = pool /\ Step("ready")
  /\ UNCHANGED kernel

-----------------------------------------------------------------------------
(* The kernel has been started: init() works out of the map where it is.   *)

lowest_paddr_last(map) == map[Len(map)].phys

lowest_paddr(map) ==
  LET lowest == {j \in DOMAIN map : \A h \in DOMAIN map : map[j].virt <= map[h].virt}
  IN  map[Min(lowest)].phys

init ==
  /\ pc = "ready"
  /\ LET lowest_vaddr == Min({s.virt : s \in Range(tsbp_kernel_map)})
         highest_vaddr == Max({s.virt + s.length : s \in Range(tsbp_kernel_map)})
     IN  kernel' = [vaddr |-> lowest_vaddr, paddr |-> lowest_paddr(tsbp_kernel_map),
                    size |-> highest_vaddr - lowest_vaddr]
  /\ pc' = "kernel"
  /\ UNCHANGED <<resources, loading, fbinfo>>

-----------------------------------------------------------------------------
loader ==
  \/ ConvertTextToDevicePath
  \/ JoinPaths
  \/ OpenVolume
  \/ ConvertDevicePathToText
  \/ OpenFile
  \/ AllocateInfo
  \/ GetInfo
  \/ ReadHeader
  \/ ExtendHeader
  \/ ScanHeader
  \/ ScanEnds
  \/ AllocateKernel
  \/ LoadSegments
  \/ FindEntryHeader
  \/ LoadEnds
  \/ BuildMap
  \/ CheckHeader
  \/ ClearBss
  \/ AskConsole
  \/ GetVariable
  \/ SearchConsole
  \/ locate_protocol

Next ==
  /\ \/ loader /\ UNCHANGED info
     \/ check_framebuffer
     \/ init
  /\ UNCHANGED <<elf, console>>

Spec == Init /\ [][Next]_vars

(* Nothing else runs.                                                      *)
FairSpec == Spec /\ WF_vars(Next)

-----------------------------------------------------------------------------
(* Properties                                                              *)

Loaded == pc \in {"console", "variable", "search", "locate", "screen", "no_screen", "ready",
                  "kernel"}

Segments == {p \in Range(elf.ph) : p.type = "LOAD"}

(* Every variable has its type; what has been read of the file is the      *)
(* header's size at most.                                                  *)
TypeOK ==
  /\ pool \subseteq {"path_devpath", "kernel_path", "file_path", "file_info", "bss_areas",
                     "tsbp_kernel_map", "conout_var_val"}
  /\ handles \subseteq {"root", "kernel"} /\ kernel_handle \in BOOLEAN
  /\ header_pages \in Nat /\ first_chunk \in 0 .. elf.size
  /\ moved \in BOOLEAN /\ ignored \in BOOLEAN
  /\ owned \subseteq Nat /\ kernel_alloc.pages \in Nat
  /\ i \in Nat /\ scan.high >= scan.low
  /\ ~ignored /\ header_pages # 0 => first_chunk <= header_pages * PAGE

(* When load_tsbp() goes on, the memory of the kernel holds its segments:  *)
(* their units of the file, whether copied or read, alone or together, and *)
(* zeros behind them.  (Not so when the beginning of the header was lost.) *)
ImageIsTheFile ==
  Loaded /\ ~moved =>
    \A p \in Segments : \A x \in 0 .. (p.memsz - 1) :
      image[p.vaddr - scan.low + x] = IF x < p.filesz THEN p.offset + x ELSE Zero

(* When the loader gives up it has given back all memory and closed all    *)
(* files, at whichever call it failed; only the kernel's file, once it has *)
(* been read, stays open.  Until then the kernel's pages, which begin      *)
(* where its segments may begin, are what is left of the pages that the    *)
(* firmware gave: nothing more was given back, and nothing less.           *)
ResourcesReturned ==
  /\ TypeOK
  /\ pc = "returned" =>
       /\ pool = {} /\ header_pages = 0 /\ owned = {}
       /\ handles \subseteq (IF tsbp_kernel_map # << >> THEN {"kernel"} ELSE {})
  /\ kernel_alloc.pages # 0 /\ ~ignored =>
       /\ (kernel_alloc.address * PAGE) % scan.align = 0
       /\ owned = kernel_alloc.address .. (kernel_alloc.address + kernel_alloc.pages - 1)

(* The map handed to the kernel maps every segment, to where it was        *)
(* loaded; segments of 4 kB alignment keep to the kernel's own pages.      *)
MapIsTheKernels ==
  Loaded =>
    /\ \A p \in Segments : \E s \in Range(tsbp_kernel_map) :
         /\ s.virt = p.vaddr /\ s.length >= p.memsz
         /\ s.phys - kernel_alloc.address * PAGE = p.vaddr - scan.low
         /\ \A q \in Segments : p.vaddr < q.vaddr => s.virt + s.length <= q.vaddr
    /\ scan.align = PAGE =>
         \A s \in Range(tsbp_kernel_map) :
           s.phys + s.length <= (kernel_alloc.address + kernel_alloc.pages) * PAGE

(* The loader comes to an end, whichever calls fail.                       *)
LoaderAnswers == <>(pc \in {"kernel", "returned", "halted"})

(* init_paging() will map the kernel anew, from kernel_vaddr on for        *)
(* kernel_size to kernel_paddr on: that leaves every page of every segment *)
(* where it is, whatever the order of the segments and the space between   *)
(* them.                                                                   *)
KernelRemapsItself ==
  pc = "kernel" =>
    \A s \in Range(tsbp_kernel_map) :
      /\ kernel.paddr + (s.virt - kernel.vaddr) = s.phys
      /\ s.virt >= kernel.vaddr /\ s.virt + s.length <= kernel.vaddr + kernel.size

(* A pixel ends with its reserved bits, within a byte.                     *)
Usual(g) ==
  g.format = "BitMask" =>
    /\ highest_bit(g.reserved) % 8 # 0
    /\ \A mask \in {g.red, g.green, g.blue} : highest_bit(mask) < highest_bit(g.reserved)

BytesPerPixel(g) ==
  IF g.format = "BitMask"
    THEN (Max(g.red \cup g.green \cup g.blue \cup g.reserved) \div 8) + 1 ELSE 4

Contiguous(mask) == mask = Min(mask) .. Max(mask)

(* The framebuffer the kernel is told of is the screen's: a line of pixels *)
(* is one pitch behind the line before it, and the bits of each colour are *)
(* those of its mask, up to the mask's first gap.  (For pixels that end    *)
(* with reserved bits, in lines of less than 64 kB.)                       *)
FramebufferIsTheScreen ==
  pc = "kernel" /\ fbinfo # NoFramebuffer =>
    LET g == console.graphics IN
    /\ Usual(g) /\ g.line * 4 < 2 ^ 16 => fbinfo.pitch = g.line * BytesPerPixel(g)
    /\ g.format = "BitMask" =>
         /\ fbinfo.red \subseteq g.red /\ fbinfo.green \subseteq g.green
         /\ fbinfo.blue \subseteq g.blue
         /\ \A c \in {"red", "green", "blue"} : Contiguous(g[c]) => fbinfo[c] = g[c]
    /\ fbinfo.size >= g.size

(* What the kernel is told about itself and the screen is so.              *)
KernelIsToldTheTruth == MapIsTheKernels /\ KernelRemapsItself /\ FramebufferIsTheScreen

=============================================================================
