----------------------------- MODULE FileSystem -----------------------------
(***************************************************************************)
(* Files: the table of open files (kernel/fs/FS.c), looking up and reading *)
(* a file on a FAT16 volume (kernel/fs/FAT.c), and the shell's commands    *)
(* about files: those that list the root directory and print a file, and   *)
(* the test that opens a file, reads from it and closes it.                *)
(*                                                                         *)
(* One call runs at a time.  A call is a sequence of steps, one for each   *)
(* sector it reads, because every read of the disk may fail, and one for   *)
(* each block of memory it asks for.  The caller passes handles it has     *)
(* been given and has not closed.                                          *)
(***************************************************************************)
EXTENDS Fat16, FiniteSetsExt

CONSTANTS
  MAX_OPEN_FILES,
  MAX_PARTS,            \* parts of a path, one more than fopen() may use
  Disks,                \* the disks the machine may have, by a name
  Paths,                \* the paths a caller may use
  ReadSizes,            \* the numbers of bytes a caller may ask for
  Offsets,              \* the offsets a caller may seek to
  TestPath, TestSize    \* what the test opens and how much it reads

ASSUME LimitAssumption == MAX_OPEN_FILES \in Nat \ {0} /\ MAX_PARTS \in Nat \ {0}

(* On a FAT32 disk the code uses tables that only fat_setup() fills in, and*)
(* nothing calls it; such disks are left out.                              *)
ASSUME DiskAssumption == \A u \in DOMAIN Disks : fat_detect(Disks[u]) # 32

(* What the code reads of a disk are unsigned numbers.                     *)
ASSUME DiskTypes ==
  \A u \in DOMAIN Disks : LET d == Disks[u] IN
    /\ d.mbr.lba \in Nat
    /\ \A field \in {"bytes_per_sector", "sectors_per_cluster", "reserved_sectors",
                     "fat_count", "root_entries", "sectors_per_fat"} : d.boot[field] \in Nat
    /\ \A lba \in DOMAIN d.sectors :
         /\ d.sectors[lba].fat \in [0 .. (SECTOR_SIZE - 1) -> Nat]
         /\ d.sectors[lba].dir \in Seq([first : STRING, attr : Nat, name : STRING,
                                        cluster : Nat, size : Nat])

(* A caller passes numbers, and paths whose parts are names.               *)
ASSUME CallersAssumption ==
  /\ Paths \cup {TestPath} \subseteq [valid : BOOLEAN, parts : Seq(DOMAIN fat_upper)]
  /\ ReadSizes \subseteq Nat /\ TestSize \in Nat /\ Offsets \subseteq Int

VARIABLES
  unit,                 \* the name of the machine's disk
  fs,                   \* disktable[0].parts[0].fs, "unset" without tables
  files,                \* the table; own is the memory behind path
  blocks,               \* memory in use for the paths of files
  pc,                   \* where the call is that runs
  call,                 \* the call: its name and arguments, and history: where
                        \* the file's position was
  l,                    \* its local variables
  out,                  \* bytes or names it has delivered
  ret,                  \* its result
  failed,               \* history: a read of the disk or malloc() failed
  cmd,                  \* the command that runs, of those with several calls
  before                \* history: files and blocks when it began

vars == <<unit, fs, files, blocks, pc, call, l, out, ret, failed, cmd, before>>

disk == Disks[unit]

Handles == 1 .. MAX_OPEN_FILES

Closed == [used |-> FALSE, path |-> << >>, own |-> {}, pointer |-> 0, size |-> 0]

NoSnapshot == [files |-> << >>, blocks |-> {}]

NoPath == [valid |-> FALSE, parts |-> << >>]

NoCall == [fn |-> "none", h |-> 0, path |-> NoPath, want |-> 0, start |-> 0]

(* own is the memory fopen() has got so far, level the part of the path    *)
(* that is looked up, root, cluster and s the place in a directory or file,*)
(* skip, offset and remaining what is to be passed over and to be copied.  *)
NoLocals ==
  [own |-> {}, level |-> 1, root |-> TRUE, cluster |-> 0, s |-> 0,
   skip |-> 0, offset |-> 0, remaining |-> 0]

Init ==
  /\ unit \in DOMAIN Disks
  /\ fs = "unset"
  /\ files = [k \in Handles |-> Closed]
  /\ blocks = {}
  /\ pc = "idle"
  /\ call = NoCall
  /\ l = NoLocals
  /\ out = << >>
  /\ ret = 0
  /\ failed = FALSE
  /\ cmd = "none"
  /\ before = NoSnapshot

-----------------------------------------------------------------------------
(* Calling and returning                                                   *)

Begin(fn, k, p, n) ==
  /\ pc = "idle" \/ (cmd # "none" /\ pc = "returned")
  /\ call' = [fn |-> fn, h |-> k, path |-> p, want |-> n,
              start |-> IF k = 0 THEN 0 ELSE files[k].pointer]
  /\ out' = << >>
  /\ failed' = FALSE
  /\ l' = NoLocals

Return(value) == pc' = "returned" /\ ret' = value /\ l' = NoLocals

(* What a slot that is not used holds is overwritten before it is read.    *)
CloseSlot(k) == files' = [files EXCEPT ![k] = Closed]

(* A call that fails returns 0; fopen() first gives its slot and its       *)
(* memory back.                                                            *)
ReturnErrorKeepsMemory ==
  /\ Return(0)
  /\ IF call.fn = "fopen" THEN CloseSlot(call.h) ELSE UNCHANGED files
  /\ UNCHANGED blocks

ReturnError ==
  /\ Return(0)
  /\ IF call.fn = "fopen"
       THEN CloseSlot(call.h) /\ blocks' = blocks \ files[call.h].own
       ELSE UNCHANGED <<files, blocks>>

-----------------------------------------------------------------------------
(* init_disk()                                                             *)

FsOf(type) == CASE type = 12 -> "fat12" [] type = 16 -> "fat16"
                [] type = 32 -> "fat32" [] OTHER -> "none"

(* The disk may fail to answer; it then counts as one without partitions.  *)
(* When malloc() fails there are no tables to use.  The tables are never   *)
(* freed, so they are not part of blocks: each call leaves two of them     *)
(* behind.                                                                 *)
init_disk ==
  /\ Begin("init_disk", 0, NoPath, 0)
  /\ fs' \in {FsOf(fat_detect(disk)), "none", "unset"}
  /\ ret' = 0
  /\ pc' = "returned"
  /\ UNCHANGED <<unit, files, blocks>>

-----------------------------------------------------------------------------
(* fopen()                                                                 *)

(* A path without a slash is refused at once.                              *)
fopen(p) ==
  /\ Begin("fopen", 0, p, 0)
  /\ fs # "unset"
  /\ ret' = 0
  /\ pc' = IF p.parts = << >> THEN "returned" ELSE "alloc"
  /\ UNCHANGED <<unit, fs, files, blocks>>

(* A block that is not in use.  Blocks are numbered by the fopen() that got *)
(* them, and one after the other.                                          *)
Fresh ==
  LET others == {b[1] : b \in blocks \ l.own}
  IN  << Min((1 .. (MAX_OPEN_FILES + 1)) \ others), Cardinality(l.own) >>

(* Memory for the table of parts, then for each part                       *)
AllocPart ==
  /\ pc = "alloc"
  /\ blocks' = blocks \cup {Fresh}
  /\ l' = [l EXCEPT !.own = @ \cup {Fresh}]
  /\ pc' = IF Cardinality(l'.own) = Len(call.path.parts) + 1 THEN "claim" ELSE "alloc"
  /\ UNCHANGED <<unit, fs, files, call, out, ret, failed>>

AllocFails ==
  /\ pc = "alloc"
  /\ blocks' = blocks \ l.own
  /\ failed' = TRUE
  /\ Return(0)
  /\ UNCHANGED <<unit, fs, files, call, out>>

Unused == {k \in Handles : ~files[k].used}

(* The path is well-formed and the table has room: the first unused slot   *)
(* is taken, and the file is looked up.                                    *)
ClaimSlot ==
  /\ pc = "claim"
  /\ call.path.valid
  /\ Unused # {}
  /\ call' = [call EXCEPT !.h = Min(Unused)]
  /\ files' = [files EXCEPT ![Min(Unused)] =
                 [used |-> TRUE, path |-> call.path.parts, own |-> l.own,
                  pointer |-> 0, size |-> 0]]
  /\ pc' = "mount"
  /\ UNCHANGED <<unit, fs, blocks, l, out, ret, failed>>

NoSlot ==
  /\ pc = "claim"
  /\ ~call.path.valid \/ Unused = {}
  /\ blocks' = blocks \ l.own
  /\ Return(0)
  /\ UNCHANGED <<unit, fs, files, call, out, failed>>

-----------------------------------------------------------------------------
(* Reading the boot sectors, before every look-up                          *)

Parts ==
  CASE call.fn = "fopen" -> call.path.parts
    [] call.fn = "fread" -> files[call.h].path
    [] call.fn = "fat_cat" ->
         SubSeq(call.path.parts, 1, Min({MAX_PARTS, Len(call.path.parts)}))

(* fopen() and fread() go by what init_disk() found; fat_cat() and         *)
(* fat_list_root() look for themselves.                                    *)
CanMount ==
  /\ call.fn \in {"fopen", "fread"} => fs = "fat16" /\ Len(Parts) < MAX_PARTS
  /\ GeometryOK(disk)

Mount ==
  /\ pc = "mount"
  /\ CanMount
  /\ pc' = IF call.fn = "fat_list_root" THEN "list" ELSE "lookup"
  /\ UNCHANGED <<unit, fs, files, blocks, call, l, out, ret, failed>>

MountFails ==
  /\ pc = "mount"
  /\ \/ ~CanMount /\ UNCHANGED failed
     \/ CanMount /\ failed' = TRUE
  /\ ReturnError
  /\ UNCHANGED <<unit, fs, call, out>>

-----------------------------------------------------------------------------
(* fat16_find_in_dir(), for every part of the path                         *)

LookupLba ==
  IF l.root THEN root_lba(disk) + l.s ELSE cluster_lba(disk, l.cluster) + l.s

LookupSectors ==
  IF l.root THEN root_sectors(disk) ELSE disk.boot.sectors_per_cluster

(* What is done with the entry of the last part                            *)
OpenFoundSizeUnset(e) ==
  /\ Return(call.h)
  /\ UNCHANGED files

OpenFound(e) ==
  /\ files' = [files EXCEPT ![call.h].size = e.size]
  /\ Return(call.h)

ReadFound(e) ==
  LET pos == files[call.h].pointer IN
  /\ IF e.cluster < 2
       THEN Return(0)
       ELSE /\ l' = [l EXCEPT !.cluster = e.cluster, !.s = 0,
                              !.skip = pos \div bytes_per_cluster(disk),
                              !.offset = pos % bytes_per_cluster(disk),
                              !.remaining = call.want]
            /\ pc' = "skip"
            /\ UNCHANGED ret
  /\ UNCHANGED files

CatFound(e) ==
  /\ IF e.size = 0 THEN Return(1)
     ELSE IF ~InData(e.cluster) THEN Return(0)
     ELSE /\ l' = [l EXCEPT !.cluster = e.cluster, !.s = 0, !.remaining = e.size]
          /\ pc' = "copy"
          /\ UNCHANGED ret
  /\ UNCHANGED files

Found(e) ==
  /\ \/ call.fn = "fopen" /\ OpenFound(e)
     \/ call.fn = "fread" /\ ReadFound(e)
     \/ call.fn = "fat_cat" /\ CatFound(e)
  /\ UNCHANGED blocks

(* The entry is that of a directory on the way to the file.                *)
Descend(e) ==
  /\ l' = [l EXCEPT !.level = @ + 1, !.root = FALSE, !.cluster = e.cluster, !.s = 0]
  /\ UNCHANGED <<pc, ret, files, blocks>>

(* The sector has neither the name nor the end of the directory.           *)
GoOn ==
  \/ /\ l.s + 1 < LookupSectors
     /\ l' = [l EXCEPT !.s = @ + 1]
     /\ UNCHANGED <<pc, ret, files, blocks>>
  \/ /\ l.s + 1 >= LookupSectors
     /\ l.root
     /\ ReturnError
  \/ /\ l.s + 1 >= LookupSectors
     /\ ~l.root
     /\ pc' = "dirnext"
     /\ UNCHANGED <<l, ret, files, blocks>>

(* What is done with the entry of a part: only the last one is a file's.   *)
TakeEntry(e) ==
  LET last == l.level = Len(Parts) IN
  \/ last /\ ~IsDirectory(e) /\ Found(e)
  \/ ~last /\ IsDirectory(e) /\ e.cluster >= 2 /\ Descend(e)
  \/ last = IsDirectory(e) /\ ReturnError
  \/ ~last /\ IsDirectory(e) /\ e.cluster < 2 /\ ReturnError

LookupSector ==
  /\ pc = "lookup"
  /\ l.root \/ InData(l.cluster)
  /\ LET e == ScanSector(disk, LookupLba, Parts[l.level])
     IN  CASE e = NoMatch -> GoOn
           [] e.first = "end" -> ReturnError
           [] e.first # "end" /\ e # NoMatch -> TakeEntry(e)
  /\ UNCHANGED <<unit, fs, call, out, failed>>

(* The sector cannot be read, or the directory's chain has ended.          *)
LookupFails ==
  /\ pc = "lookup"
  /\ \/ (l.root \/ InData(l.cluster)) /\ failed' = TRUE
     \/ ~l.root /\ ~InData(l.cluster) /\ UNCHANGED failed
  /\ ReturnError
  /\ UNCHANGED <<unit, fs, call, out>>

(* The next cluster of a chain, or DISK_ERROR                              *)
NextClusters == {fat16_next_cluster(disk, l.cluster), DISK_ERROR}

ReadNext(next) ==
  \/ next = fat16_next_cluster(disk, l.cluster) /\ UNCHANGED failed
  \/ next = DISK_ERROR /\ failed' = TRUE

DirNextSameCluster ==
  /\ pc = "dirnext"
  /\ \E next \in NextClusters :
       /\ ReadNext(next)
       /\ IF next \in {DISK_ERROR, BAD_CLUSTER} \/ next < 2
            THEN ReturnError
            ELSE /\ l' = [l EXCEPT !.s = 0]
                 /\ pc' = "lookup"
                 /\ UNCHANGED <<ret, files, blocks>>
  /\ UNCHANGED <<unit, fs, call, out>>

DirNext ==
  /\ pc = "dirnext"
  /\ \E next \in NextClusters :
       /\ ReadNext(next)
       /\ IF next \in {DISK_ERROR, BAD_CLUSTER} \/ next < 2
            THEN ReturnError
            ELSE /\ l' = [l EXCEPT !.cluster = next, !.s = 0]
                 /\ pc' = "lookup"
                 /\ UNCHANGED <<ret, files, blocks>>
  /\ UNCHANGED <<unit, fs, call, out>>

-----------------------------------------------------------------------------
(* fread() and fat16_read(); fat_cat()                                     *)

(* fread() refuses to read over the end of the file.                       *)
fread(k, n) ==
  /\ Begin("fread", k, NoPath, n)
  /\ fs # "unset"
  /\ files[k].used
  /\ ret' = 0
  /\ pc' = IF n = 0 \/ n > files[k].size - files[k].pointer THEN "returned" ELSE "mount"
  /\ UNCHANGED <<unit, fs, files, blocks>>

fat_cat(p) ==
  /\ Begin("fat_cat", 0, p, 0)
  /\ ret' = 0
  /\ pc' = IF p.parts = << >> THEN "returned" ELSE "mount"
  /\ UNCHANGED <<unit, fs, files, blocks>>

(* Clusters before the position are skipped.                               *)
SkipCluster ==
  /\ pc = "skip"
  /\ l.skip > 0
  /\ \E next \in NextClusters :
       /\ ReadNext(next)
       /\ IF InData(next)
            THEN l' = [l EXCEPT !.cluster = next, !.skip = @ - 1] /\ UNCHANGED <<pc, ret>>
            ELSE Return(0)
  /\ UNCHANGED <<unit, fs, files, blocks, call, out>>

SkipDone ==
  /\ pc = "skip"
  /\ l.skip = 0
  /\ pc' = "copy"
  /\ UNCHANGED <<unit, fs, files, blocks, call, l, out, ret, failed>>

(* Where the copy begins in sector s, given where it begins in the cluster *)
sector_offset_first_only == IF l.s = 0 THEN l.offset ELSE 0

sector_offset ==
  IF l.s = 0 THEN l.offset
  ELSE IF l.offset >= SECTOR_SIZE THEN l.offset - SECTOR_SIZE * l.s
  ELSE 0

BytesOf(lba, from, n) == [k \in 1 .. n |-> << lba, from + k - 1 >>]

(* fat_cat() leaves out what cannot be printed.                            *)
Printed(bytes) == SelectSeq(bytes, LAMBDA b : b \notin disk.control)

Delivered(bytes) == IF call.fn = "fread" THEN bytes ELSE Printed(bytes)

MoreInCluster == l.remaining > 0 /\ l.s < disk.boot.sectors_per_cluster

CopySector ==
  /\ pc = "copy"
  /\ MoreInCluster
  /\ IF sector_offset >= SECTOR_SIZE
       THEN l' = [l EXCEPT !.s = @ + 1] /\ UNCHANGED out
       ELSE LET n == Min({SECTOR_SIZE - sector_offset, l.remaining})
                lba == cluster_lba(disk, l.cluster) + l.s
            IN  /\ out' = out \o Delivered(BytesOf(lba, sector_offset, n))
                /\ l' = [l EXCEPT !.s = @ + 1, !.remaining = @ - n, !.offset = 0]
  /\ UNCHANGED <<unit, fs, files, blocks, pc, call, ret, failed>>

(* fread() returns what it has, but leaves the position where it was.      *)
CopyFails ==
  /\ pc = "copy"
  /\ MoreInCluster
  /\ failed' = TRUE
  /\ Return(IF call.fn = "fread" THEN Len(out) ELSE 0)
  /\ UNCHANGED <<unit, fs, files, blocks, call, out>>

(* fread() moves the position by what it delivers.                         *)
ReadEnds ==
  /\ Return(Len(out))
  /\ files' = [files EXCEPT ![call.h].pointer = @ + Len(out)]

(* fat_cat() tells whether it has printed everything.                      *)
CatEnds == Return(IF l.remaining = 0 THEN 1 ELSE 0) /\ UNCHANGED files

Finish ==
  /\ IF call.fn = "fread" THEN ReadEnds ELSE CatEnds
  /\ UNCHANGED blocks

CopyDone ==
  /\ pc = "copy"
  /\ l.remaining = 0
  /\ Finish
  /\ UNCHANGED <<unit, fs, call, out, failed>>

(* The cluster is done and more is wanted.  When the chain has no further  *)
(* cluster the call ends with less.                                        *)
CopyNext ==
  /\ pc = "copy"
  /\ l.remaining > 0 /\ ~MoreInCluster
  /\ \E next \in NextClusters :
       /\ ReadNext(next)
       /\ IF InData(next)
            THEN /\ l' = [l EXCEPT !.cluster = next, !.s = 0, !.offset = 0]
                 /\ UNCHANGED <<pc, ret, files, blocks>>
            ELSE Finish
  /\ UNCHANGED <<unit, fs, call, out>>

-----------------------------------------------------------------------------
(* fat_list_root()                                                         *)

fat_list_root ==
  /\ Begin("fat_list_root", 0, NoPath, 0)
  /\ ret' = 0
  /\ pc' = "mount"
  /\ UNCHANGED <<unit, fs, files, blocks>>

(* The names in a sector, up to the end of the directory                   *)
ListedOf(dir) ==
  LET end == SelectInSeq(dir, LAMBDA e : e.first = "end")
      used == IF end = 0 THEN dir ELSE SubSeq(dir, 1, end - 1)
      seen == SelectSeq(used, Visible)
  IN  [k \in 1 .. Len(seen) |-> seen[k].name]

ListSector ==
  /\ pc = "list"
  /\ LET dir == Sector(disk, root_lba(disk) + l.s).dir
         ended == \E k \in 1 .. Len(dir) : dir[k].first = "end"
     IN  /\ out' = out \o ListedOf(dir)
         /\ IF ended \/ l.s + 1 >= root_sectors(disk)
              THEN Return(1)
              ELSE l' = [l EXCEPT !.s = @ + 1] /\ UNCHANGED <<pc, ret>>
  /\ UNCHANGED <<unit, fs, files, blocks, call, failed>>

ListFails ==
  /\ pc = "list"
  /\ failed' = TRUE
  /\ Return(0)
  /\ UNCHANGED <<unit, fs, files, blocks, call, out>>

-----------------------------------------------------------------------------
(* fseek(), rewind() and fclose()                                          *)

(* The new position, or -1 when it is refused                              *)
SeekTarget(f, o, whence) ==
  CASE whence = "SEEK_SET" -> IF o >= 0 /\ o < f.size THEN o ELSE -1
    [] whence = "SEEK_CUR" ->
         IF f.pointer + o >= 0 /\ f.pointer + o < f.size THEN f.pointer + o ELSE -1
    [] whence = "SEEK_END" -> IF o < 0 /\ -o <= f.size THEN f.size + o ELSE -1

(* The case of SEEK_END runs on into the default one: it returns -1.       *)
fseek(k, o, whence) ==
  /\ Begin("fseek", k, NoPath, 0)
  /\ files[k].used
  /\ LET target == SeekTarget(files[k], o, whence)
     IN  /\ files' = IF target = -1 THEN files
                     ELSE [files EXCEPT ![k].pointer = target]
         /\ ret' = IF target = -1 THEN -2 ELSE IF whence = "SEEK_END" THEN -1 ELSE 0
  /\ pc' = "returned"
  /\ UNCHANGED <<unit, fs, blocks>>

rewind(k) ==
  /\ Begin("rewind", k, NoPath, 0)
  /\ files[k].used
  /\ files' = [files EXCEPT ![k].pointer = 0]
  /\ ret' = 0
  /\ pc' = "returned"
  /\ UNCHANGED <<unit, fs, blocks>>

fclose(k) ==
  /\ Begin("fclose", k, NoPath, 0)
  /\ files[k].used
  /\ CloseSlot(k)
  /\ blocks' = blocks \ files[k].own
  /\ ret' = 0
  /\ pc' = "returned"
  /\ UNCHANGED <<unit, fs>>

-----------------------------------------------------------------------------
(* The steps of the call that is running                                   *)
step ==
  \/ AllocPart \/ AllocFails \/ ClaimSlot \/ NoSlot
  \/ Mount \/ MountFails
  \/ LookupSector \/ LookupFails \/ DirNext
  \/ SkipCluster \/ SkipDone
  \/ CopySector \/ CopyFails \/ CopyNext \/ CopyDone
  \/ ListSector \/ ListFails

(* The calls of the file layer                                             *)
file_call ==
  \/ \E p \in Paths : fopen(p)
  \/ \E k \in Handles :
       \/ \E n \in ReadSizes : fread(k, n)
       \/ \E o \in Offsets, w \in {"SEEK_SET", "SEEK_CUR", "SEEK_END"} : fseek(k, o, w)
       \/ rewind(k)
       \/ fclose(k)

(* The shell's commands that are one call: diskinit, fatls and fatcat (fat *)
(* changes nothing)                                                        *)
execute_command ==
  \/ init_disk
  \/ fat_list_root
  \/ \E p \in Paths : fat_cat(p)

(* fstest                                                                  *)
fstest ==
  /\ fopen(TestPath)
  /\ cmd' = "fstest"
  /\ before' = [files |-> files, blocks |-> blocks]

FstestOpened ==
  /\ call.fn = "fopen"
  /\ IF ret # 0 THEN fread(ret, TestSize) /\ UNCHANGED <<cmd, before>>
     ELSE /\ pc = "returned" /\ cmd' = "none"
          /\ before' = NoSnapshot
          /\ UNCHANGED <<unit, fs, files, blocks, pc, call, l, out, ret, failed>>

FstestReadOnlyIfAny ==
  /\ call.fn = "fread"
  /\ IF ret # 0 THEN fclose(call.h)
     ELSE pc = "returned" /\ UNCHANGED <<unit, fs, files, blocks, pc, call, l, out, ret, failed>>
  /\ cmd' = "none" /\ before' = NoSnapshot

(* However much was read                                                   *)
FstestRead ==
  /\ call.fn = "fread"
  /\ fclose(call.h)
  /\ cmd' = "none" /\ before' = NoSnapshot

(* The caller has the result.                                              *)
Done ==
  /\ cmd = "none" /\ pc = "returned"
  /\ pc' = "idle" /\ call' = NoCall /\ out' = << >> /\ ret' = 0 /\ failed' = FALSE
  /\ UNCHANGED <<unit, fs, files, blocks, l, cmd, before>>

Next ==
  \/ Done
  \/ /\ cmd = "none"
     /\ file_call \/ execute_command
     /\ UNCHANGED <<cmd, before>>
  \/ cmd = "none" /\ fstest
  \/ cmd = "fstest" /\ (FstestOpened \/ FstestRead)
  \/ step /\ UNCHANGED <<cmd, before>>

Spec == Init /\ [][Next]_vars

(* Once called, an operation runs: nothing else does.                      *)
FairSpec == Spec /\ WF_vars(step /\ UNCHANGED <<cmd, before>>)

-----------------------------------------------------------------------------
(* What was put on the disk.  A disk carries, besides its sectors, the     *)
(* names in its root (listed) and for the path of every file its size and  *)
(* the sectors that hold it (stored), however the code gets there.         *)

Upper(parts) == [k \in 1 .. Len(parts) |-> fat_upper[parts[k]]]

IsFile(parts) == Upper(parts) \in DOMAIN disk.stored

SizeOf(parts) == disk.stored[Upper(parts)].size

(* The bytes of a file; fewer than its size when its chain is too short    *)
Contents(parts) ==
  LET lbas == disk.stored[Upper(parts)].lbas
  IN  [k \in 1 .. Min({SizeOf(parts), Len(lbas) * SECTOR_SIZE}) |->
         << lbas[((k - 1) \div SECTOR_SIZE) + 1], (k - 1) % SECTOR_SIZE >>]

-----------------------------------------------------------------------------
(* Properties                                                              *)

(* Every variable has its type.                                            *)
TypeOK ==
  /\ unit \in DOMAIN Disks
  /\ fs \in {"unset", "none", "fat12", "fat16"}
  /\ \A k \in Handles :
       /\ files[k].used \in BOOLEAN
       /\ files[k].own \subseteq Nat \X Nat
       /\ files[k].pointer \in Nat /\ files[k].size \in Nat
  /\ blocks \subseteq Nat \X Nat
  /\ pc \in {"idle", "returned", "alloc", "claim", "mount", "lookup", "dirnext", "skip", "copy", "list"}
  /\ call.h \in 0 .. MAX_OPEN_FILES /\ call.want \in ReadSizes \cup {0, TestSize}
  /\ call.path \in Paths \cup {NoPath, TestPath} /\ call.start \in Nat
  /\ l \in [own : SUBSET blocks, level : Nat, root : BOOLEAN, cluster : Nat, s : Nat,
            skip : Nat, offset : Nat, remaining : Nat]
  /\ ret \in Int
  /\ failed \in BOOLEAN
  /\ cmd \in {"none", "fstest"}

(* Between calls the memory in use is exactly that of the open files, each *)
(* block in one of them: an fopen() that fails, wherever it does, gives    *)
(* everything back, and fclose() frees the paths of no other file.         *)
MemoryIsThatOfOpenFiles ==
  /\ TypeOK
  /\ pc \in {"idle", "returned"} => blocks = UNION {files[k].own : k \in Handles \ Unused}
  /\ \A k \in Handles \ Unused : files[k].own \subseteq blocks
  /\ \A j, k \in Handles \ Unused : j # k => files[j].own \cap files[k].own = {}

Returned(fn) == pc = "returned" /\ call.fn = fn

(* fopen() opens the file that the path leads to, with its size.  If no    *)
(* read and no malloc() failed and the table had room, it fails only for a *)
(* path that leads to no file.                                             *)
OpenFindsTheFile ==
  Returned("fopen") =>
    LET parts == call.path.parts IN
    IF ret # 0
      THEN /\ IsFile(parts)
           /\ files[ret].used /\ files[ret].path = parts
           /\ files[ret].size = SizeOf(parts) /\ files[ret].pointer = 0
      ELSE \/ failed \/ Unused = {} \/ fs # "fat16" \/ ~call.path.valid
           \/ Len(parts) >= MAX_PARTS \/ ~IsFile(parts)

(* fread() delivers the bytes of the file from its position on, all that   *)
(* were asked for unless a read failed or the chain is too short, and then *)
(* moves the position by as many; a sector that cannot be read leaves the  *)
(* position unmoved.  No position passes the end of its file: how much is  *)
(* left to read is an unsigned difference.                                 *)
ReadGivesTheFile ==
  /\ \A k \in Handles \ Unused : files[k].pointer <= files[k].size
  /\ Returned("fread") /\ ret # 0 =>
       LET c == Contents(files[call.h].path) IN
       /\ ret = Len(out)
       /\ out = SubSeq(c, call.start + 1, call.start + ret)
       /\ ~failed => ret = call.want \/ call.start + ret = Len(c)
       /\ files[call.h].pointer \in {call.start, call.start + ret}
       /\ ~failed => files[call.h].pointer = call.start + ret

(* fat_cat() succeeds only when it has printed the whole file, but for the *)
(* bytes that cannot be printed, and fat_list_root() only when it has      *)
(* printed every name of the root.                                         *)
CommandsPrintEverything ==
  /\ Returned("fat_cat") /\ ret = 1 =>
       /\ IsFile(Parts)
       /\ Len(Contents(Parts)) = SizeOf(Parts)
       /\ out = Printed(Contents(Parts))
  /\ Returned("fat_list_root") /\ ret = 1 => out = disk.listed

(* The shell's test leaves everything as it found it, whether or not the   *)
(* file is there, the table has room, or memory or the disk fail it: no    *)
(* file stays open, and no memory in use.                                  *)
TestLeavesNothing ==
  [][cmd = "fstest" /\ cmd' = "none" =>
       files' = before.files /\ blocks' = before.blocks]_vars

(* Every call returns, also one that reads a file whose chain of clusters  *)
(* is a circle.                                                            *)
EveryCallReturns == pc # "idle" ~> pc = "returned"

=============================================================================
