-------------------------- MODULE FileSystemProofs --------------------------
(***************************************************************************)
(* Proofs about the memory of open files, for every disk, every number of  *)
(* files, all paths and sizes, and every call at which the disk or         *)
(* malloc() may fail: between calls it is that of the open files, each     *)
(* block in one of them, and the shell's test leaves everything as it was. *)
(***************************************************************************)
EXTENDS FileSystem, SequenceTheorems, FiniteSetTheorems, WellFoundedInduction, TLAPS

-----------------------------------------------------------------------------
(* A set of numbers that is not empty has a least number: a counterexample *)
(* to a claim about numbers may be taken least.                            *)
LEMMA Least ==
  ASSUME NEW T, T \subseteq Nat, T # {}
  PROVE  \E x \in T : \A y \in T : x <= y
  <1> DEFINE R == {pair \in Nat \X Nat : pair[1] < pair[2]}
  <1>1. IsWellFoundedOn(R, Nat)
    BY NatLessThanWellFounded, Zenon DEF OpToRel
  <1>2. \A x, y \in Nat : <<y, x>> \notin R => x <= y
    OBVIOUS
  <1> HIDE DEF R
  <1>3. PICK x \in T : \A y \in T : <<y, x>> \notin R
    BY <1>1, WFMin, Zenon
  <1>4. \A y \in T : x <= y
    BY <1>2, <1>3
  <1> QED BY <1>4

-----------------------------------------------------------------------------
(* The inductive invariant                                                 *)

Blocks == Nat \X Nat

File == [used : BOOLEAN, path : Seq(DOMAIN fat_upper), own : SUBSET Blocks,
         pointer : Nat, size : Nat]

Locals == [own : SUBSET Blocks, level : Nat, root : BOOLEAN, cluster : Nat, s : Nat,
           skip : Nat, offset : Nat, remaining : Nat]

Names == {"none", "init_disk", "fopen", "fread", "fat_cat", "fat_list_root", "fseek",
          "rewind", "fclose"}

Calls == [fn : Names, h : 0 .. MAX_OPEN_FILES, path : Paths \cup {NoPath, TestPath},
          want : ReadSizes \cup {0, TestSize}, start : Nat]

Places == {"idle", "returned", "alloc", "claim", "mount", "lookup", "dirnext", "skip",
           "copy", "list"}

(* The types that the steps keep; what fread() has delivered is counted.   *)
Types ==
  /\ unit \in DOMAIN Disks
  /\ fs \in {"unset", "none", "fat12", "fat16"}
  /\ files \in [Handles -> File]
  /\ blocks \subseteq Blocks
  /\ pc \in Places
  /\ call \in Calls
  /\ l \in Locals
  /\ call.fn = "fread" => out \in Seq(Int \X Int)
  /\ ret \in Int
  /\ failed \in BOOLEAN
  /\ cmd \in {"none", "fstest"}

(* fopen() has a slot, which it has still to give back when it fails.      *)
Opening == call.fn = "fopen" /\ pc \in {"mount", "lookup", "dirnext"}

(* Which call is where, and that the slot it works on is in use            *)
PlacesInv ==
  /\ pc \in {"alloc", "claim"} => call.fn = "fopen"
  /\ pc \in {"skip", "copy"} => call.fn \in {"fread", "fat_cat"}
  /\ pc = "list" => call.fn = "fat_list_root"
  /\ pc \in {"lookup", "dirnext", "skip", "copy", "list"} => GeometryOK(disk)
  /\ call.fn = "fread" \/ Opening => call.h \in Handles /\ files[call.h].used
  /\ call.fn = "fopen" /\ pc = "returned" /\ ret # 0 =>
       ret = call.h /\ ret \in Handles /\ files[ret].used
  /\ pc = "idle" => cmd = "none"
  /\ cmd = "fstest" => call.fn \in {"fopen", "fread"}

(* The memory that no slot holds yet                                       *)
Pending == IF pc \in {"alloc", "claim"} THEN l.own ELSE {}

FreshNumber == Min((1 .. (MAX_OPEN_FILES + 1)) \ {b[1] : b \in blocks \ l.own})

(* Who owns which block.  The blocks of an owner have one number, so there *)
(* is one left for the next fopen().                                       *)
OwnersInv ==
  /\ \A k \in Handles : ~files[k].used => files[k] = Closed
  /\ \A j, k \in Handles : j # k => files[j].own \cap files[k].own = {}
  /\ \A k \in Handles : files[k].own \cap Pending = {}
  /\ blocks = (UNION {files[k].own : k \in Handles}) \cup Pending
  /\ l.own \subseteq blocks
  /\ \A k \in Handles : \A b, c \in files[k].own : b[1] = c[1]
  /\ IsFiniteSet(Pending)
  /\ \A b \in Pending : b[1] = FreshNumber

(* The slot and the memory the test has to give back                       *)
TestHolds ==
  \/ call.fn = "fread"
  \/ Opening
  \/ call.fn = "fopen" /\ pc = "returned" /\ ret # 0

TestInv ==
  cmd = "fstest" =>
    \/ /\ TestHolds
       /\ before.files = [files EXCEPT ![call.h] = Closed]
       /\ before.blocks = blocks \ files[call.h].own
    \/ /\ ~TestHolds
       /\ before.files = files
       /\ before.blocks = blocks \ Pending

FilesInv == Types /\ PlacesInv /\ OwnersInv /\ TestInv

-----------------------------------------------------------------------------
(* What the code finds on a disk                                           *)

LEMMA MinIsLeast ==
  ASSUME NEW T, T \subseteq Nat, T # {}
  PROVE  Min(T) \in T /\ \A x \in T : Min(T) <= x
  <1>1. PICK x \in T : \A y \in T : x <= y
    BY Least
  <1> QED BY <1>1, Zenon DEF Min

Entry == [first : STRING, attr : Nat, name : STRING, cluster : Nat, size : Nat]

LEMMA SectorTypes ==
  ASSUME NEW u \in DOMAIN Disks, NEW lba
  PROVE  /\ Sector(Disks[u], lba).fat \in [0 .. (SECTOR_SIZE - 1) -> Nat]
         /\ \A k \in 1 .. Len(Sector(Disks[u], lba).dir) :
              /\ Sector(Disks[u], lba).dir[k].cluster \in Nat
              /\ Sector(Disks[u], lba).dir[k].size \in Nat
  <1>1. CASE lba \in DOMAIN Disks[u].sectors
    <2>1. /\ Sector(Disks[u], lba).fat \in [0 .. (SECTOR_SIZE - 1) -> Nat]
          /\ Sector(Disks[u], lba).dir \in Seq(Entry)
      BY <1>1, DiskTypes DEF Sector, Entry
    <2>2. \A dir \in Seq(Entry) : \A k \in 1 .. Len(dir) : dir[k] \in Entry
      OBVIOUS
    <2> QED BY <2>1, <2>2 DEF Entry
  <1>2. CASE lba \notin DOMAIN Disks[u].sectors
    <2>1. NoEntry.cluster \in Nat /\ NoEntry.size \in Nat
      BY DEF NoEntry
    <2>2. SECTOR_SIZE \div DIRENT_SIZE \in Nat
      BY SectorAssumption
    <2>3. \A k \in 1 .. Len(ZeroSector.dir) : ZeroSector.dir[k] = NoEntry
      BY <2>2 DEF ZeroSector
    <2>4. ZeroSector.fat \in [0 .. (SECTOR_SIZE - 1) -> Nat]
      BY DEF ZeroSector
    <2> QED BY <1>2, <2>1, <2>3, <2>4 DEF Sector
  <1> QED BY <1>1, <1>2

LEMMA EntryFound ==
  ASSUME NEW u \in DOMAIN Disks, NEW lba, NEW name
  PROVE  ScanSector(Disks[u], lba, name).cluster \in Nat
         /\ ScanSector(Disks[u], lba, name).size \in Nat
  <1> DEFINE dir == Sector(Disks[u], lba).dir
             stops == {k \in 1 .. Len(dir) :
                         dir[k].first = "end" \/ (Visible(dir[k]) /\ fat_name_equal(name, dir[k].name))}
  <1>1. \A k \in 1 .. Len(dir) : dir[k].cluster \in Nat /\ dir[k].size \in Nat
    BY SectorTypes
  <1>2. CASE stops = {}
    <2>1. ScanSector(Disks[u], lba, name) = NoMatch
      BY <1>2 DEF ScanSector, SelectInSeq
    <2>2. NoMatch.cluster = 0 /\ NoMatch.size = 0
      BY DEF NoMatch, NoEntry
    <2> QED BY <2>1, <2>2
  <1>3. CASE stops # {}
    <2>1. stops \subseteq Nat
      OBVIOUS
    <2>2. Min(stops) \in stops
      <3> HIDE DEF stops
      <3> QED BY <1>3, <2>1, MinIsLeast
    <2>3. ScanSector(Disks[u], lba, name) = dir[Min(stops)]
      <3>1. Min(stops) # 0
        BY <2>2
      <3> QED BY <1>3, <3>1 DEF ScanSector, SelectInSeq
    <2>4. Min(stops) \in 1 .. Len(dir)
      BY <2>2
    <2> QED BY <1>1, <2>3, <2>4
  <1> QED BY <1>2, <1>3

LEMMA NextClusterType ==
  ASSUME NEW u \in DOMAIN Disks, NEW c \in Nat
  PROVE  fat16_next_cluster(Disks[u], c) \in Nat
  <1>1. (c * 2) % SECTOR_SIZE \in 0 .. (SECTOR_SIZE - 1)
    BY SectorAssumption
  <1> QED BY <1>1, SectorTypes DEF fat16_next_cluster

LEMMA GeometryTypes ==
  ASSUME NEW u \in DOMAIN Disks
  PROVE  /\ \A c \in Nat : cluster_lba(Disks[u], c) \in Int
         /\ GeometryOK(Disks[u]) => bytes_per_cluster(Disks[u]) \in Nat \ {0}
  <1> DEFINE d == Disks[u]
  <1>1. /\ d.mbr.lba \in Nat /\ d.boot.sectors_per_cluster \in Nat
        /\ d.boot.reserved_sectors \in Nat /\ d.boot.fat_count \in Nat
        /\ d.boot.root_entries \in Nat /\ d.boot.sectors_per_fat \in Nat
    BY DiskTypes
  <1>2. GeometryOK(d) => d.boot.sectors_per_cluster # 0
    BY DEF GeometryOK, fat_detect
  <1> HIDE DEF d
  <1>3. root_sectors(d) \in Int
    BY <1>1, SectorAssumption DEF root_sectors
  <1>4. root_lba(d) \in Int
    BY <1>1 DEF root_lba, fat_lba
  <1>5. \A c \in Nat : cluster_lba(d, c) \in Int
    BY <1>1, <1>3, <1>4 DEF cluster_lba, data_lba
  <1>6. GeometryOK(d) => bytes_per_cluster(d) \in Nat \ {0}
    BY <1>1, <1>2, SectorAssumption DEF bytes_per_cluster
  <1> QED BY <1>5, <1>6 DEF d

(* init_disk() finds no FAT32.                                             *)
LEMMA FsFound == \A u \in DOMAIN Disks : FsOf(fat_detect(Disks[u])) \in {"none", "fat12", "fat16"}
  <1> TAKE u \in DOMAIN Disks
  <1>1. fat_detect(Disks[u]) # 32
    BY DiskAssumption
  <1> QED BY <1>1 DEF FsOf

-----------------------------------------------------------------------------
(* Who owns which block                                                    *)

(* With one number for each slot, one of the numbers is not in use.        *)
LEMMA NumberIsLeft ==
  ASSUME NEW fl \in [Handles -> File],
         \A k \in Handles : \A b, c \in fl[k].own : b[1] = c[1],
         NEW bl, bl = UNION {fl[k].own : k \in Handles}
  PROVE  (1 .. (MAX_OPEN_FILES + 1)) \ {b[1] : b \in bl} # {}
  <1> DEFINE Numbers == 1 .. (MAX_OPEN_FILES + 1)
             Holder == [n \in Numbers |-> CHOOSE k \in Handles : \E b \in fl[k].own : b[1] = n]
  <1> SUFFICES ASSUME Numbers \subseteq {b[1] : b \in bl}
               PROVE  FALSE
    OBVIOUS
  <1>1. \A n \in Numbers : \E k \in Handles : \E b \in fl[k].own : b[1] = n
    OBVIOUS
  <1>2. \A n \in Numbers : Holder[n] \in Handles /\ \E b \in fl[Holder[n]].own : b[1] = n
    BY <1>1
  <1>3. Holder \in [Numbers -> Handles]
    BY <1>2
  <1>4. /\ IsFiniteSet(Handles) /\ Cardinality(Handles) = MAX_OPEN_FILES
        /\ IsFiniteSet(Numbers) /\ Cardinality(Numbers) = MAX_OPEN_FILES + 1
    <2>1. MAX_OPEN_FILES \in Nat \ {0} /\ MAX_OPEN_FILES + 1 \in Int
      BY LimitAssumption
    <2>2. \A n \in Int : IsFiniteSet(1 .. n) /\ Cardinality(1 .. n) = IF 1 > n THEN 0 ELSE n - 1 + 1
      BY FS_Interval
    <2>3. IsFiniteSet(1 .. MAX_OPEN_FILES) /\ Cardinality(1 .. MAX_OPEN_FILES) = MAX_OPEN_FILES
      BY <2>1, <2>2
    <2>4. /\ IsFiniteSet(1 .. (MAX_OPEN_FILES + 1))
          /\ Cardinality(1 .. (MAX_OPEN_FILES + 1)) = MAX_OPEN_FILES + 1
      BY <2>1, <2>2
    <2> QED BY <2>3, <2>4 DEF Handles
  <1>5. Cardinality(Handles) < Cardinality(Numbers)
    BY <1>4, LimitAssumption
  <1> HIDE DEF Numbers, Holder
  <1>6. PICK m, n \in Numbers : m # n /\ Holder[m] = Holder[n]
    BY <1>3, <1>4, <1>5, FS_PigeonHole
  <1>7. PICK b \in fl[Holder[m]].own : b[1] = m
    BY <1>2, <1>6
  <1>8. PICK c \in fl[Holder[m]].own : c[1] = n
    BY <1>2, <1>6
  <1>9. Holder[m] \in Handles
    BY <1>2
  <1> QED BY <1>6, <1>7, <1>8, <1>9

(* A step that changes none of the memory                                  *)
LEMMA OwnersKept ==
  ASSUME Types, OwnersInv, Pending = {}, Pending' = {},
         files' \in [Handles -> File],
         \A k \in Handles : files'[k].own = files[k].own /\ files'[k].used = files[k].used,
         \A k \in Handles : ~files[k].used => files'[k] = files[k],
         UNCHANGED blocks, l'.own = l.own \/ l'.own = {}
  PROVE  OwnersInv'
  <1>1. (UNION {files[k].own : k \in Handles})' = UNION {files[k].own : k \in Handles}
    OBVIOUS
  <1>2. \A k \in Handles : ~files'[k].used => files'[k] = Closed
    BY DEF OwnersInv
  <1>3. IsFiniteSet({})
    BY FS_EmptySet
  <1> QED BY <1>1, <1>2, <1>3 DEF OwnersInv

(* Memory that no slot holds yet is given back.                            *)
LEMMA OwnersDropped ==
  ASSUME Types, OwnersInv, Pending = l.own, Pending' = {},
         UNCHANGED files, blocks' = blocks \ l.own, l'.own = {}
  PROVE  OwnersInv'
  <1>1. IsFiniteSet({})
    BY FS_EmptySet
  <1>2. blocks' = UNION {files[k].own : k \in Handles}
    BY DEF OwnersInv
  <1> QED BY <1>1, <1>2 DEF OwnersInv

(* A slot is given back, with its memory.                                  *)
LEMMA OwnersClosed ==
  ASSUME Types, OwnersInv, Pending = {}, Pending' = {},
         NEW h \in Handles, CloseSlot(h), blocks' = blocks \ files[h].own, l'.own = {}
  PROVE  /\ OwnersInv'
         /\ files' \in [Handles -> File]
  <1>1. Closed \in File /\ Closed.own = {} /\ ~Closed.used
    BY DEF Closed, File, Blocks
  <1>2. /\ files' \in [Handles -> File]
        /\ \A k \in Handles : files'[k] = IF k = h THEN Closed ELSE files[k]
    BY <1>1 DEF Types, CloseSlot
  <1>3. \A k \in Handles : ~files'[k].used => files'[k] = Closed
    BY <1>2 DEF OwnersInv
  <1>4. \A j, k \in Handles : j # k => files'[j].own \cap files'[k].own = {}
    BY <1>1, <1>2 DEF OwnersInv
  <1>5. blocks' = UNION {files'[k].own : k \in Handles}
    <2>1. ASSUME NEW b PROVE b \in blocks' <=> \E k \in Handles : b \in files'[k].own
      <3>1. b \in blocks' <=> (\E k \in Handles : b \in files[k].own) /\ b \notin files[h].own
        BY DEF OwnersInv
      <3>2. \A k \in Handles : k # h => (b \in files[k].own => b \notin files[h].own)
        BY DEF OwnersInv
      <3> QED BY <1>1, <1>2, <3>1, <3>2
    <2> QED BY <2>1
  <1>6. \A k \in Handles : \A b, c \in files'[k].own : b[1] = c[1]
    BY <1>1, <1>2 DEF OwnersInv
  <1>7. IsFiniteSet({})
    BY FS_EmptySet
  <1> QED BY <1>2, <1>3, <1>4, <1>5, <1>6, <1>7 DEF OwnersInv

-----------------------------------------------------------------------------
(* Steps that stay within a call, and the ways a call returns              *)

Running == {"mount", "lookup", "dirnext", "skip", "copy", "list"}

LEMMA NothingPending ==
  /\ pc \in Running \cup {"idle", "returned"} => Pending = {}
  /\ pc' \in Running \cup {"idle", "returned"} => Pending' = {}
  BY DEF Running, Pending

LEMMA NoLocalsType == NoLocals \in Locals /\ NoLocals.own = {}
  BY DEF NoLocals, Locals, Blocks

LEMMA StaysRunning ==
  ASSUME FilesInv, pc \in Running, pc' \in Running,
         UNCHANGED <<unit, fs, files, blocks, call, ret, cmd, before>>,
         l' \in Locals, l'.own = l.own, failed' \in BOOLEAN,
         call.fn = "fread" => out' \in Seq(Int \X Int),
         pc' \in {"skip", "copy"} => call.fn \in {"fread", "fat_cat"},
         pc' = "list" => call.fn = "fat_list_root",
         pc' # "mount" => GeometryOK(disk)
  PROVE  FilesInv'
  <1>1. Types'
    BY DEF FilesInv, Types, Running, Places
  <1>2. Opening' <=> Opening
    BY DEF FilesInv, PlacesInv, Opening, Running
  <1>3. PlacesInv'
    BY <1>2 DEF FilesInv, PlacesInv, Running, disk
  <1>4. OwnersInv'
    BY NothingPending, OwnersKept DEF FilesInv, Types
  <1>5. TestInv'
    BY <1>2, NothingPending DEF FilesInv, TestInv, TestHolds, Running
  <1> QED BY <1>1, <1>3, <1>4, <1>5 DEF FilesInv

(* The slots stay as they are, but for the one that the call works on.     *)
LEMMA ReturnsKept ==
  ASSUME FilesInv, pc \in Running, pc' = "returned", ret' \in Int, l' = NoLocals,
         UNCHANGED <<unit, fs, blocks, call, cmd, before>>,
         call.fn = "fread" => UNCHANGED out,
         failed' \in BOOLEAN,
         call.fn = "fopen" => ret' = call.h,
         NEW file, file \in File,
         \/ UNCHANGED files
         \/ /\ call.h \in Handles /\ files' = [files EXCEPT ![call.h] = file]
            /\ file.own = files[call.h].own /\ file.used /\ files[call.h].used
  PROVE  FilesInv'
  <1>1. files' \in [Handles -> File]
    BY DEF FilesInv, Types
  <1>2. Types'
    BY <1>1, NoLocalsType DEF FilesInv, Types, Places
  <1>3. /\ \A k \in Handles : files'[k].own = files[k].own /\ files'[k].used = files[k].used
        /\ \A k \in Handles : ~files[k].used => files'[k] = files[k]
    BY <1>1, Zenon DEF FilesInv, Types, File
  <1>4. call.fn = "fopen" => Opening
    BY DEF FilesInv, PlacesInv, Opening, Running
  <1>5. PlacesInv'
    BY <1>3, <1>4 DEF FilesInv, PlacesInv, Opening, Handles
  <1>6. OwnersInv'
    BY <1>1, <1>3, NothingPending, OwnersKept, NoLocalsType DEF FilesInv
  <1>7. TestInv'
    <2> SUFFICES ASSUME cmd = "fstest"
                 PROVE  TestInv'
      BY DEF TestInv
    <2>1. TestHolds /\ call.h \in Handles
      BY <1>4 DEF FilesInv, PlacesInv, TestHolds
    <2>2. TestHolds'
      BY <1>4, <2>1 DEF FilesInv, PlacesInv, TestHolds, Opening, Handles
    <2>3. [files' EXCEPT ![call.h] = Closed] = [files EXCEPT ![call.h] = Closed]
      BY <1>1, <2>1 DEF FilesInv, Types
    <2>4. files'[call.h].own = files[call.h].own
      BY <1>3, <2>1
    <2> QED BY <2>1, <2>2, <2>3, <2>4 DEF FilesInv, TestInv
  <1> QED BY <1>2, <1>5, <1>6, <1>7 DEF FilesInv

LEMMA Returns ==
  ASSUME FilesInv, pc \in Running, NEW value \in Int, Return(value),
         UNCHANGED <<unit, fs, files, blocks, call, cmd, before>>,
         call.fn = "fread" => UNCHANGED out,
         failed' \in BOOLEAN,
         call.fn # "fopen"
  PROVE  FilesInv'
  <1>1. Closed \in File
    BY DEF Closed, File, Blocks
  <1> QED BY <1>1, ReturnsKept DEF Return

LEMMA ReturnsError ==
  ASSUME FilesInv, pc \in Running, ReturnError,
         UNCHANGED <<unit, fs, call, out, cmd, before>>,
         failed' \in BOOLEAN
  PROVE  FilesInv'
  <1>1. CASE call.fn # "fopen"
    BY <1>1, Returns DEF ReturnError
  <1>2. CASE call.fn = "fopen"
    <2>1. /\ CloseSlot(call.h) /\ blocks' = blocks \ files[call.h].own
          /\ pc' = "returned" /\ ret' = 0 /\ l' = NoLocals
      BY <1>2 DEF ReturnError, Return
    <2>2. Opening /\ call.h \in Handles
      BY <1>2 DEF FilesInv, PlacesInv, Opening, Running
    <2>3. OwnersInv' /\ files' \in [Handles -> File]
      BY <2>1, <2>2, NothingPending, NoLocalsType, OwnersClosed DEF FilesInv
    <2>4. Types'
      BY <2>1, <2>3, <1>2, NoLocalsType DEF FilesInv, Types, Places
    <2>5. PlacesInv'
      BY <1>2, <2>1 DEF FilesInv, PlacesInv, Opening
    <2>6. TestInv'
      BY <1>2, <2>1, <2>2, NothingPending DEF FilesInv, TestInv, TestHolds, Opening, CloseSlot
    <2> QED BY <2>3, <2>4, <2>5, <2>6 DEF FilesInv
  <1> QED BY <1>1, <1>2

-----------------------------------------------------------------------------
(* fopen() gets its memory and its slot                                    *)

LEMMA FreshIsFree ==
  ASSUME Types, OwnersInv, Pending = l.own
  PROVE  /\ Fresh \in Blocks /\ Fresh[1] = FreshNumber
         /\ Fresh \notin blocks \ l.own
         /\ \A k \in Handles : Fresh \notin files[k].own
  <1> DEFINE held == UNION {files[k].own : k \in Handles}
             left == (1 .. (MAX_OPEN_FILES + 1)) \ {b[1] : b \in held}
  <1>1. blocks \ l.own = held
    BY DEF OwnersInv
  <1>2. left # {}
    BY NumberIsLeft DEF Types, OwnersInv
  <1>3. left \subseteq Nat
    OBVIOUS
  <1>4. Min(left) \in left
    <2> HIDE DEF left
    <2> QED BY <1>2, <1>3, MinIsLeast
  <1>5. FreshNumber = Min(left)
    BY <1>1 DEF FreshNumber
  <1>6. Fresh = << FreshNumber, Cardinality(l.own) >>
    BY DEF Fresh, FreshNumber
  <1>7. Cardinality(l.own) \in Nat
    BY FS_CardinalityType DEF OwnersInv
  <1>8. FreshNumber \in Nat /\ FreshNumber \notin {b[1] : b \in held}
    BY <1>3, <1>4, <1>5
  <1>9. Fresh \in Blocks /\ Fresh[1] = FreshNumber
    BY <1>6, <1>7, <1>8 DEF Blocks
  <1>10. Fresh \notin held
    BY <1>8, <1>9
  <1> QED BY <1>1, <1>9, <1>10

LEMMA AllocPartPreserves ==
  ASSUME FilesInv, AllocPart, UNCHANGED <<cmd, before>>
  PROVE  FilesInv'
  <1>1. Pending = l.own
    BY DEF AllocPart, Pending
  <1>2. PICK f : f = Fresh
    OBVIOUS
  <1>3. /\ f \in Blocks /\ f[1] = FreshNumber /\ f \notin blocks \ l.own
        /\ \A k \in Handles : f \notin files[k].own
    BY <1>1, <1>2, FreshIsFree DEF FilesInv
  <1>4. /\ blocks' = blocks \cup {f} /\ l' = [l EXCEPT !.own = @ \cup {f}]
        /\ pc' \in {"alloc", "claim"}
        /\ UNCHANGED <<unit, fs, files, call, out, ret, failed, cmd, before>>
    BY <1>2 DEF AllocPart
  <1>5. l' \in Locals /\ l'.own = l.own \cup {f}
    BY <1>3, <1>4 DEF FilesInv, Types, Locals
  <1>6. Types'
    BY <1>3, <1>4, <1>5 DEF FilesInv, Types, Places
  <1>7. call.fn = "fopen"
    BY DEF FilesInv, PlacesInv, AllocPart
  <1>8. PlacesInv'
    BY <1>4, <1>7 DEF FilesInv, PlacesInv, Opening
  <1>9. Pending' = l.own \cup {f}
    BY <1>4, <1>5 DEF Pending
  <1>10. blocks' \ l'.own = blocks \ l.own
    BY <1>3, <1>4, <1>5
  <1>11. FreshNumber' = FreshNumber
    BY <1>10 DEF FreshNumber
  <1>12. IsFiniteSet(l.own \cup {f})
    BY <1>1, FS_AddElement DEF FilesInv, OwnersInv
  <1>13. /\ \A k \in Handles : files[k].own \cap (l.own \cup {f}) = {}
         /\ blocks' = (UNION {files[k].own : k \in Handles}) \cup (l.own \cup {f})
         /\ \A b \in l.own \cup {f} : b[1] = FreshNumber
    BY <1>1, <1>3, <1>4 DEF FilesInv, OwnersInv
  <1>14. OwnersInv'
    BY <1>4, <1>5, <1>9, <1>11, <1>12, <1>13 DEF FilesInv, OwnersInv
  <1>15. TestInv'
    <2>1. ~TestHolds /\ ~TestHolds'
      BY <1>4, <1>7 DEF TestHolds, Opening, AllocPart
    <2>2. blocks' \ Pending' = blocks \ Pending
      BY <1>1, <1>5, <1>9, <1>10
    <2> QED BY <1>4, <2>1, <2>2 DEF FilesInv, TestInv
  <1> QED BY <1>6, <1>8, <1>14, <1>15 DEF FilesInv

LEMMA GivesUp ==
  ASSUME FilesInv, pc \in {"alloc", "claim"}, Return(0), blocks' = blocks \ l.own,
         UNCHANGED <<unit, fs, files, call, out, cmd, before>>, failed' \in BOOLEAN
  PROVE  FilesInv'
  <1>1. Pending = l.own /\ pc' = "returned" /\ ret' = 0 /\ l' = NoLocals
    BY DEF Pending, Return
  <1>2. call.fn = "fopen"
    BY DEF FilesInv, PlacesInv
  <1>3. Types'
    BY <1>1, NoLocalsType DEF FilesInv, Types, Places
  <1>4. PlacesInv'
    BY <1>1, <1>2 DEF FilesInv, PlacesInv, Opening
  <1>5. OwnersInv'
    BY <1>1, NothingPending, NoLocalsType, OwnersDropped DEF FilesInv
  <1>6. TestInv'
    <2>1. ~TestHolds /\ ~TestHolds'
      BY <1>1, <1>2 DEF TestHolds, Opening
    <2>2. blocks' \ Pending' = blocks \ Pending
      BY <1>1, NothingPending
    <2> QED BY <2>1, <2>2 DEF FilesInv, TestInv
  <1> QED BY <1>3, <1>4, <1>5, <1>6 DEF FilesInv

LEMMA ClaimSlotPreserves ==
  ASSUME FilesInv, ClaimSlot, UNCHANGED <<cmd, before>>
  PROVE  FilesInv'
  <1>1. Pending = l.own /\ pc = "claim" /\ pc' = "mount" /\ Pending' = {}
    BY DEF ClaimSlot, Pending
  <1>2. call.fn = "fopen"
    BY <1>1 DEF FilesInv, PlacesInv
  <1>3. PICK h : h = Min(Unused)
    OBVIOUS
  <1>4. h \in Handles /\ ~files[h].used
    <2>1. Unused \subseteq Nat /\ Unused # {}
      BY DEF Unused, Handles, ClaimSlot
    <2>2. h \in Unused
      BY <1>3, <2>1, MinIsLeast
    <2> QED BY <2>2 DEF Unused
  <1>5. call.path.parts \in Seq(DOMAIN fat_upper)
    <2>1. call.path \in Paths \cup {NoPath, TestPath}
      BY DEF FilesInv, Types, Calls
    <2>2. NoPath.parts \in Seq(DOMAIN fat_upper)
      BY DEF NoPath
    <2> QED BY <2>1, <2>2, CallersAssumption
  <1>6. PICK f : f = [used |-> TRUE, path |-> call.path.parts, own |-> l.own,
                      pointer |-> 0, size |-> 0]
    OBVIOUS
  <1>7. f \in File /\ f.own = l.own /\ f.used
    BY <1>5, <1>6 DEF File, FilesInv, Types, Locals
  <1>8. /\ files' = [files EXCEPT ![h] = f] /\ call' = [call EXCEPT !.h = h]
        /\ UNCHANGED <<unit, fs, blocks, l, out, ret, failed, cmd, before>>
    BY <1>3, <1>6 DEF ClaimSlot
  <1>9. /\ files' \in [Handles -> File]
        /\ \A k \in Handles : files'[k] = IF k = h THEN f ELSE files[k]
    BY <1>4, <1>7, <1>8 DEF FilesInv, Types
  <1>10. call' \in Calls /\ call'.h = h /\ call'.fn = "fopen"
    BY <1>2, <1>4, <1>8 DEF FilesInv, Types, Calls, Handles
  <1>11. Types'
    BY <1>1, <1>8, <1>9, <1>10 DEF FilesInv, Types, Places
  <1>12. PlacesInv'
    BY <1>1, <1>2, <1>4, <1>7, <1>8, <1>9, <1>10 DEF FilesInv, PlacesInv, Opening
  <1>13. files[h] = Closed /\ files[h].own = {}
    BY <1>4 DEF FilesInv, OwnersInv, Closed
  <1>14. OwnersInv'
    <2>1. \A k \in Handles : ~files'[k].used => files'[k] = Closed
      BY <1>7, <1>9 DEF FilesInv, OwnersInv
    <2>2. \A j, k \in Handles : j # k => files'[j].own \cap files'[k].own = {}
      BY <1>1, <1>7, <1>9 DEF FilesInv, OwnersInv
    <2>3. blocks' = UNION {files'[k].own : k \in Handles}
      <3>1. ASSUME NEW b PROVE b \in blocks' <=> \E k \in Handles : b \in files'[k].own
        <4>1. b \in blocks <=> (\E k \in Handles : b \in files[k].own) \/ b \in l.own
          BY <1>1 DEF FilesInv, OwnersInv
        <4>2. b \in blocks' <=> b \in blocks
          BY <1>8
        <4> QED BY <1>4, <1>7, <1>9, <1>13, <4>1, <4>2
      <3> QED BY <3>1
    <2>4. \A k \in Handles : \A b, c \in files'[k].own : b[1] = c[1]
      BY <1>1, <1>7, <1>9 DEF FilesInv, OwnersInv
    <2>5. IsFiniteSet({})
      BY FS_EmptySet
    <2>6. l'.own \subseteq blocks'
      BY <1>8 DEF FilesInv, OwnersInv
    <2> QED BY <1>1, <2>1, <2>2, <2>3, <2>4, <2>5, <2>6 DEF OwnersInv
  <1>15. TestInv'
    <2>1. ~TestHolds /\ TestHolds'
      BY <1>1, <1>2, <1>10 DEF TestHolds, Opening
    <2>2. [files' EXCEPT ![h] = Closed] = files
      BY <1>4, <1>8, <1>9, <1>13 DEF FilesInv, Types
    <2>3. blocks' \ files'[h].own = blocks \ Pending
      BY <1>1, <1>4, <1>7, <1>8, <1>9
    <2> QED BY <1>8, <1>10, <2>1, <2>2, <2>3 DEF FilesInv, TestInv
  <1> QED BY <1>11, <1>12, <1>14, <1>15 DEF FilesInv

-----------------------------------------------------------------------------
(* The steps of the call that runs                                         *)

LEMMA MountPreserves ==
  ASSUME FilesInv, Mount \/ MountFails, UNCHANGED <<cmd, before>>
  PROVE  FilesInv'
  <1>1. CASE Mount
    <2>1. /\ pc \in Running /\ pc' \in {"lookup", "list"}
          /\ pc' = "list" => call.fn = "fat_list_root"
          /\ GeometryOK(disk)
          /\ UNCHANGED <<unit, fs, files, blocks, call, l, out, ret, failed>>
      BY <1>1 DEF Mount, CanMount, Running
    <2>2. pc' \in Running /\ pc' \notin {"skip", "copy"}
      BY <2>1 DEF Running
    <2> QED BY <2>1, <2>2, StaysRunning DEF FilesInv, Types
  <1>2. CASE MountFails
    <2>1. pc \in Running /\ failed' \in BOOLEAN
      BY <1>2 DEF MountFails, Running, FilesInv, Types
    <2> QED BY <1>2, <2>1, ReturnsError DEF MountFails
  <1> QED BY <1>1, <1>2

LEMMA GoOnPreserves ==
  ASSUME FilesInv, pc = "lookup", GoOn,
         UNCHANGED <<unit, fs, call, out, failed, cmd, before>>
  PROVE  FilesInv'
  <1>1. pc \in Running /\ GeometryOK(disk) /\ failed \in BOOLEAN /\ l \in Locals
        /\ (call.fn = "fread" => out \in Seq(Int \X Int))
    BY DEF FilesInv, PlacesInv, Types, Running
  <1>2. CASE l' = [l EXCEPT !.s = @ + 1] /\ UNCHANGED <<pc, ret, files, blocks>>
    <2>1. l' \in Locals /\ l'.own = l.own
      BY <1>1, <1>2 DEF Locals
    <2> QED BY <1>1, <1>2, <2>1, StaysRunning
  <1>3. CASE ReturnError
    BY <1>1, <1>3, ReturnsError
  <1>4. CASE pc' = "dirnext" /\ UNCHANGED <<l, ret, files, blocks>>
    <2>1. pc' \in Running
      BY <1>4 DEF Running
    <2> QED BY <1>1, <1>4, <2>1, StaysRunning
  <1> QED BY <1>2, <1>3, <1>4 DEF GoOn

LEMMA FoundPreserves ==
  ASSUME FilesInv, pc = "lookup",
         NEW e, e.cluster \in Nat, e.size \in Nat, Found(e),
         UNCHANGED <<unit, fs, call, out, failed, cmd, before>>
  PROVE  FilesInv'
  <1>1. pc \in Running /\ GeometryOK(disk) /\ failed \in BOOLEAN /\ l \in Locals
        /\ (call.fn = "fread" => out \in Seq(Int \X Int)) /\ UNCHANGED blocks
    BY DEF FilesInv, PlacesInv, Types, Running, Found
  <1>2. CASE call.fn = "fopen" /\ OpenFound(e)
    <2>1. call.h \in Handles /\ files[call.h].used /\ files[call.h] \in File
      BY <1>2 DEF FilesInv, PlacesInv, Opening, Types
    <2>2. PICK file : file = [files[call.h] EXCEPT !.size = e.size]
      OBVIOUS
    <2>3. file \in File /\ file.own = files[call.h].own /\ file.used
      BY <2>1, <2>2 DEF File
    <2>4. files' = [files EXCEPT ![call.h] = file]
      BY <1>2, <2>1, <2>2 DEF OpenFound, FilesInv, Types
    <2>5. pc' = "returned" /\ ret' = call.h /\ l' = NoLocals /\ ret' \in Int
      BY <1>2, <2>1 DEF OpenFound, Return, Handles
    <2> QED BY <1>1, <1>2, <2>1, <2>3, <2>4, <2>5, ReturnsKept
  <1>3. CASE call.fn = "fread" /\ ReadFound(e)
    <2>1. call.h \in Handles /\ files[call.h].pointer \in Nat /\ UNCHANGED files
      BY <1>3 DEF FilesInv, PlacesInv, Types, File, ReadFound
    <2>2. CASE e.cluster < 2
      BY <1>1, <1>3, <2>1, <2>2, Returns DEF ReadFound
    <2>3. CASE e.cluster >= 2
      <3>1. PICK pos, bpc : pos = files[call.h].pointer /\ bpc = bytes_per_cluster(disk)
        OBVIOUS
      <3>2. /\ l' = [l EXCEPT !.cluster = e.cluster, !.s = 0, !.skip = pos \div bpc,
                              !.offset = pos % bpc, !.remaining = call.want]
            /\ pc' = "skip" /\ UNCHANGED ret
        BY <1>3, <2>3, <3>1 DEF ReadFound
      <3>3. bpc \in Nat \ {0}
        BY <1>1, <3>1, GeometryTypes DEF disk, FilesInv, Types
      <3>4. pos \div bpc \in Nat /\ pos % bpc \in Nat
        BY <2>1, <3>1, <3>3
      <3>5. call.want \in Nat
        <4>1. PICK want : want = call.want
          OBVIOUS
        <4>2. want \in ReadSizes \cup {0, TestSize}
          BY <4>1 DEF FilesInv, Types, Calls
        <4>3. want \in Nat
          BY <4>2, CallersAssumption
        <4> QED BY <4>1, <4>3
      <3>6. l' \in Locals /\ l'.own = l.own
        BY <1>1, <3>2, <3>4, <3>5 DEF Locals
      <3>7. pc' \in Running
        BY <3>2 DEF Running
      <3> QED BY <1>1, <1>3, <2>1, <3>2, <3>6, <3>7, StaysRunning
    <2> QED BY <2>2, <2>3
  <1>4. CASE call.fn = "fat_cat" /\ CatFound(e)
    <2>1. UNCHANGED files
      BY <1>4 DEF CatFound
    <2>2. CASE Return(1) \/ Return(0)
      BY <1>1, <1>4, <2>1, <2>2, Returns
    <2>3. CASE /\ l' = [l EXCEPT !.cluster = e.cluster, !.s = 0, !.remaining = e.size]
               /\ pc' = "copy" /\ UNCHANGED ret
      <3>1. l' \in Locals /\ l'.own = l.own
        BY <1>1, <2>3 DEF Locals
      <3>2. pc' \in Running
        BY <2>3 DEF Running
      <3> QED BY <1>1, <1>4, <2>1, <2>3, <3>1, <3>2, StaysRunning
    <2> QED BY <1>4, <2>2, <2>3 DEF CatFound
  <1> QED BY <1>2, <1>3, <1>4 DEF Found

LEMMA LookupPreserves ==
  ASSUME FilesInv, LookupSector \/ LookupFails, UNCHANGED <<cmd, before>>
  PROVE  FilesInv'
  <1>1. pc = "lookup" /\ pc \in Running /\ UNCHANGED <<unit, fs, call, out, cmd, before>>
    BY DEF LookupSector, LookupFails, Running
  <1>2. GeometryOK(disk) /\ failed \in BOOLEAN /\ l \in Locals
        /\ (call.fn = "fread" => out \in Seq(Int \X Int))
    BY <1>1 DEF FilesInv, PlacesInv, Types
  <1>3. CASE LookupFails
    BY <1>1, <1>2, <1>3, ReturnsError DEF LookupFails
  <1>4. CASE LookupSector
    <2>1. PICK e : e = ScanSector(disk, LookupLba, Parts[l.level])
      OBVIOUS
    <2>2. e.cluster \in Nat /\ e.size \in Nat
      BY <2>1, EntryFound DEF FilesInv, Types, disk
    <2>3. (GoOn \/ ReturnError \/ TakeEntry(e)) /\ UNCHANGED failed
      BY <1>4, <2>1 DEF LookupSector
    <2>4. CASE GoOn
      BY <1>1, <2>3, <2>4, GoOnPreserves
    <2>5. CASE ReturnError
      BY <1>1, <1>2, <2>3, <2>5, ReturnsError
    <2>6. CASE Found(e)
      BY <1>1, <2>2, <2>3, <2>6, FoundPreserves
    <2>7. CASE Descend(e)
      <3>1. /\ l' = [l EXCEPT !.level = @ + 1, !.root = FALSE, !.cluster = e.cluster, !.s = 0]
            /\ UNCHANGED <<pc, ret, files, blocks>>
        BY <2>7 DEF Descend
      <3>2. l.level \in Nat
        BY <1>2 DEF Locals
      <3>3. PICK level \in Nat : level = l.level + 1
        BY <3>2
      <3>4. l' = [l EXCEPT !.level = level, !.root = FALSE, !.cluster = e.cluster, !.s = 0]
        BY <3>1, <3>3
      <3>5. l' \in Locals /\ l'.own = l.own
        BY <1>2, <2>2, <3>4 DEF Locals
      <3> QED BY <1>1, <1>2, <2>3, <3>1, <3>5, StaysRunning
    <2> QED BY <2>3, <2>4, <2>5, <2>6, <2>7 DEF TakeEntry
  <1> QED BY <1>3, <1>4

LEMMA NextType ==
  ASSUME FilesInv, NEW next \in NextClusters, ReadNext(next)
  PROVE  next \in Nat /\ failed' \in BOOLEAN
  <1>1. fat16_next_cluster(disk, l.cluster) \in Nat
    BY NextClusterType DEF FilesInv, Types, Locals, disk
  <1>2. next \in Nat
    BY <1>1 DEF NextClusters, DISK_ERROR
  <1>3. failed' = failed \/ failed' = TRUE
    BY DEF ReadNext
  <1>4. failed \in BOOLEAN
    BY DEF FilesInv, Types
  <1>5. failed' \in BOOLEAN
    BY <1>3, <1>4
  <1> QED BY <1>2, <1>5

LEMMA DirNextPreserves ==
  ASSUME FilesInv, DirNext, UNCHANGED <<cmd, before>>
  PROVE  FilesInv'
  <1>1. pc = "dirnext" /\ pc \in Running /\ UNCHANGED <<unit, fs, call, out, cmd, before>>
    BY DEF DirNext, Running
  <1>2. GeometryOK(disk) /\ l \in Locals /\ (call.fn = "fread" => out \in Seq(Int \X Int))
    BY <1>1 DEF FilesInv, PlacesInv, Types
  <1>3. PICK next \in NextClusters :
          /\ ReadNext(next)
          /\ \/ ReturnError
             \/ /\ l' = [l EXCEPT !.cluster = next, !.s = 0]
                /\ pc' = "lookup"
                /\ UNCHANGED <<ret, files, blocks>>
    BY DEF DirNext
  <1>4. next \in Nat /\ failed' \in BOOLEAN
    BY <1>3, NextType
  <1>5. CASE ReturnError
    BY <1>1, <1>4, <1>5, ReturnsError
  <1>6. CASE /\ l' = [l EXCEPT !.cluster = next, !.s = 0]
             /\ pc' = "lookup"
             /\ UNCHANGED <<ret, files, blocks>>
    <2>1. l' \in Locals /\ l'.own = l.own
      BY <1>2, <1>4, <1>6 DEF Locals
    <2>2. pc' \in Running
      BY <1>6 DEF Running
    <2> QED BY <1>1, <1>2, <1>4, <1>6, <2>1, <2>2, StaysRunning
  <1> QED BY <1>3, <1>5, <1>6

LEMMA SkipPreserves ==
  ASSUME FilesInv, SkipCluster \/ SkipDone, UNCHANGED <<cmd, before>>
  PROVE  FilesInv'
  <1>1. /\ pc = "skip" /\ pc \in Running
        /\ UNCHANGED <<unit, fs, files, blocks, call, out, cmd, before>>
    BY DEF SkipCluster, SkipDone, Running
  <1>2. /\ GeometryOK(disk) /\ failed \in BOOLEAN /\ l \in Locals
        /\ call.fn = "fread" => out \in Seq(Int \X Int)
        /\ call.fn \in {"fread", "fat_cat"}
    BY <1>1 DEF FilesInv, PlacesInv, Types
  <1>3. CASE SkipDone
    <2>1. pc' = "copy" /\ pc' \in Running /\ UNCHANGED <<l, ret, failed>>
      BY <1>3 DEF SkipDone, Running
    <2> QED BY <1>1, <1>2, <2>1, StaysRunning
  <1>4. CASE SkipCluster
    <2>1. PICK next \in NextClusters :
            /\ ReadNext(next)
            /\ \/ l' = [l EXCEPT !.cluster = next, !.skip = @ - 1] /\ UNCHANGED <<pc, ret>>
               \/ Return(0)
      BY <1>4 DEF SkipCluster
    <2>2. next \in Nat /\ failed' \in BOOLEAN
      BY <2>1, NextType
    <2>3. CASE Return(0)
      BY <1>1, <1>2, <2>2, <2>3, Returns
    <2>4. CASE l' = [l EXCEPT !.cluster = next, !.skip = @ - 1] /\ UNCHANGED <<pc, ret>>
      <3>1. l.skip \in Nat /\ l.skip > 0
        BY <1>2, <1>4 DEF Locals, SkipCluster
      <3>2. PICK skip \in Nat : skip = l.skip - 1
        BY <3>1
      <3>3. l' = [l EXCEPT !.cluster = next, !.skip = skip]
        BY <2>4, <3>2
      <3>4. l' \in Locals /\ l'.own = l.own
        BY <1>2, <2>2, <3>3 DEF Locals
      <3> QED BY <1>1, <1>2, <2>2, <2>4, <3>4, StaysRunning
    <2> QED BY <2>1, <2>3, <2>4
  <1> QED BY <1>3, <1>4

LEMMA BytesAreBytes ==
  ASSUME NEW lba \in Int, NEW from \in Int, NEW n \in Nat
  PROVE  BytesOf(lba, from, n) \in Seq(Int \X Int)
  BY DEF BytesOf

LEMMA CopySectorPreserves ==
  ASSUME FilesInv, CopySector, UNCHANGED <<cmd, before>>
  PROVE  FilesInv'
  <1>1. /\ pc = "copy" /\ pc \in Running /\ pc' = pc
        /\ UNCHANGED <<unit, fs, files, blocks, call, ret, failed, cmd, before>>
        /\ l.remaining > 0
    BY DEF CopySector, MoreInCluster, Running
  <1>2. /\ GeometryOK(disk) /\ failed \in BOOLEAN /\ l \in Locals
        /\ call.fn = "fread" => out \in Seq(Int \X Int)
        /\ call.fn \in {"fread", "fat_cat"}
    BY <1>1 DEF FilesInv, PlacesInv, Types
  <1>3. /\ l.s \in Nat /\ l.offset \in Nat /\ l.remaining \in Nat /\ l.cluster \in Nat
    BY <1>2 DEF Locals
  <1>4. PICK from \in Int : from = sector_offset
    BY <1>3, SectorAssumption DEF sector_offset
  <1>5. PICK s \in Nat : s = l.s + 1
    BY <1>3
  <1>6. CASE from >= SECTOR_SIZE
    <2>1. l' = [l EXCEPT !.s = s] /\ UNCHANGED out
      BY <1>4, <1>5, <1>6 DEF CopySector
    <2>2. l' \in Locals /\ l'.own = l.own
      BY <1>2, <2>1 DEF Locals
    <2> QED BY <1>1, <1>2, <2>1, <2>2, StaysRunning
  <1>7. CASE ~(from >= SECTOR_SIZE)
    <2>1. SECTOR_SIZE - from \in Nat
      BY <1>7, SectorAssumption
    <2>2. PICK n : n = Min({SECTOR_SIZE - from, l.remaining})
      OBVIOUS
    <2>3. n \in Nat /\ n <= l.remaining
      <3>1. {SECTOR_SIZE - from, l.remaining} \subseteq Nat
        BY <1>3, <2>1
      <3>2. /\ n \in {SECTOR_SIZE - from, l.remaining}
            /\ \A x \in {SECTOR_SIZE - from, l.remaining} : n <= x
        BY <2>2, <3>1, MinIsLeast
      <3> QED BY <3>1, <3>2
    <2>4. PICK lba \in Int : lba = cluster_lba(disk, l.cluster) + l.s
      BY <1>3, GeometryTypes DEF FilesInv, Types, disk
    <2>5. PICK remaining \in Nat : remaining = l.remaining - n
      BY <1>3, <2>3
    <2>6. /\ out' = out \o Delivered(BytesOf(lba, from, n))
          /\ l' = [l EXCEPT !.s = s, !.remaining = remaining, !.offset = 0]
      BY <1>4, <1>5, <1>7, <2>2, <2>4, <2>5 DEF CopySector
    <2>7. l' \in Locals /\ l'.own = l.own
      BY <1>2, <2>6 DEF Locals
    <2>8. call.fn = "fread" => out' \in Seq(Int \X Int)
      <3>1. BytesOf(lba, from, n) \in Seq(Int \X Int)
        BY <2>3, BytesAreBytes
      <3>2. \A a, b \in Seq(Int \X Int) : a \o b \in Seq(Int \X Int)
        OBVIOUS
      <3>3. call.fn = "fread" => out' = out \o BytesOf(lba, from, n)
        BY <2>6 DEF Delivered
      <3> QED BY <1>2, <3>1, <3>2, <3>3
    <2> QED BY <1>1, <1>2, <2>7, <2>8, StaysRunning
  <1> QED BY <1>6, <1>7

LEMMA OutLength ==
  ASSUME FilesInv, call.fn = "fread"
  PROVE  Len(out) \in Nat
  <1>1. out \in Seq(Int \X Int)
    BY DEF FilesInv, Types
  <1> QED BY <1>1

LEMMA FinishPreserves ==
  ASSUME FilesInv, pc = "copy", Finish,
         UNCHANGED <<unit, fs, call, out, cmd, before>>, failed' \in BOOLEAN
  PROVE  FilesInv'
  <1>1. /\ pc \in Running /\ call.fn \in {"fread", "fat_cat"} /\ UNCHANGED blocks
    BY DEF FilesInv, PlacesInv, Running, Finish
  <1>2. CASE call.fn = "fread"
    <2>1. call.h \in Handles /\ files[call.h].used /\ files[call.h] \in File
      BY <1>2 DEF FilesInv, PlacesInv, Types
    <2>2. PICK n \in Nat : n = Len(out)
      BY <1>2, OutLength
    <2>3. files[call.h].pointer \in Nat
      BY <2>1 DEF File
    <2>4. PICK pointer \in Nat : pointer = files[call.h].pointer + n
      BY <2>3
    <2>5. PICK file : file = [files[call.h] EXCEPT !.pointer = pointer]
      OBVIOUS
    <2>6. file \in File /\ file.own = files[call.h].own /\ file.used
      BY <2>1, <2>5 DEF File
    <2>7. files' = [files EXCEPT ![call.h] = file]
      <3>1. files' = [files EXCEPT ![call.h].pointer = files[call.h].pointer + n]
        BY <1>2, <2>1, <2>2 DEF Finish, ReadEnds, FilesInv, Types
      <3> QED BY <2>1, <2>4, <2>5, <3>1 DEF FilesInv, Types
    <2>8. pc' = "returned" /\ ret' \in Int /\ l' = NoLocals
      BY <1>2, <2>2 DEF Finish, ReadEnds, Return
    <2> QED BY <1>1, <1>2, <2>1, <2>6, <2>7, <2>8, ReturnsKept
  <1>3. CASE call.fn # "fread"
    <2>1. (Return(1) \/ Return(0)) /\ UNCHANGED files
      BY <1>3 DEF Finish, CatEnds
    <2> QED BY <1>1, <1>3, <2>1, Returns
  <1> QED BY <1>2, <1>3

LEMMA CopyEndsPreserve ==
  ASSUME FilesInv, CopyFails \/ CopyDone \/ CopyNext, UNCHANGED <<cmd, before>>
  PROVE  FilesInv'
  <1>1. pc = "copy" /\ pc \in Running /\ UNCHANGED <<unit, fs, call, out, cmd, before>>
    BY DEF CopyFails, CopyDone, CopyNext, Running
  <1>2. /\ GeometryOK(disk) /\ failed \in BOOLEAN /\ l \in Locals
        /\ call.fn = "fread" => out \in Seq(Int \X Int)
        /\ call.fn \in {"fread", "fat_cat"}
    BY <1>1 DEF FilesInv, PlacesInv, Types
  <1>3. CASE CopyFails
    <2>1. PICK value : value = IF call.fn = "fread" THEN Len(out) ELSE 0
      OBVIOUS
    <2>2. value \in Int
      BY <2>1, OutLength
    <2>3. Return(value) /\ failed' \in BOOLEAN /\ UNCHANGED <<files, blocks>>
      BY <1>3, <2>1 DEF CopyFails
    <2> QED BY <1>1, <1>2, <2>2, <2>3, Returns
  <1>4. CASE CopyDone
    BY <1>1, <1>2, <1>4, FinishPreserves DEF CopyDone
  <1>5. CASE CopyNext
    <2>1. PICK next \in NextClusters :
            /\ ReadNext(next)
            /\ \/ /\ l' = [l EXCEPT !.cluster = next, !.s = 0, !.offset = 0]
                  /\ UNCHANGED <<pc, ret, files, blocks>>
               \/ Finish
      BY <1>5 DEF CopyNext
    <2>2. next \in Nat /\ failed' \in BOOLEAN
      BY <2>1, NextType
    <2>3. CASE /\ l' = [l EXCEPT !.cluster = next, !.s = 0, !.offset = 0]
               /\ UNCHANGED <<pc, ret, files, blocks>>
      <3>1. l' \in Locals /\ l'.own = l.own
        BY <1>2, <2>2, <2>3 DEF Locals
      <3> QED BY <1>1, <1>2, <2>2, <2>3, <3>1, StaysRunning
    <2>4. CASE Finish
      BY <1>1, <2>2, <2>4, FinishPreserves
    <2> QED BY <2>1, <2>3, <2>4
  <1> QED BY <1>3, <1>4, <1>5

LEMMA ListPreserves ==
  ASSUME FilesInv, ListSector \/ ListFails, UNCHANGED <<cmd, before>>
  PROVE  FilesInv'
  <1>1. /\ pc = "list" /\ pc \in Running
        /\ UNCHANGED <<unit, fs, files, blocks, call, cmd, before>>
        /\ failed' = failed \/ failed' = TRUE
    BY DEF ListSector, ListFails, Running
  <1>2. /\ GeometryOK(disk) /\ l \in Locals /\ call.fn = "fat_list_root"
    BY <1>1 DEF FilesInv, PlacesInv, Types
  <1>3. failed' \in BOOLEAN
    <2>1. failed \in BOOLEAN
      BY DEF FilesInv, Types
    <2> QED BY <1>1, <2>1
  <1>4. \/ Return(0) \/ Return(1)
        \/ l' = [l EXCEPT !.s = @ + 1] /\ UNCHANGED <<pc, ret>>
    BY DEF ListSector, ListFails
  <1>5. CASE Return(0) \/ Return(1)
    BY <1>1, <1>2, <1>3, <1>5, Returns
  <1>6. CASE l' = [l EXCEPT !.s = @ + 1] /\ UNCHANGED <<pc, ret>>
    <2>1. l' \in Locals /\ l'.own = l.own
      BY <1>2, <1>6 DEF Locals
    <2> QED BY <1>1, <1>2, <1>3, <1>6, <2>1, StaysRunning
  <1> QED BY <1>4, <1>5, <1>6

LEMMA StepPreserves ==
  ASSUME FilesInv, step, UNCHANGED <<cmd, before>>
  PROVE  FilesInv'
  <1>1. CASE AllocPart
    BY <1>1, AllocPartPreserves
  <1>2. CASE AllocFails
    BY <1>2, GivesUp DEF AllocFails
  <1>3. CASE ClaimSlot
    BY <1>3, ClaimSlotPreserves
  <1>4. CASE NoSlot
    <2>1. failed' \in BOOLEAN
      BY <1>4 DEF NoSlot, FilesInv, Types
    <2> QED BY <1>4, <2>1, GivesUp DEF NoSlot
  <1>5. CASE Mount \/ MountFails
    BY <1>5, MountPreserves
  <1>6. CASE LookupSector \/ LookupFails
    BY <1>6, LookupPreserves
  <1>7. CASE DirNext
    BY <1>7, DirNextPreserves
  <1>8. CASE SkipCluster \/ SkipDone
    BY <1>8, SkipPreserves
  <1>9. CASE CopySector
    BY <1>9, CopySectorPreserves
  <1>10. CASE CopyFails \/ CopyDone \/ CopyNext
    BY <1>10, CopyEndsPreserve
  <1>11. CASE ListSector \/ ListFails
    BY <1>11, ListPreserves
  <1> QED BY <1>1, <1>2, <1>3, <1>4, <1>5, <1>6, <1>7, <1>8, <1>9, <1>10, <1>11 DEF step

-----------------------------------------------------------------------------
(* Calls begin                                                             *)

LEMMA BeginTypes ==
  ASSUME FilesInv, NEW fn \in Names, NEW k \in 0 .. MAX_OPEN_FILES,
         NEW p \in Paths \cup {NoPath, TestPath},
         NEW n \in ReadSizes \cup {0, TestSize}, Begin(fn, k, p, n)
  PROVE  /\ call' \in Calls /\ call'.fn = fn /\ call'.h = k
         /\ l' \in Locals /\ l'.own = {} /\ out' = << >> /\ failed' \in BOOLEAN
         /\ Pending = {} /\ Pending' = {}
         /\ pc = "idle" \/ pc = "returned"
  <1>1. PICK start \in Nat : start = IF k = 0 THEN 0 ELSE files[k].pointer
    <2>1. k # 0 => files[k] \in File
      BY DEF FilesInv, Types, Handles
    <2> QED BY <2>1 DEF File
  <1>2. call' = [fn |-> fn, h |-> k, path |-> p, want |-> n, start |-> start]
    BY <1>1 DEF Begin
  <1>3. call' \in Calls /\ call'.fn = fn /\ call'.h = k
    BY <1>2 DEF Calls
  <1>4. l' = NoLocals /\ out' = << >> /\ failed' = FALSE
        /\ (pc = "idle" \/ pc = "returned")
    BY DEF Begin
  <1>5. Pending = {} /\ Pending' = {}
    BY <1>4, NoLocalsType DEF Pending
  <1> QED BY <1>3, <1>4, <1>5, NoLocalsType

(* A call begins that leaves the memory as it is.                          *)
LEMMA CallBegins ==
  ASSUME FilesInv, NEW fn \in Names, NEW k \in 0 .. MAX_OPEN_FILES,
         NEW p \in Paths \cup {NoPath, TestPath},
         NEW n \in ReadSizes \cup {0, TestSize}, Begin(fn, k, p, n),
         UNCHANGED <<unit, blocks>>, fs' \in {"unset", "none", "fat12", "fat16"},
         ret' \in Int, fn = "fopen" => ret' = 0,
         \/ pc' = "returned"
         \/ pc' = "alloc" /\ fn = "fopen"
         \/ pc' = "mount" /\ fn # "fopen",
         fn = "fread" => k \in Handles /\ files[k].used,
         \/ cmd' = "none"
         \/ cmd' = "fstest" /\ fn \in {"fopen", "fread"},
         NEW file, file \in File,
         \/ UNCHANGED files
         \/ /\ k \in Handles /\ files' = [files EXCEPT ![k] = file]
            /\ file.own = files[k].own /\ file.used /\ files[k].used
  PROVE  Types' /\ PlacesInv' /\ OwnersInv'
  <1>1. /\ call' \in Calls /\ call'.fn = fn /\ call'.h = k
        /\ l' \in Locals /\ l'.own = {} /\ out' = << >> /\ failed' \in BOOLEAN
        /\ Pending = {} /\ Pending' = {}
    BY BeginTypes
  <1>2. files' \in [Handles -> File]
    BY DEF FilesInv, Types
  <1>3. /\ \A j \in Handles : files'[j].own = files[j].own /\ files'[j].used = files[j].used
        /\ \A j \in Handles : ~files[j].used => files'[j] = files[j]
    BY <1>2, Zenon DEF FilesInv, Types, File
  <1>4. out' \in Seq(Int \X Int)
    BY <1>1
  <1>5. pc' \in {"returned", "alloc", "mount"} /\ cmd' \in {"none", "fstest"}
    OBVIOUS
  <1>6. Types'
    BY <1>1, <1>2, <1>4, <1>5 DEF FilesInv, Types, Places
  <1>7. PlacesInv'
    BY <1>1, <1>3, <1>5 DEF FilesInv, PlacesInv, Opening
  <1>8. OwnersInv'
    BY <1>1, <1>2, <1>3, OwnersKept DEF FilesInv
  <1> QED BY <1>6, <1>7, <1>8

LEMMA TestNotRunning == cmd' = "none" => TestInv'
  BY DEF TestInv

LEMMA NoArguments ==
  /\ 0 \in 0 .. MAX_OPEN_FILES
  /\ \A k \in Handles : k \in 0 .. MAX_OPEN_FILES
  /\ \E file : file \in File
  <1>1. Closed \in File
    BY DEF Closed, File, Blocks
  <1> QED BY <1>1, LimitAssumption DEF Handles

LEMMA FopenBegins ==
  ASSUME FilesInv, NEW p \in Paths \cup {TestPath}, fopen(p),
         cmd' \in {"none", "fstest"}
  PROVE  Types' /\ PlacesInv' /\ OwnersInv'
  <1>1. PICK file : file \in File
    BY NoArguments
  <1>2. "fopen" \in Names /\ 0 \in ReadSizes \cup {0, TestSize}
    BY DEF Names
  <1>3. /\ Begin("fopen", 0, p, 0) /\ ret' = 0 /\ pc' \in {"returned", "alloc"}
        /\ UNCHANGED <<unit, fs, files, blocks>>
    BY DEF fopen
  <1>4. fs' \in {"unset", "none", "fat12", "fat16"}
    BY <1>3 DEF FilesInv, Types
  <1> QED BY <1>1, <1>2, <1>3, <1>4, NoArguments, CallBegins

LEMMA FreadBegins ==
  ASSUME FilesInv, NEW k \in Handles, NEW n \in ReadSizes \cup {TestSize}, fread(k, n),
         cmd' \in {"none", "fstest"}
  PROVE  Types' /\ PlacesInv' /\ OwnersInv'
  <1>1. PICK file : file \in File
    BY NoArguments
  <1>2. "fread" \in Names /\ NoPath \in Paths \cup {NoPath, TestPath}
    BY DEF Names
  <1>3. /\ Begin("fread", k, NoPath, n) /\ ret' = 0 /\ pc' \in {"returned", "mount"}
        /\ files[k].used
        /\ UNCHANGED <<unit, fs, files, blocks>>
    BY DEF fread
  <1>4. fs' \in {"unset", "none", "fat12", "fat16"}
    BY <1>3 DEF FilesInv, Types
  <1> QED BY <1>1, <1>2, <1>3, <1>4, NoArguments, CallBegins

LEMMA FcloseBegins ==
  ASSUME FilesInv, NEW k \in Handles, fclose(k), cmd' = "none"
  PROVE  FilesInv'
  <1>1. "fclose" \in Names /\ NoPath \in Paths \cup {NoPath, TestPath}
        /\ 0 \in ReadSizes \cup {0, TestSize}
    BY DEF Names
  <1>2. /\ Begin("fclose", k, NoPath, 0) /\ ret' = 0 /\ pc' = "returned"
        /\ CloseSlot(k) /\ blocks' = blocks \ files[k].own
        /\ UNCHANGED <<unit, fs>>
    BY DEF fclose
  <1>3. /\ call' \in Calls /\ call'.fn = "fclose"
        /\ l' \in Locals /\ l'.own = {} /\ failed' \in BOOLEAN
        /\ Pending = {} /\ Pending' = {}
    BY <1>1, <1>2, NoArguments, BeginTypes
  <1>4. OwnersInv' /\ files' \in [Handles -> File]
    BY <1>2, <1>3, OwnersClosed DEF FilesInv
  <1>5. Types'
    BY <1>2, <1>3, <1>4 DEF FilesInv, Types, Places
  <1>6. PlacesInv'
    BY <1>2, <1>3 DEF FilesInv, PlacesInv, Opening
  <1> QED BY <1>4, <1>5, <1>6, TestNotRunning DEF FilesInv

LEMMA SeekTypes ==
  ASSUME NEW f \in File, NEW o \in Int, NEW whence \in {"SEEK_SET", "SEEK_CUR", "SEEK_END"}
  PROVE  SeekTarget(f, o, whence) \in Nat \cup {-1}
  BY DEF SeekTarget, File

(* fseek() and rewind()                                                    *)
LEMMA SeeksBegin ==
  ASSUME FilesInv, NEW k \in Handles,
         \/ rewind(k)
         \/ \E o \in Offsets, w \in {"SEEK_SET", "SEEK_CUR", "SEEK_END"} : fseek(k, o, w),
         cmd' = "none"
  PROVE  FilesInv'
  <1>1. PICK fn \in {"rewind", "fseek"} : Begin(fn, k, NoPath, 0)
    BY DEF rewind, fseek
  <1>2. fn \in Names /\ NoPath \in Paths \cup {NoPath, TestPath}
        /\ 0 \in ReadSizes \cup {0, TestSize}
    BY DEF Names
  <1>3. files[k] \in File
    BY DEF FilesInv, Types
  <1>4. /\ pc' = "returned" /\ UNCHANGED <<unit, fs, blocks>> /\ files[k].used
        /\ ret' \in Int
        /\ \/ UNCHANGED files
           \/ \E target \in Nat : files' = [files EXCEPT ![k].pointer = target]
    <2>1. CASE rewind(k)
      <3>1. /\ files' = [files EXCEPT ![k].pointer = 0] /\ ret' = 0
            /\ pc' = "returned" /\ UNCHANGED <<unit, fs, blocks>> /\ files[k].used
        BY <2>1 DEF rewind
      <3>2. \E target \in Nat : files' = [files EXCEPT ![k].pointer = target]
        BY <3>1, Zenon
      <3>3. ret' \in Int
        BY <3>1
      <3> QED BY <3>1, <3>2, <3>3
    <2>2. CASE \E o \in Offsets, w \in {"SEEK_SET", "SEEK_CUR", "SEEK_END"} : fseek(k, o, w)
      <3>1. PICK o \in Offsets, w \in {"SEEK_SET", "SEEK_CUR", "SEEK_END"} : fseek(k, o, w)
        BY <2>2
      <3>2. PICK target : target = SeekTarget(files[k], o, w)
        OBVIOUS
      <3>3. target \in Nat \cup {-1}
        BY <1>3, <3>2, SeekTypes, CallersAssumption
      <3>4. /\ files' = IF target = -1 THEN files ELSE [files EXCEPT ![k].pointer = target]
            /\ ret' = IF target = -1 THEN -2 ELSE IF w = "SEEK_END" THEN -1 ELSE 0
            /\ pc' = "returned" /\ UNCHANGED <<unit, fs, blocks>> /\ files[k].used
        BY <3>1, <3>2 DEF fseek
      <3>5. CASE target = -1
        BY <3>4, <3>5
      <3>6. CASE target # -1
        <4>1. files' = [files EXCEPT ![k].pointer = target] /\ target \in Nat
          BY <3>3, <3>4, <3>6
        <4>2. \E t \in Nat : files' = [files EXCEPT ![k].pointer = t]
          BY <4>1, Zenon
        <4>3. ret' \in Int
          BY <3>4, <3>6
        <4> QED BY <3>4, <4>2, <4>3
      <3> QED BY <3>5, <3>6
    <2> QED BY <2>1, <2>2
  <1>5. \E file \in File :
          \/ UNCHANGED files
          \/ /\ files' = [files EXCEPT ![k] = file]
             /\ file.own = files[k].own /\ file.used
    <2>1. CASE UNCHANGED files
      BY <1>3, <2>1
    <2>2. CASE \E target \in Nat : files' = [files EXCEPT ![k].pointer = target]
      <3>1. PICK target \in Nat : files' = [files EXCEPT ![k].pointer = target]
        BY <2>2
      <3>2. PICK file : file = [files[k] EXCEPT !.pointer = target]
        OBVIOUS
      <3>3. file \in File /\ file.own = files[k].own /\ file.used
        BY <1>3, <1>4, <3>2 DEF File
      <3>4. files' = [files EXCEPT ![k] = file]
        BY <3>1, <3>2 DEF FilesInv, Types
      <3> QED BY <3>3, <3>4
    <2> QED BY <1>4, <2>1, <2>2
  <1>6. PICK file \in File :
          \/ UNCHANGED files
          \/ /\ files' = [files EXCEPT ![k] = file]
             /\ file.own = files[k].own /\ file.used
    BY <1>5
  <1>7. fs' \in {"unset", "none", "fat12", "fat16"} /\ fn # "fopen" /\ fn # "fread"
    BY <1>4 DEF FilesInv, Types
  <1>8. Types' /\ PlacesInv' /\ OwnersInv'
    BY <1>1, <1>2, <1>4, <1>6, <1>7, NoArguments, CallBegins
  <1> QED BY <1>8, TestNotRunning DEF FilesInv

(* init_disk(), fat_list_root() and fat_cat()                              *)
LEMMA CommandsBegin ==
  ASSUME FilesInv, execute_command, cmd' = "none"
  PROVE  FilesInv'
  <1>1. PICK file : file \in File
    BY NoArguments
  <1>2. 0 \in ReadSizes \cup {0, TestSize} /\ NoPath \in Paths \cup {NoPath, TestPath}
    OBVIOUS
  <1>3. fs \in {"unset", "none", "fat12", "fat16"}
    BY DEF FilesInv, Types
  <1>4. CASE init_disk
    <2>1. fs' \in {"unset", "none", "fat12", "fat16"}
      <3>1. FsOf(fat_detect(disk)) \in {"none", "fat12", "fat16"}
        BY FsFound DEF FilesInv, Types, disk
      <3> QED BY <1>4, <3>1 DEF init_disk
    <2>2. "init_disk" \in Names
      BY DEF Names
    <2>3. /\ Begin("init_disk", 0, NoPath, 0) /\ ret' = 0 /\ pc' = "returned"
          /\ UNCHANGED <<unit, files, blocks>>
      BY <1>4 DEF init_disk
    <2>4. Types' /\ PlacesInv' /\ OwnersInv'
      BY <1>1, <1>2, <2>1, <2>2, <2>3, NoArguments, CallBegins
    <2> QED BY <2>4, TestNotRunning DEF FilesInv
  <1>5. CASE fat_list_root
    <2>1. "fat_list_root" \in Names
      BY DEF Names
    <2>2. /\ Begin("fat_list_root", 0, NoPath, 0) /\ ret' = 0 /\ pc' = "mount"
          /\ UNCHANGED <<unit, fs, files, blocks>>
      BY <1>5 DEF fat_list_root
    <2>3. Types' /\ PlacesInv' /\ OwnersInv'
      BY <1>1, <1>2, <1>3, <2>1, <2>2, NoArguments, CallBegins
    <2> QED BY <2>3, TestNotRunning DEF FilesInv
  <1>6. CASE \E p \in Paths : fat_cat(p)
    <2>1. PICK p \in Paths : fat_cat(p)
      BY <1>6
    <2>2. "fat_cat" \in Names /\ p \in Paths \cup {NoPath, TestPath}
      BY DEF Names
    <2>3. /\ Begin("fat_cat", 0, p, 0) /\ ret' = 0 /\ pc' \in {"returned", "mount"}
          /\ UNCHANGED <<unit, fs, files, blocks>>
      BY <2>1 DEF fat_cat
    <2>4. Types' /\ PlacesInv' /\ OwnersInv'
      BY <1>1, <1>2, <1>3, <2>2, <2>3, NoArguments, CallBegins
    <2> QED BY <2>4, TestNotRunning DEF FilesInv
  <1> QED BY <1>4, <1>5, <1>6 DEF execute_command

-----------------------------------------------------------------------------
(* The caller has its result.                                              *)
LEMMA DonePreserves ==
  ASSUME FilesInv, Done
  PROVE  FilesInv'
  <1>1. /\ pc = "returned" /\ pc' = "idle" /\ call' = NoCall /\ out' = << >> /\ ret' = 0
        /\ failed' = FALSE /\ cmd = "none"
        /\ UNCHANGED <<unit, fs, files, blocks, l, cmd, before>>
    BY DEF Done
  <1>2. NoCall \in Calls /\ NoCall.fn = "none"
    BY LimitAssumption DEF NoCall, Calls, Names
  <1>3. Types'
    <2>1. call' \in Calls /\ call'.fn # "fread"
      BY <1>1, <1>2
    <2>2. pc' \in Places /\ ret' \in Int
      BY <1>1 DEF Places
    <2>3. failed' \in BOOLEAN
      BY <1>1
    <2> QED BY <1>1, <2>1, <2>2, <2>3 DEF FilesInv, Types
  <1>4. PlacesInv'
    BY <1>1, <1>2 DEF PlacesInv, Opening
  <1>5. OwnersInv'
    BY <1>1, NothingPending, OwnersKept DEF FilesInv, Types
  <1> QED BY <1>1, <1>3, <1>4, <1>5, TestNotRunning DEF FilesInv

-----------------------------------------------------------------------------
(* The shell's test                                                        *)

LEMMA TestBegins ==
  ASSUME FilesInv, fstest
  PROVE  FilesInv'
  <1>1. /\ fopen(TestPath) /\ cmd' = "fstest"
        /\ before' = [files |-> files, blocks |-> blocks]
    BY DEF fstest
  <1>2. Types' /\ PlacesInv' /\ OwnersInv'
    BY <1>1, FopenBegins
  <1>3. /\ Begin("fopen", 0, TestPath, 0) /\ ret' = 0 /\ pc' \in {"returned", "alloc"}
        /\ UNCHANGED <<files, blocks>>
    BY <1>1 DEF fopen
  <1>4. call'.fn = "fopen" /\ Pending' = {}
    BY <1>3, NoLocalsType DEF Begin, Pending
  <1>5. ~TestHolds'
    BY <1>3, <1>4 DEF TestHolds, Opening
  <1>6. before'.files = files' /\ before'.blocks = blocks' \ Pending'
    BY <1>1, <1>3, <1>4
  <1> QED BY <1>2, <1>5, <1>6 DEF FilesInv, TestInv

(* The test goes on or ends after fopen(); before is what it found.        *)
LEMMA TestOpened ==
  ASSUME FilesInv, cmd = "fstest", FstestOpened
  PROVE  FilesInv' /\ (cmd' = "none" => files' = before.files /\ blocks' = before.blocks)
  <1>1. call.fn = "fopen" /\ pc # "idle"
    BY DEF FstestOpened, FilesInv, PlacesInv
  <1>2. CASE ret # 0
    <2>1. fread(ret, TestSize) /\ UNCHANGED <<cmd, before>>
      BY <1>2 DEF FstestOpened
    <2>2. Begin("fread", ret, NoPath, TestSize) /\ UNCHANGED <<files, blocks>>
      BY <2>1 DEF fread
    <2>3. pc = "returned"
      BY <1>1, <2>2 DEF Begin
    <2>4. ret = call.h /\ ret \in Handles
      BY <1>1, <1>2, <2>3 DEF FilesInv, PlacesInv
    <2>5. Types' /\ PlacesInv' /\ OwnersInv'
      BY <2>1, <2>4, FreadBegins
    <2>6. call'.fn = "fread" /\ call'.h = call.h
      BY <2>2, <2>4 DEF Begin
    <2>7. TestHolds /\ TestHolds'
      BY <1>1, <1>2, <2>3, <2>6 DEF TestHolds
    <2>8. TestInv'
      BY <2>1, <2>2, <2>6, <2>7 DEF FilesInv, TestInv
    <2> QED BY <2>1, <2>5, <2>8 DEF FilesInv
  <1>3. CASE ret = 0
    <2>1. /\ pc = "returned" /\ cmd' = "none"
          /\ UNCHANGED <<unit, fs, files, blocks, pc, call, l, out, ret, failed>>
      BY <1>3 DEF FstestOpened
    <2>2. Types'
      BY <2>1 DEF FilesInv, Types
    <2>3. PlacesInv'
      BY <2>1 DEF FilesInv, PlacesInv, Opening, disk
    <2>4. OwnersInv'
      BY <2>1, NothingPending, OwnersKept DEF FilesInv, Types
    <2>5. ~TestHolds /\ Pending = {}
      BY <1>1, <1>3, <2>1, NothingPending DEF TestHolds, Opening
    <2>6. files = before.files /\ blocks = before.blocks
      BY <2>5 DEF FilesInv, TestInv
    <2> QED BY <2>1, <2>2, <2>3, <2>4, <2>6, TestNotRunning DEF FilesInv
  <1> QED BY <1>2, <1>3

LEMMA TestEnds ==
  ASSUME FilesInv, cmd = "fstest", FstestRead
  PROVE  FilesInv' /\ files' = before.files /\ blocks' = before.blocks
  <1>1. call.fn = "fread" /\ fclose(call.h) /\ cmd' = "none"
    BY DEF FstestRead
  <1>2. call.h \in Handles /\ TestHolds
    BY <1>1 DEF FilesInv, PlacesInv, TestHolds
  <1>3. FilesInv'
    BY <1>1, <1>2, FcloseBegins
  <1>4. files' = [files EXCEPT ![call.h] = Closed] /\ blocks' = blocks \ files[call.h].own
    BY <1>1 DEF fclose, CloseSlot
  <1> QED BY <1>2, <1>3, <1>4 DEF FilesInv, TestInv

-----------------------------------------------------------------------------
LEMMA FilesStart == Init => FilesInv
  <1> SUFFICES ASSUME Init
               PROVE  FilesInv
    OBVIOUS
  <1>1. Closed \in File /\ Closed.own = {} /\ ~Closed.used
    BY DEF Closed, File, Blocks
  <1>2. NoCall \in Calls /\ NoCall.fn = "none"
    BY LimitAssumption DEF NoCall, Calls, Names
  <1>3. Types
    <2>1. files \in [Handles -> File] /\ blocks \subseteq Blocks /\ l \in Locals
      BY <1>1, NoLocalsType DEF Init
    <2>2. call \in Calls /\ call.fn # "fread"
      BY <1>2 DEF Init
    <2>3. /\ unit \in DOMAIN Disks /\ fs \in {"unset", "none", "fat12", "fat16"}
          /\ pc \in Places /\ ret \in Int /\ cmd \in {"none", "fstest"}
      BY DEF Init, Places
    <2>4. failed \in BOOLEAN
      BY DEF Init
    <2> QED BY <2>1, <2>2, <2>3, <2>4 DEF Types
  <1>4. PlacesInv
    BY <1>2 DEF Init, PlacesInv, Opening
  <1>5. IsFiniteSet({})
    BY FS_EmptySet
  <1>6. Pending = {} /\ l.own = {} /\ blocks = {} /\ \A k \in Handles : files[k] = Closed
    BY NoLocalsType DEF Init, Pending
  <1>7. OwnersInv
    BY <1>1, <1>5, <1>6 DEF OwnersInv
  <1>8. TestInv
    BY DEF Init, TestInv
  <1> QED BY <1>3, <1>4, <1>7, <1>8 DEF FilesInv

(* What the test finds when it ends                                        *)
LeftAsFound == cmd = "fstest" /\ cmd' = "none" => files' = before.files /\ blocks' = before.blocks

LEMMA FilesPreserved == FilesInv /\ [Next]_vars => FilesInv' /\ LeftAsFound
  <1> SUFFICES ASSUME FilesInv, [Next]_vars
               PROVE  FilesInv' /\ LeftAsFound
    OBVIOUS
  <1>1. CASE Done
    BY <1>1, DonePreserves DEF LeftAsFound, Done
  <1>2. CASE cmd = "none" /\ (file_call \/ execute_command) /\ UNCHANGED <<cmd, before>>
    <2>1. cmd' = "none" /\ LeftAsFound
      BY <1>2 DEF LeftAsFound
    <2>2. CASE execute_command
      BY <2>1, <2>2, CommandsBegin
    <2>3. CASE \E p \in Paths : fopen(p)
      <3>1. Types' /\ PlacesInv' /\ OwnersInv'
        BY <2>1, <2>3, FopenBegins
      <3> QED BY <2>1, <3>1, TestNotRunning DEF FilesInv
    <2>4. ASSUME NEW k \in Handles,
                 \/ \E n \in ReadSizes : fread(k, n)
                 \/ \E o \in Offsets, w \in {"SEEK_SET", "SEEK_CUR", "SEEK_END"} : fseek(k, o, w)
                 \/ rewind(k)
                 \/ fclose(k)
          PROVE  FilesInv'
      <3>1. CASE \E n \in ReadSizes : fread(k, n)
        <4>1. Types' /\ PlacesInv' /\ OwnersInv'
          BY <2>1, <3>1, FreadBegins
        <4> QED BY <2>1, <4>1, TestNotRunning DEF FilesInv
      <3>2. CASE \/ rewind(k)
                 \/ \E o \in Offsets, w \in {"SEEK_SET", "SEEK_CUR", "SEEK_END"} : fseek(k, o, w)
        BY <2>1, <3>2, SeeksBegin
      <3>3. CASE fclose(k)
        BY <2>1, <3>3, FcloseBegins
      <3> QED BY <2>4, <3>1, <3>2, <3>3
    <2> QED BY <1>2, <2>1, <2>2, <2>3, <2>4 DEF file_call
  <1>3. CASE cmd = "none" /\ fstest
    BY <1>3, TestBegins DEF LeftAsFound
  <1>4. CASE cmd = "fstest" /\ FstestOpened
    BY <1>4, TestOpened DEF LeftAsFound
  <1>5. CASE cmd = "fstest" /\ FstestRead
    BY <1>5, TestEnds DEF LeftAsFound
  <1>6. CASE step /\ UNCHANGED <<cmd, before>>
    BY <1>6, StepPreserves DEF LeftAsFound
  <1>7. CASE UNCHANGED vars
    <2>1. UNCHANGED <<unit, fs, files, blocks, pc, call, l, out, ret, failed, cmd, before>>
      BY <1>7 DEF vars
    <2>2. Types'
      BY <2>1 DEF FilesInv, Types
    <2>3. PlacesInv'
      BY <2>1 DEF FilesInv, PlacesInv, Opening, disk
    <2>4. OwnersInv'
      BY <2>1 DEF FilesInv, OwnersInv, Pending, FreshNumber
    <2>5. TestInv'
      BY <2>1 DEF FilesInv, TestInv, TestHolds, Opening, Pending
    <2>6. LeftAsFound
      BY <2>1 DEF LeftAsFound
    <2> QED BY <2>2, <2>3, <2>4, <2>5, <2>6 DEF FilesInv
  <1> QED BY <1>1, <1>2, <1>3, <1>4, <1>5, <1>6, <1>7 DEF Next

(* Between calls the memory in use is exactly that of the open files, each *)
(* block in one of them, at whichever read or malloc() an fopen() failed,  *)
(* and whichever file was closed: FS.c neither leaks nor frees too much.   *)
THEOREM MemoryIsAlwaysThatOfOpenFiles == Spec => []MemoryIsThatOfOpenFiles
  <1>1. FilesInv => MemoryIsThatOfOpenFiles
    <2> SUFFICES ASSUME FilesInv
                 PROVE  MemoryIsThatOfOpenFiles
      OBVIOUS
    <2>1. TypeOK
      <3>1. /\ \A k \in Handles : files[k] \in File
            /\ l \in Locals /\ call \in Calls /\ l.own \subseteq blocks
        BY DEF FilesInv, Types, OwnersInv
      <3>2. l \in [own : SUBSET blocks, level : Nat, root : BOOLEAN, cluster : Nat, s : Nat,
                   skip : Nat, offset : Nat, remaining : Nat]
        BY <3>1 DEF Locals
      <3>3. \A k \in Handles :
              /\ files[k].used \in BOOLEAN
              /\ files[k].own \subseteq Nat \X Nat
              /\ files[k].pointer \in Nat /\ files[k].size \in Nat
        BY <3>1 DEF File, Blocks
      <3>4. /\ call.h \in 0 .. MAX_OPEN_FILES /\ call.want \in ReadSizes \cup {0, TestSize}
            /\ call.path \in Paths \cup {NoPath, TestPath} /\ call.start \in Nat
        BY <3>1 DEF Calls
      <3> QED BY <3>2, <3>3, <3>4 DEF FilesInv, Types, TypeOK, Places, Blocks
    <2>2. pc \in {"idle", "returned"} =>
            blocks = UNION {files[k].own : k \in Handles \ Unused}
      <3> SUFFICES ASSUME pc \in {"idle", "returned"}
                   PROVE  blocks = UNION {files[k].own : k \in Handles \ Unused}
        OBVIOUS
      <3>1. blocks = UNION {files[k].own : k \in Handles}
        BY NothingPending DEF FilesInv, OwnersInv
      <3>2. \A k \in Unused : files[k].own = {}
        BY DEF FilesInv, OwnersInv, Unused, Closed
      <3> QED BY <3>1, <3>2
    <2>3. \A k \in Handles \ Unused : files[k].own \subseteq blocks
      BY DEF FilesInv, OwnersInv
    <2>4. \A j, k \in Handles \ Unused : j # k => files[j].own \cap files[k].own = {}
      BY DEF FilesInv, OwnersInv
    <2> QED BY <2>1, <2>2, <2>3, <2>4 DEF MemoryIsThatOfOpenFiles
  <1> QED BY <1>1, FilesStart, FilesPreserved, PTL DEF Spec

(* The shell's fstest leaves the open files and the memory as it found     *)
(* them, on every path through it: also when fopen() fails, and when       *)
(* fread() is refused, fails, or reads less than was asked for.            *)
THEOREM TestAlwaysCleansUp == Spec => TestLeavesNothing
  <1>1. LeftAsFound =>
          (cmd = "fstest" /\ cmd' = "none" =>
             files' = before.files /\ blocks' = before.blocks)
    BY DEF LeftAsFound
  <1> QED BY <1>1, FilesStart, FilesPreserved, PTL DEF Spec, TestLeavesNothing

=============================================================================
