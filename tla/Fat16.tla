------------------------------- MODULE Fat16 -------------------------------
(***************************************************************************)
(* How kernel/fs/FAT.c finds its way on a disk: which partition, where the *)
(* tables, the root directory and the clusters are, and what an entry of a *)
(* directory says.                                                         *)
(*                                                                         *)
(* A disk is the fields the code reads of the first sector and of the      *)
(* partition's boot sector, and the sectors behind them.  A sector is what *)
(* the code takes it for: entries of the allocation table, entries of a    *)
(* directory, or bytes of a file.  A byte is known by where it is; control *)
(* is the set of the bytes that are control characters or above 127.       *)
(***************************************************************************)
EXTENDS Integers, Sequences, FiniteSets, SequencesExt

CONSTANTS
  SECTOR_SIZE,          \* bytes of a sector
  DIRENT_SIZE,          \* bytes of a directory entry
  fat_upper             \* name -> the name in capital letters

ASSUME SectorAssumption ==
  /\ SECTOR_SIZE \in Nat \ {0} /\ SECTOR_SIZE % 2 = 0
  /\ DIRENT_SIZE \in Nat \ {0} /\ SECTOR_SIZE % DIRENT_SIZE = 0

(* Values of the allocation table and of an entry's attributes             *)
BAD_CLUSTER == 65527
END_OF_CHAIN == 65528           \* this and above
DISK_ERROR == 65535             \* what a failed read of the table looks like

FILE_ATTR == 32
DIRECTORY == 16
VOLUME_LABEL == 8
LONG_NAME == 15

(* What the code finds where the disk has nothing                          *)
NoEntry == [first |-> "end", attr |-> 0, name |-> "", cluster |-> 0, size |-> 0]

ZeroSector ==
  [fat |-> [pos \in 0 .. (SECTOR_SIZE - 1) |-> 0],
   dir |-> [k \in 1 .. (SECTOR_SIZE \div DIRENT_SIZE) |-> NoEntry]]

Sector(d, lba) == IF lba \in DOMAIN d.sectors THEN d.sectors[lba] ELSE ZeroSector

-----------------------------------------------------------------------------
(* 12, 16 or 32, or 0 for a disk that is not understood                    *)
fat_detect(d) ==
  LET b == d.boot IN
  IF \/ ~d.mbr.signature \/ d.mbr.lba = 0 \/ ~b.signature
     \/ b.bytes_per_sector # SECTOR_SIZE \/ b.sectors_per_cluster = 0
     \/ b.reserved_sectors = 0 \/ b.fat_count = 0
    THEN 0
    ELSE CASE d.mbr.type = 1 -> 12
           [] d.mbr.type \in {6, 14} -> IF b.sectors_per_fat = 0 THEN 0 ELSE 16
           [] d.mbr.type \in {11, 12} ->
                IF b.sectors_per_fat_32 = 0 \/ b.root_cluster < 2 THEN 0 ELSE 32
           [] OTHER -> 0

(* The second look at the boot sector before it is used                    *)
GeometryOK(d) == fat_detect(d) = 16 /\ d.boot.root_entries # 0

root_sectors(d) == (d.boot.root_entries * DIRENT_SIZE + SECTOR_SIZE - 1) \div SECTOR_SIZE

fat_lba(d) == d.mbr.lba + d.boot.reserved_sectors

root_lba(d) == fat_lba(d) + d.boot.fat_count * d.boot.sectors_per_fat

data_lba(d) == root_lba(d) + root_sectors(d)

(* The first data cluster has number 2.                                    *)
cluster_lba_from_zero(d, cluster) == data_lba(d) + cluster * d.boot.sectors_per_cluster

cluster_lba(d, cluster) == data_lba(d) + (cluster - 2) * d.boot.sectors_per_cluster

bytes_per_cluster(d) == SECTOR_SIZE * d.boot.sectors_per_cluster

(* Entries of the allocation table are two bytes wide.                     *)
fat16_next_cluster(d, cluster) ==
  LET offset == cluster * 2
  IN  Sector(d, fat_lba(d) + offset \div SECTOR_SIZE).fat[offset % SECTOR_SIZE]

InData(cluster) == cluster >= 2 /\ cluster < END_OF_CHAIN

-----------------------------------------------------------------------------
(* Directory entries                                                       *)

(* Attributes are bits; LONG_NAME is the one combination that is compared  *)
(* as a whole.                                                             *)
Has(e, bit) == (e.attr \div bit) % 2 = 1

IsDirectory(e) == Has(e, DIRECTORY)

Visible(e) ==
  /\ e.first # "deleted"
  /\ e.attr # LONG_NAME
  /\ ~Has(e, VOLUME_LABEL)

fat_name_equal(input, name) == fat_upper[input] = fat_upper[name]

(* The entry of a sector at which the search for a name stops: the end of  *)
(* the directory or the first visible entry of that name.  NoMatch is the  *)
(* result when the sector has neither.                                     *)
NoMatch == [NoEntry EXCEPT !.first = "none"]

ScanSector(d, lba, name) ==
  LET Stops(e) == e.first = "end" \/ (Visible(e) /\ fat_name_equal(name, e.name))
      at == SelectInSeq(Sector(d, lba).dir, Stops)
  IN  IF at = 0 THEN NoMatch ELSE Sector(d, lba).dir[at]

=============================================================================
