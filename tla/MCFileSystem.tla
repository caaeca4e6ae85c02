---------------------------- MODULE MCFileSystem ----------------------------
(* Sectors of 4 bytes with 2 entries each, clusters of 2 sectors.  The root*)
(* holds a label, a deleted entry, the directory D and the file F; D goes  *)
(* over two clusters, the file G is in the second.  F's chain is sound, too *)
(* short, or a circle; one byte of F cannot be printed; one disk is not    *)
(* FAT16.                                                                  *)
EXTENDS FileSystem

E(first, attr, name, c, size) ==
  [first |-> first, attr |-> attr, name |-> name, cluster |-> c, size |-> size]

Dirs(size) ==
  [lba \in {10, 11, 14, 15, 18} |->
     CASE lba = 10 -> << E("used", VOLUME_LABEL + FILE_ATTR, "F", 0, 0), E("deleted", FILE_ATTR, "F", 7, 5) >>
       [] lba = 11 -> << E("used", DIRECTORY + FILE_ATTR, "D", 3, 0), E("used", FILE_ATTR, "F", 2, size) >>
       [] lba = 14 -> << E("used", LONG_NAME, "G", 0, 0), E("used", FILE_ATTR, "E", 0, 0) >>
       [] lba = 15 -> << E("deleted", FILE_ATTR, "G", 7, 5), E("used", DIRECTORY, "X", 0, 0) >>
       [] lba = 18 -> << E("used", FILE_ATTR, "G", 6, 3), NoEntry >>]

(* The allocation table: F is 2, then f2 and f4; D is 3 and 5; G is 6.     *)
Table(f2, f4) == << 65528, 65535, f2, 5, f4, 65528, 65535, 0 >>

Disk(type, entries, size, lbas) ==
  [mbr |-> [signature |-> TRUE, type |-> type, lba |-> 1],
   boot |-> [signature |-> TRUE, bytes_per_sector |-> 4, sectors_per_cluster |-> 2,
             reserved_sectors |-> 1, fat_count |-> 2, root_entries |-> 3,
             sectors_per_fat |-> 4, sectors_per_fat_32 |-> 0, root_cluster |-> 0],
   sectors |-> [lba \in 2 .. 23 |->
     [fat |-> [pos \in 0 .. 3 |->
                 IF lba < 10 /\ pos % 2 = 0
                   THEN entries[((lba - 2) % 4) * 2 + (pos \div 2) + 1] ELSE 0],
      dir |-> IF lba \in DOMAIN Dirs(size) THEN Dirs(size)[lba] ELSE << NoEntry, NoEntry >>]],
   control |-> {<< 13, 1 >>},
   listed |-> << "D", "F" >>,
   stored |-> (<< "F" >> :> [size |-> size, lbas |-> lbas])
              @@ (<< "D", "G" >> :> [size |-> 3, lbas |-> << 20, 21 >>])
              @@ (<< "D", "E" >> :> [size |-> 0, lbas |-> << >>])]

SoundDisk == Disk(6, Table(4, 65535), 13, << 12, 13, 16, 17 >>)
ShortDisk == Disk(14, Table(0, 0), 13, << 12, 13 >>)
CircularDisk == Disk(6, Table(4, 2), 19, << 12, 13, 16, 17, 12 >>)
Fat12Disk == Disk(1, Table(4, 65535), 13, << 12, 13, 16, 17 >>)

MCDisks ==
  [sound |-> SoundDisk, short |-> ShortDisk, circular |-> CircularDisk, fat12 |-> Fat12Disk]

MCUpper == [n \in {"f", "F", "d", "D", "g", "G", "e", "E", "x", "X", "y"} |->
              CASE n = "f" -> "F" [] n = "d" -> "D" [] n = "g" -> "G"
                [] n = "e" -> "E" [] n = "x" -> "X" [] OTHER -> n]

P(parts) == [valid |-> TRUE, parts |-> parts]

(* Every way a path can fail, and the files F, D/E and D/G                 *)
MCPaths == {P(<< "f" >>), P(<< "D", "g" >>), P(<< "d", "E" >>), P(<< "d" >>),
            P(<< "y" >>), P(<< "F", "G" >>), P(<< "D", "x", "y" >>), P(<< "D", "y" >>),
            P(<< "D", "D", "D", "D" >>), P(<< >>),
            [valid |-> FALSE, parts |-> << "F" >>]}

MCTestPath == P(<< "D", "G" >>)

MCOffsets == {-13, 12}

=============================================================================
