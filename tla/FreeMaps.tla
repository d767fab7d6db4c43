------------------------------ MODULE FreeMaps ------------------------------
(***************************************************************************)
(* The free space of a volume: free_extents of fat.rs, exfat.rs, ntfs.rs,  *)
(* ext4.rs and hfsplus.rs, and what src/src/main.rs makes of it for        *)
(* --unallocated.                                                          *)
(*                                                                         *)
(* The disk holds, by the offset of a volume, what its map is read from:   *)
(* [readable, first, unit, count, table, bits, per]: whether the map can   *)
(* be found, the first sector that units are counted from, the sectors and *)
(* the number of units, the FAT, the bitmap of each block group (of all,   *)
(* where there are no groups) and the blocks of a group.  A bitmap is a    *)
(* sequence of bytes, a byte says for each of its bits (0 is the least     *)
(* significant) whether the unit is taken; either may be cut short.        *)
(***************************************************************************)
EXTENDS PartitionTables

CONSTANTS
  ByteBits,       \* bits of a byte (8)
  MaxMap          \* bytes of a bitmap, entries of a FAT that are read (256 MiB)
ASSUME MapAssumption == ByteBits \in Nat \ {0} /\ MaxMap \in Nat \ {0}

\* A unit the bitmap says nothing of counts as taken.
TakenLow(bitmap, i) ==
  i \div ByteBits < Len(bitmap) => bitmap[i \div ByteBits + 1][i % ByteBits]
\* The bits of a byte in the order of the other file systems.
TakenHigh_low(bitmap, i) == TakenLow(bitmap, i)
TakenHigh(bitmap, i) ==
  i \div ByteBits < Len(bitmap) => bitmap[i \div ByteBits + 1][ByteBits - 1 - (i % ByteBits)]

\* Units that follow one another are one extent.
Merged(starts, unit) ==
  LET Grow(out, at) ==
        LET n == Len(out) IN
          IF n > 0 /\ out[n].at + out[n].size = at THEN [out EXCEPT ![n].size = @ + unit]
          ELSE Append(out, [at |-> at, size |-> unit])
  IN FoldLeft(Grow, <<>>, starts)
Starts(first, unit, units) == [i \in DOMAIN units |-> first + units[i] * unit]
UnitsWhere(n, Free(_)) == SelectSeq([i \in 1 .. n |-> i - 1], Free)

\* The FAT: entry c for cluster c, the first of them 2; 0 is free.  A FAT cut
\* short ends the list.
NoEntry == -1
FatEntry(fat, cluster) == IF cluster < Len(fat) THEN fat[cluster + 1] ELSE NoEntry
FatExtents(m) ==
  LET fat == Upto(m.table, MaxMap)
      free == UnitsWhere(m.count, LAMBDA u : FatEntry(fat, u + 2) = 0)
  IN Merged(Starts(m.first, m.unit, free), m.unit)
\* exFAT: the bitmap the root directory names, bit 0 for cluster 2, the
\* first of the heap.
ExfatExtents(m) ==
  IF ~m.readable THEN <<>>
  ELSE LET bitmap == Upto(m.bits[1], MaxMap) IN
         Merged(Starts(m.first, m.unit, UnitsWhere(m.count, LAMBDA u : ~TakenLow(bitmap, u))), m.unit)
\* NTFS: the data of MFT record 6, bit 0 for the boot sector's cluster.
NtfsExtents(m, at) ==
  IF ~m.readable THEN <<>>
  ELSE LET bitmap == Upto(m.bits[1], MaxMap) IN
         Merged(Starts(at, m.unit, UnitsWhere(m.count, LAMBDA u : ~TakenLow(bitmap, u))), m.unit)
\* ext: blocks from the first data block, a bitmap to each group; a group
\* without a descriptor ends the list.
ExtExtents(m, at) ==
  LET Free(u) == /\ u >= m.first
                 /\ (u - m.first) \div m.per < Len(m.bits)
                 /\ ~TakenLow(m.bits[(u - m.first) \div m.per + 1], (u - m.first) % m.per)
  IN IF m.per = 0 THEN <<>> ELSE Merged(Starts(at, m.unit, UnitsWhere(m.count, Free)), m.unit)
\* HFS+: the allocation file, its extents dropped when one is out of range;
\* the most significant bit of a byte comes first.
HfsExtents(m, at) ==
  IF ~m.readable THEN <<>>
  ELSE LET bitmap == Upto(m.bits[1], MaxMap) IN
         Merged(Starts(at, m.unit, UnitsWhere(m.count, LAMBDA u : ~TakenHigh(bitmap, u))), m.unit)

\* Volume::free_extents: the other file systems have no map that is read.
Mapped == {"fat", "exfat", "ntfs", "ext", "hfs+"}
FreeExtents(disk, v) ==
  LET m == disk.maps[v.at] IN
    CASE v.fs = "fat"   -> FatExtents(m)
      [] v.fs = "exfat" -> ExfatExtents(m)
      [] v.fs = "ntfs"  -> NtfsExtents(m, v.at)
      [] v.fs = "ext"   -> ExtExtents(m, v.at)
      [] v.fs = "hfs+"  -> HfsExtents(m, v.at)

\* One volume without a map, or none at all, and the whole source is carved.
HaveMaps(volumes) == volumes # <<>> /\ \A i \in DOMAIN volumes : volumes[i].fs \in Mapped
WholeSource(disk) == << [at |-> 0, size |-> disk.size] >>
FreeSpaceRegions(disk, volumes) ==
  IF HaveMaps(volumes)
  THEN FlattenSeq([i \in DOMAIN volumes |-> FreeExtents(disk, volumes[i])])
  ELSE WholeSource(disk)
=============================================================================
