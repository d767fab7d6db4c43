---------------------------- MODULE ClusterVolume ----------------------------
(***************************************************************************)
(* The life of a FAT or exFAT volume before it is recovered: a driver that *)
(* is not part of the repository, modelled from what src/src/fat.rs and    *)
(* src/src/exfat.rs say and rely on.  Clusters are handed out from a       *)
(* moving pointer that wraps (the comment on FreeWalk); deleting frees the *)
(* clusters and marks the entry, and the bytes stay until a cluster is     *)
(* reused; Windows discards the children's markers along with a folder     *)
(* (the comment on fat.rs walk) and zeroes the high half of a deleted      *)
(* FAT32 entry's start cluster (resolve_start_cluster).                    *)
(*                                                                         *)
(* A name is given to one file or folder, a folder has one cluster, and    *)
(* MaxOps bounds the life of the volume.                                   *)
(***************************************************************************)
EXTENDS Integers, Sequences, FiniteSets

CONSTANTS
  FileSystems,    \* the variants studied, among fat16, fat32 and exfat
  MaxCluster,     \* clusters are 2 .. MaxCluster
  Half,           \* cluster numbers a deleted FAT32 entry still tells apart: 65,536
  Files, Dirs, Root,
  RootAt,         \* the root folder's cluster (the FAT12/16 root region: 0)
  Blocks,         \* clusters of each file
  Ext,            \* the type each file's name claims and its first block shows
  Hands,          \* where the allocator may stand at first
  MaxSlots,       \* entries a folder has room for
  MaxOps          \* bound: driver operations in one behaviour

Cluster == 2 .. MaxCluster
Free == 0
Eoc  == -1        \* any value next_cluster reads as the end of a chain
Names == Files \cup Dirs
RootCluster(type) == IF type = "fat16" THEN 0 ELSE RootAt

ASSUME VolumeAssumption ==
  /\ FileSystems \subseteq {"fat16", "fat32", "exfat"}
  /\ MaxCluster \in Nat /\ MaxCluster >= 3 /\ RootAt \in Cluster /\ Hands \subseteq Cluster /\ Half \in Nat \ {0}
  /\ Blocks \in [Files -> Nat] /\ Files \cap Dirs = {} /\ Root \notin Names
  /\ Ext \in [Files -> STRING] /\ MaxSlots \in Nat /\ MaxOps \in Nat

VARIABLES
  fs,       \* which file system this volume has
  fat,      \* the FAT: cluster -> Free, Eoc or the next cluster
  used,     \* the clusters in use: the exFAT bitmap
  data,     \* what each cluster holds: block `block` of `of`
  entries,  \* the entry slots of each folder
  hand,     \* where the allocator looks next
  alive,    \* files and folders that are not deleted
  home,     \* the clusters each file or folder was given, <<>> before
  ops

volume == <<fs, fat, used, data, entries, hand, alive, home, ops>>

Nothing == [of |-> Root, block |-> 0]
Entry(x, clusters, whole) ==
  [name |-> x, start |-> IF clusters = <<>> THEN 0 ELSE clusters[1],
   size |-> Len(clusters), contiguous |-> whole, deleted |-> FALSE]

LifeInit ==
  /\ fs \in FileSystems
  /\ LET taken == {RootCluster(fs)} \ {0}
     IN  /\ fat = [c \in Cluster |-> IF c \in taken THEN Eoc ELSE Free]
         /\ used = taken
         /\ data = [c \in Cluster |-> IF c \in taken THEN [of |-> Root, block |-> 1] ELSE Nothing]
  /\ hand \in Hands
  /\ entries = [d \in Dirs \cup {Root} |-> <<>>]
  /\ alive = {} /\ home = [x \in Names |-> <<>>] /\ ops = 0

\* How far c lies ahead of `from`, going up and around the end of the volume.
Ahead(c, from) == IF c >= from THEN c - from ELSE c - from + MaxCluster - 1
FromHand(c) == Ahead(c, hand)
\* The next n free clusters in the order of the allocator, if there are n.
Place(n) ==
  {cs \in [1 .. n -> Cluster \ used] :
     \A i \in 1 .. n, c \in Cluster \ used :
       FromHand(c) < FromHand(cs[i]) <=> \E j \in 1 .. i - 1 : cs[j] = c}
Consecutive(cs) == \A i \in 1 .. Len(cs) - 1 : cs[i + 1] = cs[i] + 1

\* The slots a new entry may take: a deleted one, or one more.
Slots(d) ==
  {i \in 1 .. Len(entries[d]) : entries[d][i].deleted}
    \cup (IF Len(entries[d]) < MaxSlots THEN {Len(entries[d]) + 1} ELSE {})
Put(d, i, e) ==
  IF i > Len(entries[d]) THEN Append(entries[d], e) ELSE [entries[d] EXCEPT ![i] = e]

\* The names folder p lists, deleted ones too.
NamesIn(p) == {entries[p][i].name : i \in DOMAIN entries[p]}

\* Create file or folder x in folder d.
Create(x, d) ==
  /\ home[x] = <<>> /\ \A p \in Dirs \cup {Root} : x \notin NamesIn(p)
  /\ d \in alive \cup {Root} /\ ops < MaxOps
  /\ \E clusters \in Place(IF x \in Dirs THEN 1 ELSE Blocks[x]) :
       LET n == Len(clusters)
           pos == [c \in {clusters[i] : i \in 1 .. n} |-> CHOOSE i \in 1 .. n : clusters[i] = c]
           whole == fs = "exfat" /\ Consecutive(clusters)
       IN  /\ \E i \in Slots(d) :
                entries' = [entries EXCEPT ![d] = Put(d, i, Entry(x, clusters, whole))]
           /\ fat' = IF whole THEN fat
                     ELSE [c \in Cluster |-> IF c \notin DOMAIN pos THEN fat[c]
                                             ELSE IF pos[c] = n THEN Eoc ELSE clusters[pos[c] + 1]]
           /\ used' = used \cup DOMAIN pos
           /\ data' = [c \in Cluster |->
                         IF c \in DOMAIN pos THEN [of |-> x, block |-> pos[c]] ELSE data[c]]
           /\ hand' = IF n = 0 THEN hand
                      ELSE IF clusters[n] = MaxCluster THEN 2 ELSE clusters[n] + 1
           /\ home' = [home EXCEPT ![x] = clusters]
  /\ alive' = alive \cup {x} /\ ops' = ops + 1
  /\ UNCHANGED fs

In(d) == {x \in alive : \E i \in DOMAIN entries[d] :
             entries[d][i].name = x /\ ~entries[d][i].deleted}
OnDisk(x) == {home[x][i] : i \in DOMAIN home[x]}

\* Delete x, and the files of a folder with it; folders in it go before it.
\* Only x's own entry gets the marker.  exFAT need not clear the FAT.
Delete(x) ==
  LET gone  == {x} \cup (IF x \in Dirs THEN In(x) ELSE {})
      freed == UNION {OnDisk(y) : y \in gone}
  IN  /\ x \in alive /\ ops < MaxOps
      /\ x \in Dirs => In(x) \cap Dirs = {}
      /\ \E lossy \in IF fs = "fat32" THEN BOOLEAN ELSE {FALSE} :
           LET mark(e) == IF e.name # x \/ e.deleted THEN e
                          ELSE [e EXCEPT !.deleted = TRUE,
                                         !.start = IF lossy THEN @ % Half ELSE @]
           IN  entries' = [d \in DOMAIN entries |->
                             [i \in DOMAIN entries[d] |-> mark(entries[d][i])]]
      /\ \E cleared \in IF fs = "exfat" THEN BOOLEAN ELSE {TRUE} :
           fat' = IF cleared THEN [c \in Cluster |-> IF c \in freed THEN Free ELSE fat[c]] ELSE fat
      /\ used' = used \ freed /\ alive' = alive \ gone /\ ops' = ops + 1
      /\ UNCHANGED <<fs, data, hand, home>>

Live == (\E x \in Names, d \in Dirs \cup {Root} : Create(x, d)) \/ (\E x \in Names : Delete(x))
=============================================================================
