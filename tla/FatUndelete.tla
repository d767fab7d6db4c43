----------------------------- MODULE FatUndelete -----------------------------
(***************************************************************************)
(* recover_deleted of src/src/fat.rs and src/src/exfat.rs: the walk over   *)
(* the folders, live and deleted, and the copying of each deleted file     *)
(* through the clusters it can have had.                                   *)
(*                                                                         *)
(* A volume first lives (ClusterVolume), then is recovered once, read-only. *)
(* Sizes are counted in clusters, folders in entries, and a cluster's      *)
(* bytes are the file or folder they belong to.  Paths are kept as their   *)
(* last component: a name stands for one file.                             *)
(***************************************************************************)
EXTENDS ClusterVolume, ClusterWalk, SequencesExt

CONSTANTS
  Refused,    \* files, no JPEGs, whose data holds bytes no JPEG scan may contain
  MaxTries,   \* MAX_TRIES
  Wanted,     \* the sets of names that pass the filters, one per command line
  MaxFaults   \* bound: output files that cannot be written

ASSUME UndeleteAssumption ==
  /\ Refused \subseteq {x \in Files : Ext[x] # "jpg"} /\ MaxTries \in Nat /\ MaxFaults \in Nat
  /\ \A names \in Wanted : names \subseteq Files

VARIABLES
  pc,
  wanted, dry_run,
  has_map,   \* whether the FAT or bitmap could be read (load_fat, read_bitmap)
  stack,     \* the folders walk has still to read
  visited,
  folder,    \* the one being read
  deleted,   \* the deleted files found and not yet handled
  w,         \* write_file's loop
  stats,
  faults
recovery == <<pc, wanted, dry_run, has_map, stack, visited, folder, deleted, w, stats, faults>>
vars == <<volume, recovery>>

NoWriter == [how |-> "none"]
Folder(c, gone) == [cluster |-> c, gone |-> gone, at |-> NoCluster, clusters |-> <<>>]
NoFolder == Folder(NoCluster, FALSE)
\* The clusters a folder may still be read from: the visited set stops loops.
Unvisited_all == Cluster
Unvisited == Cluster \ visited
Init ==
  /\ LifeInit
  /\ pc = "life" /\ wanted = {} /\ dry_run = FALSE /\ has_map = FALSE
  /\ stack = <<>> /\ visited = {} /\ folder = NoFolder /\ deleted = <<>> /\ w = NoWriter /\ stats = <<>> /\ faults = 0

(* ------------------------------ The folders ---------------------------- *)

\* What a cluster's bytes say as a folder.  A FAT entry is any 32 bytes, so
\* a file's data reads as one of junk; an exFAT entry set has a form.
Junk == [name |-> Root, start |-> 0, size |-> 1, contiguous |-> FALSE, deleted |-> TRUE]
ParseEntries(c)   == IF data[c].of \in Files THEN <<Junk>> ELSE entries[data[c].of]
ParseEntrySets(c) == IF data[c].of \in Files THEN <<>> ELSE entries[data[c].of]
ItemsOf(c) == IF fs = "exfat" THEN ParseEntrySets(c) ELSE ParseEntries(c)
StartsWithDotEntry(c) == data[c].of \in Dirs
Shows(c, x) == data[c].of \in Files /\ data[c].block = 1 /\ Ext[data[c].of] = Ext[x]

Abs(i) == IF i < 0 THEN -i ELSE i
\* Free clusters from c on, as far as they are looked at.
FreeRun(c, needed) ==
  Max({n \in 0 .. needed : c + n <= MaxCluster + 1 /\ \A x \in c .. c + n - 1 : fat[x] = Free})

\* resolve_start_cluster.
ResolveStartCluster_first(e, parent) ==
  IF fs # "fat32" \/ MaxCluster < Half \/ e.start >= Half \/ e.start < 2 THEN e.start
  ELSE LET free == {c \in Cluster : c % Half = e.start /\ fat[c] = Free}
       IN  IF free = {} THEN e.start ELSE Min(free)
ResolveStartCluster(e, parent) ==
  LET free  == {c \in Cluster : c % Half = e.start /\ fat[c] = Free}
      typed == {c \in free : Shows(c, e.name)}
      pool  == IF typed = {} THEN free ELSE typed
      needed == Max({e.size, 1})
      longest == {c \in pool : \A d \in pool : FreeRun(d, needed) <= FreeRun(c, needed)}
      near  == {c \in longest : \A d \in longest : Abs(c - parent) <= Abs(d - parent)}
      dots  == {c \in free : StartsWithDotEntry(c)}
  IN  IF fs # "fat32" \/ MaxCluster < Half \/ e.start >= Half \/ e.start < 2 \/ free = {}
        THEN e.start
      ELSE IF Cardinality(free) = 1 THEN Min(free)
      ELSE IF e.name \in Dirs THEN IF dots # {} THEN Min(dots) ELSE e.start
      ELSE Min(near)
StartOf(e, parent) == IF e.deleted /\ fs # "exfat" THEN ResolveStartCluster(e, parent) ELSE e.start

\* The recovery begins, of a volume where something was deleted: the root is
\* the first folder to read.
Recover ==
  /\ pc = "life" /\ pc' = "walk"
  /\ \E x \in Files \ alive : home[x] # <<>>
  /\ wanted' \in Wanted /\ dry_run' \in BOOLEAN
  /\ has_map' \in IF dry_run' THEN {TRUE} ELSE BOOLEAN    \* a dry run never asks
  /\ stack' = <<Folder(RootCluster(fs), FALSE)>>
  /\ UNCHANGED <<volume, visited, folder, deleted, w, stats, faults>>

\* A deleted folder is trusted only if it starts with `.`
\* (FAT).
Trusted_live(gone, clusters) == ~gone
Trusted(gone, clusters) ==
  fs = "exfat" \/ ~gone \/ (clusters # <<>> /\ StartsWithDotEntry(clusters[1]))

\* walk pops a folder; read_directory starts at its first cluster, if any.
OpenFolder ==
  /\ pc = "walk" /\ stack # <<>> /\ pc' = "folder"
  /\ stack' = Front(stack)
  /\ folder' = [Last(stack) EXCEPT !.at = Last(stack).cluster]
  /\ UNCHANGED <<volume, wanted, dry_run, has_map, visited, deleted, w, stats, faults>>

\* The FAT's answer for the cluster after c.
NextCluster(c) == IF fat[c] \in Cluster THEN fat[c] ELSE NoCluster
\* exFAT reads a folder below the root as one contiguous extent.
NextOfFolder(c) == IF fs = "exfat" /\ c # RootAt THEN NoCluster ELSE NextCluster(c)

\* One cluster of read_directory, up to the end of the chain or a cluster
\* already visited.
ReadFolderCluster ==
  /\ pc = "folder" /\ folder.at \in Unvisited
  /\ visited' = visited \cup {folder.at}
  /\ folder' = [folder EXCEPT !.clusters = Append(@, folder.at), !.at = NextOfFolder(folder.at)]
  /\ UNCHANGED <<volume, pc, wanted, dry_run, has_map, stack, deleted, w, stats, faults>>

\* What the clusters of a folder hold as entries, in their order; of a folder
\* that is not trusted, nothing.
FolderItems(f) ==
  IF f.cluster = 0 THEN entries[Root]     \* the FAT12/16 root region
  ELSE IF Trusted(f.gone, f.clusters)
    THEN FlattenSeq([i \in 1 .. Len(f.clusters) |-> ItemsOf(f.clusters[i])])
  ELSE <<>>
\* What walk makes of them: with a start cluster, and deleted if the folder is.
Placed(items, f) ==
  [i \in DOMAIN items |-> [items[i] EXCEPT !.start = StartOf(items[i], f.cluster),
                                          !.deleted = @ \/ f.gone]]
\* The elements of s at the places in `keep`, in their order.
ItemsAt(s, keep) ==
  LET kept[n \in 0 .. Len(s)] ==
        IF n = 0 THEN <<>> ELSE IF n \in keep THEN Append(kept[n - 1], s[n]) ELSE kept[n - 1]
  IN  kept[Len(s)]

\* The entries of the folder: folders are pushed, deleted files collected.
ParseFolder ==
  /\ pc = "folder" /\ folder.at \notin Unvisited /\ pc' = "walk"
  /\ \E placed \in {Placed(FolderItems(folder), folder)} :
       LET Below(i)   == placed[i].name \in Dirs /\ placed[i].start \in Unvisited
           Deleted(i) == placed[i].name \notin Dirs /\ placed[i].deleted
           below == ItemsAt(placed, {i \in DOMAIN placed : Below(i)})
       IN  /\ stack' = stack \o [i \in DOMAIN below |-> Folder(below[i].start, below[i].deleted)]
           /\ deleted' = deleted \o ItemsAt(placed, {i \in DOMAIN placed : Deleted(i)})
  /\ folder' = NoFolder
  /\ UNCHANGED <<volume, wanted, dry_run, has_map, visited, w, stats, faults>>

(* ------------------------------- The files ----------------------------- *)

Record(e, recovered, out) ==
  Append(stats, [name |-> e.name, recovered |-> recovered, out |-> out, size |-> e.size])

\* What recover_deleted checks before it trusts a FAT entry, and
\* valid_extent of exFAT.
Plausible_below(e) == e.size > 0 /\ e.start \in Cluster \cup {1} /\ e.size <= MaxCluster - 1
Plausible(e) == e.size > 0 /\ e.start \in Cluster /\ e.size <= MaxCluster - 1
ValidExtent(e) ==
  /\ e.size > 0 /\ e.start \in Cluster /\ e.size <= MaxCluster - 1
  /\ e.contiguous => e.start + e.size - 1 <= MaxCluster

FreeWalks == {"walk", "skip"}    \* the copies that follow the free clusters
Writer(e, how) ==
  [how |-> how, e |-> e, at |-> e.start, left |-> e.size, wrapped |-> FALSE, tries |-> 0,
   jpeg |-> IF how \in FreeWalks /\ Ext[e.name] = "jpg" THEN "start" ELSE "off",
   out |-> <<>>, read |-> <<>>]

\* With every folder read, the next deleted file: filtered out, skipped, reported, or opened.
NextFile ==
  /\ pc = "walk" /\ stack = <<>> /\ deleted # <<>>
  /\ LET e == Head(deleted)
     IN  IF e.name \notin wanted \cup {Root} THEN UNCHANGED <<pc, w, stats>>
         ELSE IF ~(IF fs = "exfat" THEN ValidExtent(e) ELSE Plausible(e))
           THEN stats' = Record(e, FALSE, <<>>) /\ UNCHANGED <<pc, w>>
         ELSE IF dry_run THEN stats' = Record(e, TRUE, <<>>) /\ UNCHANGED <<pc, w>>
         ELSE /\ pc' = "copy"
              /\ w' = Writer(e, IF fs # "exfat" THEN "walk"
                                ELSE IF e.contiguous THEN "contiguous" ELSE "chain")
              /\ UNCHANGED stats
  /\ deleted' = Tail(deleted)
  /\ UNCHANGED <<volume, wanted, dry_run, has_map, stack, visited, folder, faults>>

Finished ==
  /\ pc = "walk" /\ stack = <<>> /\ deleted = <<>> /\ pc' = "done"
  /\ UNCHANGED <<volume, wanted, dry_run, has_map, stack, visited, folder, deleted, w, stats, faults>>

\* Where the file can be, by the FAT or the bitmap; with neither, anywhere.
ClusterIsFree(c) == fat[c] = Free
ClusterAllocated(c) == c \in used
FreeClusters ==
  IF ~has_map THEN Cluster
  ELSE {c \in Cluster : IF fs = "exfat" THEN ~ClusterAllocated(c) ELSE ClusterIsFree(c)}

\* JpegScan.accept, for what it can tell: the start of an image, and data
\* that an entropy-coded scan cannot contain.
Accepts(jpeg, block) ==
  \/ jpeg = "off"
  \/ jpeg = "start" /\ block.of \in Files /\ Ext[block.of] = "jpg" /\ block.block = 1
  \/ /\ jpeg = "scan" /\ block.of \notin Refused
     /\ ~(block.of \in Files /\ Ext[block.of] = "jpg" /\ block.block = 1)

Follow(canWrap) == NextAfter(w.e.start, MaxCluster, FreeClusters, w.wrapped, w.at, canWrap)

Take(next, wrapped, jpeg) ==
  w' = [w EXCEPT !.at = next, !.left = @ - 1, !.wrapped = wrapped, !.tries = 0, !.jpeg = jpeg,
                 !.out = Append(@, data[w.at]), !.read = Append(@, w.at)]
Copying(how) == pc = "copy" /\ w.how = how /\ w.left > 0 /\ w.at \in Cluster
CopyOnly == UNCHANGED <<volume, pc, wanted, dry_run, has_map, stack, visited, folder, deleted, stats, faults>>

\* One cluster of the loop over the free clusters.
TakeFreeCluster(how) ==
  /\ Copying(how)
  /\ LET next == Follow(has_map)
         fits == Accepts(w.jpeg, data[w.at])
     IN  /\ fits \/ w.out = <<>> \/ ~has_map \/ w.tries >= MaxTries
         /\ Take(next.cluster, next.wrapped,
                 IF ~fits \/ w.jpeg = "off" THEN "off" ELSE "scan")
  /\ CopyOnly

\* A cluster that cannot continue the JPEG is passed over.
PassOver(how) ==
  /\ Copying(how) /\ ~Accepts(w.jpeg, data[w.at])
  /\ w.out # <<>> /\ has_map /\ w.tries < MaxTries
  /\ LET next == Follow(TRUE)
     IN  w' = [w EXCEPT !.at = next.cluster, !.wrapped = next.wrapped, !.tries = @ + 1,
                        !.read = Append(@, w.at)]
  /\ CopyOnly

\* FAT's write_file and exFAT's copy_skipping_allocated.
WriteFile == TakeFreeCluster("walk") \/ PassOver("walk")
CopySkippingAllocated == TakeFreeCluster("skip") \/ PassOver("skip")

\* copy_contiguous and copy_chain, one cluster.
CopyContiguous ==
  /\ Copying("contiguous") /\ Take(w.at + 1, FALSE, "off") /\ CopyOnly
CopyChain ==
  /\ Copying("chain") /\ w.at \notin ToSet(w.read)
  /\ Take(NextCluster(w.at), FALSE, "off")
  /\ CopyOnly

Ended == w.left = 0 \/ w.at \notin Cluster \/ (w.how = "chain" /\ w.at \in ToSet(w.read))

\* An incomplete chain: start again in the same file, emptied, with the free
\* clusters.
RewindChain ==
  /\ pc = "copy" /\ w.how = "chain" /\ Ended /\ w.left > 0
  /\ w' = Writer(w.e, "skip") /\ CopyOnly

\* The file is complete, or its clusters ran out: it is recorded as it is.
Finish ==
  /\ pc = "copy" /\ Ended /\ (w.how = "chain" => w.left = 0)
  /\ stats' = Record(w.e, TRUE, w.out) /\ pc' = "walk" /\ w' = NoWriter
  /\ UNCHANGED <<volume, wanted, dry_run, has_map, stack, visited, folder, deleted, faults>>

\* Creating or writing the output file fails; the next file is tried.  When
\* it fails makes no difference to the report.
WriteFails ==
  /\ pc = "copy" /\ w.read = <<>> /\ faults < MaxFaults
  /\ stats' = Record(w.e, FALSE, <<>>) /\ pc' = "walk" /\ w' = NoWriter /\ faults' = faults + 1
  /\ UNCHANGED <<volume, wanted, dry_run, has_map, stack, visited, folder, deleted>>

Step == Recover \/ OpenFolder \/ ReadFolderCluster \/ ParseFolder \/ NextFile \/ Finished
          \/ WriteFile \/ CopySkippingAllocated \/ CopyContiguous \/ CopyChain
          \/ RewindChain \/ Finish \/ WriteFails
Next == (pc = "life" /\ Live /\ UNCHANGED recovery) \/ Step
Spec == Init /\ [][Next]_vars
\* The recovery is one sequential call: once started it goes on.
FairSpec == Spec /\ WF_vars(pc # "life" /\ Step)

(* ------------------------------ Correctness ---------------------------- *)

\* Every variable is what the code's types and bounds allow.
TypeOK ==
  /\ fs \in FileSystems /\ fat \in [Cluster -> {Free, Eoc} \cup Cluster] /\ used \subseteq Cluster
  /\ data \in [Cluster -> [of : Names \cup {Root}, block : Nat]]
  /\ hand \in Cluster /\ alive \subseteq Names /\ ops \in 0 .. MaxOps
  /\ pc \in {"life", "walk", "folder", "copy", "done"} /\ has_map \in BOOLEAN /\ dry_run \in BOOLEAN
  /\ \A i \in DOMAIN stack : stack[i].cluster \in Cluster \cup {0} /\ stack[i].gone \in BOOLEAN
  /\ visited \subseteq Cluster /\ faults \in 0 .. MaxFaults
  /\ pc = "copy" => /\ w.how \in FreeWalks \cup {"contiguous", "chain"} /\ w.left \in 0 .. MaxCluster
                    /\ w.at \in Cluster \cup {NoCluster, MaxCluster + 1}
                    /\ w.tries \in 0 .. MaxTries /\ w.jpeg \in {"off", "start", "scan"}

\* The bytes of x are all still where the driver put them.
Intact(x) ==
  /\ home[x] # <<>>
  /\ \A i \in DOMAIN home[x] : data[home[x][i]] = [of |-> x, block |-> i]

\* Entry e of x still says where x began: in full, or by a low half that no
\* other free cluster with the right first bytes shares.
Tells(e, x) ==
  \/ e.start = home[x][1] /\ (fs # "fat32" \/ ~e.deleted \/ MaxCluster < Half \/ e.start >= Half)
  \/ /\ fs = "fat32" /\ e.deleted /\ e.start >= 2 /\ home[x][1] % Half = e.start
     /\ fat[home[x][1]] = Free
     /\ \A c \in Cluster \ {home[x][1]} :
          c % Half = e.start /\ fat[c] = Free =>
            IF x \in Dirs THEN ~StartsWithDotEntry(c) ELSE ~Shows(c, x)
Listed(x, d) == \E i \in DOMAIN entries[d] : entries[d][i].name = x /\ Tells(entries[d][i], x)

\* x is listed in a folder that is itself there, all the way up to the root.
Reachable(x) ==
  \E path \in SUBSET Dirs :
    /\ \A d \in path : Intact(d) /\ \E p \in path \cup {Root} : Listed(d, p)
    /\ \E p \in path \cup {Root} : Listed(x, p)

\* The clusters the walk from x's start meets before x's last one, x's own
\* excepted, in the allocator's cyclic order.
Gaps(x) ==
  {c \in Cluster \ OnDisk(x) : Ahead(c, home[x][1]) < Ahead(Last(home[x]), home[x][1])}

\* What is enough for x to come back whole: deleted, untouched, found, and
\* every gap in it either in use or, for a JPEG, filled with data a JPEG
\* cannot contain; a contiguous file needs no more than its start.
Recoverable(x) ==
  LET openGaps == {c \in Gaps(x) : c \notin used}
  IN  /\ x \notin alive /\ Intact(x) /\ OnDisk(x) \cap used = {} /\ Reachable(x)
      /\ \/ Consecutive(home[x])
         \/ has_map /\ openGaps = {}
         \/ /\ has_map /\ Ext[x] = "jpg" /\ Cardinality(openGaps) <= MaxTries
            /\ \A c \in openGaps : ~Accepts("scan", data[c])

\* A file nothing has touched since it was deleted comes back block for
\* block, across gaps held by other files, across the end of the volume, and
\* through a folder that was deleted with it (write_file, walk and
\* resolve_start_cluster of fat.rs; write_file and walk of exfat.rs).
UntouchedFilesComeBack ==
  pc = "done" /\ ~dry_run /\ faults = 0 =>
    \A x \in wanted : Recoverable(x) =>
      \E i \in DOMAIN stats :
        /\ stats[i].name = x /\ stats[i].recovered
        /\ stats[i].out = [k \in DOMAIN home[x] |-> [of |-> x, block |-> k]]

\* Reassembling a file reads no cluster twice and, after its first one, none
\* that a live file holds; and the file comes back shorter than its entry
\* says only when every free cluster was tried (FreeWalk::next_after of
\* recover.rs; write_file of fat.rs: "the entry's size unless the walk ran
\* out of clusters").
ReadsOnlyFreeClusters ==
  /\ IsInjective(w.read)
  /\ has_map => \A i \in 2 .. Len(w.read) : w.read[i] \notin used
ShortOnlyWhenExhausted ==
  Ended /\ w.left > 0 /\ has_map => FreeClusters \subseteq ToSet(w.read)
FreeClustersWalkedOnce ==
  pc = "copy" /\ w.how \in FreeWalks => ReadsOnlyFreeClusters /\ ShortOnlyWhenExhausted

\* Every deleted file whose entry can still be reached is in the report
\* exactly once, recovered or skipped, whatever the walk met on the way
\* (walk and recover_deleted).
EveryDeletedFileReported ==
  pc = "done" =>
    \A x \in wanted :
      LET records == {i \in DOMAIN stats : stats[i].name = x}
      IN  /\ Cardinality(records) <= 1
          /\ x \notin alive /\ home[x] # <<>> /\ Reachable(x) => records # {}

\* Only deleted files are reported: "a cluster since reused for file data is
\* not read as a directory" (walk of fat.rs), "Recover all deleted files on
\* this volume" (recover_deleted).
OnlyDeletedReported == \A i \in DOMAIN stats : stats[i].name \notin alive

\* Once started, the recovery ends, however the chains and folders point
\* (visited and FreeWalk in walk and write_file, the guard set of copy_chain).
Terminates == pc = "walk" ~> pc = "done"
=============================================================================
