-------------------------- MODULE FatUndeleteProofs --------------------------
(***************************************************************************)
(* Proofs about the recovery of deleted FAT and exFAT files, for volumes   *)
(* of any size and any life of them.                                       *)
(*                                                                         *)
(* Reassembly.  A file reads every cluster at most once, none that a live  *)
(* file holds, and gives up only when every free cluster was tried.  The   *)
(* walk is cyclic: from the file's start up to the end of the volume, then *)
(* from cluster 2 up to the start.  The invariant says what part of the    *)
(* circle is behind it: the free clusters of that part are read, and what  *)
(* is read lies in that part, apart from the start itself, which may be in *)
(* use.  Before the recovery the volume's own life matters for one fact:   *)
(* the FAT of a cluster in use is not Free.                                *)
(*                                                                         *)
(* The report.  Every deleted file that can be reached is reported once.   *)
(* The invariant has two parts.  VolumeSound is about the volume's life: a *)
(* name has one entry, an entry says where its file began, a folder's data *)
(* stays what it was until its cluster is taken, a FAT leads from cluster  *)
(* to cluster of live files only, and folders form no cycle.  InOrder is   *)
(* about the walk: the folders whose clusters were read have given up all  *)
(* their deleted files, each once, and all their folders to the stack.     *)
(***************************************************************************)
EXTENDS FatUndelete, SetFacts

(* ------------------------------- The walk ------------------------------ *)

\* The walk over `free` from `start` stands at `at` (a number that is no
\* cluster: at its end) and has read the clusters `seen`.
AtTheStart(start, at, wrapped, seen) == at = start /\ ~wrapped /\ seen = {}
StillAhead(free, start, at, seen) ==
  /\ at \in free /\ start < at
  /\ \A c \in seen : start <= c /\ c < at
  /\ \A c \in free : start <= c /\ c < at => c \in seen
Wrapped(free, start, at, seen) ==
  /\ at \in free /\ at < start
  /\ \A c \in seen : start <= c \/ c < at
  /\ \A c \in free : start <= c \/ c < at => c \in seen
AtTheEnd(free, at, wrapped, seen, mapped) ==
  /\ at \notin Cluster
  /\ mapped => free \subseteq seen
WalkAt(free, start, at, wrapped, seen, mapped) ==
  \/ AtTheStart(start, at, wrapped, seen)
  \/ ~wrapped /\ StillAhead(free, start, at, seen)
  \/ wrapped /\ Wrapped(free, start, at, seen)
  \/ AtTheEnd(free, at, wrapped, seen, mapped)

\* Where the walk stands, it has not read yet.
LEMMA WalkIsFresh ==
  ASSUME VolumeAssumption,
         NEW free \in SUBSET Cluster, NEW start \in Cluster, NEW at \in Cluster, NEW wrapped,
         NEW seen \in SUBSET Cluster, NEW mapped,
         WalkAt(free, start, at, wrapped, seen, mapped)
  PROVE  at \notin seen
<1> USE DEF Cluster, VolumeAssumption
<1>1. CASE AtTheStart(start, at, wrapped, seen)
  BY <1>1 DEF AtTheStart
<1>2. CASE StillAhead(free, start, at, seen)
  BY <1>2 DEF StillAhead
<1>3. CASE Wrapped(free, start, at, seen)
  BY <1>3 DEF Wrapped
<1>4. CASE AtTheEnd(free, at, wrapped, seen, mapped)
  BY <1>4 DEF AtTheEnd
<1> QED
  BY <1>1, <1>2, <1>3, <1>4 DEF WalkAt

\* Min is the least of a set of clusters that is not empty.
LEMMA LeastCluster ==
  ASSUME VolumeAssumption, NEW S \in SUBSET Cluster, S # {}
  PROVE  Min(S) \in S /\ \A c \in S : Min(S) <= c
<1>1. S \in SUBSET Nat
  BY DEF Cluster, VolumeAssumption
<1>2. \E x \in S : \A y \in S : x <= y
  BY <1>1, LeastNatural
<1> QED
  BY <1>2 DEF Min

\* FreeWalk::next_after keeps the walk in order.
LEMMA WalkGoesOn ==
  ASSUME VolumeAssumption,
         NEW free \in SUBSET Cluster, NEW start \in Cluster, NEW at \in Cluster,
         NEW wrapped, wrapped \in BOOLEAN, NEW seen \in SUBSET Cluster,
         NEW mapped, mapped \in BOOLEAN,
         WalkAt(free, start, at, wrapped, seen, mapped)
  PROVE  /\ NextAfter(start, MaxCluster, free, wrapped, at, mapped).wrapped \in BOOLEAN
         /\ WalkAt(free, start, NextAfter(start, MaxCluster, free, wrapped, at, mapped).cluster,
                   NextAfter(start, MaxCluster, free, wrapped, at, mapped).wrapped,
                   seen \cup {at}, mapped)
<1> DEFINE stop  == IF wrapped THEN start ELSE MaxCluster + 1
           ahead == {c \in free : c > at /\ c < stop}
           below == {c \in free : c >= 2 /\ c < start}
           now   == seen \cup {at}
           next  == NextAfter(start, MaxCluster, free, wrapped, at, mapped)
<1> SUFFICES /\ next.wrapped \in BOOLEAN
             /\ WalkAt(free, start, next.cluster, next.wrapped, now, mapped)
  OBVIOUS
<1> USE DEF Cluster, VolumeAssumption
\* What the three standing places have in common.
<1>1. /\ \/ ~wrapped /\ start <= at
         \/ wrapped /\ at < start
      /\ \A c \in seen : IF wrapped THEN start <= c \/ c < at ELSE start <= c /\ c < at
      /\ \A c \in free : (IF wrapped THEN start <= c \/ c < at ELSE start <= c /\ c < at)
                           => c \in seen
  <2>1. CASE AtTheStart(start, at, wrapped, seen)
    BY <2>1 DEF AtTheStart
  <2>2. CASE ~wrapped /\ StillAhead(free, start, at, seen)
    BY <2>2 DEF StillAhead
  <2>3. CASE wrapped /\ Wrapped(free, start, at, seen)
    BY <2>3 DEF Wrapped
  <2>4. CASE AtTheEnd(free, at, wrapped, seen, mapped)
    BY <2>4 DEF AtTheEnd
  <2> QED
    BY <2>1, <2>2, <2>3, <2>4 DEF WalkAt
<1>2. CASE ahead # {}
  <2>1. next.cluster = Min(ahead) /\ next.wrapped = wrapped
    BY <1>2 DEF NextAfter
  <2>2. Min(ahead) \in ahead /\ \A c \in ahead : Min(ahead) <= c
    <3>1. ahead \in SUBSET Cluster
      OBVIOUS
    <3> HIDE DEF ahead
    <3> QED BY <1>2, <3>1, LeastCluster
  <2> DEFINE m == Min(ahead)
  <2>3. m \in free /\ m > at /\ m < stop /\ \A c \in free : at < c /\ c < stop => m <= c
    BY <2>2
  <2> HIDE DEF m
  <2>4. CASE ~wrapped
    <3>1. StillAhead(free, start, m, now)
      BY <1>1, <2>3, <2>4 DEF StillAhead
    <3> QED BY <2>1, <2>4, <3>1 DEF WalkAt, m
  <2>5. CASE wrapped
    <3>1. Wrapped(free, start, m, now)
      BY <1>1, <2>3, <2>5 DEF Wrapped
    <3> QED BY <2>1, <2>5, <3>1 DEF WalkAt, m
  <2> QED BY <2>4, <2>5
<1>3. CASE ahead = {} /\ wrapped
  <2>1. next.cluster = NoCluster /\ next.wrapped = wrapped
    BY <1>3 DEF NextAfter
  <2>2. \A c \in free : ~ (at < c /\ c < start)
    BY <1>3
  <2>3. free \subseteq now
    BY <1>1, <1>3, <2>2
  <2> QED
    BY <2>1, <2>3 DEF WalkAt, AtTheEnd, NoCluster
<1>4. CASE ahead = {} /\ ~wrapped /\ ~mapped
  <2>1. next.cluster = NoCluster /\ next.wrapped = wrapped
    BY <1>4 DEF NextAfter
  <2> QED
    BY <1>4, <2>1 DEF WalkAt, AtTheEnd, NoCluster
<1>5. CASE ahead = {} /\ ~wrapped /\ mapped
  <2>1. \A c \in free : start <= c => c \in now
    <3>1. \A c \in free : ~ (at < c /\ c < MaxCluster + 1)
      BY <1>5
    <3> QED BY <1>1, <1>5, <3>1
  <2>2. CASE below = {}
    <3>1. next.cluster = NoCluster /\ next.wrapped = TRUE
      BY <1>5, <2>2 DEF NextAfter
    <3>2. free \subseteq now
      BY <2>1, <2>2
    <3> HIDE DEF now
    <3>3. AtTheEnd(free, NoCluster, TRUE, now, mapped)
      BY <3>2 DEF AtTheEnd, NoCluster
    <3>4. WalkAt(free, start, NoCluster, TRUE, now, mapped)
      BY <3>3, Zenon DEF WalkAt
    <3> QED BY <3>1, <3>4, Zenon
  <2>3. CASE below # {}
    <3>1. next.cluster = Min(below) /\ next.wrapped = TRUE
      BY <1>5, <2>3 DEF NextAfter
    <3>2. Min(below) \in below /\ \A c \in below : Min(below) <= c
      <4>1. below \in SUBSET Cluster
        OBVIOUS
      <4> HIDE DEF below
      <4> QED BY <2>3, <4>1, LeastCluster
    <3> DEFINE m == Min(below)
    <3>3. m \in free /\ m < start /\ \A c \in free : c < start => m <= c
      BY <3>2
    <3> HIDE DEF m
    <3>4. Wrapped(free, start, m, now)
      BY <1>1, <1>5, <2>1, <3>3 DEF Wrapped
    <3> QED BY <3>1, <3>4 DEF WalkAt, m
  <2> QED BY <2>2, <2>3
<1> HIDE DEF ahead, next
<1> QED
  BY <1>2, <1>3, <1>4, <1>5

(* --------------------------- The volume's life -------------------------- *)

\* Without a bitmap, the FAT tells the clusters in use.
InUseIsMarked ==
  /\ used \subseteq Cluster
  /\ fs # "exfat" => \A c \in used : fat[c] # Free

\* A volume that was just formatted marks nothing but its root.
LEMMA LifeBegins == VolumeAssumption /\ LifeInit => InUseIsMarked
<1> SUFFICES ASSUME VolumeAssumption, LifeInit PROVE InUseIsMarked
  OBVIOUS
<1> DEFINE taken == {RootCluster(fs)} \ {0}
<1>1. taken \subseteq Cluster
  BY DEF RootCluster, VolumeAssumption
<1>2. used = taken /\ \A c \in Cluster : c \in taken => fat[c] = Eoc
  BY DEF LifeInit
<1> HIDE DEF taken
<1> QED
  BY <1>1, <1>2 DEF InUseIsMarked, Free, Eoc

\* Placing a file takes clusters that were free.
LEMMA PlacedClusters ==
  ASSUME NEW n \in Nat, NEW clusters \in Place(n)
  PROVE  clusters \in Seq(Cluster) /\ Len(clusters) = n /\ \A i \in 1 .. n : clusters[i] \in Cluster
<1>1. clusters \in [1 .. n -> Cluster]
  BY DEF Place
<1> QED
  BY <1>1

\* The clusters a new file takes are not Free in its FAT.
LEMMA CreateMarks ==
  ASSUME VolumeAssumption, InUseIsMarked, NEW x \in Names, NEW d \in Dirs \cup {Root}, Create(x, d)
  PROVE  InUseIsMarked'
<1> DEFINE size == IF x \in Dirs THEN 1 ELSE Blocks[x]
<1>1. size \in Nat
  BY DEF Names, VolumeAssumption
<1>2. PICK clusters \in Place(size) :
        LET n == Len(clusters)
            pos == [c \in {clusters[i] : i \in 1 .. n} |-> CHOOSE i \in 1 .. n : clusters[i] = c]
            whole == fs = "exfat" /\ Consecutive(clusters)
        IN  /\ fat' = IF whole THEN fat
                      ELSE [c \in Cluster |-> IF c \notin DOMAIN pos THEN fat[c]
                                              ELSE IF pos[c] = n THEN Eoc ELSE clusters[pos[c] + 1]]
            /\ used' = used \cup DOMAIN pos
  <2> HIDE DEF size
  <2> QED BY Zenon DEF Create, size
<1>3. fs' = fs
  BY DEF Create
<1> HIDE DEF size
<1>4. /\ clusters \in Seq(Cluster) /\ Len(clusters) = size
      /\ \A i \in 1 .. size : clusters[i] \in Cluster
  BY <1>1, PlacedClusters
<1> DEFINE placed == {clusters[i] : i \in 1 .. size}
           pos == [c \in placed |-> CHOOSE i \in 1 .. size : clusters[i] = c]
<1>5. /\ used' = used \cup placed
      /\ fs # "exfat" =>
           fat' = [c \in Cluster |-> IF c \notin placed THEN fat[c]
                                     ELSE IF pos[c] = size THEN Eoc ELSE clusters[pos[c] + 1]]
  BY <1>2, <1>4
<1>6. placed \subseteq Cluster
  BY <1>4
<1>7. \A c \in placed : pos[c] \in 1 .. size
  OBVIOUS
<1> HIDE DEF pos, placed
<1>8. ASSUME fs # "exfat", NEW c \in used'
      PROVE  fat'[c] # Free
  <2>1. c \in Cluster
    BY <1>5, <1>6, <1>8 DEF InUseIsMarked
  <2>2. CASE c \notin placed
    BY <1>5, <1>8, <2>1, <2>2 DEF InUseIsMarked
  <2>3. CASE c \in placed
    <3>1. fat'[c] = IF pos[c] = size THEN Eoc ELSE clusters[pos[c] + 1]
      BY <1>5, <1>8, <2>1, <2>3
    <3>2. pos[c] # size => clusters[pos[c] + 1] \in Cluster
      BY <1>1, <1>4, <1>7, <2>3
    <3> QED BY <3>1, <3>2 DEF Cluster, Free, Eoc
  <2> QED BY <2>2, <2>3
<1> QED
  BY <1>3, <1>5, <1>6, <1>8 DEF InUseIsMarked

\* Deleting frees in the FAT only what it frees in the volume.
LEMMA DeleteMarks ==
  ASSUME InUseIsMarked, NEW x \in Names, Delete(x)
  PROVE  InUseIsMarked'
<1> DEFINE gone  == {x} \cup (IF x \in Dirs THEN In(x) ELSE {})
           freed == UNION {OnDisk(y) : y \in gone}
<1>1. /\ used' = used \ freed /\ fs' = fs
      /\ fs # "exfat" => fat' = [c \in Cluster |-> IF c \in freed THEN Free ELSE fat[c]]
  BY DEF Delete
<1> HIDE DEF freed
<1> QED
  BY <1>1 DEF InUseIsMarked

(* ----------------------------- The recovery ---------------------------- *)

WriterFields == {"how", "e", "at", "left", "wrapped", "tries", "jpeg", "out", "read"}

\* The walk of the file being reassembled, and what it has read.
WalkInOrder ==
  /\ IsInjective(w.read)
  /\ \A i \in 2 .. Len(w.read) : w.read[i] \in FreeClusters
  /\ WalkAt(FreeClusters, w.e.start, w.at, w.wrapped, ToSet(w.read), has_map)
Reading ==
  /\ DOMAIN w = WriterFields
  /\ w.e.start \in Cluster /\ w.read \in Seq(Cluster) /\ w.wrapped \in BOOLEAN
  /\ w.how \in FreeWalks => WalkInOrder
IInv ==
  /\ InUseIsMarked /\ has_map \in BOOLEAN
  /\ pc = "copy" => Reading

\* A cluster read once more.
LEMMA OneMoreRead ==
  ASSUME NEW read \in Seq(Cluster), NEW at \in Cluster
  PROVE  /\ Append(read, at) \in Seq(Cluster) /\ Len(Append(read, at)) = Len(read) + 1
         /\ \A i \in 1 .. Len(read) : Append(read, at)[i] = read[i]
         /\ Append(read, at)[Len(read) + 1] = at
         /\ ToSet(Append(read, at)) = ToSet(read) \cup {at}
         /\ at \notin ToSet(read) /\ IsInjective(read) => IsInjective(Append(read, at))
<1> DEFINE more == Append(read, at)
<1>1. /\ more \in Seq(Cluster) /\ Len(more) = Len(read) + 1
      /\ \A i \in 1 .. Len(read) : more[i] = read[i]
      /\ more[Len(read) + 1] = at
  OBVIOUS
<1>2. Len(read) \in Nat /\ DOMAIN read = 1 .. Len(read) /\ DOMAIN more = 1 .. Len(read) + 1
  BY <1>1
<1> HIDE DEF more
<1>3. ToSet(more) = ToSet(read) \cup {at}
  BY <1>1, <1>2 DEF ToSet
<1>4. ASSUME at \notin ToSet(read), IsInjective(read)
      PROVE  IsInjective(more)
  <2>1. \A i \in 1 .. Len(read) : read[i] # at
    BY <1>2, <1>4 DEF ToSet
  <2>2. \A i, j \in 1 .. Len(read) : read[i] = read[j] => i = j
    BY <1>2, <1>4 DEF IsInjective
  <2> SUFFICES ASSUME NEW i \in 1 .. Len(read) + 1, NEW j \in 1 .. Len(read) + 1, more[i] = more[j]
               PROVE  i = j
    BY <1>2 DEF IsInjective
  <2> QED
    BY <1>1, <1>2, <2>1, <2>2
<1> QED
  BY <1>1, <1>3, <1>4 DEF more

\* A file that is opened has read nothing and stands at its start.
LEMMA WriterBegins ==
  ASSUME NEW e, e.start \in Cluster, NEW how, w' = Writer(e, how)
  PROVE  Reading'
<1>1. /\ DOMAIN w' = WriterFields
      /\ w'.e = e /\ w'.at = e.start /\ w'.wrapped = FALSE /\ w'.read = <<>>
  BY DEF Writer, WriterFields
<1>2. ToSet(<<>>) = {} /\ IsInjective(<<>>) /\ Len(<<>>) = 0 /\ <<>> \in Seq(Cluster)
  BY DEF ToSet, IsInjective
<1>3. WalkInOrder'
  BY <1>1, <1>2 DEF WalkInOrder, WalkAt, AtTheStart
<1> QED
  BY <1>1, <1>2, <1>3 DEF Reading

\* What a step that reads one cluster more leaves of the rest.
SameVolume == fs' = fs /\ fat' = fat /\ used' = used /\ has_map' = has_map
OneRead ==
  /\ DOMAIN w' = DOMAIN w /\ w'.e = w.e /\ w'.how = w.how
  /\ w.at \in Cluster /\ w'.read = Append(w.read, w.at)

\* What is free depends on the volume alone.
LEMMA SameFreeClusters == SameVolume => FreeClusters' = FreeClusters
BY DEF SameVolume, FreeClusters, ClusterIsFree, ClusterAllocated

\* Reading the next cluster of the walk keeps it in order.
LEMMA WalkStepInOrder ==
  ASSUME VolumeAssumption, IInv, pc = "copy", w.how \in FreeWalks, SameVolume, OneRead,
         w'.at = Follow(has_map).cluster, w'.wrapped = Follow(has_map).wrapped
  PROVE  Reading'
<1> DEFINE F == FreeClusters
           seen == ToSet(w.read)
<1>1. /\ DOMAIN w = WriterFields /\ w.e.start \in Cluster /\ w.read \in Seq(Cluster)
      /\ w.wrapped \in BOOLEAN /\ WalkInOrder /\ has_map \in BOOLEAN
  BY DEF IInv, Reading
<1>2. F \in SUBSET Cluster
  BY DEF FreeClusters
<1>3. seen \in SUBSET Cluster
  BY <1>1 DEF ToSet
<1>4. IsInjective(w.read) /\ WalkAt(F, w.e.start, w.at, w.wrapped, seen, has_map)
      /\ \A i \in 2 .. Len(w.read) : w.read[i] \in F
  BY <1>1 DEF WalkInOrder
<1>5. w.at \in Cluster
  BY DEF OneRead
<1> HIDE DEF F, seen
<1>6. w.at \notin seen
  BY <1>1, <1>2, <1>3, <1>4, <1>5, WalkIsFresh
<1>7. /\ w'.wrapped \in BOOLEAN
      /\ WalkAt(F, w.e.start, w'.at, w'.wrapped, seen \cup {w.at}, has_map)
  <2> DEFINE next == NextAfter(w.e.start, MaxCluster, F, w.wrapped, w.at, has_map)
  <2>1. /\ next.wrapped \in BOOLEAN
        /\ WalkAt(F, w.e.start, next.cluster, next.wrapped, seen \cup {w.at}, has_map)
    <3> DEFINE wr == w.wrapped
               at == w.at
               start == w.e.start
    <3>1. /\ start \in Cluster /\ at \in Cluster /\ wr \in BOOLEAN /\ has_map \in BOOLEAN
          /\ WalkAt(F, start, at, wr, seen, has_map)
      BY <1>1, <1>4, <1>5
    <3> HIDE DEF wr, at, start
    <3>2. LET n == NextAfter(start, MaxCluster, F, wr, at, has_map)
          IN /\ n.wrapped \in BOOLEAN
             /\ WalkAt(F, start, n.cluster, n.wrapped, seen \cup {at}, has_map)
      BY <1>2, <1>3, <3>1, WalkGoesOn
    <3> QED BY <3>2 DEF wr, at, start
  <2> QED BY <2>1 DEF Follow, F
<1>8. /\ w'.read \in Seq(Cluster) /\ Len(w'.read) = Len(w.read) + 1
      /\ \A i \in 1 .. Len(w.read) : w'.read[i] = w.read[i]
      /\ w'.read[Len(w.read) + 1] = w.at
      /\ ToSet(w'.read) = seen \cup {w.at} /\ IsInjective(w'.read)
  BY <1>1, <1>4, <1>5, <1>6, OneMoreRead DEF OneRead, seen
<1>9. Len(w.read) \in Nat /\ (Len(w.read) >= 1 => seen # {})
  <2>1. Len(w.read) \in Nat /\ DOMAIN w.read = 1 .. Len(w.read)
    BY <1>1
  <2>2. Len(w.read) >= 1 => w.read[1] \in seen
    BY <2>1 DEF seen, ToSet
  <2> QED BY <2>1, <2>2
<1>10. seen # {} => w.at \in F
  BY <1>4, <1>5 DEF WalkAt, AtTheStart, StillAhead, Wrapped, AtTheEnd
<1>11. \A i \in 2 .. Len(w'.read) : w'.read[i] \in F
  <2> SUFFICES ASSUME NEW i \in 2 .. Len(w'.read) PROVE w'.read[i] \in F
    OBVIOUS
  <2>1. CASE i <= Len(w.read)
    <3>1. i \in 1 .. Len(w.read) /\ i \in 2 .. Len(w.read)
      BY <1>9, <2>1
    <3> QED BY <1>4, <1>8, <3>1
  <2>2. CASE ~ (i <= Len(w.read))
    <3>1. i = Len(w.read) + 1 /\ Len(w.read) >= 1
      BY <1>8, <1>9, <2>2
    <3> QED BY <1>8, <1>9, <1>10, <3>1
  <2> QED BY <2>1, <2>2
<1>12. F' = F /\ has_map' = has_map
  BY SameFreeClusters DEF F, SameVolume
<1>13. w'.e.start = w.e.start /\ DOMAIN w' = DOMAIN w
  BY DEF OneRead
<1>14. WalkInOrder'
  <2>1. WalkAt(F, w.e.start, w'.at, w'.wrapped, ToSet(w'.read), has_map)
    BY <1>7, <1>8
  <2> QED BY <1>8, <1>11, <1>12, <1>13, <2>1 DEF WalkInOrder, F
<1> QED
  BY <1>1, <1>7, <1>8, <1>13, <1>14 DEF Reading

\* The loops of write_file and copy_skipping_allocated.
LEMMA WalkStep ==
  ASSUME VolumeAssumption, IInv, NEW how \in FreeWalks, TakeFreeCluster(how) \/ PassOver(how)
  PROVE  IInv'
<1>1. /\ pc = "copy" /\ pc' = pc /\ w.how = how /\ w.at \in Cluster /\ SameVolume
      /\ has_map \in BOOLEAN
  BY DEF TakeFreeCluster, PassOver, Copying, CopyOnly, volume, SameVolume, IInv
<1>2. DOMAIN w = WriterFields
  BY <1>1 DEF IInv, Reading
<1>3. OneRead /\ w'.at = Follow(has_map).cluster /\ w'.wrapped = Follow(has_map).wrapped
  <2>1. CASE TakeFreeCluster(how)
    <3> DEFINE next == Follow(has_map)
    <3>1. PICK jpeg : Take(next.cluster, next.wrapped, jpeg)
      BY <2>1 DEF TakeFreeCluster
    <3> HIDE DEF next
    <3>2. /\ DOMAIN w' = DOMAIN w /\ w'.e = w.e /\ w'.how = w.how
          /\ w'.read = Append(w.read, w.at) /\ w'.at = next.cluster /\ w'.wrapped = next.wrapped
      BY <1>2, <3>1 DEF Take, WriterFields
    <3> QED BY <1>1, <3>2 DEF OneRead, next
  <2>2. CASE PassOver(how)
    <3> DEFINE next == Follow(TRUE)
    <3>1. /\ has_map = TRUE
          /\ w' = [w EXCEPT !.at = next.cluster, !.wrapped = next.wrapped, !.tries = @ + 1,
                            !.read = Append(@, w.at)]
      BY <1>1, <2>2 DEF PassOver
    <3> HIDE DEF next
    <3>2. /\ DOMAIN w' = DOMAIN w /\ w'.e = w.e /\ w'.how = w.how
          /\ w'.read = Append(w.read, w.at) /\ w'.at = next.cluster /\ w'.wrapped = next.wrapped
      BY <1>2, <3>1 DEF WriterFields
    <3>3. next = Follow(has_map)
      BY <3>1 DEF next
    <3> QED BY <1>1, <3>2, <3>3 DEF OneRead
  <2> QED BY <2>1, <2>2
<1>4. Reading'
  BY <1>1, <1>3, WalkStepInOrder
<1> QED
  BY <1>1, <1>4 DEF IInv, InUseIsMarked, SameVolume

\* copy_contiguous and copy_chain.
LEMMA PlainStep ==
  ASSUME IInv, CopyContiguous \/ CopyChain
  PROVE  IInv'
<1>1. /\ pc = "copy" /\ pc' = pc /\ w.how \in {"contiguous", "chain"} /\ w.at \in Cluster
      /\ SameVolume
  BY DEF CopyContiguous, CopyChain, Copying, CopyOnly, volume, SameVolume
<1>2. DOMAIN w = WriterFields /\ w.e.start \in Cluster /\ w.read \in Seq(Cluster)
  BY <1>1 DEF IInv, Reading
<1>3. PICK at : Take(at, FALSE, "off")
  BY DEF CopyContiguous, CopyChain
<1>4. OneRead /\ w'.wrapped = FALSE
  BY <1>1, <1>2, <1>3 DEF Take, OneRead, WriterFields
<1>5. w'.read \in Seq(Cluster)
  BY <1>1, <1>2, <1>4 DEF OneRead
<1>6. Reading'
  BY <1>1, <1>2, <1>4, <1>5 DEF Reading, OneRead, FreeWalks
<1> QED
  BY <1>1, <1>6 DEF IInv, InUseIsMarked, SameVolume

(* ------------------------------ The theorem ---------------------------- *)

\* Before the recovery, nothing is being read.
LEMMA IInvInitially == VolumeAssumption /\ Init => IInv
BY LifeBegins DEF Init, IInv

\* Every step keeps the walk in its place.
LEMMA IInvStep == VolumeAssumption /\ IInv /\ [Next]_vars => IInv'
<1> SUFFICES ASSUME VolumeAssumption, IInv, [Next]_vars PROVE IInv'
  OBVIOUS
<1>1. CASE pc = "life" /\ Live /\ UNCHANGED recovery
  <2>1. InUseIsMarked'
    BY <1>1, CreateMarks, DeleteMarks DEF Live, IInv
  <2>2. pc' = pc /\ has_map' = has_map
    BY <1>1 DEF recovery
  <2> QED BY <1>1, <2>1, <2>2 DEF IInv
<1>2. CASE Recover
  BY <1>2 DEF Recover, volume, IInv, InUseIsMarked
<1>3. CASE OpenFolder \/ ReadFolderCluster \/ ParseFolder \/ Finished
  <2>1. SameVolume /\ pc' # "copy"
    BY <1>3 DEF OpenFolder, ReadFolderCluster, ParseFolder, Finished, volume, SameVolume
  <2> QED BY <2>1 DEF IInv, InUseIsMarked, SameVolume
<1>4. CASE NextFile
  <2>1. SameVolume /\ pc = "walk"
    BY <1>4 DEF NextFile, volume, SameVolume
  <2>2. ASSUME pc' = "copy" PROVE Reading'
    <3> DEFINE e == Head(deleted)
    <3>1. e.start \in Cluster
      BY <1>4, <2>1, <2>2 DEF NextFile, Plausible, ValidExtent
    <3>2. PICK how : w' = Writer(e, how)
      BY <1>4, <2>1, <2>2 DEF NextFile
    <3> HIDE DEF e
    <3> QED BY <3>1, <3>2, WriterBegins
  <2> QED BY <2>1, <2>2 DEF IInv, InUseIsMarked, SameVolume
<1>5. CASE WriteFile \/ CopySkippingAllocated
  BY <1>5, WalkStep DEF WriteFile, CopySkippingAllocated, FreeWalks
<1>6. CASE CopyContiguous \/ CopyChain
  BY <1>6, PlainStep
<1>7. CASE RewindChain
  <2>1. SameVolume /\ pc = "copy" /\ w' = Writer(w.e, "skip")
    BY <1>7 DEF RewindChain, CopyOnly, volume, SameVolume
  <2>2. w.e.start \in Cluster
    BY <2>1 DEF IInv, Reading
  <2>3. Reading'
    BY <2>1, <2>2, WriterBegins
  <2> QED BY <2>1, <2>3 DEF IInv, InUseIsMarked, SameVolume
<1>8. CASE Finish \/ WriteFails
  <2>1. SameVolume /\ pc' # "copy"
    BY <1>8 DEF Finish, WriteFails, volume, SameVolume
  <2> QED BY <2>1 DEF IInv, InUseIsMarked, SameVolume
<1>9. CASE UNCHANGED vars
  <2>1. SameVolume /\ pc' = pc /\ w' = w
    BY <1>9 DEF vars, volume, recovery, SameVolume
  <2>2. FreeClusters' = FreeClusters
    BY <2>1, SameFreeClusters
  <2>3. WalkInOrder' = WalkInOrder
    BY <2>1, <2>2 DEF WalkInOrder, SameVolume
  <2>4. Reading' = Reading
    BY <2>1, <2>3 DEF Reading
  <2> QED BY <2>1, <2>4 DEF IInv, InUseIsMarked, SameVolume
<1> QED
  BY <1>1, <1>2, <1>3, <1>4, <1>5, <1>6, <1>7, <1>8, <1>9 DEF Next, Step

\* What the invariant says of a file that is being reassembled.
LEMMA InOrderIsEnough == IInv => FreeClustersWalkedOnce
<1> SUFFICES ASSUME IInv, pc = "copy", w.how \in FreeWalks
             PROVE  ReadsOnlyFreeClusters /\ ShortOnlyWhenExhausted
  BY DEF FreeClustersWalkedOnce
<1>1. WalkInOrder /\ w.e.start \in Cluster /\ w.read \in Seq(Cluster)
  BY DEF IInv, Reading
<1>2. has_map => \A c \in FreeClusters : c \notin used
  BY DEF FreeClusters, ClusterIsFree, ClusterAllocated, IInv, InUseIsMarked
<1>3. ReadsOnlyFreeClusters
  BY <1>1, <1>2 DEF ReadsOnlyFreeClusters, WalkInOrder
<1>4. ASSUME Ended, w.left > 0, has_map
      PROVE  FreeClusters \subseteq ToSet(w.read)
  <2>1. w.at \notin Cluster
    BY <1>4 DEF Ended, FreeWalks
  <2>2. FreeClusters \subseteq Cluster
    BY DEF FreeClusters
  <2> QED
    BY <1>1, <1>4, <2>1, <2>2
       DEF WalkInOrder, WalkAt, AtTheStart, StillAhead, Wrapped, AtTheEnd
<1> QED
  BY <1>3, <1>4 DEF ShortOnlyWhenExhausted

\* Reassembling a deleted file reads no cluster twice and, after its first
\* one, none that a live file holds, and it stops short only when every free
\* cluster was tried: FreeWalk of recover.rs under write_file of fat.rs and
\* copy_skipping_allocated of exfat.rs, for every volume and every life of it.
THEOREM WalksFreeClustersOnce == Spec => []FreeClustersWalkedOnce
<1> SUFFICES ASSUME VolumeAssumption PROVE Spec => []FreeClustersWalkedOnce
  BY VolumeAssumption
<1>1. VolumeAssumption /\ Init => IInv
  BY IInvInitially
<1>2. VolumeAssumption /\ IInv /\ [Next]_vars => IInv'
  BY IInvStep
<1>3. IInv => FreeClustersWalkedOnce
  BY InOrderIsEnough
<1> QED
  BY <1>1, <1>2, <1>3, PTL DEF Spec

(* ------------------------------ Sequences ------------------------------ *)

\* No two elements of a sequence of entries have the same name, junk apart.
Distinct(s) ==
  \A i, j \in 1 .. Len(s) : s[i].name = s[j].name /\ s[i].name # Root => i = j

\* r has the elements of s at the places of `keep` below n.
Chosen(r, s, keep, n, S) ==
  /\ r \in Seq(S)
  /\ \A k \in 1 .. Len(r) : \E i \in 1 .. n : i \in keep /\ r[k] = s[i]
  /\ \A i \in 1 .. n : i \in keep => \E k \in 1 .. Len(r) : r[k] = s[i]
  /\ Distinct(s) => Distinct(r)

\* ItemsAt, one element further: an element to keep is added.
LEMMA ChooseOne ==
  ASSUME NEW S, NEW s \in Seq(S), NEW keep, NEW n \in Nat, n + 1 \in 1 .. Len(s), n + 1 \in keep,
         NEW r, Chosen(r, s, keep, n, S)
  PROVE  Chosen(Append(r, s[n + 1]), s, keep, n + 1, S)
<1> DEFINE m == n + 1
           t == Append(r, s[n + 1])
<1>1. /\ m \in 1 .. Len(s) /\ m \in keep /\ s[m] \in S /\ ~ (m <= n)
      /\ \A i \in 1 .. m : i \in 1 .. n \/ i = m
      /\ \A i \in 1 .. n : i \in 1 .. m /\ i # m /\ i \in 1 .. Len(s)
      /\ m \in 1 .. m
  OBVIOUS
<1>2. r \in Seq(S)
  BY DEF Chosen
<1>3. /\ t \in Seq(S) /\ Len(t) = Len(r) + 1 /\ t[Len(r) + 1] = s[m]
      /\ \A k \in 1 .. Len(r) : t[k] = r[k]
  BY <1>1, <1>2
<1>4. /\ \A k \in 1 .. Len(r) + 1 : k \in 1 .. Len(r) \/ k = Len(r) + 1
      /\ \A k \in 1 .. Len(r) : k \in 1 .. Len(r) + 1
      /\ Len(r) + 1 \in 1 .. Len(r) + 1
  BY <1>2
<1> HIDE DEF m, t
<1>5. ASSUME NEW k \in 1 .. Len(t)
      PROVE  \E i \in 1 .. m : i \in keep /\ t[k] = s[i]
  <2>1. CASE k \in 1 .. Len(r)
    <3>1. PICK i \in 1 .. n : i \in keep /\ r[k] = s[i]
      BY <2>1 DEF Chosen
    <3> QED BY <1>1, <1>3, <2>1, <3>1
  <2>2. CASE k = Len(r) + 1
    BY <1>1, <1>3, <2>2
  <2> QED BY <1>3, <1>4, <2>1, <2>2
<1>6. \A i \in 1 .. m : i \in keep => \E k \in 1 .. Len(t) : t[k] = s[i]
  BY <1>1, <1>3, <1>4 DEF Chosen
<1>7. ASSUME Distinct(s) PROVE Distinct(t)
  <2>1. Distinct(r)
    BY <1>7 DEF Chosen
  <2>2. \A k \in 1 .. Len(r) : r[k].name = s[m].name => r[k].name = Root
    <3> SUFFICES ASSUME NEW k \in 1 .. Len(r), r[k].name = s[m].name, r[k].name # Root PROVE FALSE
      OBVIOUS
    <3>1. PICK i \in 1 .. n : r[k] = s[i]
      BY DEF Chosen
    <3>2. i = m
      BY <1>1, <1>7, <3>1 DEF Distinct
    <3> QED BY <1>1, <3>2
  <2> SUFFICES ASSUME NEW k \in 1 .. Len(t), NEW l \in 1 .. Len(t),
                      t[k].name = t[l].name, t[k].name # Root
               PROVE  k = l
    BY DEF Distinct
  <2>3. CASE k \in 1 .. Len(r) /\ l \in 1 .. Len(r)
    BY <1>3, <2>1, <2>3 DEF Distinct
  <2>4. CASE k \in 1 .. Len(r) /\ l = Len(r) + 1
    BY <1>3, <2>2, <2>4
  <2>5. CASE k = Len(r) + 1 /\ l \in 1 .. Len(r)
    BY <1>3, <2>2, <2>5
  <2> QED BY <1>3, <1>4, <2>3, <2>4, <2>5
<1> QED
  BY <1>3, <1>5, <1>6, <1>7 DEF Chosen, m, t

\* ItemsAt, one element further: an element not to keep is left out.
LEMMA ChooseNot ==
  ASSUME NEW S, NEW s \in Seq(S), NEW keep, NEW n \in Nat, n + 1 \notin keep,
         NEW r, Chosen(r, s, keep, n, S)
  PROVE  Chosen(r, s, keep, n + 1, S)
<1>1. /\ \A i \in 1 .. n + 1 : i \in keep => i \in 1 .. n
      /\ \A i \in 1 .. n : i \in 1 .. n + 1
  <2>1. \A i \in 1 .. n + 1 : i = n + 1 \/ i \in 1 .. n
    OBVIOUS
  <2> QED BY <2>1
<1> QED
  BY <1>1 DEF Chosen

\* ItemsAt keeps the elements at its places, and no name twice.
LEMMA ItemsAtFacts ==
  ASSUME NEW S, NEW s \in Seq(S), NEW keep
  PROVE  Chosen(ItemsAt(s, keep), s, keep, Len(s), S)
<1> DEFINE L == Len(s)
           Body(f) == [n \in 0 .. L |-> IF n = 0 THEN <<>>
                         ELSE IF n \in keep THEN Append(f[n - 1], s[n]) ELSE f[n - 1]]
           step == [n \in 0 + 1 .. L |-> [r \in Seq(S) |->
                      IF n \in keep THEN Append(r, s[n]) ELSE r]]
           kept == CHOOSE f : f = Body(f)
<1>1. L \in Nat /\ \A n \in 1 .. L : s[n] \in S
  OBVIOUS
<1>2. step \in [0 + 1 .. L -> [Seq(S) -> Seq(S)]]
  BY <1>1
<1>3. PICK f \in [0 .. L -> Seq(S)] :
        \A n \in 0 .. L : f[n] = IF n = 0 THEN <<>> ELSE step[n][f[n - 1]]
  <2>1. Recursive(0, L, Seq(S), <<>>, step)
    BY <1>1, <1>2 DEF Recursive
  <2>2. \E f : Follows(f, 0, L, Seq(S), <<>>, step)
    <3> HIDE DEF L, step
    <3> QED BY <2>1, RecursionHolds
  <2> HIDE DEF L, step
  <2> QED
    BY <2>2 DEF Follows
<1>4. f = Body(f)
  <2>1. \A n \in 0 .. L : n # 0 => n \in 0 + 1 .. L /\ n - 1 \in 0 .. L /\ f[n - 1] \in Seq(S)
    BY <1>1, <1>3
  <2>2. \A n \in 0 .. L : f[n] = Body(f)[n]
    BY <1>3, <2>1
  <2> QED
    BY <1>3, <2>2
<1>5. kept = Body(kept)
  <2> HIDE DEF Body
  <2> QED BY <1>4
<1>6. ItemsAt(s, keep) = kept[L]
  BY DEF ItemsAt
<1> HIDE DEF kept
<1>7. \A n \in 0 .. L : kept[n] = IF n = 0 THEN <<>>
                          ELSE IF n \in keep THEN Append(kept[n - 1], s[n]) ELSE kept[n - 1]
  BY <1>5
<1> DEFINE Fine(n) == Chosen(kept[n], s, keep, n, S)
           Good == {n \in Nat : n <= L => Fine(n)}
<1>8. 0 \in Good
  <2>1. kept[0] = <<>>
    BY <1>1, <1>7
  <2>2. Chosen(<<>>, s, keep, 0, S)
    BY DEF Chosen, Distinct
  <2> QED BY <2>1, <2>2
<1>9. \A n \in Nat : n \in Good => n + 1 \in Good
  <2> SUFFICES ASSUME NEW n \in Nat, n \in Good, n + 1 <= L
               PROVE  Fine(n + 1)
    <3> HIDE DEF Fine
    <3> QED OBVIOUS
  <2>1. n + 1 \in 0 .. L /\ n + 1 # 0 /\ n + 1 - 1 = n /\ n <= L /\ n + 1 \in 1 .. Len(s)
    BY <1>1
  <2>2. kept[n + 1] = IF n + 1 \in keep THEN Append(kept[n], s[n + 1]) ELSE kept[n]
    <3>1. PICK j \in 0 .. L : j = n + 1 /\ j # 0 /\ j - 1 = n
      BY <2>1
    <3>2. kept[j] = IF j \in keep THEN Append(kept[n], s[j]) ELSE kept[n]
      BY <1>7, <3>1
    <3> QED BY <3>1, <3>2
  <2>3. Chosen(kept[n], s, keep, n, S)
    BY <2>1
  <2> QED
    BY <2>1, <2>2, <2>3, ChooseOne, ChooseNot
<1>10. L \in Good
  <2> HIDE DEF Good, L
  <2> QED BY <1>1, <1>8, <1>9, InductionOnSet
<1> QED
  <2>1. Fine(L)
    BY <1>1, <1>10
  <2> QED BY <1>6, <2>1

\* r is the concatenation of the first n of the sequences in ss.
Joined(r, ss, n, S) ==
  /\ r \in Seq(S)
  /\ \A k \in 1 .. Len(r) : \E j \in 1 .. n : \E i \in 1 .. Len(ss[j]) : r[k] = ss[j][i]
  /\ \A j \in 1 .. n : \A i \in 1 .. Len(ss[j]) : \E k \in 1 .. Len(r) : r[k] = ss[j][i]
\* Sequences of entries that share no names but that of junk.
AllApart(ss) ==
  /\ \A j \in 1 .. Len(ss) : Distinct(ss[j])
  /\ \A j, l \in 1 .. Len(ss) : j # l =>
       \A i \in 1 .. Len(ss[j]), k \in 1 .. Len(ss[l]) :
         ss[j][i].name = ss[l][k].name => ss[j][i].name = Root

\* Where the elements of two sequences are when one follows the other.
LEMMA ConcatFacts ==
  ASSUME NEW S, NEW r \in Seq(S), NEW t \in Seq(S)
  PROVE  /\ r \o t \in Seq(S) /\ Len(r \o t) = Len(r) + Len(t)
         /\ \A k \in 1 .. Len(r) : (r \o t)[k] = r[k] /\ k \in 1 .. Len(r \o t)
         /\ \A k \in 1 .. Len(t) : (r \o t)[Len(r) + k] = t[k] /\ Len(r) + k \in 1 .. Len(r \o t)
         /\ \A k \in 1 .. Len(r \o t) : k \in 1 .. Len(r) \/ \E i \in 1 .. Len(t) : k = Len(r) + i
<1>1. Len(r) \in Nat /\ Len(t) \in Nat
  OBVIOUS
<1>2. r \o t \in Seq(S) /\ Len(r \o t) = Len(r) + Len(t)
  OBVIOUS
<1>3. \A k \in 1 .. Len(r) : (r \o t)[k] = r[k] /\ k \in 1 .. Len(r \o t)
  BY <1>1, <1>2
<1>4. \A k \in 1 .. Len(t) : (r \o t)[Len(r) + k] = t[k] /\ Len(r) + k \in 1 .. Len(r \o t)
  BY <1>1, <1>2
<1>5. ASSUME NEW k \in 1 .. Len(r \o t), k \notin 1 .. Len(r)
      PROVE  \E i \in 1 .. Len(t) : k = Len(r) + i
  <2>1. PICK a \in Nat, b \in Nat : a = Len(r) /\ b = Len(t)
    BY <1>1
  <2>2. k \in 1 .. a + b /\ k \notin 1 .. a
    BY <1>2, <1>5, <2>1
  <2>3. k - a \in 1 .. b /\ k = a + (k - a)
    BY <2>2
  <2> QED BY <2>1, <2>3
<1> QED
  BY <1>2, <1>3, <1>4, <1>5

\* Two sequences of entries with different names, one after the other.
LEMMA ConcatDistinct ==
  ASSUME NEW S, NEW r \in Seq(S), NEW t \in Seq(S), Distinct(r), Distinct(t),
         \A k \in 1 .. Len(r), i \in 1 .. Len(t) : r[k].name = t[i].name => r[k].name = Root
  PROVE  Distinct(r \o t)
<1> DEFINE u == r \o t
<1>1. /\ \A k \in 1 .. Len(r) : u[k] = r[k]
      /\ \A k \in 1 .. Len(t) : u[Len(r) + k] = t[k]
      /\ \A k \in 1 .. Len(u) : k \in 1 .. Len(r) \/ \E i \in 1 .. Len(t) : k = Len(r) + i
  BY ConcatFacts
<1> HIDE DEF u
<1> SUFFICES ASSUME NEW k \in 1 .. Len(u), NEW l \in 1 .. Len(u),
                    u[k].name = u[l].name, u[k].name # Root
             PROVE  k = l
  BY DEF Distinct, u
<1>2. CASE k \in 1 .. Len(r) /\ l \in 1 .. Len(r)
  BY <1>1, <1>2 DEF Distinct
<1>3. CASE k \in 1 .. Len(r) /\ \E i \in 1 .. Len(t) : l = Len(r) + i
  BY <1>1, <1>3
<1>4. CASE l \in 1 .. Len(r) /\ \E i \in 1 .. Len(t) : k = Len(r) + i
  BY <1>1, <1>4
<1>5. ASSUME NEW i \in 1 .. Len(t), NEW j \in 1 .. Len(t), k = Len(r) + i, l = Len(r) + j
      PROVE  k = l
  <2>1. u[k] = t[i] /\ u[l] = t[j]
    BY <1>1, <1>5
  <2>2. i = j
    BY <2>1 DEF Distinct
  <2> QED BY <1>5, <2>2
<1> QED
  BY <1>1, <1>2, <1>3, <1>4, <1>5

\* A concatenation, one sequence further.
LEMMA JoinOne ==
  ASSUME NEW S, NEW ss \in Seq(Seq(S)), NEW n \in Nat, n + 1 \in 1 .. Len(ss),
         NEW r, Joined(r, ss, n, S)
  PROVE  /\ Joined(r \o ss[n + 1], ss, n + 1, S)
         /\ AllApart(ss) /\ Distinct(r) => Distinct(r \o ss[n + 1])
<1> DEFINE m == n + 1
           t == ss[m]
           u == r \o t
<1>1. /\ m \in 1 .. Len(ss) /\ t \in Seq(S) /\ m \in 1 .. m
      /\ \A j \in 1 .. m : j \in 1 .. n \/ j = m
      /\ \A j \in 1 .. n : j \in 1 .. m /\ j # m /\ j \in 1 .. Len(ss)
  OBVIOUS
<1>2. r \in Seq(S)
  BY DEF Joined
<1> HIDE DEF m
<1>3. /\ u \in Seq(S) /\ Len(u) = Len(r) + Len(t)
      /\ \A k \in 1 .. Len(r) : u[k] = r[k] /\ k \in 1 .. Len(u)
      /\ \A k \in 1 .. Len(t) : u[Len(r) + k] = t[k] /\ Len(r) + k \in 1 .. Len(u)
      /\ \A k \in 1 .. Len(u) : k \in 1 .. Len(r) \/ \E i \in 1 .. Len(t) : k = Len(r) + i
  <2> HIDE DEF t
  <2> QED BY <1>1, <1>2, ConcatFacts
<1> HIDE DEF t, u
<1>4. ASSUME NEW k \in 1 .. Len(u)
      PROVE  \E j \in 1 .. m : \E i \in 1 .. Len(ss[j]) : u[k] = ss[j][i]
  <2>1. CASE k \in 1 .. Len(r)
    <3>1. PICK j \in 1 .. n : \E i \in 1 .. Len(ss[j]) : r[k] = ss[j][i]
      BY <2>1 DEF Joined
    <3> QED BY <1>1, <1>3, <2>1, <3>1
  <2>2. ASSUME NEW i \in 1 .. Len(t), k = Len(r) + i
        PROVE  \E j \in 1 .. m : \E h \in 1 .. Len(ss[j]) : u[k] = ss[j][h]
    BY <1>1, <1>3, <2>2 DEF t
  <2> QED BY <1>3, <2>1, <2>2
<1>5. ASSUME NEW j \in 1 .. m, NEW i \in 1 .. Len(ss[j])
      PROVE  \E k \in 1 .. Len(u) : u[k] = ss[j][i]
  <2>1. CASE j \in 1 .. n
    <3>1. PICK k \in 1 .. Len(r) : r[k] = ss[j][i]
      BY <2>1 DEF Joined
    <3> QED BY <1>3, <3>1
  <2>2. CASE j = m
    BY <1>3, <2>2 DEF t
  <2> QED BY <1>1, <2>1, <2>2
<1>6. Joined(u, ss, m, S)
  BY <1>3, <1>4, <1>5 DEF Joined
<1>7. ASSUME AllApart(ss), Distinct(r)
      PROVE  Distinct(u)
  <2>1. Distinct(t)
    BY <1>1, <1>7 DEF AllApart, t
  <2>2. \A k \in 1 .. Len(r), i \in 1 .. Len(t) : r[k].name = t[i].name => r[k].name = Root
    <3> SUFFICES ASSUME NEW k \in 1 .. Len(r), NEW i \in 1 .. Len(t), r[k].name = t[i].name
                 PROVE  r[k].name = Root
      OBVIOUS
    <3>1. PICK j \in 1 .. n : \E h \in 1 .. Len(ss[j]) : r[k] = ss[j][h]
      BY DEF Joined
    <3>2. PICK h \in 1 .. Len(ss[j]) : r[k] = ss[j][h]
      BY <3>1
    <3>3. j \in 1 .. Len(ss) /\ j # m /\ ss[j][h].name = ss[m][i].name /\ i \in 1 .. Len(ss[m])
      BY <1>1, <3>2 DEF t
    <3> QED BY <1>1, <1>7, <3>2, <3>3 DEF AllApart
  <2> QED BY <1>1, <1>2, <1>7, <2>1, <2>2, ConcatDistinct DEF u
<1> QED
  BY <1>6, <1>7 DEF m, t, u

\* FlattenSeq concatenates, and names no entry twice if its sequences share
\* none.
LEMMA FlattenFacts ==
  ASSUME NEW S, NEW ss \in Seq(Seq(S))
  PROVE  /\ Joined(FlattenSeq(ss), ss, Len(ss), S)
         /\ AllApart(ss) => Distinct(FlattenSeq(ss))
<1> DEFINE L == Len(ss)
           Body(f) == [n \in 1 .. L |-> IF n = 1 THEN ss[n] ELSE f[n - 1] \o ss[n]]
           step == [n \in 1 + 1 .. L |-> [r \in Seq(S) |-> r \o ss[n]]]
           flat == CHOOSE f : f = Body(f)
<1>1. L \in Nat /\ \A n \in 1 .. L : ss[n] \in Seq(S)
  OBVIOUS
<1>2. CASE L = 0
  <2>1. FlattenSeq(ss) = <<>>
    BY <1>2 DEF FlattenSeq
  <2> QED BY <1>2, <2>1 DEF Joined, Distinct
<1>3. CASE L # 0
  <2>1. 1 <= L /\ ss[1] \in Seq(S)
    BY <1>1, <1>3
  <2>2. step \in [1 + 1 .. L -> [Seq(S) -> Seq(S)]]
    BY <1>1
  <2>3. PICK f \in [1 .. L -> Seq(S)] :
          \A n \in 1 .. L : f[n] = IF n = 1 THEN ss[1] ELSE step[n][f[n - 1]]
    <3>1. Recursive(1, L, Seq(S), ss[1], step)
      BY <1>1, <2>1, <2>2 DEF Recursive
    <3>2. \E f : Follows(f, 1, L, Seq(S), ss[1], step)
      <4> HIDE DEF L, step
      <4> QED BY <3>1, RecursionHolds
    <3> HIDE DEF L, step
    <3> QED BY <3>2 DEF Follows
  <2>4. f = Body(f)
    <3>1. \A n \in 1 .. L : n # 1 => n \in 1 + 1 .. L /\ n - 1 \in 1 .. L
      BY <1>1
    <3>2. \A n \in 1 .. L : n # 1 => f[n - 1] \in Seq(S)
      BY <2>3, <3>1
    <3>3. \A n \in 1 .. L : n # 1 => step[n][f[n - 1]] = f[n - 1] \o ss[n]
      BY <3>1, <3>2
    <3>4. \A n \in 1 .. L : f[n] = Body(f)[n]
      <4> HIDE DEF step
      <4> QED BY <2>3, <3>3
    <3> QED BY <2>3, <3>4
  <2>5. flat = Body(flat)
    <3> HIDE DEF Body
    <3> QED BY <2>4
  <2>6. FlattenSeq(ss) = flat[L]
    BY <1>3 DEF FlattenSeq
  <2> HIDE DEF flat
  <2>7. \A n \in 1 .. L : flat[n] = IF n = 1 THEN ss[n] ELSE flat[n - 1] \o ss[n]
    BY <2>5
  <2> DEFINE Fine(n) == Joined(flat[n], ss, n, S) /\ (AllApart(ss) => Distinct(flat[n]))
             Good == {n \in Nat : n \in 1 .. L => Fine(n)}
  <2>8. 0 \in Good
    OBVIOUS
  <2>9. Fine(1)
    <3>1. flat[1] = ss[1] /\ 1 \in 1 .. L
      BY <1>1, <2>1, <2>7
    <3>2. \A j \in 1 .. 1 : j = 1
      OBVIOUS
    <3>3. Joined(ss[1], ss, 1, S)
      BY <2>1, <3>2 DEF Joined
    <3>4. AllApart(ss) => Distinct(ss[1])
      BY <3>1 DEF AllApart
    <3> QED BY <3>1, <3>3, <3>4
  <2>10. \A n \in Nat : n \in Good => n + 1 \in Good
    <3> TAKE n \in Nat
    <3> HAVE n \in Good
    <3> SUFFICES ASSUME n + 1 \in 1 .. L PROVE Fine(n + 1)
      <4> HIDE DEF Fine, L
      <4> QED OBVIOUS
    <3>1. CASE n = 0
      <4>1. n + 1 = 1
        BY <3>1
      <4> HIDE DEF Fine
      <4> QED BY <2>9, <4>1
    <3>2. CASE n # 0
      <4>1. n + 1 \in 1 .. L /\ n + 1 # 1 /\ n + 1 - 1 = n /\ n \in 1 .. L
        BY <1>1, <3>2
      <4>2. Fine(n)
        <5> HIDE DEF Fine
        <5> QED BY <4>1
      <4>3. flat[n + 1] = flat[n] \o ss[n + 1]
        <5>1. PICK j \in 1 .. L : j = n + 1 /\ j # 1 /\ j - 1 = n
          BY <4>1
        <5>2. flat[j] = flat[n] \o ss[j]
          BY <2>7, <5>1
        <5> QED BY <5>1, <5>2
      <4>4. /\ Joined(flat[n] \o ss[n + 1], ss, n + 1, S)
            /\ AllApart(ss) /\ Distinct(flat[n]) => Distinct(flat[n] \o ss[n + 1])
        BY <4>1, <4>2, JoinOne
      <4> QED BY <4>2, <4>3, <4>4
    <3> QED BY <3>1, <3>2
  <2>11. L \in Good
    <3> HIDE DEF Good, L
    <3> QED BY <1>1, <2>8, <2>10, InductionOnSet
  <2>12. Fine(L)
    <3> HIDE DEF Fine
    <3> QED BY <2>1, <2>11, <1>1
  <2> QED BY <2>6, <2>12
<1> QED
  BY <1>2, <1>3

(* --------------------------- The volume's life -------------------------- *)

\* The folders, and what an entry is; the start of x is its first cluster.
Folders == Dirs \cup {Root}
EntryType ==
  [name : Names \cup {Root}, start : Nat, size : Nat, contiguous : BOOLEAN, deleted : BOOLEAN]
First(x) == IF home[x] = <<>> THEN 0 ELSE home[x][1]

\* The types of the volume.
VolumeTyped ==
  /\ fs \in FileSystems /\ fat \in [Cluster -> {Free, Eoc} \cup Cluster] /\ used \in SUBSET Cluster
  /\ data \in [Cluster -> [of : Names \cup {Root}, block : Nat]]
  /\ entries \in [Folders -> Seq(EntryType)]
  /\ hand \in Cluster /\ alive \in SUBSET Names /\ home \in [Names -> Seq(Cluster)] /\ ops \in 0 .. MaxOps

\* Only a folder's own cluster ever holds it, and what is on a cluster that
\* was once handed out is no part of the root folder.
OneHome == \A c \in Cluster, d \in Dirs : data[c].of = d => home[d] = <<c>>
HomesHeld ==
  \A x \in Names : \A k \in 1 .. Len(home[x]) :
    home[x][k] # RootCluster(fs) /\ data[home[x][k]].of \in Names
RootHeld ==
  LET r == RootCluster(fs) IN r # 0 => r \in used /\ data[r].of = Root /\ fat[r] = Eoc
AliveInPlace ==
  \A x \in alive : \A k \in 1 .. Len(home[x]) :
    home[x][k] \in used /\ data[home[x][k]].of = x
\* A FAT leads only through live files.
ChainsOfFiles ==
  fs # "exfat" => \A c \in Cluster : fat[c] \in Cluster =>
    \E x \in Files \cap alive : \E k \in 1 .. Len(home[x]) :
      k + 1 \in 1 .. Len(home[x]) /\ home[x][k] = c /\ home[x][k + 1] = fat[c]

\* A name stands in one entry, and what the entry says.
EntriesApart ==
  \A p, q \in Folders : \A i \in 1 .. Len(entries[p]), j \in 1 .. Len(entries[q]) :
    entries[p][i].name = entries[q][j].name => p = q /\ i = j
SaysOf(p, e) ==
  /\ e.name \in Names
  /\ p \in alive \cup {Root} /\ ~e.deleted => e.name \in alive
  /\ (e.deleted /\ fs = "fat32") \/ e.start = First(e.name)
EntriesSay == \A p \in Folders : \A i \in 1 .. Len(entries[p]) : SaysOf(p, entries[p][i])
FoldersBegin ==
  \A d \in Dirs : Len(home[d]) <= 1 /\ (home[d] = <<>> => entries[d] = <<>> /\ d \notin alive)
\* The folders listed in folders form no cycle.
NoCycles == \A T \in SUBSET Dirs : T # {} => \E d \in T : \A p \in T : d \notin NamesIn(p)

\* All that is kept of the volume through its life.
VolumeSound ==
  /\ OneHome /\ HomesHeld /\ RootHeld /\ AliveInPlace /\ ChainsOfFiles
  /\ EntriesApart /\ EntriesSay /\ FoldersBegin /\ NoCycles

\* What the parameters say of the cluster numbers and the names.
LEMMA ClusterFacts ==
  VolumeAssumption =>
    /\ Cluster \in SUBSET Nat /\ \A c \in Cluster : c # 0 /\ c # Free /\ c # Eoc /\ c # NoCluster
    /\ 0 \notin Cluster /\ MaxCluster \in Cluster /\ 2 \in Cluster
    /\ \A c \in Cluster : c # MaxCluster => c + 1 \in Cluster
    /\ Root \notin Files /\ Root \notin Dirs /\ Files \cap Dirs = {} /\ Names = Files \cup Dirs
BY DEF VolumeAssumption, Cluster, Names, Free, Eoc, NoCluster

\* What creating x in folder d does: `cs` are its clusters, `at` the place of
\* each of them, and e its entry, put in slot i of d.
Made(x, d, cs, at, i, e) ==
  LET placed == {cs[k] : k \in 1 .. Len(cs)}
  IN  /\ home[x] = <<>> /\ d \in alive \cup {Root} /\ \A p \in Folders : x \notin NamesIn(p)
      /\ cs \in Seq(Cluster) /\ \A k \in 1 .. Len(cs) : cs[k] \in Cluster /\ cs[k] \notin used
      /\ x \in Dirs => Len(cs) = 1
      /\ \A c \in placed : at[c] \in 1 .. Len(cs) /\ cs[at[c]] = c
      /\ fs' = fs /\ alive' = alive \cup {x} /\ used' = used \cup placed
      /\ home' = [home EXCEPT ![x] = cs]
      /\ data' = [c \in Cluster |-> IF c \in placed THEN [of |-> x, block |-> at[c]] ELSE data[c]]
      /\ \/ fs = "exfat" /\ fat' = fat
         \/ fat' = [c \in Cluster |-> IF c \notin placed THEN fat[c]
                                      ELSE IF at[c] = Len(cs) THEN Eoc ELSE cs[at[c] + 1]]
      /\ hand' \in Cluster /\ ops' \in 0 .. MaxOps
      /\ e \in EntryType /\ e.name = x /\ ~e.deleted
      /\ e.start = IF cs = <<>> THEN 0 ELSE cs[1]
      /\ i \in Slots(d) /\ entries' = [entries EXCEPT ![d] = Put(d, i, e)]

\* What its entry measures, and how its clusters are chained: an exFAT file
\* in one piece has no chain.
HandedOut(cs, at, e) ==
  /\ cs \in Place(Len(cs)) /\ e.size = Len(cs)
  /\ e.contiguous <=> fs = "exfat" /\ Consecutive(cs)
  /\ fat' = IF fs = "exfat" /\ Consecutive(cs) THEN fat
            ELSE [c \in Cluster |-> IF c \notin {cs[k] : k \in 1 .. Len(cs)} THEN fat[c]
                                    ELSE IF at[c] = Len(cs) THEN Eoc ELSE cs[at[c] + 1]]

\* Create makes x, whatever clusters the driver finds for it.
LEMMA CreateMakes ==
  ASSUME VolumeAssumption, VolumeTyped, NEW x \in Names, NEW d \in Folders, Create(x, d)
  PROVE  \E cs, at, i, e : Made(x, d, cs, at, i, e) /\ HandedOut(cs, at, e)
<1> DEFINE size == IF x \in Dirs THEN 1 ELSE Blocks[x]
           Pos(cs) == [c \in {cs[k] : k \in 1 .. Len(cs)} |->
                         CHOOSE k \in 1 .. Len(cs) : cs[k] = c]
           Whole(cs) == fs = "exfat" /\ Consecutive(cs)
           Put1(cs) == \E i \in Slots(d) :
                entries' = [entries EXCEPT ![d] = Put(d, i, Entry(x, cs, Whole(cs)))]
           Fat1(cs) == fat' = IF Whole(cs) THEN fat
                     ELSE [c \in Cluster |-> IF c \notin DOMAIN Pos(cs) THEN fat[c]
                                             ELSE IF Pos(cs)[c] = Len(cs) THEN Eoc ELSE cs[Pos(cs)[c] + 1]]
           Data1(cs) == data' = [c \in Cluster |->
                         IF c \in DOMAIN Pos(cs) THEN [of |-> x, block |-> Pos(cs)[c]] ELSE data[c]]
           Hand1(cs) == hand' = IF Len(cs) = 0 THEN hand
                      ELSE IF cs[Len(cs)] = MaxCluster THEN 2 ELSE cs[Len(cs)] + 1
<1>1. size \in Nat /\ (x \in Dirs => size = 1)
  BY DEF Names, VolumeAssumption
<1>2. PICK cs \in Place(size) :
        /\ Put1(cs) /\ Fat1(cs) /\ used' = used \cup DOMAIN Pos(cs) /\ Data1(cs) /\ Hand1(cs)
        /\ home' = [home EXCEPT ![x] = cs]
  <2> HIDE DEF size
  <2> QED BY Zenon DEF Create, size
<1>3. /\ home[x] = <<>> /\ d \in alive \cup {Root} /\ \A p \in Folders : x \notin NamesIn(p)
      /\ fs' = fs /\ alive' = alive \cup {x} /\ ops < MaxOps /\ ops' = ops + 1
  BY DEF Create, Folders
<1>4. /\ cs \in [1 .. size -> Cluster \ used] /\ size \in Nat
  BY <1>1 DEF Place
<1> HIDE DEF size
<1>5. /\ cs \in Seq(Cluster) /\ Len(cs) = size
      /\ \A k \in 1 .. Len(cs) : cs[k] \in Cluster /\ cs[k] \notin used
  <2>1. cs \in [1 .. size -> Cluster]
    BY <1>4
  <2>2. cs \in Seq(Cluster) /\ Len(cs) = size
    BY <1>4, <2>1
  <2> QED BY <1>4, <2>2
<1> DEFINE placed == {cs[k] : k \in 1 .. Len(cs)}
           at == Pos(cs)
           e == Entry(x, cs, Whole(cs))
<1>6. /\ DOMAIN at = placed
      /\ \A c \in placed : at[c] \in 1 .. Len(cs) /\ cs[at[c]] = c
  OBVIOUS
<1>7. ops' \in 0 .. MaxOps
  BY <1>3 DEF VolumeTyped, VolumeAssumption
<1>8. hand' \in Cluster
  <2>1. Len(cs) # 0 => cs[Len(cs)] \in Cluster
    BY <1>5
  <2>2. hand \in Cluster
    BY DEF VolumeTyped
  <2> QED BY <1>2, <2>1, <2>2, ClusterFacts
<1>9. /\ e \in EntryType /\ e.name = x /\ ~e.deleted
      /\ e.start = IF cs = <<>> THEN 0 ELSE cs[1]
  <2>1. cs # <<>> => cs[1] \in Cluster
    BY <1>5
  <2>2. (IF cs = <<>> THEN 0 ELSE cs[1]) \in Nat
    BY <2>1, ClusterFacts
  <2>3. Len(cs) \in Nat /\ Whole(cs) \in BOOLEAN
    BY <1>5
  <2> HIDE DEF Whole
  <2> QED BY <2>2, <2>3 DEF Entry, EntryType
<1>10. PICK i \in Slots(d) : entries' = [entries EXCEPT ![d] = Put(d, i, e)]
  BY <1>2
<1>11. e.size = Len(cs) /\ (e.contiguous <=> Whole(cs))
  <2> HIDE DEF Whole
  <2> QED BY DEF Entry
<1>12. /\ fat' = IF Whole(cs) THEN fat
                 ELSE [c \in Cluster |-> IF c \notin placed THEN fat[c]
                                         ELSE IF at[c] = Len(cs) THEN Eoc ELSE cs[at[c] + 1]]
       /\ \/ fs = "exfat" /\ fat' = fat
          \/ fat' = [c \in Cluster |-> IF c \notin placed THEN fat[c]
                                       ELSE IF at[c] = Len(cs) THEN Eoc ELSE cs[at[c] + 1]]
  <2> HIDE DEF at
  <2>1. fat' = IF Whole(cs) THEN fat
               ELSE [c \in Cluster |-> IF c \notin DOMAIN at THEN fat[c]
                                       ELSE IF at[c] = Len(cs) THEN Eoc ELSE cs[at[c] + 1]]
    BY <1>2 DEF at
  <2> QED BY <1>6, <2>1
<1>13. data' = [c \in Cluster |-> IF c \in placed THEN [of |-> x, block |-> at[c]] ELSE data[c]]
  <2> HIDE DEF at
  <2>1. data' = [c \in Cluster |-> IF c \in DOMAIN at THEN [of |-> x, block |-> at[c]] ELSE data[c]]
    BY <1>2 DEF at
  <2> QED BY <1>6, <2>1
<1>14. used' = used \cup placed
  BY <1>2, <1>6
<1> HIDE DEF at, e
<1>15. Made(x, d, cs, at, i, e)
  BY <1>1, <1>2, <1>3, <1>5, <1>6, <1>7, <1>8, <1>9, <1>10, <1>12, <1>13, <1>14 DEF Made
<1>16. HandedOut(cs, at, e)
  <2>1. cs \in Place(Len(cs))
    BY <1>2, <1>5
  <2> QED BY <1>12, <1>11, <2>1 DEF HandedOut
<1> QED
  BY <1>15, <1>16

\* The entries after creating x in d: its own, and otherwise only old ones.
LEMMA MadeEntries ==
  ASSUME VolumeAssumption, VolumeTyped, NEW x \in Names, NEW d \in Folders,
         NEW cs, NEW at, NEW i, NEW e, Made(x, d, cs, at, i, e)
  PROVE  /\ entries' \in [Folders -> Seq(EntryType)]
         /\ \A p \in Folders : p # d => entries'[p] = entries[p]
         /\ i \in 1 .. Len(entries'[d]) /\ entries'[d][i] = e
         /\ \A j \in 1 .. Len(entries'[d]) : j # i =>
              j \in 1 .. Len(entries[d]) /\ entries'[d][j] = entries[d][j]
<1> DEFINE s == entries[d]
           t == Put(d, i, e)
<1>1. s \in Seq(EntryType) /\ e \in EntryType /\ entries \in [Folders -> Seq(EntryType)]
  BY DEF VolumeTyped, Made
<1>2. i \in 1 .. Len(s) \/ i = Len(s) + 1
  <2>1. i \in Slots(d)
    BY DEF Made
  <2> QED BY <2>1 DEF Slots
<1>3. t = IF i > Len(s) THEN Append(s, e) ELSE [s EXCEPT ![i] = e]
  BY DEF Put
<1> HIDE DEF s, t
<1>4. /\ t \in Seq(EntryType) /\ i \in 1 .. Len(t) /\ t[i] = e
      /\ \A j \in 1 .. Len(t) : j # i => j \in 1 .. Len(s) /\ t[j] = s[j]
  <2>1. CASE i \in 1 .. Len(s)
    <3>1. t = [s EXCEPT ![i] = e]
      BY <1>1, <1>3, <2>1
    <3>2. t \in Seq(EntryType) /\ Len(t) = Len(s) /\ \A j \in 1 .. Len(s) : t[j] = IF j = i THEN e ELSE s[j]
      BY <1>1, <2>1, <3>1
    <3> QED BY <2>1, <3>2
  <2>2. CASE i = Len(s) + 1
    <3>1. t = Append(s, e)
      BY <1>1, <1>3, <2>2
    <3>2. /\ t \in Seq(EntryType) /\ Len(t) = Len(s) + 1 /\ t[Len(s) + 1] = e
          /\ \A j \in 1 .. Len(s) : t[j] = s[j]
      BY <1>1, <3>1
    <3>3. Len(s) \in Nat
      BY <1>1
    <3>4. \A j \in 1 .. Len(s) + 1 : j # Len(s) + 1 => j \in 1 .. Len(s)
      BY <3>3
    <3>5. Len(s) + 1 \in 1 .. Len(s) + 1
      BY <3>3
    <3> QED BY <2>2, <3>2, <3>4, <3>5
  <2> QED BY <1>2, <2>1, <2>2
<1>5. entries' = [entries EXCEPT ![d] = t]
  BY DEF Made, t
<1>6. entries' \in [Folders -> Seq(EntryType)] /\ entries'[d] = t
  BY <1>1, <1>4, <1>5
<1>7. \A p \in Folders : p # d => entries'[p] = entries[p]
  BY <1>1, <1>5
<1> QED
  BY <1>4, <1>6, <1>7 DEF s

\* Who holds which cluster after x was created.
LEMMA MadeHomes ==
  ASSUME VolumeAssumption, VolumeTyped, NEW x \in Names, NEW d \in Folders,
         NEW cs, NEW at, NEW i, NEW e, Made(x, d, cs, at, i, e)
  PROVE  /\ home' \in [Names -> Seq(Cluster)] /\ home'[x] = cs
         /\ \A y \in Names : y # x => home'[y] = home[y]
         /\ \A y \in Names : home[y] # <<>> => y # x /\ home'[y] = home[y]
         /\ \A c \in used : data'[c] = data[c] /\ c \in used'
         /\ \A k \in 1 .. Len(cs) : cs[k] \in used' /\ data'[cs[k]].of = x
         /\ \A c \in Cluster : data'[c] # data[c] => \E k \in 1 .. Len(cs) : c = cs[k]
<1> DEFINE placed == {cs[k] : k \in 1 .. Len(cs)}
<1>1. /\ home' = [home EXCEPT ![x] = cs] /\ cs \in Seq(Cluster) /\ home[x] = <<>>
      /\ \A k \in 1 .. Len(cs) : cs[k] \in Cluster /\ cs[k] \notin used
      /\ used' = used \cup placed
      /\ data' = [c \in Cluster |-> IF c \in placed THEN [of |-> x, block |-> at[c]] ELSE data[c]]
  BY DEF Made
<1>2. home \in [Names -> Seq(Cluster)] /\ used \in SUBSET Cluster
  BY DEF VolumeTyped
<1>3. \A k \in 1 .. Len(cs) : cs[k] \in placed
  OBVIOUS
<1>4. \A c \in placed : \E k \in 1 .. Len(cs) : c = cs[k]
  OBVIOUS
<1>5. placed \cap used = {} /\ placed \subseteq Cluster
  BY <1>1, <1>4
<1> HIDE DEF placed
<1>6. \A c \in Cluster : data'[c] = IF c \in placed THEN [of |-> x, block |-> at[c]] ELSE data[c]
  BY <1>1
<1>7. /\ home' \in [Names -> Seq(Cluster)] /\ home'[x] = cs
      /\ \A y \in Names : y # x => home'[y] = home[y]
  BY <1>1, <1>2
<1>8. \A c \in used : data'[c] = data[c] /\ c \in used'
  BY <1>1, <1>2, <1>5, <1>6
<1>9. \A k \in 1 .. Len(cs) : cs[k] \in used' /\ data'[cs[k]].of = x
  BY <1>1, <1>3, <1>5, <1>6
<1>10. \A c \in Cluster : data'[c] # data[c] => \E k \in 1 .. Len(cs) : c = cs[k]
  BY <1>4, <1>6
<1>11. \A y \in Names : home[y] # <<>> => y # x /\ home'[y] = home[y]
  BY <1>1, <1>7
<1> QED
  BY <1>7, <1>8, <1>9, <1>10, <1>11

\* Creating keeps the types of the volume.
LEMMA MadeTyped ==
  ASSUME VolumeAssumption, VolumeTyped, NEW x \in Names, NEW d \in Folders,
         NEW cs, NEW at, NEW i, NEW e, Made(x, d, cs, at, i, e)
  PROVE  VolumeTyped'
<1> DEFINE placed == {cs[k] : k \in 1 .. Len(cs)}
<1>1. /\ cs \in Seq(Cluster) /\ fs' = fs /\ alive' = alive \cup {x} /\ used' = used \cup placed
      /\ \A k \in 1 .. Len(cs) : cs[k] \in Cluster
      /\ \A c \in placed : at[c] \in 1 .. Len(cs)
      /\ data' = [c \in Cluster |-> IF c \in placed THEN [of |-> x, block |-> at[c]] ELSE data[c]]
      /\ \/ fs = "exfat" /\ fat' = fat
         \/ fat' = [c \in Cluster |-> IF c \notin placed THEN fat[c]
                                      ELSE IF at[c] = Len(cs) THEN Eoc ELSE cs[at[c] + 1]]
      /\ hand' \in Cluster /\ ops' \in 0 .. MaxOps
  BY DEF Made
<1>2. placed \subseteq Cluster
  BY <1>1
<1>3. \A c \in placed : at[c] \in Nat /\ (at[c] # Len(cs) => cs[at[c] + 1] \in Cluster)
  <2>1. \A k \in 1 .. Len(cs) : k \in Nat /\ (k # Len(cs) => k + 1 \in 1 .. Len(cs))
    BY <1>1
  <2> QED BY <1>1, <2>1
<1> HIDE DEF placed
<1>4. /\ fs \in FileSystems /\ fat \in [Cluster -> {Free, Eoc} \cup Cluster] /\ used \in SUBSET Cluster
      /\ data \in [Cluster -> [of : Names \cup {Root}, block : Nat]] /\ alive \in SUBSET Names
  BY DEF VolumeTyped
<1>5. fat' \in [Cluster -> {Free, Eoc} \cup Cluster]
  BY <1>1, <1>3, <1>4
<1>6. data' \in [Cluster -> [of : Names \cup {Root}, block : Nat]]
  BY <1>1, <1>3, <1>4
<1>7. entries' \in [Folders -> Seq(EntryType)]
  BY MadeEntries
<1>8. home' \in [Names -> Seq(Cluster)]
  BY MadeHomes
<1> QED
  BY <1>1, <1>2, <1>4, <1>5, <1>6, <1>7, <1>8 DEF VolumeTyped

\* Creating takes no cluster that is in use.
LEMMA MadeInPlace ==
  ASSUME VolumeAssumption, VolumeTyped, VolumeSound, NEW x \in Names, NEW d \in Folders,
         NEW cs, NEW at, NEW i, NEW e, Made(x, d, cs, at, i, e)
  PROVE  OneHome' /\ HomesHeld' /\ RootHeld' /\ AliveInPlace'
<1>1. /\ home' \in [Names -> Seq(Cluster)] /\ home'[x] = cs
      /\ \A y \in Names : y # x => home'[y] = home[y]
      /\ \A y \in Names : home[y] # <<>> => y # x /\ home'[y] = home[y]
      /\ \A c \in used : data'[c] = data[c] /\ c \in used'
      /\ \A k \in 1 .. Len(cs) : cs[k] \in used' /\ data'[cs[k]].of = x
      /\ \A c \in Cluster : data'[c] # data[c] => \E k \in 1 .. Len(cs) : c = cs[k]
  BY MadeHomes
<1>2. /\ fs' = fs /\ alive' = alive \cup {x} /\ cs \in Seq(Cluster) /\ (x \in Dirs => Len(cs) = 1)
      /\ \A k \in 1 .. Len(cs) : cs[k] \in Cluster /\ cs[k] \notin used
  BY DEF Made
<1>3. /\ OneHome /\ HomesHeld /\ RootHeld /\ AliveInPlace
  BY DEF VolumeSound
<1>4. /\ home \in [Names -> Seq(Cluster)] /\ used \in SUBSET Cluster /\ alive \in SUBSET Names
      /\ Dirs \subseteq Names /\ Root \notin Names /\ Root \notin Dirs
  BY ClusterFacts DEF VolumeTyped, Names
<1>5. OneHome'
  <2> SUFFICES ASSUME NEW c \in Cluster, NEW f \in Dirs, data'[c].of = f PROVE home'[f] = <<c>>
    BY DEF OneHome
  <2>1. CASE data'[c] = data[c]
    <3>1. home[f] = <<c>>
      BY <1>3, <2>1 DEF OneHome
    <3>2. f \in Names /\ home[f] # <<>>
      BY <1>4, <3>1
    <3> QED BY <1>1, <3>1, <3>2
  <2>2. CASE data'[c] # data[c]
    <3>1. PICK k \in 1 .. Len(cs) : c = cs[k]
      BY <1>1, <2>2
    <3>2. f = x /\ Len(cs) = 1 /\ k = 1
      BY <1>1, <1>2, <3>1
    <3>3. cs = <<c>>
      BY <1>2, <3>1, <3>2
    <3> QED BY <1>1, <3>2, <3>3
  <2> QED BY <2>1, <2>2
<1>6. RootHeld' /\ \A k \in 1 .. Len(cs) : cs[k] # RootCluster(fs)
  <2> DEFINE r == RootCluster(fs)
  <2>1. r # 0 => r \in used /\ data[r].of = Root /\ fat[r] = Eoc
    BY <1>3 DEF RootHeld
  <2>2. \A k \in 1 .. Len(cs) : cs[k] # r
    BY <1>2, <2>1, ClusterFacts
  <2>3. r # 0 => fat'[r] = fat[r]
    <3> SUFFICES ASSUME r # 0 PROVE fat'[r] = fat[r]
      OBVIOUS
    <3>1. r \in Cluster /\ r \notin {cs[k] : k \in 1 .. Len(cs)}
      BY <1>4, <2>1, <2>2
    <3> HIDE DEF r
    <3>2. \/ fs = "exfat" /\ fat' = fat
          \/ fat' = [c \in Cluster |-> IF c \notin {cs[k] : k \in 1 .. Len(cs)} THEN fat[c]
                                      ELSE IF at[c] = Len(cs) THEN Eoc ELSE cs[at[c] + 1]]
      BY DEF Made
    <3> QED BY <3>1, <3>2
  <2>4. RootCluster(fs)' = r
    BY <1>2 DEF RootCluster
  <2> HIDE DEF r
  <2>5. RootHeld'
    BY <1>1, <2>1, <2>3, <2>4 DEF RootHeld
  <2> QED BY <2>2, <2>5 DEF r
<1>7. HomesHeld'
  <2>1. RootCluster(fs)' = RootCluster(fs)
    BY <1>2 DEF RootCluster
  <2> SUFFICES ASSUME NEW y \in Names, NEW k \in 1 .. Len(home'[y])
               PROVE  home'[y][k] # RootCluster(fs) /\ data'[home'[y][k]].of \in Names
    BY <2>1 DEF HomesHeld
  <2>2. CASE y = x
    BY <1>1, <1>6, <2>2
  <2>3. CASE y # x
    <3>1. home'[y] = home[y] /\ home[y][k] \in Cluster
      BY <1>1, <1>4, <2>3
    <3>2. home[y][k] # RootCluster(fs) /\ data[home[y][k]].of \in Names
      BY <1>3, <3>1 DEF HomesHeld
    <3>3. data'[home[y][k]].of \in Names
      <4>1. CASE data'[home[y][k]] = data[home[y][k]]
        BY <3>2, <4>1
      <4>2. CASE data'[home[y][k]] # data[home[y][k]]
        BY <1>1, <3>1, <4>2
      <4> QED BY <4>1, <4>2
    <3> QED BY <3>1, <3>2, <3>3
  <2> QED BY <2>2, <2>3
<1>8. AliveInPlace'
  <2> SUFFICES ASSUME NEW y \in alive', NEW k \in 1 .. Len(home'[y])
               PROVE  home'[y][k] \in used' /\ data'[home'[y][k]].of = y
    BY DEF AliveInPlace
  <2>1. CASE y = x
    BY <1>1, <2>1
  <2>2. CASE y # x
    <3>1. y \in alive /\ home'[y] = home[y]
      BY <1>1, <1>2, <1>4, <2>2
    <3>2. home[y][k] \in used /\ data[home[y][k]].of = y
      BY <1>3, <3>1 DEF AliveInPlace
    <3> QED BY <1>1, <3>1, <3>2
  <2> QED BY <2>1, <2>2
<1> QED
  BY <1>5, <1>6, <1>7, <1>8

\* Creating adds one chain to the FAT, that of the new file.
LEMMA MadeChains ==
  ASSUME VolumeAssumption, VolumeTyped, VolumeSound, NEW x \in Names, NEW d \in Folders,
         NEW cs, NEW at, NEW i, NEW e, Made(x, d, cs, at, i, e)
  PROVE  ChainsOfFiles'
<1> DEFINE placed == {cs[k] : k \in 1 .. Len(cs)}
<1>1. /\ home' \in [Names -> Seq(Cluster)] /\ home'[x] = cs
      /\ \A y \in Names : home[y] # <<>> => y # x /\ home'[y] = home[y]
  BY MadeHomes
<1>2. /\ fs' = fs /\ alive' = alive \cup {x} /\ cs \in Seq(Cluster) /\ (x \in Dirs => Len(cs) = 1)
      /\ \A c \in placed : at[c] \in 1 .. Len(cs) /\ cs[at[c]] = c
      /\ \/ fs = "exfat" /\ fat' = fat
         \/ fat' = [c \in Cluster |-> IF c \notin placed THEN fat[c]
                                      ELSE IF at[c] = Len(cs) THEN Eoc ELSE cs[at[c] + 1]]
  BY DEF Made
<1> HIDE DEF placed
<1>3. /\ home \in [Names -> Seq(Cluster)] /\ alive \in SUBSET Names /\ Names = Files \cup Dirs
      /\ ChainsOfFiles
  BY ClusterFacts DEF VolumeTyped, VolumeSound
<1> SUFFICES ASSUME fs # "exfat", NEW c \in Cluster, fat'[c] \in Cluster
             PROVE  \E y \in Files \cap alive' : \E k \in 1 .. Len(home'[y]) :
                      k + 1 \in 1 .. Len(home'[y]) /\ home'[y][k] = c /\ home'[y][k + 1] = fat'[c]
  BY <1>2 DEF ChainsOfFiles
<1>4. CASE c \notin placed
  <2>1. fat'[c] = fat[c]
    BY <1>2, <1>4
  <2>2. PICK y \in Files \cap alive : \E k \in 1 .. Len(home[y]) :
          k + 1 \in 1 .. Len(home[y]) /\ home[y][k] = c /\ home[y][k + 1] = fat[c]
    BY <1>3, <2>1 DEF ChainsOfFiles
  <2>3. y \in Names /\ home[y] # <<>>
    BY <1>3, <2>2
  <2>4. home'[y] = home[y] /\ y \in Files \cap alive'
    BY <1>1, <1>2, <2>2, <2>3
  <2> QED BY <2>1, <2>2, <2>4
<1>5. CASE c \in placed
  <2>1. fat'[c] = IF at[c] = Len(cs) THEN Eoc ELSE cs[at[c] + 1]
    BY <1>2, <1>5
  <2>2. at[c] # Len(cs) /\ fat'[c] = cs[at[c] + 1]
    BY <2>1, ClusterFacts
  <2>3. at[c] \in 1 .. Len(cs) /\ at[c] + 1 \in 1 .. Len(cs) /\ cs[at[c]] = c
    BY <1>2, <1>5, <2>2
  <2>4. x \in Files
    <3>1. \A k \in 1 .. 1 : k = 1
      OBVIOUS
    <3>2. Len(cs) # 1
      BY <2>2, <2>3, <3>1
    <3> QED BY <1>2, <1>3, <3>2
  <2> QED BY <1>1, <1>2, <2>2, <2>3, <2>4
<1> QED
  BY <1>4, <1>5

\* Creating adds one entry, with a name no folder listed.
LEMMA MadeSays ==
  ASSUME VolumeAssumption, VolumeTyped, VolumeSound, NEW x \in Names, NEW d \in Folders,
         NEW cs, NEW at, NEW i, NEW e, Made(x, d, cs, at, i, e)
  PROVE  EntriesApart' /\ EntriesSay' /\ FoldersBegin'
<1>1. /\ entries' \in [Folders -> Seq(EntryType)]
      /\ \A p \in Folders : p # d => entries'[p] = entries[p]
      /\ i \in 1 .. Len(entries'[d]) /\ entries'[d][i] = e
      /\ \A j \in 1 .. Len(entries'[d]) : j # i =>
           j \in 1 .. Len(entries[d]) /\ entries'[d][j] = entries[d][j]
  BY MadeEntries
<1>2. /\ home' \in [Names -> Seq(Cluster)] /\ home'[x] = cs
      /\ \A y \in Names : y # x => home'[y] = home[y]
  BY MadeHomes
<1>3. /\ home[x] = <<>> /\ d \in alive \cup {Root} /\ \A p \in Folders : x \notin NamesIn(p)
      /\ fs' = fs /\ alive' = alive \cup {x} /\ cs \in Seq(Cluster) /\ (x \in Dirs => Len(cs) = 1)
      /\ e.name = x /\ ~e.deleted /\ e.start = IF cs = <<>> THEN 0 ELSE cs[1]
  BY DEF Made
<1>4. /\ home \in [Names -> Seq(Cluster)] /\ alive \in SUBSET Names /\ Dirs \subseteq Names
      /\ entries \in [Folders -> Seq(EntryType)] /\ Root \notin Names /\ Dirs \subseteq Folders
  BY ClusterFacts DEF VolumeTyped, Names, Folders
<1>5. EntriesApart /\ EntriesSay /\ FoldersBegin
  BY DEF VolumeSound
\* Where an entry was, and that it is not the new one.
<1> DEFINE Old(p, j) == p \in Folders /\ j \in 1 .. Len(entries[p]) /\ entries'[p][j] = entries[p][j]
                        /\ entries[p][j].name # x
<1>6. ASSUME NEW p \in Folders, NEW j \in 1 .. Len(entries'[p])
      PROVE  Old(p, j) \/ (p = d /\ j = i)
  <2>1. (p = d /\ j = i) \/ (j \in 1 .. Len(entries[p]) /\ entries'[p][j] = entries[p][j])
    BY <1>1
  <2>2. j \in 1 .. Len(entries[p]) => entries[p][j].name # x
    <3>1. DOMAIN entries[p] = 1 .. Len(entries[p])
      BY <1>4
    <3> QED BY <1>3, <3>1 DEF NamesIn
  <2> QED BY <2>1, <2>2
<1>7. EntriesApart'
  <2> SUFFICES ASSUME NEW p \in Folders, NEW q \in Folders,
                      NEW j \in 1 .. Len(entries'[p]), NEW k \in 1 .. Len(entries'[q]),
                      entries'[p][j].name = entries'[q][k].name
               PROVE  p = q /\ j = k
    BY DEF EntriesApart
  <2>1. Old(p, j) \/ (p = d /\ j = i)
    BY <1>6
  <2>2. Old(q, k) \/ (q = d /\ k = i)
    BY <1>6
  <2>3. CASE Old(p, j) /\ Old(q, k)
    BY <1>5, <2>3 DEF EntriesApart
  <2> QED BY <1>1, <1>3, <2>1, <2>2, <2>3
<1>8. \A y \in Names : y # x => First(y)' = First(y)
  BY <1>2 DEF First
<1>9. First(x)' = e.start
  BY <1>2, <1>3 DEF First
<1>10. FoldersBegin'
  <2> SUFFICES ASSUME NEW f \in Dirs
               PROVE  /\ Len(home'[f]) <= 1
                      /\ home'[f] = <<>> => entries'[f] = <<>> /\ f \notin alive'
    BY DEF FoldersBegin
  <2>1. CASE f = x
    <3>1. home'[f] = cs /\ Len(cs) = 1
      BY <1>2, <1>3, <2>1
    <3>2. Len(<<>>) # 1
      OBVIOUS
    <3>3. cs # <<>>
      BY <3>1, <3>2
    <3> QED BY <3>1, <3>3
  <2>2. CASE f # x
    <3>1. home'[f] = home[f]
      BY <1>2, <1>4, <2>2
    <3>2. Len(home[f]) <= 1 /\ (home[f] = <<>> => entries[f] = <<>> /\ f \notin alive)
      BY <1>5 DEF FoldersBegin
    <3>3. f \in Folders /\ f # Root
      BY <1>4
    <3>4. home[f] = <<>> => f # d
      BY <1>3, <3>2, <3>3
    <3> QED BY <1>1, <1>3, <2>2, <3>1, <3>2, <3>3, <3>4
  <2> QED BY <2>1, <2>2
<1>11. EntriesSay'
  <2> SUFFICES ASSUME NEW p \in Folders, NEW j \in 1 .. Len(entries'[p])
               PROVE  SaysOf(p, entries[p][j])'
    BY DEF EntriesSay
  <2>1. CASE Old(p, j)
    <3>0. PICK g : g = entries[p][j]
      OBVIOUS
    <3>1. SaysOf(p, g)
      BY <1>5, <2>1, <3>0 DEF EntriesSay
    <3>2. entries'[p][j] = g /\ g.name # x
      BY <2>1, <3>0
    <3>3. ~g.deleted /\ p \in alive' \cup {Root} => g.name \in alive'
      <4> SUFFICES ASSUME ~g.deleted, p \in alive' \cup {Root} PROVE g.name \in alive'
        OBVIOUS
      <4>1. CASE p = x
        <5>1. x \in Dirs
          BY <1>4, <4>1 DEF Folders
        <5>2. entries[x] = <<>>
          BY <1>3, <1>5, <5>1 DEF FoldersBegin
        <5>3. 1 .. Len(entries[p]) = {}
          BY <4>1, <5>2
        <5> QED BY <2>1, <5>3
      <4>2. CASE p # x
        BY <1>3, <3>1, <4>2 DEF SaysOf
      <4> QED BY <4>1, <4>2
    <3>4. g.name \in Names /\ ((g.deleted /\ fs = "fat32") \/ g.start = First(g.name))
      BY <3>1 DEF SaysOf
    <3>5. First(g.name)' = First(g.name)
      BY <1>8, <3>2, <3>4
    <3> QED BY <1>3, <3>2, <3>3, <3>4, <3>5 DEF SaysOf
  <2>2. CASE p = d /\ j = i
    <3>1. entries'[p][j] = e
      BY <1>1, <2>2
    <3> QED BY <1>3, <1>9, <3>1 DEF SaysOf
  <2> QED BY <1>6, <2>1, <2>2
<1> QED
  BY <1>7, <1>10, <1>11

\* A new folder is listed once and lists nothing.
LEMMA MadeNoCycles ==
  ASSUME VolumeAssumption, VolumeTyped, VolumeSound, NEW x \in Names, NEW d \in Folders,
         NEW cs, NEW at, NEW i, NEW e, Made(x, d, cs, at, i, e)
  PROVE  NoCycles'
<1>1. /\ entries' \in [Folders -> Seq(EntryType)]
      /\ \A p \in Folders : p # d => entries'[p] = entries[p]
      /\ entries'[d][i] = e
      /\ \A j \in 1 .. Len(entries'[d]) : j # i =>
           j \in 1 .. Len(entries[d]) /\ entries'[d][j] = entries[d][j]
  BY MadeEntries
<1>2. /\ home[x] = <<>> /\ d \in alive \cup {Root} /\ e.name = x
  BY DEF Made
<1>3. /\ Dirs \subseteq Folders /\ entries \in [Folders -> Seq(EntryType)] /\ Root \notin Dirs
  BY ClusterFacts DEF VolumeTyped, Folders
<1>4. NoCycles /\ FoldersBegin
  BY DEF VolumeSound
<1>5. ASSUME NEW p \in Folders, NEW f \in NamesIn(p)', f # x
      PROVE  f \in NamesIn(p)
  <2>1. PICK j \in 1 .. Len(entries'[p]) : f = entries'[p][j].name
    BY <1>1, <1>5 DEF NamesIn
  <2>2. j \in 1 .. Len(entries[p]) /\ entries'[p][j] = entries[p][j]
    BY <1>1, <1>2, <1>5, <2>1
  <2>3. DOMAIN entries[p] = 1 .. Len(entries[p])
    BY <1>3
  <2> QED BY <2>1, <2>2, <2>3 DEF NamesIn
<1>6. x \in Dirs => d # x /\ NamesIn(x)' = {}
  <2> SUFFICES ASSUME x \in Dirs PROVE d # x /\ NamesIn(x)' = {}
    OBVIOUS
  <2>1. x \notin alive /\ entries[x] = <<>>
    BY <1>2, <1>4 DEF FoldersBegin
  <2>2. d # x
    BY <1>2, <1>3, <2>1
  <2>3. entries'[x] = <<>>
    BY <1>1, <1>3, <2>1, <2>2
  <2> QED BY <2>2, <2>3 DEF NamesIn
<1> SUFFICES ASSUME NEW T \in SUBSET Dirs, T # {}
             PROVE  \E f \in T : \A p \in T : f \notin NamesIn(p)'
  BY DEF NoCycles
<1>7. CASE T = {x}
  BY <1>6, <1>7
<1>8. CASE T # {x}
  <2> DEFINE U == T \ {x}
  <2>1. U \in SUBSET Dirs /\ U # {}
    BY <1>8
  <2> HIDE DEF U
  <2>2. PICK f \in U : \A p \in U : f \notin NamesIn(p)
    BY <1>4, <2>1 DEF NoCycles
  <2> USE DEF U
  <2>3. ASSUME NEW p \in T PROVE f \notin NamesIn(p)'
    <3>1. CASE p = x
      BY <1>6, <3>1
    <3>2. CASE p # x
      BY <1>3, <1>5, <2>2, <3>2
    <3> QED BY <3>1, <3>2
  <2> QED BY <2>3
<1> QED
  BY <1>7, <1>8

\* Creating a file or folder keeps the volume sound.
LEMMA MadeSound ==
  ASSUME VolumeAssumption, VolumeTyped, VolumeSound, NEW x \in Names, NEW d \in Folders,
         Create(x, d)
  PROVE  VolumeTyped' /\ VolumeSound'
<1>1. PICK cs, at, i, e : Made(x, d, cs, at, i, e)
  BY CreateMakes
<1>2. VolumeTyped'
  BY <1>1, MadeTyped
<1>3. OneHome' /\ HomesHeld' /\ RootHeld' /\ AliveInPlace'
  BY <1>1, MadeInPlace
<1>4. ChainsOfFiles'
  BY <1>1, MadeChains
<1>5. EntriesApart' /\ EntriesSay' /\ FoldersBegin'
  BY <1>1, MadeSays
<1>6. NoCycles'
  BY <1>1, MadeNoCycles
<1> QED
  BY <1>2, <1>3, <1>4, <1>5, <1>6 DEF VolumeSound

\* What deleting x does: `gone` are the names that are no longer alive.
Unmade(x, gone) ==
  LET freed == UNION {OnDisk(y) : y \in gone}
  IN  /\ gone \in SUBSET alive /\ x \in gone /\ x \in Names
      /\ fs' = fs /\ data' = data /\ hand' = hand /\ home' = home /\ ops' \in 0 .. MaxOps
      /\ used' = used \ freed /\ alive' = alive \ gone
      /\ \/ fs = "exfat" /\ fat' = fat
         \/ fat' = [c \in Cluster |-> IF c \in freed THEN Free ELSE fat[c]]
      /\ \A y \in gone : y = x \/ (x \in Dirs /\ \E i \in 1 .. Len(entries[x]) : entries[x][i].name = y)
      /\ entries' \in [Folders -> Seq(EntryType)]
      /\ \A p \in Folders :
           /\ Len(entries'[p]) = Len(entries[p])
           /\ \A i \in 1 .. Len(entries[p]) :
                /\ entries'[p][i].name = entries[p][i].name
                /\ ~entries'[p][i].deleted => ~entries[p][i].deleted /\ entries[p][i].name # x
                /\ \/ entries'[p][i].start = entries[p][i].start
                   \/ fs = "fat32" /\ entries'[p][i].deleted
                /\ entries[p][i].deleted => entries'[p][i] = entries[p][i]
                /\ entries'[p][i].size = entries[p][i].size
                /\ entries'[p][i].contiguous = entries[p][i].contiguous

\* Delete unmakes x, and all that a folder x lists.
LEMMA DeleteUnmakes ==
  ASSUME VolumeAssumption, VolumeTyped, NEW x \in Names, Delete(x)
  PROVE  \E gone : Unmade(x, gone)
<1> DEFINE gone  == {x} \cup (IF x \in Dirs THEN In(x) ELSE {})
           freed == UNION {OnDisk(y) : y \in gone}
           Mark(e, lossy) ==
             IF e.name # x \/ e.deleted THEN e
             ELSE [e EXCEPT !.deleted = TRUE, !.start = IF lossy THEN @ % Half ELSE @]
<1>1. /\ x \in alive /\ ops < MaxOps
      /\ used' = used \ freed /\ alive' = alive \ gone /\ ops' = ops + 1
      /\ fs' = fs /\ data' = data /\ hand' = hand /\ home' = home
  BY DEF Delete
<1>2. PICK cleared \in IF fs = "exfat" THEN BOOLEAN ELSE {TRUE} :
        fat' = IF cleared THEN [c \in Cluster |-> IF c \in freed THEN Free ELSE fat[c]] ELSE fat
  <2> HIDE DEF freed
  <2> QED BY Zenon DEF Delete, freed
<1>3. PICK lossy \in IF fs = "fat32" THEN BOOLEAN ELSE {FALSE} :
        entries' = [d \in DOMAIN entries |-> [i \in DOMAIN entries[d] |-> Mark(entries[d][i], lossy)]]
  BY Zenon DEF Delete
<1>4. /\ entries \in [Folders -> Seq(EntryType)] /\ Half \in Nat \ {0} /\ ops \in 0 .. MaxOps
      /\ MaxOps \in Nat /\ alive \in SUBSET Names
  BY DEF VolumeTyped, VolumeAssumption
<1>5. gone \in SUBSET alive /\ x \in gone
  BY <1>1 DEF In
<1>6. \A y \in gone : y = x \/ (x \in Dirs /\ \E i \in 1 .. Len(entries[x]) : entries[x][i].name = y)
  <2> SUFFICES ASSUME NEW y \in gone, y # x
               PROVE  x \in Dirs /\ \E i \in 1 .. Len(entries[x]) : entries[x][i].name = y
    OBVIOUS
  <2>1. x \in Dirs /\ y \in In(x)
    OBVIOUS
  <2>2. entries[x] \in Seq(EntryType)
    BY <1>4, <2>1 DEF Folders
  <2> QED BY <2>1, <2>2 DEF In
<1> HIDE DEF gone
<1>7. ops' \in 0 .. MaxOps
  BY <1>1, <1>4
<1>8. \A e \in EntryType : \A b \in BOOLEAN :
        /\ Mark(e, b) \in EntryType /\ Mark(e, b).name = e.name
        /\ ~Mark(e, b).deleted => ~e.deleted /\ e.name # x
        /\ Mark(e, b).start = e.start \/ (b /\ Mark(e, b).deleted)
        /\ e.deleted => Mark(e, b) = e
        /\ Mark(e, b).size = e.size /\ Mark(e, b).contiguous = e.contiguous
  <2> SUFFICES ASSUME NEW e \in EntryType, NEW b \in BOOLEAN
               PROVE  /\ Mark(e, b) \in EntryType /\ Mark(e, b).name = e.name
                      /\ ~Mark(e, b).deleted => ~e.deleted /\ e.name # x
                      /\ Mark(e, b).start = e.start \/ (b /\ Mark(e, b).deleted)
                      /\ e.deleted => Mark(e, b) = e
                      /\ Mark(e, b).size = e.size /\ Mark(e, b).contiguous = e.contiguous
    <3> HIDE DEF Mark
    <3> QED OBVIOUS
  <2>1. CASE e.name # x \/ e.deleted
    <3>1. Mark(e, b) = e
      BY <2>1
    <3> HIDE DEF Mark
    <3> QED BY <2>1, <3>1
  <2>2. CASE ~ (e.name # x \/ e.deleted)
    <3>1. Mark(e, b) = [e EXCEPT !.deleted = TRUE, !.start = IF b THEN e.start % Half ELSE e.start]
      BY <2>2
    <3>2. e.start \in Nat /\ e.start % Half \in Nat
      BY <1>4 DEF EntryType
    <3>3. PICK s \in Nat : s = IF b THEN e.start % Half ELSE e.start
      BY <3>2
    <3>4. Mark(e, b) = [e EXCEPT !.deleted = TRUE, !.start = s]
      BY <3>1, <3>3
    <3>5. /\ Mark(e, b) \in EntryType /\ Mark(e, b).name = e.name /\ Mark(e, b).deleted = TRUE
          /\ Mark(e, b).start = s
          /\ Mark(e, b).size = e.size /\ Mark(e, b).contiguous = e.contiguous
      <4> HIDE DEF Mark
      <4> QED BY <3>4 DEF EntryType
    <3>6. ~b => s = e.start
      BY <3>3
    <3> HIDE DEF Mark
    <3> QED BY <2>2, <3>5, <3>6
  <2> QED BY <2>1, <2>2
<1> HIDE DEF Mark
<1>9. lossy \in BOOLEAN /\ (lossy => fs = "fat32")
  BY <1>3
<1>10. ASSUME NEW p \in Folders
       PROVE  /\ entries'[p] \in Seq(EntryType) /\ Len(entries'[p]) = Len(entries[p])
              /\ \A i \in 1 .. Len(entries[p]) :
                   entries[p][i] \in EntryType /\ entries'[p][i] = Mark(entries[p][i], lossy)
  <2> DEFINE s == entries[p]
  <2>1. s \in Seq(EntryType)
    BY <1>4
  <2>2. entries'[p] = [i \in DOMAIN s |-> Mark(s[i], lossy)]
    BY <1>3, <1>4
  <2> HIDE DEF s
  <2>3. Len(s) \in Nat /\ DOMAIN s = 1 .. Len(s) /\ \A i \in 1 .. Len(s) : s[i] \in EntryType
    BY <2>1
  <2>4. [i \in 1 .. Len(s) |-> Mark(s[i], lossy)] \in [1 .. Len(s) -> EntryType]
    BY <1>8, <1>9, <2>3
  <2>5. entries'[p] \in Seq(EntryType) /\ Len(entries'[p]) = Len(s)
    BY <2>2, <2>3, <2>4
  <2> QED BY <2>2, <2>3, <2>5 DEF s
<1>11. entries' \in [Folders -> Seq(EntryType)]
  <2>1. DOMAIN entries' = Folders
    BY <1>3, <1>4
  <2>2. entries' = [d \in DOMAIN entries' |-> entries'[d]]
    BY <1>3
  <2> QED BY <1>10, <2>1, <2>2
<1>12. ASSUME NEW p \in Folders
       PROVE  /\ Len(entries'[p]) = Len(entries[p])
              /\ \A i \in 1 .. Len(entries[p]) :
                /\ entries'[p][i].name = entries[p][i].name
                /\ ~entries'[p][i].deleted => ~entries[p][i].deleted /\ entries[p][i].name # x
                /\ \/ entries'[p][i].start = entries[p][i].start
                   \/ fs = "fat32" /\ entries'[p][i].deleted
                /\ entries[p][i].deleted => entries'[p][i] = entries[p][i]
                /\ entries'[p][i].size = entries[p][i].size
                /\ entries'[p][i].contiguous = entries[p][i].contiguous
  BY <1>8, <1>9, <1>10
<1>13. Unmade(x, gone)
  BY <1>1, <1>2, <1>5, <1>6, <1>7, <1>11, <1>12 DEF Unmade, freed
<1> QED
  BY <1>13

\* Deleting keeps the types of the volume.
LEMMA UnmadeTyped ==
  ASSUME VolumeAssumption, VolumeTyped, NEW x, NEW gone, Unmade(x, gone)
  PROVE  VolumeTyped'
<1> DEFINE freed == UNION {OnDisk(y) : y \in gone}
<1>1. /\ fs' = fs /\ data' = data /\ hand' = hand /\ home' = home /\ ops' \in 0 .. MaxOps
      /\ used' = used \ freed /\ alive' = alive \ gone
      /\ fat' = fat \/ fat' = [c \in Cluster |-> IF c \in freed THEN Free ELSE fat[c]]
      /\ entries' \in [Folders -> Seq(EntryType)]
  BY DEF Unmade
<1> HIDE DEF freed
<1>2. fat \in [Cluster -> {Free, Eoc} \cup Cluster]
  BY DEF VolumeTyped
<1>3. fat' \in [Cluster -> {Free, Eoc} \cup Cluster]
  BY <1>1, <1>2
<1> QED
  BY <1>1, <1>3 DEF VolumeTyped

\* Deleting frees clusters and moves nothing.
LEMMA UnmadeInPlace ==
  ASSUME VolumeAssumption, VolumeTyped, VolumeSound, NEW x, NEW gone, Unmade(x, gone)
  PROVE  OneHome' /\ HomesHeld' /\ RootHeld' /\ AliveInPlace' /\ ChainsOfFiles'
<1> DEFINE freed == UNION {OnDisk(y) : y \in gone}
<1>1. /\ fs' = fs /\ data' = data /\ home' = home /\ gone \in SUBSET alive
      /\ used' = used \ freed /\ alive' = alive \ gone
      /\ \/ fs = "exfat" /\ fat' = fat
         \/ fat' = [c \in Cluster |-> IF c \in freed THEN Free ELSE fat[c]]
  BY DEF Unmade
<1>2. OneHome /\ HomesHeld /\ RootHeld /\ AliveInPlace /\ ChainsOfFiles
  BY DEF VolumeSound
<1>3. /\ home \in [Names -> Seq(Cluster)] /\ alive \in SUBSET Names /\ used \in SUBSET Cluster
      /\ Names = Files \cup Dirs /\ Root \notin Names /\ fat \in [Cluster -> {Free, Eoc} \cup Cluster]
  BY ClusterFacts DEF VolumeTyped, VolumeAssumption
\* A freed cluster held one of the names that are gone.
<1>4. ASSUME NEW c \in freed
      PROVE  c \in Cluster /\ data[c].of \in gone /\ c # RootCluster(fs)
  <2>1. PICK y \in gone : c \in OnDisk(y)
    BY <1>4
  <2>2. y \in alive /\ home[y] \in Seq(Cluster) /\ y \in Names
    BY <1>1, <1>3
  <2>3. PICK k \in 1 .. Len(home[y]) : c = home[y][k]
    BY <2>1, <2>2 DEF OnDisk
  <2> QED BY <1>2, <2>2, <2>3 DEF AliveInPlace, HomesHeld
<1>5. \A y \in gone : \A k \in 1 .. Len(home[y]) : home[y][k] \in freed
  <2> SUFFICES ASSUME NEW y \in gone, NEW k \in 1 .. Len(home[y]) PROVE home[y][k] \in OnDisk(y)
    OBVIOUS
  <2>1. home[y] \in Seq(Cluster)
    BY <1>1, <1>3
  <2> QED BY <2>1 DEF OnDisk
<1> HIDE DEF freed
<1>6. RootCluster(fs)' = RootCluster(fs)
  BY <1>1 DEF RootCluster
<1>7. OneHome' /\ HomesHeld'
  BY <1>1, <1>2, <1>6 DEF OneHome, HomesHeld
<1>8. RootHeld'
  <2> DEFINE r == RootCluster(fs)
  <2> SUFFICES ASSUME r # 0 PROVE r \in used' /\ data'[r].of = Root /\ fat'[r] = Eoc
    BY <1>6 DEF RootHeld
  <2>1. r \in used /\ data[r].of = Root /\ fat[r] = Eoc
    BY <1>2 DEF RootHeld
  <2>2. r \notin freed
    BY <1>4
  <2> HIDE DEF r
  <2> QED BY <1>1, <1>3, <2>1, <2>2
<1>9. AliveInPlace'
  <2> SUFFICES ASSUME NEW y \in alive \ gone, NEW k \in 1 .. Len(home[y])
               PROVE  home[y][k] \in used' /\ data[home[y][k]].of = y
    BY <1>1 DEF AliveInPlace
  <2>1. home[y][k] \in used /\ data[home[y][k]].of = y
    BY <1>2 DEF AliveInPlace
  <2>2. home[y][k] \notin freed
    BY <1>4, <2>1
  <2> QED BY <1>1, <2>1, <2>2
<1>10. ChainsOfFiles'
  <2> SUFFICES ASSUME fs # "exfat", NEW c \in Cluster, fat'[c] \in Cluster
               PROVE  \E y \in Files \cap (alive \ gone) : \E k \in 1 .. Len(home[y]) :
                        k + 1 \in 1 .. Len(home[y]) /\ home[y][k] = c /\ home[y][k + 1] = fat'[c]
    BY <1>1 DEF ChainsOfFiles
  <2>1. c \notin freed /\ fat'[c] = fat[c]
    BY <1>1, ClusterFacts
  <2>2. PICK y \in Files \cap alive : \E k \in 1 .. Len(home[y]) :
          k + 1 \in 1 .. Len(home[y]) /\ home[y][k] = c /\ home[y][k + 1] = fat[c]
    BY <1>2, <2>1 DEF ChainsOfFiles
  <2>3. y \notin gone
    BY <1>5, <2>1, <2>2
  <2> QED BY <2>1, <2>2, <2>3
<1> QED
  BY <1>7, <1>8, <1>9, <1>10

\* Deleting changes in entries only their mark and, in FAT32, the start they
\* name.
LEMMA UnmadeSays ==
  ASSUME VolumeAssumption, VolumeTyped, VolumeSound, NEW x, NEW gone, Unmade(x, gone)
  PROVE  EntriesApart' /\ EntriesSay' /\ FoldersBegin' /\ NoCycles'
<1>1. /\ fs' = fs /\ home' = home /\ gone \in SUBSET alive /\ alive' = alive \ gone /\ x \in gone
      /\ \A y \in gone : y = x \/ (x \in Dirs /\ \E i \in 1 .. Len(entries[x]) : entries[x][i].name = y)
      /\ entries' \in [Folders -> Seq(EntryType)]
      /\ \A p \in Folders :
           /\ Len(entries'[p]) = Len(entries[p])
           /\ \A i \in 1 .. Len(entries[p]) :
                /\ entries'[p][i].name = entries[p][i].name
                /\ ~entries'[p][i].deleted => ~entries[p][i].deleted /\ entries[p][i].name # x
                /\ \/ entries'[p][i].start = entries[p][i].start
                   \/ fs = "fat32" /\ entries'[p][i].deleted
                /\ entries[p][i].deleted => entries'[p][i] = entries[p][i]
  BY DEF Unmade
<1>2. EntriesApart /\ EntriesSay /\ FoldersBegin /\ NoCycles
  BY DEF VolumeSound
<1>3. /\ entries \in [Folders -> Seq(EntryType)] /\ Dirs \subseteq Folders /\ Root \notin Names
      /\ alive \in SUBSET Names
  BY ClusterFacts DEF VolumeTyped, Folders, VolumeAssumption
<1>4. \A p \in Folders : NamesIn(p)' = NamesIn(p)
  <2> SUFFICES ASSUME NEW p \in Folders PROVE NamesIn(p)' = NamesIn(p)
    OBVIOUS
  <2>1. DOMAIN entries[p] = 1 .. Len(entries[p]) /\ DOMAIN entries'[p] = 1 .. Len(entries'[p])
    BY <1>1, <1>3
  <2>2. /\ NamesIn(p) = {entries[p][i].name : i \in 1 .. Len(entries[p])}
        /\ NamesIn(p)' = {entries'[p][i].name : i \in 1 .. Len(entries'[p])}
    BY <2>1 DEF NamesIn
  <2>3. Len(entries'[p]) = Len(entries[p])
        /\ \A i \in 1 .. Len(entries[p]) : entries'[p][i].name = entries[p][i].name
    BY <1>1
  <2> QED BY <2>2, <2>3
<1>5. EntriesApart'
  BY <1>1, <1>2 DEF EntriesApart
<1>6. FoldersBegin'
  <2> SUFFICES ASSUME NEW d \in Dirs, home[d] = <<>> PROVE entries'[d] = <<>>
    BY <1>1, <1>2 DEF FoldersBegin
  <2>1. entries[d] = <<>> /\ d \in Folders
    BY <1>2, <1>3 DEF FoldersBegin
  <2>2. Len(entries'[d]) = 0 /\ entries'[d] \in Seq(EntryType)
    BY <1>1, <2>1
  <2> QED BY <2>2
<1>7. NoCycles'
  <2> SUFFICES ASSUME NEW T \in SUBSET Dirs, T # {}
               PROVE  \E d \in T : \A p \in T : d \notin NamesIn(p)'
    BY DEF NoCycles
  <2>1. PICK d \in T : \A p \in T : d \notin NamesIn(p)
    BY <1>2 DEF NoCycles
  <2> QED BY <1>3, <1>4, <2>1
<1>8. EntriesSay'
  <2> SUFFICES ASSUME NEW p \in Folders, NEW i \in 1 .. Len(entries[p])
               PROVE  SaysOf(p, entries[p][i])'
    BY <1>1 DEF EntriesSay
  <2>1. PICK e, f : e = entries[p][i] /\ f = entries'[p][i]
    OBVIOUS
  <2>2. /\ f.name = e.name
        /\ ~f.deleted => ~e.deleted /\ e.name # x
        /\ f.start = e.start \/ (fs = "fat32" /\ f.deleted)
        /\ e.deleted => f = e
    BY <1>1, <2>1
  <2>3. SaysOf(p, e)
    BY <1>2, <2>1 DEF EntriesSay
  <2>4. First(e.name)' = First(e.name)
    BY <1>1 DEF First
  <2>5. ASSUME p \in alive' \cup {Root}, ~f.deleted PROVE f.name \in alive'
    <3>1. e.name \in alive /\ e.name # x
      BY <1>1, <2>2, <2>3, <2>5 DEF SaysOf
    <3>2. ASSUME e.name \in gone PROVE FALSE
      <4>1. PICK j \in 1 .. Len(entries[x]) : x \in Dirs /\ entries[x][j].name = e.name
        BY <1>1, <3>1, <3>2
      <4>2. p = x
        BY <1>2, <1>3, <2>1, <4>1 DEF EntriesApart
      <4>3. x \notin alive' /\ x # Root
        BY <1>1, <1>3
      <4> QED BY <2>5, <4>2, <4>3
    <3> QED BY <1>1, <2>2, <3>1, <3>2
  <2>6. (f.deleted /\ fs = "fat32") \/ f.start = First(e.name)
    BY <2>2, <2>3 DEF SaysOf
  <2>7. e.name \in Names
    BY <2>3 DEF SaysOf
  <2> QED BY <1>1, <2>1, <2>2, <2>4, <2>5, <2>6, <2>7 DEF SaysOf
<1> QED
  BY <1>5, <1>6, <1>7, <1>8

\* Deleting a file or folder keeps the volume sound.
LEMMA UnmadeSound ==
  ASSUME VolumeAssumption, VolumeTyped, VolumeSound, NEW x \in Names, Delete(x)
  PROVE  VolumeTyped' /\ VolumeSound'
<1>1. PICK gone : Unmade(x, gone)
  BY DeleteUnmakes
<1>2. VolumeTyped'
  BY <1>1, UnmadeTyped
<1>3. OneHome' /\ HomesHeld' /\ RootHeld' /\ AliveInPlace' /\ ChainsOfFiles'
  BY <1>1, UnmadeInPlace
<1>4. EntriesApart' /\ EntriesSay' /\ FoldersBegin' /\ NoCycles'
  BY <1>1, UnmadeSays
<1> QED
  BY <1>2, <1>3, <1>4 DEF VolumeSound

\* A volume that was just formatted is sound.
LEMMA SoundAtFirst ==
  VolumeAssumption /\ LifeInit => VolumeTyped /\ VolumeSound
<1> SUFFICES ASSUME VolumeAssumption, LifeInit PROVE VolumeTyped /\ VolumeSound
  OBVIOUS
<1> DEFINE taken == {RootCluster(fs)} \ {0}
<1>1. /\ fs \in FileSystems
      /\ fat = [c \in Cluster |-> IF c \in taken THEN Eoc ELSE Free] /\ used = taken
      /\ data = [c \in Cluster |-> IF c \in taken THEN [of |-> Root, block |-> 1] ELSE Nothing]
      /\ hand \in Hands /\ entries = [d \in Folders |-> <<>>]
      /\ alive = {} /\ home = [x \in Names |-> <<>>] /\ ops = 0
  BY DEF LifeInit, Folders
<1>2. taken \subseteq Cluster
  BY DEF RootCluster, VolumeAssumption
<1>3. RootCluster(fs) # 0 => RootCluster(fs) \in taken
  OBVIOUS
<1> HIDE DEF taken
<1>4. /\ \A c \in Cluster : data[c].of = Root /\ fat[c] \in {Free, Eoc}
      /\ \A c \in taken : fat[c] = Eoc
      /\ data \in [Cluster -> [of : Names \cup {Root}, block : Nat]]
      /\ fat \in [Cluster -> {Free, Eoc} \cup Cluster]
  <2>1. \A c \in Cluster : data[c] = [of |-> Root, block |-> 1] \/ data[c] = [of |-> Root, block |-> 0]
    BY <1>1 DEF Nothing
  <2>2. data \in [Cluster -> [of : Names \cup {Root}, block : Nat]]
    BY <1>1 DEF Nothing
  <2>3. \A c \in Cluster : data[c].of = Root
    BY <2>1
  <2>4. (\A c \in Cluster : fat[c] \in {Free, Eoc}) /\ \A c \in taken : fat[c] = Eoc
    BY <1>1, <1>2
  <2>5. fat \in [Cluster -> {Free, Eoc} \cup Cluster]
    BY <1>1
  <2> QED BY <2>2, <2>3, <2>4, <2>5
<1>5. VolumeTyped
  <2>1. hand \in Cluster /\ 0 \in 0 .. MaxOps
    BY <1>1 DEF VolumeAssumption
  <2>2. <<>> \in Seq(EntryType) /\ <<>> \in Seq(Cluster)
    OBVIOUS
  <2> QED BY <1>1, <1>2, <1>4, <2>1, <2>2 DEF VolumeTyped
<1>6. /\ \A p \in Folders : entries[p] = <<>>
      /\ \A x \in Names : home[x] = <<>>
      /\ Len(<<>>) = 0 /\ 1 .. 0 = {} /\ Root \notin Dirs /\ Dirs \subseteq Names /\ Dirs \subseteq Folders
  BY <1>1, ClusterFacts DEF Folders, Names
<1>7. OneHome
  BY <1>4, <1>6 DEF OneHome
<1>8. HomesHeld /\ AliveInPlace
  BY <1>1, <1>6 DEF HomesHeld, AliveInPlace
<1>9. RootHeld
  BY <1>1, <1>2, <1>3, <1>4 DEF RootHeld
<1>10. ChainsOfFiles
  BY <1>4, ClusterFacts DEF ChainsOfFiles
<1>11. EntriesApart /\ EntriesSay
  BY <1>6 DEF EntriesApart, EntriesSay
<1>12. FoldersBegin
  BY <1>1, <1>6 DEF FoldersBegin
<1>13. NoCycles
  <2>1. \A p \in Folders : NamesIn(p) = {}
    <3>1. DOMAIN <<>> = {}
      OBVIOUS
    <3> QED BY <1>6, <3>1 DEF NamesIn
  <2> QED BY <1>6, <2>1 DEF NoCycles
<1> QED
  BY <1>5, <1>7, <1>8, <1>9, <1>10, <1>11, <1>12, <1>13 DEF VolumeSound

(* --------------------------- What a folder says ------------------------- *)

\* A set of natural numbers that is not empty and has a bound has a greatest.
LEMMA GreatestNatural ==
  ASSUME NEW S \in SUBSET Nat, S # {}, NEW b \in Nat, \A s \in S : s <= b
  PROVE  Max(S) \in S /\ \A s \in S : s <= Max(S)
<1> DEFINE T == {b - s : s \in S}
<1>1. T \in SUBSET Nat /\ T # {}
  <2>1. \A s \in S : b - s \in Nat
    OBVIOUS
  <2> QED BY <2>1
<1>2. PICK t \in T : \A u \in T : t <= u
  <2> HIDE DEF T
  <2> QED BY <1>1, LeastNatural
<1>3. PICK m \in S : t = b - m
  BY <1>2
<1>4. \A s \in S : m >= s
  <2> SUFFICES ASSUME NEW s \in S PROVE m >= s
    OBVIOUS
  <2>1. b - m <= b - s
    BY <1>2, <1>3
  <2> QED BY <2>1
<1>5. Max(S) \in S /\ \A s \in S : Max(S) >= s
  BY <1>4 DEF Max
<1> QED
  BY <1>5

\* Min of a set of clusters is one of them.
LEMMA LeastOf ==
  ASSUME VolumeAssumption, NEW S \in SUBSET Cluster, S # {}
  PROVE  Min(S) \in S
<1>1. S \in SUBSET Nat
  BY ClusterFacts
<1>2. \E x \in S : \A y \in S : x <= y
  BY <1>1, LeastNatural
<1> QED
  BY <1>2 DEF Min

\* FreeRun counts no further than it has to.
LEMMA FreeRunBounds ==
  ASSUME VolumeAssumption, NEW c \in Cluster, NEW n \in Nat
  PROVE  FreeRun(c, n) \in Nat /\ FreeRun(c, n) <= n
<1> DEFINE S == {m \in 0 .. n : c + m <= MaxCluster + 1 /\ \A x \in c .. c + m - 1 : fat[x] = Free}
<1>1. c \in Nat /\ c <= MaxCluster /\ MaxCluster \in Nat
  BY DEF Cluster, VolumeAssumption
<1>2. 0 \in S
  <2>1. c .. c + 0 - 1 = {} /\ c + 0 <= MaxCluster + 1
    BY <1>1
  <2> QED BY <2>1
<1>3. S \in SUBSET Nat /\ \A s \in S : s <= n
  OBVIOUS
<1> HIDE DEF S
<1>4. Max(S) \in S
  BY <1>2, <1>3, GreatestNatural
<1> QED
  BY <1>3, <1>4 DEF FreeRun, S

\* resolve_start_cluster answers a number, whatever the FAT holds.
LEMMA StartIsNat ==
  ASSUME VolumeAssumption, NEW e \in EntryType, NEW parent \in Nat
  PROVE  StartOf(e, parent) \in Nat
<1>1. e.start \in Nat /\ e.size \in Nat
  BY DEF EntryType
<1> DEFINE free  == {c \in Cluster : c % Half = e.start /\ fat[c] = Free}
           typed == {c \in free : Shows(c, e.name)}
           pool  == IF typed = {} THEN free ELSE typed
           needed == Max({e.size, 1})
           longest == {c \in pool : \A d \in pool : FreeRun(d, needed) <= FreeRun(c, needed)}
           near  == {c \in longest : \A d \in longest : Abs(c - parent) <= Abs(d - parent)}
           dots  == {c \in free : StartsWithDotEntry(c)}
<1>2. /\ free \in SUBSET Cluster /\ pool \in SUBSET Cluster /\ dots \in SUBSET Cluster
      /\ free # {} => pool # {}
  OBVIOUS
<1>3. needed \in Nat
  <2> DEFINE S == {e.size, 1}
  <2>1. S \in SUBSET Nat /\ S # {} /\ e.size + 1 \in Nat /\ \A s \in S : s <= e.size + 1
    BY <1>1
  <2> HIDE DEF S
  <2>2. Max(S) \in S
    BY <2>1, GreatestNatural
  <2> QED BY <2>1, <2>2 DEF S
<1> HIDE DEF needed, pool, typed
<1>4. longest \in SUBSET Cluster /\ (pool # {} => longest # {})
  <2> SUFFICES ASSUME pool # {} PROVE longest # {}
    BY <1>2
  <2> DEFINE M == {FreeRun(d, needed) : d \in pool}
  <2>1. \A d \in pool : FreeRun(d, needed) \in Nat /\ FreeRun(d, needed) <= needed
    BY <1>2, <1>3, FreeRunBounds
  <2>2. M \in SUBSET Nat /\ M # {} /\ \A m \in M : m <= needed
    BY <2>1
  <2>3. Max(M) \in M /\ \A m \in M : m <= Max(M)
    <3> HIDE DEF M
    <3> QED BY <1>3, <2>2, GreatestNatural
  <2>4. PICK c \in pool : FreeRun(c, needed) = Max(M)
    BY <2>3
  <2>5. \A d \in pool : FreeRun(d, needed) <= FreeRun(c, needed)
    BY <2>3, <2>4
  <2> QED BY <2>5
<1> HIDE DEF longest
<1>5. near \in SUBSET Cluster /\ (longest # {} => near # {})
  <2> SUFFICES ASSUME longest # {} PROVE near # {}
    BY <1>4
  <2> DEFINE M == {Abs(d - parent) : d \in longest}
  <2>1. \A d \in longest : Abs(d - parent) \in Nat
    BY <1>4, ClusterFacts DEF Abs
  <2>2. M \in SUBSET Nat /\ M # {}
    BY <2>1
  <2>3. PICK m \in M : \A n \in M : m <= n
    <3> HIDE DEF M
    <3> QED BY <2>2, LeastNatural
  <2>4. PICK c \in longest : Abs(c - parent) = m
    BY <2>3
  <2>5. \A d \in longest : Abs(c - parent) <= Abs(d - parent)
    BY <2>3, <2>4
  <2> QED BY <2>5
<1> HIDE DEF near, dots, free
<1>6. ResolveStartCluster(e, parent) =
        IF fs # "fat32" \/ MaxCluster < Half \/ e.start >= Half \/ e.start < 2 \/ free = {}
          THEN e.start
        ELSE IF Cardinality(free) = 1 THEN Min(free)
        ELSE IF e.name \in Dirs THEN IF dots # {} THEN Min(dots) ELSE e.start
        ELSE Min(near)
  BY DEF ResolveStartCluster, free, typed, pool, needed, longest, near, dots
<1>7. /\ free # {} => Min(free) \in Nat
      /\ dots # {} => Min(dots) \in Nat
      /\ free # {} => Min(near) \in Nat
  BY <1>2, <1>4, <1>5, LeastOf, ClusterFacts
<1>8. ResolveStartCluster(e, parent) \in Nat
  BY <1>1, <1>6, <1>7
<1> QED
  BY <1>1, <1>8 DEF StartOf

\* Min of a set with one cluster.
LEMMA SoleCluster ==
  ASSUME VolumeAssumption, NEW S \in SUBSET Cluster, NEW c \in S, \A d \in S : d = c
  PROVE  Min(S) = c
BY LeastOf

\* A folder that is still in its cluster is found by an entry that tells of it.
LEMMA FolderFound ==
  ASSUME VolumeAssumption, VolumeTyped, NEW e \in EntryType, NEW parent,
         e.name \in Dirs, Intact(e.name), Tells(e, e.name), home[e.name][1] \in Cluster
  PROVE  StartOf(e, parent) = home[e.name][1]
<1> DEFINE h == home[e.name][1]
           free == {c \in Cluster : c % Half = e.start /\ fat[c] = Free}
           dots == {c \in free : StartsWithDotEntry(c)}
<1>1. e.start \in Nat /\ Half \in Nat \ {0} /\ h \in Nat /\ MaxCluster \in Nat /\ h <= MaxCluster
  BY ClusterFacts DEF EntryType, VolumeAssumption, Cluster
<1>2. data[h].of = e.name
  <2>1. home[e.name] # <<>> /\ home[e.name] \in Seq(Cluster)
    BY ClusterFacts DEF Intact, VolumeTyped
  <2>2. 1 \in DOMAIN home[e.name]
    BY <2>1
  <2>3. data[h] = [of |-> e.name, block |-> 1]
    BY <2>2 DEF Intact
  <2> QED BY <2>3
<1>3. CASE e.start = h /\ (fs # "fat32" \/ ~e.deleted \/ MaxCluster < Half \/ e.start >= Half)
  BY <1>3 DEF StartOf, ResolveStartCluster
<1>4. CASE /\ fs = "fat32" /\ e.deleted /\ e.start >= 2 /\ h % Half = e.start /\ fat[h] = Free
           /\ \A c \in Cluster \ {h} : c % Half = e.start /\ fat[c] = Free => ~StartsWithDotEntry(c)
  <2>1. StartsWithDotEntry(h)
    BY <1>2 DEF StartsWithDotEntry
  <2>2. h \in free /\ h \in dots /\ \A d \in dots : d = h
    BY <1>4, <2>1
  <2>3. Min(dots) = h
    <3>1. dots \in SUBSET Cluster
      OBVIOUS
    <3> HIDE DEF dots
    <3> QED BY <2>2, <3>1, SoleCluster
  <2>4. e.start < Half
    BY <1>1, <1>4
  <2>5. MaxCluster < Half => e.start = h
    BY <1>1, <1>4
  <2>6. Cardinality(free) = 1 => Min(free) = h
    <3> SUFFICES ASSUME Cardinality(free) = 1 PROVE Min(free) = h
      OBVIOUS
    <3>1. free \in SUBSET Cluster
      OBVIOUS
    <3> HIDE DEF free
    <3>2. IsFiniteSet(free)
      <4>1. IsFiniteSet(Cluster)
        BY <1>1, FS_Interval DEF Cluster
      <4> QED BY <3>1, <4>1, FS_Subset
    <3>3. \E c : free = {c}
      BY <3>2, FS_Singleton
    <3>4. \A d \in free : d = h
      BY <2>2, <3>3
    <3> QED BY <2>2, <3>1, <3>4, SoleCluster
  <2> HIDE DEF free, dots
  <2>7. ResolveStartCluster(e, parent) =
          IF MaxCluster < Half THEN e.start
          ELSE IF Cardinality(free) = 1 THEN Min(free) ELSE Min(dots)
    <3>1. /\ ~ (e.start >= Half) /\ ~ (e.start < 2) /\ fs = "fat32"
      BY <1>1, <1>4, <2>4
    <3>2. free # {} /\ dots # {}
      BY <2>2
    <3> QED BY <3>1, <3>2 DEF ResolveStartCluster, free, dots
  <2>8. ResolveStartCluster(e, parent) = h
    BY <2>3, <2>5, <2>6, <2>7
  <2> QED BY <1>4, <2>8 DEF StartOf
<1> QED
  BY <1>3, <1>4 DEF Tells

\* A folder on the stack, or being read.
FolderType ==
  [cluster : Cluster \cup {0}, gone : BOOLEAN, at : Cluster \cup {0}, clusters : Seq(Cluster)]

\* What a cluster reads as: of a folder its entries, of a file's data junk or
\* nothing.
LEMMA ItemsTyped ==
  ASSUME VolumeAssumption, VolumeTyped, NEW c \in Cluster
  PROVE  /\ ItemsOf(c) \in Seq(EntryType)
         /\ data[c].of \in Files => \A k \in 1 .. Len(ItemsOf(c)) : ItemsOf(c)[k].name = Root
         /\ data[c].of \in Folders => ItemsOf(c) = entries[data[c].of]
<1>1. Junk \in EntryType /\ Junk.name = Root
  BY DEF Junk, EntryType
<1>2. data[c].of \in Names \cup {Root}
  BY DEF VolumeTyped
<1>3. CASE data[c].of \in Files
  <2>1. ItemsOf(c) = <<Junk>> \/ ItemsOf(c) = <<>>
    BY <1>3 DEF ItemsOf, ParseEntries, ParseEntrySets
  <2>2. data[c].of \notin Folders
    BY <1>3, ClusterFacts DEF Folders
  <2>3. <<Junk>> \in Seq(EntryType) /\ \A k \in 1 .. Len(<<Junk>>) : <<Junk>>[k].name = Root
    <3> DEFINE j == Junk
    <3>1. j \in EntryType /\ j.name = Root
      BY <1>1
    <3> HIDE DEF j
    <3>2. <<j>> \in Seq(EntryType) /\ Len(<<j>>) = 1 /\ <<j>>[1] = j /\ \A k \in 1 .. 1 : k = 1
      BY <3>1
    <3> QED BY <3>1, <3>2 DEF j
  <2>4. <<>> \in Seq(EntryType) /\ \A k \in 1 .. Len(<<>>) : <<>>[k].name = Root
    OBVIOUS
  <2>5. ItemsOf(c) \in Seq(EntryType) /\ \A k \in 1 .. Len(ItemsOf(c)) : ItemsOf(c)[k].name = Root
    BY <2>1, <2>3, <2>4, Zenon
  <2> QED BY <2>2, <2>5, Zenon
<1>4. CASE data[c].of \notin Files
  <2>1. data[c].of \in Folders
    BY <1>2, <1>4 DEF Folders, Names
  <2>2. ItemsOf(c) = entries[data[c].of]
    BY <1>4 DEF ItemsOf, ParseEntries, ParseEntrySets
  <2>3. entries \in [Folders -> Seq(EntryType)]
    BY DEF VolumeTyped
  <2>4. ItemsOf(c) \in Seq(EntryType)
    BY <2>1, <2>2, <2>3, Zenon
  <2> QED BY <1>4, <2>2, <2>4
<1> QED
  BY <1>3, <1>4

\* The sequences of entries of a folder's clusters.
ItemsPer(f) == [k \in 1 .. Len(f.clusters) |-> ItemsOf(f.clusters[k])]

\* The same for each cluster of a folder.
LEMMA PerTyped ==
  ASSUME VolumeAssumption, VolumeTyped, NEW f, f.clusters \in Seq(Cluster)
  PROVE  /\ ItemsPer(f) \in Seq(Seq(EntryType)) /\ Len(ItemsPer(f)) = Len(f.clusters)
         /\ \A k \in 1 .. Len(f.clusters) : f.clusters[k] \in Cluster /\ ItemsPer(f)[k] = ItemsOf(f.clusters[k])
<1> DEFINE n == Len(f.clusters)
<1>1. n \in Nat /\ \A k \in 1 .. n : f.clusters[k] \in Cluster
  OBVIOUS
<1>2. \A k \in 1 .. n : ItemsOf(f.clusters[k]) \in Seq(EntryType)
  BY <1>1, ItemsTyped
<1> HIDE DEF n
<1>3. ItemsPer(f) = [k \in 1 .. n |-> ItemsOf(f.clusters[k])]
  BY DEF ItemsPer, n
<1>4. ItemsPer(f) \in [1 .. n -> Seq(EntryType)]
  BY <1>2, <1>3
<1>5. ItemsPer(f) \in Seq(Seq(EntryType)) /\ Len(ItemsPer(f)) = n
  BY <1>1, <1>4
<1> QED
  BY <1>1, <1>3, <1>5 DEF n

\* read_directory returns entries.
LEMMA FolderItemsTyped ==
  ASSUME VolumeAssumption, VolumeTyped, NEW f, f.clusters \in Seq(Cluster)
  PROVE  FolderItems(f) \in Seq(EntryType)
<1>1. FlattenSeq(ItemsPer(f)) \in Seq(EntryType)
  BY PerTyped, FlattenFacts DEF Joined
<1>2. entries[Root] \in Seq(EntryType)
  BY DEF VolumeTyped, Folders
<1> QED
  BY <1>1, <1>2 DEF FolderItems, ItemsPer

\* What walk changes in the entries it was given.
LEMMA PlacedFacts ==
  ASSUME VolumeAssumption, VolumeTyped, NEW f, f.cluster \in Cluster \cup {0}, f.gone \in BOOLEAN,
         NEW items \in Seq(EntryType)
  PROVE  /\ Placed(items, f) \in Seq(EntryType) /\ Len(Placed(items, f)) = Len(items)
         /\ \A i \in 1 .. Len(items) :
              /\ Placed(items, f)[i].name = items[i].name
              /\ Placed(items, f)[i].start = StartOf(items[i], f.cluster)
              /\ Placed(items, f)[i].deleted = (items[i].deleted \/ f.gone)
              /\ Placed(items, f)[i].size = items[i].size
              /\ Placed(items, f)[i].contiguous = items[i].contiguous
<1> DEFINE n == Len(items)
           E(i) == [items[i] EXCEPT !.start = StartOf(items[i], f.cluster), !.deleted = @ \/ f.gone]
<1>1. n \in Nat /\ DOMAIN items = 1 .. n /\ \A i \in 1 .. n : items[i] \in EntryType
  OBVIOUS
<1>2. ASSUME NEW i \in 1 .. n
      PROVE  /\ E(i) \in EntryType /\ E(i).name = items[i].name
             /\ E(i).start = StartOf(items[i], f.cluster)
             /\ E(i).deleted = (items[i].deleted \/ f.gone)
             /\ E(i).size = items[i].size /\ E(i).contiguous = items[i].contiguous
  <2>1. PICK e \in EntryType : e = items[i]
    BY <1>1
  <2>2. f.cluster \in Nat
    BY ClusterFacts
  <2>3. PICK s \in Nat : s = StartOf(e, f.cluster)
    BY <2>2, StartIsNat
  <2>4. PICK g \in BOOLEAN : g = (e.deleted \/ f.gone)
    BY DEF EntryType
  <2>5. E(i) = [e EXCEPT !.start = s, !.deleted = g]
    BY <2>1, <2>3, <2>4
  <2>6. /\ [e EXCEPT !.start = s, !.deleted = g] \in EntryType
        /\ [e EXCEPT !.start = s, !.deleted = g].name = e.name
        /\ [e EXCEPT !.start = s, !.deleted = g].start = s
        /\ [e EXCEPT !.start = s, !.deleted = g].deleted = g
        /\ [e EXCEPT !.start = s, !.deleted = g].size = e.size
        /\ [e EXCEPT !.start = s, !.deleted = g].contiguous = e.contiguous
    BY DEF EntryType
  <2> QED BY <2>1, <2>3, <2>4, <2>5, <2>6
<1>3. Placed(items, f) = [i \in 1 .. n |-> E(i)]
  BY <1>1 DEF Placed
<1> HIDE DEF E, n
<1>4. Placed(items, f) \in [1 .. n -> EntryType]
  BY <1>2, <1>3
<1>5. Placed(items, f) \in Seq(EntryType) /\ Len(Placed(items, f)) = n
  BY <1>1, <1>4
<1> QED
  BY <1>2, <1>3, <1>5 DEF n

\* Items are the entries of folder p, all of them, and nothing else.
Lists(items, p) ==
  /\ Distinct(items)
  /\ \A k \in 1 .. Len(items) :
       items[k].name # Root => \E j \in 1 .. Len(entries[p]) : items[k] = entries[p][j]
  /\ \A j \in 1 .. Len(entries[p]) : \E k \in 1 .. Len(items) : items[k] = entries[p][j]
OnlyJunk(items) == \A k \in 1 .. Len(items) : items[k].name = Root

\* A folder's own entries are its entries, each name once.
LEMMA EntriesList ==
  ASSUME VolumeTyped, VolumeSound, NEW p \in Folders
  PROVE  Lists(entries[p], p) /\ Distinct(entries[p])
<1>1. Distinct(entries[p])
  BY DEF VolumeSound, EntriesApart, Distinct
<1> QED
  BY <1>1 DEF Lists

\* What a folder read so far is: its first cluster is its own, the others of
\* its chain are a file's.
ReadAs(f) ==
  /\ f.clusters \in Seq(Cluster)
  /\ f.clusters # <<>> =>
       f.clusters[1] = f.cluster /\ \A k \in 2 .. Len(f.clusters) : data[f.clusters[k]].of \in Files

\* A folder's clusters hold the entries of the folder that its first cluster is.
LEMMA ClustersList ==
  ASSUME VolumeAssumption, VolumeTyped, VolumeSound, NEW f, ReadAs(f), f.clusters # <<>>
  PROVE  LET items == FlattenSeq(ItemsPer(f))
             p == data[f.cluster].of
         IN  IF p \in Folders THEN Lists(items, p) ELSE OnlyJunk(items)
<1> DEFINE ss == ItemsPer(f)
           items == FlattenSeq(ss)
           p == data[f.cluster].of
           n == Len(f.clusters)
<1>1. /\ ss \in Seq(Seq(EntryType)) /\ Len(ss) = n
      /\ \A k \in 1 .. n : f.clusters[k] \in Cluster /\ ss[k] = ItemsOf(f.clusters[k])
  BY PerTyped DEF ReadAs
<1>2. n \in Nat /\ 1 \in 1 .. n /\ \A k \in 1 .. n : k = 1 \/ k \in 2 .. n
  BY DEF ReadAs
<1>3. f.clusters[1] = f.cluster /\ f.cluster \in Cluster
  BY <1>1, <1>2 DEF ReadAs
<1> HIDE DEF n, ss
<1>4. \A k \in 2 .. n : OnlyJunk(ss[k])
  <2> SUFFICES ASSUME NEW k \in 2 .. n PROVE OnlyJunk(ss[k])
    OBVIOUS
  <2>1. k \in 1 .. n /\ data[f.clusters[k]].of \in Files
    BY <1>2 DEF ReadAs, n
  <2>2. PICK c \in Cluster : c = f.clusters[k] /\ ss[k] = ItemsOf(c)
    BY <1>1, <2>1
  <2> QED BY <2>1, <2>2, ItemsTyped DEF OnlyJunk
<1>5. ss[1] = ItemsOf(f.cluster)
  BY <1>1, <1>2, <1>3
<1>6. Joined(items, ss, n, EntryType) /\ (AllApart(ss) => Distinct(items))
  BY <1>1, FlattenFacts
<1> HIDE DEF items
<1>7. CASE p \in Folders
  <2>1. ss[1] = entries[p] /\ Distinct(ss[1])
    BY <1>3, <1>5, <1>7, ItemsTyped, EntriesList
  <2>2. AllApart(ss)
    <3>1. \A k \in 1 .. n : Distinct(ss[k])
      BY <1>2, <1>4, <2>1 DEF Distinct, OnlyJunk
    <3>2. ASSUME NEW j \in 1 .. n, NEW l \in 1 .. n, j # l,
                 NEW i \in 1 .. Len(ss[j]), NEW k \in 1 .. Len(ss[l]), ss[j][i].name = ss[l][k].name
          PROVE  ss[j][i].name = Root
      BY <1>2, <1>4, <3>2 DEF OnlyJunk
    <3> QED BY <1>1, <3>1, <3>2 DEF AllApart
  <2>3. Distinct(items)
    BY <1>6, <2>2
  <2>4. ASSUME NEW k \in 1 .. Len(items), items[k].name # Root
        PROVE  \E j \in 1 .. Len(entries[p]) : items[k] = entries[p][j]
    <3>1. PICK j \in 1 .. n : \E i \in 1 .. Len(ss[j]) : items[k] = ss[j][i]
      BY <1>6 DEF Joined
    <3>2. j = 1
      BY <1>2, <1>4, <2>4, <3>1 DEF OnlyJunk
    <3> QED BY <2>1, <3>1, <3>2
  <2>5. \A j \in 1 .. Len(entries[p]) : \E k \in 1 .. Len(items) : items[k] = entries[p][j]
    <3>1. \A i \in 1 .. Len(ss[1]) : \E k \in 1 .. Len(items) : items[k] = ss[1][i]
      BY <1>2, <1>6 DEF Joined
    <3> QED BY <2>1, <3>1
  <2> QED BY <1>7, <2>3, <2>4, <2>5 DEF Lists, items, ss
<1>8. CASE p \notin Folders
  <2>1. p \in Files
    BY <1>3, <1>8 DEF VolumeTyped, Folders, Names
  <2>2. OnlyJunk(ss[1])
    BY <1>3, <1>5, <2>1, ItemsTyped DEF OnlyJunk
  <2>3. \A k \in 1 .. n : OnlyJunk(ss[k])
    BY <1>2, <1>4, <2>2
  <2>4. OnlyJunk(items)
    <3> SUFFICES ASSUME NEW k \in 1 .. Len(items) PROVE items[k].name = Root
      BY DEF OnlyJunk
    <3>1. PICK j \in 1 .. n : \E i \in 1 .. Len(ss[j]) : items[k] = ss[j][i]
      BY <1>6 DEF Joined
    <3> QED BY <2>3, <3>1 DEF OnlyJunk
  <2> QED BY <1>8, <2>4 DEF items, ss
<1> QED
  BY <1>7, <1>8

\* A folder still to be read: live, or deleted and then only trusted if it is one.
OnList(f) ==
  /\ f.cluster \in Cluster /\ f.gone \in BOOLEAN
  /\ ~f.gone => data[f.cluster].of \in alive \cap Dirs
  /\ fs = "exfat" => data[f.cluster].of \in Names

\* What read_directory finds in a folder below the root.
LEMMA FolderListed ==
  ASSUME VolumeAssumption, VolumeTyped, VolumeSound, NEW f, ReadAs(f), OnList(f)
  PROVE  IF f.clusters # <<>> /\ data[f.cluster].of \in Dirs
           THEN Lists(FolderItems(f), data[f.cluster].of) ELSE OnlyJunk(FolderItems(f))
<1> DEFINE p == data[f.cluster].of
<1>1. f.cluster \in Cluster /\ f.cluster # 0 /\ p \in Names \cup {Root}
  BY ClusterFacts DEF OnList, VolumeTyped
<1>2. FolderItems(f) = IF Trusted(f.gone, f.clusters) THEN FlattenSeq(ItemsPer(f)) ELSE <<>>
  BY <1>1 DEF FolderItems, ItemsPer
<1>3. OnlyJunk(<<>>)
  BY DEF OnlyJunk
<1>4. CASE f.clusters = <<>>
  <2>1. ItemsPer(f) \in Seq(Seq(EntryType)) /\ Len(ItemsPer(f)) = Len(f.clusters)
    BY PerTyped DEF ReadAs
  <2>2. ItemsPer(f) = <<>>
    BY <1>4, <2>1
  <2>3. FlattenSeq(<<>>) = <<>>
    BY DEF FlattenSeq
  <2> QED BY <1>2, <1>3, <1>4, <2>2, <2>3
<1>5. CASE f.clusters # <<>>
  <2>1. IF p \in Folders THEN Lists(FlattenSeq(ItemsPer(f)), p) ELSE OnlyJunk(FlattenSeq(ItemsPer(f)))
    BY <1>5, ClustersList
  <2>2. f.clusters[1] = f.cluster
    BY <1>5 DEF ReadAs
  <2>3. CASE p \in Dirs
    <3>1. Trusted(f.gone, f.clusters)
      BY <1>5, <2>2, <2>3 DEF Trusted, StartsWithDotEntry
    <3> QED BY <1>2, <1>5, <2>1, <2>3, <3>1 DEF Folders
  <2>4. CASE p = Root
    <3>1. p \notin Dirs /\ p \notin Names
      BY <2>4, ClusterFacts
    <3>2. ~Trusted(f.gone, f.clusters)
      BY <2>2, <3>1 DEF Trusted, StartsWithDotEntry, OnList
    <3> QED BY <1>2, <1>3, <3>1, <3>2
  <2>5. CASE p \in Files
    <3>1. p \notin Folders /\ p \notin Dirs
      BY <2>5, ClusterFacts DEF Folders
    <3> QED BY <1>2, <1>3, <2>1, <3>1
  <2> QED BY <1>1, <2>3, <2>4, <2>5 DEF Names
<1> QED
  BY <1>4, <1>5

\* What it finds in the root.
LEMMA RootListed ==
  ASSUME VolumeAssumption, VolumeTyped, VolumeSound, NEW f, f.cluster = RootCluster(fs), ~f.gone,
         f.cluster # 0 => f.clusters = <<f.cluster>>
  PROVE  Lists(FolderItems(f), Root)
<1>1. CASE f.cluster = 0
  BY <1>1, EntriesList DEF FolderItems, Folders
<1>2. CASE f.cluster # 0
  <2>1. f.cluster \in Cluster /\ data[f.cluster].of = Root
    BY <1>2 DEF RootCluster, VolumeAssumption, VolumeSound, RootHeld
  <2>2. ReadAs(f)
    <3>1. PICK c \in Cluster : c = f.cluster
      BY <2>1
    <3>2. <<c>> \in Seq(Cluster) /\ <<c>>[1] = c /\ Len(<<c>>) = 1 /\ 2 .. 1 = {}
      BY <3>1
    <3>3. f.clusters = <<c>> /\ \A k \in 2 .. Len(f.clusters) : data[f.clusters[k]].of \in Files
      BY <1>2, <3>1, <3>2
    <3> QED BY <3>1, <3>2, <3>3 DEF ReadAs
  <2>3. f.clusters # <<>>
    BY <1>2
  <2>4. Lists(FlattenSeq(ItemsPer(f)), Root)
    BY <2>1, <2>2, <2>3, ClustersList DEF Folders
  <2>5. FolderItems(f) = FlattenSeq(ItemsPer(f))
    BY <1>2 DEF FolderItems, ItemsPer, Trusted
  <2> QED BY <2>4, <2>5
<1> QED
  BY <1>1, <1>2

(* -------------------------- What parsing does --------------------------- *)

\* The folders pushed and the files found for the entries `items` of the
\* folder that is being read.
Pushed(items, pushed) ==
  /\ \A k \in 1 .. Len(pushed) : \E i \in 1 .. Len(items) :
       /\ items[i].name \in Dirs /\ StartOf(items[i], folder.cluster) \in Unvisited
       /\ pushed[k] = Folder(StartOf(items[i], folder.cluster), items[i].deleted \/ folder.gone)
  /\ \A i \in 1 .. Len(items) :
       items[i].name \in Dirs /\ StartOf(items[i], folder.cluster) \in Unvisited =>
         \E k \in 1 .. Len(pushed) : pushed[k].cluster = StartOf(items[i], folder.cluster)
Found(items, found) ==
  /\ \A k \in 1 .. Len(found) : \E i \in 1 .. Len(items) :
       /\ found[k].name = items[i].name /\ found[k].start = StartOf(items[i], folder.cluster)
       /\ found[k].size = items[i].size /\ found[k].contiguous = items[i].contiguous
  /\ \A i \in 1 .. Len(items) :
       items[i].name \notin Dirs /\ (items[i].deleted \/ folder.gone) =>
         \E k \in 1 .. Len(found) : found[k].name = items[i].name
  /\ Distinct(items) => Distinct(found)
ParseDoes(items, pushed, found) ==
  /\ items = FolderItems(folder) /\ items \in Seq(EntryType)
  /\ pushed \in Seq(FolderType) /\ found \in Seq(EntryType)
  /\ stack' = stack \o pushed /\ deleted' = deleted \o found
  /\ Pushed(items, pushed) /\ Found(items, found)

\* A folder that was just pushed.
LEMMA FolderTyped ==
  ASSUME NEW c \in Cluster \cup {0}, NEW gone \in BOOLEAN
  PROVE  /\ Folder(c, gone) \in FolderType /\ Folder(c, gone).cluster = c /\ Folder(c, gone).gone = gone
         /\ Folder(c, gone).clusters = <<>>
BY DEF Folder, FolderType, NoCluster

\* ParseFolder pushes the folders and collects the deleted files of FolderItems.
LEMMA ParseEffect ==
  ASSUME VolumeAssumption, VolumeTyped, folder \in FolderType, ParseFolder
  PROVE  \E items, pushed, found : ParseDoes(items, pushed, found)
<1> DEFINE items == FolderItems(folder)
           placed == Placed(items, folder)
           Below(i)   == placed[i].name \in Dirs /\ placed[i].start \in Unvisited
           Deleted(i) == placed[i].name \notin Dirs /\ placed[i].deleted
           sub == {i \in DOMAIN placed : Below(i)}
           del == {i \in DOMAIN placed : Deleted(i)}
           below == ItemsAt(placed, sub)
           found == ItemsAt(placed, del)
           pushed == [i \in DOMAIN below |-> Folder(below[i].start, below[i].deleted)]
<1>1. stack' = stack \o pushed /\ deleted' = deleted \o found
  BY DEF ParseFolder
<1>2. /\ folder.clusters \in Seq(Cluster) /\ folder.cluster \in Cluster \cup {0}
      /\ folder.gone \in BOOLEAN
  BY DEF FolderType
<1>3. items \in Seq(EntryType)
  BY <1>2, FolderItemsTyped
<1> DEFINE n == Len(items)
<1>4. /\ placed \in Seq(EntryType) /\ Len(placed) = n /\ n \in Nat
      /\ \A i \in 1 .. n : /\ placed[i].name = items[i].name
                           /\ placed[i].start = StartOf(items[i], folder.cluster)
                           /\ placed[i].deleted = (items[i].deleted \/ folder.gone)
                           /\ placed[i].size = items[i].size
                           /\ placed[i].contiguous = items[i].contiguous
  <2> HIDE DEF items
  <2> QED BY <1>2, <1>3, PlacedFacts
<1>5. Chosen(below, placed, sub, n, EntryType) /\ Chosen(found, placed, del, n, EntryType)
  <2> HIDE DEF placed, sub, del
  <2> QED BY <1>4, ItemsAtFacts
<1>6. /\ \A i \in 1 .. n : i \in sub <=> items[i].name \in Dirs /\ StartOf(items[i], folder.cluster) \in Unvisited
      /\ \A i \in 1 .. n : i \in del <=> items[i].name \notin Dirs /\ (items[i].deleted \/ folder.gone)
  <2>1. DOMAIN placed = 1 .. n
    BY <1>4
  <2> HIDE DEF placed, items
  <2> QED BY <1>4, <2>1
<1> HIDE DEF sub, del, below, found, placed, items, n
<1>7. below \in Seq(EntryType) /\ found \in Seq(EntryType)
  BY <1>5 DEF Chosen
<1>8. \A k \in 1 .. Len(below) : \E i \in 1 .. n : i \in sub /\ below[k] = placed[i]
  BY <1>5 DEF Chosen
<1>9. /\ pushed \in Seq(FolderType) /\ Len(pushed) = Len(below)
      /\ \A k \in 1 .. Len(below) :
           pushed[k] = Folder(below[k].start, below[k].deleted) /\ pushed[k].cluster = below[k].start
  <2>1. ASSUME NEW k \in 1 .. Len(below)
        PROVE  /\ Folder(below[k].start, below[k].deleted) \in FolderType
               /\ Folder(below[k].start, below[k].deleted).cluster = below[k].start
    <3>1. PICK i \in 1 .. n : i \in sub /\ below[k] = placed[i]
      BY <1>8
    <3>2. below[k].start \in Cluster
      BY <1>4, <1>6, <3>1 DEF Unvisited
    <3>3. below[k].deleted \in BOOLEAN
      <4>1. below[k] \in EntryType
        BY <1>7
      <4> QED BY <4>1 DEF EntryType
    <3> QED BY <3>2, <3>3, FolderTyped
  <2>2. Len(below) \in Nat /\ DOMAIN below = 1 .. Len(below)
    BY <1>7
  <2> DEFINE m == Len(below)
             F(k) == Folder(below[k].start, below[k].deleted)
  <2>3. pushed = [k \in 1 .. m |-> F(k)] /\ m \in Nat
    BY <2>2
  <2>4. \A k \in 1 .. m : F(k) \in FolderType
    BY <2>1
  <2>5. \A k \in 1 .. m : pushed[k] = F(k)
    BY <2>3
  <2> HIDE DEF F, m, pushed
  <2>6. pushed \in Seq(FolderType) /\ Len(pushed) = m
    BY <2>3, <2>4
  <2> QED BY <2>1, <2>5, <2>6 DEF F, m
<1> HIDE DEF pushed
<1>10. Pushed(items, pushed)
  <2>1. ASSUME NEW k \in 1 .. Len(pushed)
        PROVE  \E i \in 1 .. n :
                 /\ items[i].name \in Dirs /\ StartOf(items[i], folder.cluster) \in Unvisited
                 /\ pushed[k] = Folder(StartOf(items[i], folder.cluster), items[i].deleted \/ folder.gone)
    <3>1. PICK i \in 1 .. n : i \in sub /\ below[k] = placed[i]
      BY <1>8, <1>9
    <3>2. pushed[k] = Folder(placed[i].start, placed[i].deleted)
      BY <1>9, <3>1
    <3> QED BY <1>4, <1>6, <3>1, <3>2
  <2>2. ASSUME NEW i \in 1 .. n, i \in sub
        PROVE  \E k \in 1 .. Len(pushed) : pushed[k].cluster = StartOf(items[i], folder.cluster)
    <3>1. PICK k \in 1 .. Len(below) : below[k] = placed[i]
      BY <1>5, <2>2 DEF Chosen
    <3> QED BY <1>4, <1>9, <3>1
  <2> QED BY <1>6, <2>1, <2>2 DEF Pushed, n
<1>11. Found(items, found)
  <2>1. ASSUME NEW k \in 1 .. Len(found)
        PROVE  \E i \in 1 .. n :
                 /\ found[k].name = items[i].name /\ found[k].start = StartOf(items[i], folder.cluster)
                 /\ found[k].size = items[i].size /\ found[k].contiguous = items[i].contiguous
    <3>1. PICK i \in 1 .. n : found[k] = placed[i]
      BY <1>5 DEF Chosen
    <3> QED BY <1>4, <3>1
  <2>2. ASSUME NEW i \in 1 .. n, i \in del
        PROVE  \E k \in 1 .. Len(found) : found[k].name = items[i].name
    <3>1. PICK k \in 1 .. Len(found) : found[k] = placed[i]
      BY <1>5, <2>2 DEF Chosen
    <3> QED BY <1>4, <3>1
  <2>3. Distinct(items) => Distinct(found)
    <3>1. Distinct(items) => Distinct(placed)
      BY <1>4 DEF Distinct, n
    <3> QED BY <1>5, <3>1 DEF Chosen
  <2> QED BY <1>6, <2>1, <2>2, <2>3 DEF Found, n
<1>12. ParseDoes(items, pushed, found)
  BY <1>1, <1>3, <1>7, <1>9, <1>10, <1>11 DEF ParseDoes, items
<1> QED
  BY <1>12

(* ---------------------------- Types of recovery ------------------------- *)

\* What a cluster holds, what a report says, and what a file being written keeps.
BlockType == [of : Names \cup {Root}, block : Nat]
StatType ==
  [name : Names \cup {Root}, recovered : BOOLEAN, out : Seq(BlockType), size : Nat]
Places == Cluster \cup {NoCluster, MaxCluster + 1}
WriterType ==
  [how : FreeWalks \cup {"contiguous", "chain"}, e : EntryType, at : Places, left : 0 .. MaxCluster,
   wrapped : BOOLEAN, tries : 0 .. MaxTries, jpeg : {"off", "start", "scan"}, out : Seq(BlockType),
   read : Seq(Cluster)]

\* The types of the walk and of the files.
WalkTyped ==
  /\ pc \in {"life", "walk", "folder", "copy", "done"}
  /\ wanted \in SUBSET Files /\ dry_run \in BOOLEAN /\ has_map \in BOOLEAN
  /\ stack \in Seq(FolderType) /\ visited \in SUBSET Cluster /\ folder \in FolderType
FilesTyped ==
  /\ deleted \in Seq(EntryType) /\ stats \in Seq(StatType) /\ faults \in 0 .. MaxFaults
  /\ pc = "copy" => w \in WriterType /\ w.e.start \in Cluster /\ w.e.size <= MaxCluster
RecoveryTyped == WalkTyped /\ FilesTyped

\* The FAT leads a folder to a cluster, or nowhere.
LEMMA NextFolderCluster ==
  ASSUME VolumeAssumption, VolumeTyped, NEW c \in Cluster
  PROVE  NextOfFolder(c) \in Cluster \cup {0} /\ NextCluster(c) \in Cluster \cup {NoCluster}
BY DEF NextOfFolder, NextCluster, NoCluster

\* FreeWalk answers a cluster, or none.
LEMMA FollowIsPlace ==
  ASSUME VolumeAssumption, NEW mapped \in BOOLEAN, w.wrapped \in BOOLEAN
  PROVE  Follow(mapped).cluster \in Places /\ Follow(mapped).wrapped \in BOOLEAN
<1> DEFINE F == FreeClusters
           stop  == IF w.wrapped THEN w.e.start ELSE MaxCluster + 1
           ahead == {c \in F : c > w.at /\ c < stop}
           below == {c \in F : c >= 2 /\ c < w.e.start}
<1>1. ahead \in SUBSET Cluster /\ below \in SUBSET Cluster
  BY DEF FreeClusters
<1> HIDE DEF ahead, below
<1>2. /\ ahead # {} => Min(ahead) \in Cluster
      /\ below # {} => Min(below) \in Cluster
  BY <1>1, LeastOf
<1>3. Follow(mapped) =
        IF ahead # {} THEN [cluster |-> Min(ahead), wrapped |-> w.wrapped]
        ELSE IF w.wrapped \/ ~mapped THEN [cluster |-> NoCluster, wrapped |-> w.wrapped]
        ELSE IF below # {} THEN [cluster |-> Min(below), wrapped |-> TRUE]
        ELSE [cluster |-> NoCluster, wrapped |-> TRUE]
  BY DEF Follow, NextAfter, ahead, below
<1>4. NoCluster \in Places /\ Cluster \in SUBSET Places
  BY DEF Places
<1>5. CASE ahead # {}
  BY <1>2, <1>3, <1>4, <1>5
<1>6. CASE ahead = {} /\ (w.wrapped \/ ~mapped)
  <2>1. PICK b \in BOOLEAN : b = w.wrapped
    OBVIOUS
  <2>2. Follow(mapped) = [cluster |-> NoCluster, wrapped |-> b]
    BY <1>3, <1>6, <2>1
  <2> QED BY <1>4, <2>2
<1>7. CASE ahead = {} /\ ~(w.wrapped \/ ~mapped) /\ below # {}
  BY <1>2, <1>3, <1>4, <1>7
<1>8. CASE ahead = {} /\ ~(w.wrapped \/ ~mapped) /\ below = {}
  BY <1>3, <1>4, <1>8
<1> QED
  BY <1>5, <1>6, <1>7, <1>8

\* The record of a file: what it was called, and what came out.
LEMMA RecordTyped ==
  ASSUME stats \in Seq(StatType), NEW e \in EntryType, NEW recovered \in BOOLEAN,
         NEW out \in Seq(BlockType)
  PROVE  Record(e, recovered, out) \in Seq(StatType)
<1>1. [name |-> e.name, recovered |-> recovered, out |-> out, size |-> e.size] \in StatType
  BY DEF EntryType, StatType
<1> QED
  BY <1>1 DEF Record

\* write_file starts within the entry it was given.
LEMMA WriterTyped ==
  ASSUME VolumeAssumption, UndeleteAssumption, NEW e \in EntryType,
         NEW how \in FreeWalks \cup {"contiguous", "chain"},
         e.start \in Cluster, e.size <= MaxCluster
  PROVE  Writer(e, how) \in WriterType
<1>1. e.size \in 0 .. MaxCluster
  BY DEF EntryType, VolumeAssumption
<1>2. 0 \in 0 .. MaxTries /\ e.start \in Places
  BY DEF UndeleteAssumption, Places
<1>3. (IF how \in FreeWalks /\ Ext[e.name] = "jpg" THEN "start" ELSE "off") \in {"off", "start", "scan"}
  OBVIOUS
<1>4. <<>> \in Seq(BlockType) /\ <<>> \in Seq(Cluster)
  OBVIOUS
<1> DEFINE j == IF how \in FreeWalks /\ Ext[e.name] = "jpg" THEN "start" ELSE "off"
<1>5. Writer(e, how) =
        [how |-> how, e |-> e, at |-> e.start, left |-> e.size, wrapped |-> FALSE, tries |-> 0,
         jpeg |-> j, out |-> <<>>, read |-> <<>>]
  BY DEF Writer
<1>6. j \in {"off", "start", "scan"}
  BY <1>3
<1> HIDE DEF j
<1> QED
  BY <1>1, <1>2, <1>4, <1>5, <1>6 DEF WriterType

\* A cluster read and kept, in any of the four loops.
LEMMA TakeTyped ==
  ASSUME VolumeAssumption, UndeleteAssumption, VolumeTyped, w \in WriterType,
         w.at \in Cluster, w.left > 0,
         NEW next \in Places, NEW wrapped \in BOOLEAN, NEW jpeg \in {"off", "start", "scan"},
         Take(next, wrapped, jpeg)
  PROVE  w' \in WriterType /\ w'.e = w.e
<1>1. /\ w.left - 1 \in 0 .. MaxCluster /\ 0 \in 0 .. MaxTries
  BY DEF WriterType, VolumeAssumption, UndeleteAssumption
<1>2. data[w.at] \in BlockType /\ w.out \in Seq(BlockType) /\ w.read \in Seq(Cluster)
  BY DEF VolumeTyped, BlockType, WriterType
<1>3. Append(w.out, data[w.at]) \in Seq(BlockType) /\ Append(w.read, w.at) \in Seq(Cluster)
  BY <1>2
<1> DEFINE out == Append(w.out, data[w.at])
           read == Append(w.read, w.at)
           left == w.left - 1
<1>4. w' = [w EXCEPT !.at = next, !.left = left, !.wrapped = wrapped, !.tries = 0,
                     !.jpeg = jpeg, !.out = out, !.read = read]
  BY DEF Take
<1>5. out \in Seq(BlockType) /\ read \in Seq(Cluster) /\ left \in 0 .. MaxCluster
  BY <1>1, <1>3
<1> HIDE DEF out, read, left
<1> QED
  BY <1>1, <1>4, <1>5 DEF WriterType

\* A cluster read and passed over.
LEMMA PassTyped ==
  ASSUME VolumeAssumption, UndeleteAssumption, VolumeTyped, w \in WriterType,
         NEW how, PassOver(how)
  PROVE  w' \in WriterType /\ w'.e = w.e
<1> DEFINE next == Follow(TRUE)
           read == Append(w.read, w.at)
           tries == w.tries + 1
<1>1. next.cluster \in Places /\ next.wrapped \in BOOLEAN
  BY FollowIsPlace DEF WriterType
<1>2. w.at \in Cluster /\ w.read \in Seq(Cluster) /\ w.tries \in 0 .. MaxTries /\ w.tries < MaxTries
  BY DEF PassOver, Copying, WriterType
<1>3. read \in Seq(Cluster)
  BY <1>2
<1>4. tries \in 0 .. MaxTries
  BY <1>2 DEF UndeleteAssumption
<1>5. w' = [w EXCEPT !.at = next.cluster, !.wrapped = next.wrapped, !.tries = tries, !.read = read]
  BY DEF PassOver
<1> HIDE DEF next, read, tries
<1> QED
  BY <1>1, <1>3, <1>4, <1>5 DEF WriterType

\* Before the recovery nothing is read or collected.
LEMMA TypedAtFirst ==
  ASSUME VolumeAssumption, UndeleteAssumption, Init
  PROVE  RecoveryTyped
<1>1. NoFolder \in FolderType
  BY DEF NoFolder, Folder, FolderType, NoCluster
<1>2. WalkTyped
  <2>1. pc = "life" /\ wanted = {} /\ dry_run = FALSE /\ has_map = FALSE
    BY DEF Init
  <2>2. stack = <<>> /\ visited = {} /\ folder = NoFolder
    BY DEF Init
  <2>3. stack \in Seq(FolderType) /\ visited \in SUBSET Cluster /\ folder \in FolderType
    BY <1>1, <2>2
  <2> QED BY <2>1, <2>3 DEF WalkTyped
<1>3. 0 \in 0 .. MaxFaults
  BY DEF UndeleteAssumption
<1>4. FilesTyped
  BY <1>3 DEF Init, FilesTyped
<1> QED
  BY <1>2, <1>4 DEF RecoveryTyped

\* Walking the folders.
LEMMA WalkStepTyped ==
  ASSUME VolumeAssumption, UndeleteAssumption, VolumeTyped, RecoveryTyped,
         Recover \/ OpenFolder \/ ReadFolderCluster \/ ParseFolder
  PROVE  RecoveryTyped'
<1>1. /\ stack \in Seq(FolderType) /\ visited \in SUBSET Cluster /\ folder \in FolderType
      /\ wanted \in SUBSET Files /\ dry_run \in BOOLEAN /\ has_map \in BOOLEAN
      /\ deleted \in Seq(EntryType) /\ stats \in Seq(StatType) /\ faults \in 0 .. MaxFaults
  BY DEF RecoveryTyped, WalkTyped, FilesTyped
<1>2. CASE Recover
  <2>1. Folder(RootCluster(fs), FALSE) \in FolderType
    <3>1. RootCluster(fs) \in Cluster \cup {0}
      BY DEF RootCluster, VolumeAssumption
    <3> QED BY <3>1, FolderTyped
  <2>2. stack' \in Seq(FolderType)
    <3>1. stack' = <<Folder(RootCluster(fs), FALSE)>>
      BY <1>2 DEF Recover
    <3>2. PICK r \in FolderType : r = Folder(RootCluster(fs), FALSE)
      BY <2>1
    <3>3. <<r>> \in Seq(FolderType)
      OBVIOUS
    <3> QED BY <3>1, <3>2, <3>3
  <2>3. wanted' \in SUBSET Files /\ dry_run' \in BOOLEAN /\ has_map' \in BOOLEAN
    <3>1. wanted' \in Wanted /\ dry_run' \in BOOLEAN
      BY <1>2 DEF Recover
    <3>2. has_map' \in IF dry_run' THEN {TRUE} ELSE BOOLEAN
      BY <1>2 DEF Recover
    <3>3. has_map' \in BOOLEAN
      BY <3>2
    <3>4. wanted' \in SUBSET Files
      BY <3>1 DEF UndeleteAssumption
    <3> QED BY <3>1, <3>3, <3>4
  <2>4. /\ pc' = "walk" /\ visited' = visited /\ folder' = folder /\ deleted' = deleted
        /\ stats' = stats /\ faults' = faults
    BY <1>2 DEF Recover
  <2>5. WalkTyped'
    BY <1>1, <2>2, <2>3, <2>4 DEF WalkTyped
  <2>6. FilesTyped'
    BY <1>1, <2>4 DEF FilesTyped
  <2> QED BY <2>5, <2>6 DEF RecoveryTyped
<1>3. CASE OpenFolder
  <2>1. /\ stack # <<>> /\ pc' = "folder" /\ stack' = SubSeq(stack, 1, Len(stack) - 1)
        /\ folder' = [stack[Len(stack)] EXCEPT !.at = stack[Len(stack)].cluster]
    BY <1>3 DEF OpenFolder, Front, Last
  <2>2. stack[Len(stack)] \in FolderType /\ stack' \in Seq(FolderType)
    BY <1>1, <2>1
  <2>3. folder' \in FolderType
    BY <2>1, <2>2 DEF FolderType
  <2>4. /\ visited' = visited /\ deleted' = deleted /\ stats' = stats /\ faults' = faults
        /\ wanted' = wanted /\ dry_run' = dry_run /\ has_map' = has_map
    BY <1>3 DEF OpenFolder
  <2>5. WalkTyped'
    BY <1>1, <2>1, <2>2, <2>3, <2>4 DEF WalkTyped
  <2>6. FilesTyped'
    BY <1>1, <2>1, <2>4 DEF FilesTyped
  <2> QED BY <2>5, <2>6 DEF RecoveryTyped
<1>4. CASE ReadFolderCluster
  <2>1. PICK c \in Cluster : c = folder.at /\ visited' = visited \cup {c}
    BY <1>4 DEF ReadFolderCluster, Unvisited
  <2>2. /\ folder' = [folder EXCEPT !.clusters = Append(@, c), !.at = NextOfFolder(c)]
        /\ pc = "folder" /\ pc' = pc
    BY <1>4, <2>1 DEF ReadFolderCluster
  <2>3. NextOfFolder(c) \in Cluster \cup {0} /\ Append(folder.clusters, c) \in Seq(Cluster)
    <3>1. folder.clusters \in Seq(Cluster)
      BY <1>1 DEF FolderType
    <3> QED BY <3>1, NextFolderCluster
  <2>4. folder' \in FolderType
    BY <1>1, <2>2, <2>3 DEF FolderType
  <2>5. /\ stack' = stack /\ deleted' = deleted /\ stats' = stats /\ faults' = faults
        /\ wanted' = wanted /\ dry_run' = dry_run /\ has_map' = has_map
    BY <1>4 DEF ReadFolderCluster
  <2>6. WalkTyped'
    BY <1>1, <2>1, <2>2, <2>4, <2>5 DEF WalkTyped
  <2>7. FilesTyped'
    BY <1>1, <2>2, <2>5 DEF FilesTyped
  <2> QED BY <2>6, <2>7 DEF RecoveryTyped
<1>5. CASE ParseFolder
  <2>1. PICK items, pushed, found : ParseDoes(items, pushed, found)
    BY <1>1, <1>5, ParseEffect
  <2>2. stack' \in Seq(FolderType) /\ deleted' \in Seq(EntryType)
    BY <1>1, <2>1 DEF ParseDoes
  <2>3. folder' \in FolderType
    <3>1. folder' = Folder(0, FALSE)
      BY <1>5 DEF ParseFolder, NoFolder, NoCluster
    <3> QED BY <3>1, FolderTyped
  <2>4. /\ visited' = visited /\ stats' = stats /\ faults' = faults /\ pc' = "walk"
        /\ wanted' = wanted /\ dry_run' = dry_run /\ has_map' = has_map
    BY <1>5 DEF ParseFolder
  <2>5. WalkTyped'
    BY <1>1, <2>2, <2>3, <2>4 DEF WalkTyped
  <2>6. FilesTyped'
    BY <1>1, <2>2, <2>4 DEF FilesTyped
  <2> QED BY <2>5, <2>6 DEF RecoveryTyped
<1> QED
  BY <1>2, <1>3, <1>4, <1>5

\* What the steps that handle the files leave of the walk over the folders.
SameWalk ==
  /\ stack' = stack /\ visited' = visited /\ folder' = folder
  /\ wanted' = wanted /\ dry_run' = dry_run /\ has_map' = has_map

\* Reassembling a file.
LEMMA CopyStepTyped ==
  ASSUME VolumeAssumption, UndeleteAssumption, VolumeTyped, RecoveryTyped,
         WriteFile \/ CopySkippingAllocated \/ CopyContiguous \/ CopyChain \/ RewindChain
  PROVE  /\ RecoveryTyped' /\ w'.e = w.e /\ SameWalk
         /\ pc = "copy" /\ pc' = "copy" /\ deleted' = deleted /\ stats' = stats
<1>1. /\ pc = "copy" /\ SameWalk /\ pc' = pc /\ deleted' = deleted /\ stats' = stats /\ faults' = faults
  BY DEF WriteFile, CopySkippingAllocated, TakeFreeCluster, PassOver, CopyContiguous, CopyChain,
         RewindChain, Copying, CopyOnly, SameWalk
<1>2. w \in WriterType /\ w.e.start \in Cluster /\ w.e.size <= MaxCluster /\ has_map \in BOOLEAN
  BY <1>1 DEF RecoveryTyped, FilesTyped, WalkTyped
<1>3. w' \in WriterType /\ w'.e = w.e
  <2>1. ASSUME NEW how, TakeFreeCluster(how)
        PROVE  w' \in WriterType /\ w'.e = w.e
    <3> DEFINE next == Follow(has_map)
               jpeg == IF ~Accepts(w.jpeg, data[w.at]) \/ w.jpeg = "off" THEN "off" ELSE "scan"
    <3>1. next.cluster \in Places /\ next.wrapped \in BOOLEAN
      BY <1>2, FollowIsPlace DEF WriterType
    <3>2. jpeg \in {"off", "start", "scan"}
      OBVIOUS
    <3>3. Take(next.cluster, next.wrapped, jpeg) /\ w.at \in Cluster /\ w.left > 0
      BY <2>1 DEF TakeFreeCluster, Copying
    <3> HIDE DEF next, jpeg
    <3> QED BY <1>2, <3>1, <3>2, <3>3, TakeTyped
  <2>2. ASSUME NEW how, PassOver(how)
        PROVE  w' \in WriterType /\ w'.e = w.e
    BY <1>2, <2>2, PassTyped
  <2>3. CASE CopyContiguous
    <3>1. Take(w.at + 1, FALSE, "off") /\ w.at \in Cluster /\ w.left > 0
      BY <2>3 DEF CopyContiguous, Copying
    <3>2. w.at + 1 \in Places
      BY <3>1, ClusterFacts DEF Places
    <3> QED BY <1>2, <3>1, <3>2, TakeTyped
  <2>4. CASE CopyChain
    <3>1. Take(NextCluster(w.at), FALSE, "off") /\ w.at \in Cluster /\ w.left > 0
      BY <2>4 DEF CopyChain, Copying
    <3>2. NextCluster(w.at) \in Places
      BY <3>1, NextFolderCluster DEF Places
    <3> QED BY <1>2, <3>1, <3>2, TakeTyped
  <2>5. CASE RewindChain
    <3>1. w' = Writer(w.e, "skip") /\ w.e \in EntryType
      BY <1>2, <2>5 DEF RewindChain, WriterType
    <3>2. Writer(w.e, "skip") \in WriterType
      BY <1>2, <3>1, WriterTyped DEF FreeWalks
    <3>3. w'.e = w.e
      BY <3>1 DEF Writer
    <3> QED BY <3>1, <3>2, <3>3
  <2> QED BY <2>1, <2>2, <2>3, <2>4, <2>5 DEF WriteFile, CopySkippingAllocated
<1>4. WalkTyped'
  BY <1>1 DEF RecoveryTyped, WalkTyped, SameWalk
<1>5. FilesTyped'
  BY <1>1, <1>2, <1>3 DEF RecoveryTyped, FilesTyped
<1> QED
  BY <1>1, <1>3, <1>4, <1>5 DEF RecoveryTyped

\* The next deleted file, a file that is finished or failed, and the end.
LEMMA FileStepTyped ==
  ASSUME VolumeAssumption, UndeleteAssumption, VolumeTyped, RecoveryTyped,
         NextFile \/ Finished \/ Finish \/ WriteFails
  PROVE  RecoveryTyped' /\ SameWalk
<1>1. SameWalk
  BY DEF NextFile, Finished, Finish, WriteFails, SameWalk
<1>2. /\ deleted \in Seq(EntryType) /\ stats \in Seq(StatType) /\ faults \in 0 .. MaxFaults
  BY DEF RecoveryTyped, FilesTyped
<1>3. TRUE \in BOOLEAN /\ FALSE \in BOOLEAN /\ <<>> \in Seq(BlockType)
  OBVIOUS
<1>4. pc' \in {"life", "walk", "folder", "copy", "done"}
  BY DEF NextFile, Finished, Finish, WriteFails, RecoveryTyped, WalkTyped
<1>5. WalkTyped'
  BY <1>1, <1>4 DEF RecoveryTyped, WalkTyped, SameWalk
<1>6. CASE NextFile
  <2>1. PICK e \in EntryType : e = Head(deleted) /\ Tail(deleted) \in Seq(EntryType)
    BY <1>2, <1>6 DEF NextFile
  <2>2. deleted' = Tail(deleted) /\ faults' = faults /\ pc = "walk"
    BY <1>6 DEF NextFile
  <2>3. Record(e, FALSE, <<>>) \in Seq(StatType) /\ Record(e, TRUE, <<>>) \in Seq(StatType)
    BY <1>2, <1>3, <2>1, RecordTyped
  <2>4. stats' \in Seq(StatType)
    BY <1>2, <1>6, <2>1, <2>3 DEF NextFile
  <2>5. ASSUME pc' = "copy"
        PROVE  w' \in WriterType /\ w'.e.start \in Cluster /\ w'.e.size <= MaxCluster
    <3>1. PICK how \in FreeWalks \cup {"contiguous", "chain"} : w' = Writer(e, how)
      BY <1>6, <2>1, <2>2, <2>5 DEF NextFile, FreeWalks
    <3>2. e.start \in Cluster /\ e.size <= MaxCluster - 1
      BY <1>6, <2>1, <2>2, <2>5 DEF NextFile, Plausible, ValidExtent
    <3>3. e.size <= MaxCluster
      BY <2>1, <3>2 DEF EntryType, VolumeAssumption
    <3>4. Writer(e, how) \in WriterType
      BY <2>1, <3>1, <3>2, <3>3, WriterTyped
    <3>5. w'.e = e
      BY <3>1 DEF Writer
    <3> QED BY <3>1, <3>2, <3>3, <3>4, <3>5
  <2>6. FilesTyped'
    BY <1>2, <2>1, <2>2, <2>4, <2>5 DEF FilesTyped
  <2> QED BY <1>1, <1>5, <2>6 DEF RecoveryTyped
<1>7. CASE Finished
  <2>1. FilesTyped'
    BY <1>2, <1>7 DEF Finished, FilesTyped
  <2> QED BY <1>1, <1>5, <2>1 DEF RecoveryTyped
<1>8. CASE Finish \/ WriteFails
  <2>1. w \in WriterType
    BY <1>8 DEF Finish, WriteFails, RecoveryTyped, FilesTyped
  <2>2. w.e \in EntryType /\ w.out \in Seq(BlockType)
    BY <2>1 DEF WriterType
  <2>3. Record(w.e, TRUE, w.out) \in Seq(StatType) /\ Record(w.e, FALSE, <<>>) \in Seq(StatType)
    BY <1>2, <1>3, <2>2, RecordTyped
  <2>4. stats' \in Seq(StatType) /\ pc' = "walk" /\ deleted' = deleted
    BY <1>8, <2>3 DEF Finish, WriteFails
  <2>5. faults' \in 0 .. MaxFaults
    <3>1. CASE Finish
      BY <1>2, <3>1 DEF Finish
    <3>2. CASE WriteFails
      <4>1. faults < MaxFaults /\ faults' = faults + 1
        BY <3>2 DEF WriteFails
      <4> QED BY <1>2, <4>1 DEF UndeleteAssumption
    <3> QED BY <1>8, <3>1, <3>2
  <2>6. FilesTyped'
    BY <1>2, <2>4, <2>5 DEF FilesTyped
  <2> QED BY <1>1, <1>5, <2>6 DEF RecoveryTyped
<1> QED
  BY <1>6, <1>7, <1>8

\* The recovery is read-only.
LEMMA StepKeepsVolume == Step => UNCHANGED volume
BY DEF Step, Recover, OpenFolder, ReadFolderCluster, ParseFolder, NextFile, Finished, WriteFile,
       CopySkippingAllocated, TakeFreeCluster, PassOver, CopyContiguous, CopyChain, RewindChain,
       Finish, WriteFails, CopyOnly

\* The volume's life, sound, and the types of all that is kept of it.
Typed == VolumeTyped /\ VolumeSound /\ RecoveryTyped

\* Every step, of the life and of the recovery, keeps the volume sound.
LEMMA TypedStays ==
  VolumeAssumption /\ UndeleteAssumption /\ Typed /\ [Next]_vars => Typed'
<1> SUFFICES ASSUME VolumeAssumption, UndeleteAssumption, Typed, [Next]_vars PROVE Typed'
  OBVIOUS
<1>1. VolumeTyped /\ VolumeSound /\ RecoveryTyped
  BY DEF Typed
<1>2. ASSUME UNCHANGED volume PROVE VolumeTyped' /\ VolumeSound'
  <2>1. /\ fs' = fs /\ fat' = fat /\ used' = used /\ data' = data /\ entries' = entries
        /\ hand' = hand /\ alive' = alive /\ home' = home /\ ops' = ops
    BY <1>2 DEF volume
  <2>2. VolumeTyped'
    BY <1>1, <2>1 DEF VolumeTyped
  <2>3. OneHome' /\ HomesHeld' /\ RootHeld' /\ AliveInPlace' /\ ChainsOfFiles'
    <3>1. OneHome /\ HomesHeld /\ RootHeld /\ AliveInPlace /\ ChainsOfFiles
      BY <1>1 DEF VolumeSound
    <3>2. OneHome' /\ AliveInPlace'
      BY <2>1, <3>1 DEF OneHome, AliveInPlace
    <3>3. HomesHeld' /\ RootHeld'
      BY <2>1, <3>1 DEF HomesHeld, RootHeld, RootCluster
    <3>4. ChainsOfFiles'
      <4>1. ChainsOfFiles' = ChainsOfFiles
        BY <2>1 DEF ChainsOfFiles
      <4> QED BY <3>1, <4>1
    <3> QED BY <3>2, <3>3, <3>4
  <2>4. EntriesApart' /\ FoldersBegin' /\ NoCycles'
    <3>1. EntriesApart /\ FoldersBegin /\ NoCycles
      BY <1>1 DEF VolumeSound
    <3>2. EntriesApart' = EntriesApart
      BY <2>1 DEF EntriesApart
    <3>3. FoldersBegin' = FoldersBegin
      BY <2>1 DEF FoldersBegin
    <3>4. NoCycles' = NoCycles
      BY <2>1 DEF NoCycles, NamesIn
    <3> QED BY <3>1, <3>2, <3>3, <3>4
  <2>5. EntriesSay'
    <3>1. EntriesSay' = EntriesSay
      BY <2>1 DEF EntriesSay, SaysOf, First
    <3> QED BY <1>1, <3>1 DEF VolumeSound
  <2> QED BY <2>2, <2>3, <2>4, <2>5 DEF VolumeSound
<1>3. ASSUME UNCHANGED recovery PROVE RecoveryTyped'
  <2>1. /\ pc' = pc /\ wanted' = wanted /\ dry_run' = dry_run /\ has_map' = has_map
        /\ stack' = stack /\ visited' = visited /\ folder' = folder /\ deleted' = deleted
        /\ w' = w /\ stats' = stats /\ faults' = faults
    BY <1>3 DEF recovery
  <2> QED BY <1>1, <2>1 DEF RecoveryTyped, WalkTyped, FilesTyped
<1>4. CASE pc = "life" /\ Live /\ UNCHANGED recovery
  <2>1. VolumeTyped' /\ VolumeSound'
    BY <1>1, <1>4, MadeSound, UnmadeSound DEF Live, Folders
  <2> QED BY <1>3, <1>4, <2>1 DEF Typed
<1>5. CASE Step
  <2>1. VolumeTyped' /\ VolumeSound'
    BY <1>2, <1>5, StepKeepsVolume
  <2>2. RecoveryTyped'
    BY <1>1, <1>5, WalkStepTyped, CopyStepTyped, FileStepTyped DEF Step
  <2> QED BY <2>1, <2>2 DEF Typed
<1>6. CASE UNCHANGED vars
  <2>1. UNCHANGED volume /\ UNCHANGED recovery
    BY <1>6 DEF vars
  <2> QED BY <1>2, <1>3, <2>1 DEF Typed
<1> QED
  BY <1>4, <1>5, <1>6 DEF Next

\* TypeOK follows.
LEMMA TypedIsEnough == VolumeAssumption /\ Typed => TypeOK
<1> SUFFICES ASSUME VolumeAssumption, Typed PROVE TypeOK
  OBVIOUS
<1>1. /\ fs \in FileSystems /\ fat \in [Cluster -> {Free, Eoc} \cup Cluster] /\ used \subseteq Cluster
      /\ data \in [Cluster -> [of : Names \cup {Root}, block : Nat]]
      /\ hand \in Cluster /\ alive \subseteq Names /\ ops \in 0 .. MaxOps
  BY DEF Typed, VolumeTyped
<1>2. /\ pc \in {"life", "walk", "folder", "copy", "done"} /\ has_map \in BOOLEAN /\ dry_run \in BOOLEAN
      /\ visited \subseteq Cluster /\ faults \in 0 .. MaxFaults
  BY DEF Typed, RecoveryTyped, WalkTyped, FilesTyped
<1>3. \A i \in DOMAIN stack : stack[i].cluster \in Cluster \cup {0} /\ stack[i].gone \in BOOLEAN
  <2>1. stack \in Seq(FolderType)
    BY DEF Typed, RecoveryTyped, WalkTyped
  <2>2. \A i \in DOMAIN stack : stack[i] \in FolderType
    BY <2>1
  <2> QED BY <2>2 DEF FolderType
<1>4. pc = "copy" => /\ w.how \in FreeWalks \cup {"contiguous", "chain"} /\ w.left \in 0 .. MaxCluster
                     /\ w.at \in Cluster \cup {NoCluster, MaxCluster + 1}
                     /\ w.tries \in 0 .. MaxTries /\ w.jpeg \in {"off", "start", "scan"}
  <2> SUFFICES ASSUME pc = "copy" PROVE w \in WriterType
    BY DEF WriterType, Places
  <2> QED BY DEF Typed, RecoveryTyped, FilesTyped
<1> QED
  BY <1>1, <1>2, <1>3, <1>4 DEF TypeOK

\* And it holds of a volume that was just formatted.
LEMMA TypedInitially == VolumeAssumption /\ UndeleteAssumption /\ Init => Typed
BY SoundAtFirst, TypedAtFirst DEF Init, Typed

(***************************************************************************)
(* Whatever the volume's life and the recovery did, every variable is      *)
(* what the code's types and bounds allow: the walk (read_directory, walk  *)
(* of fat.rs and exfat.rs) leaves no cluster number outside the volume on  *)
(* its stack, and write_file never more than the entry's size to read.     *)
(***************************************************************************)
THEOREM TypeCorrect == Spec => []TypeOK
<1> SUFFICES ASSUME VolumeAssumption, UndeleteAssumption PROVE Spec => []TypeOK
  BY VolumeAssumption, UndeleteAssumption
<1>1. VolumeAssumption /\ UndeleteAssumption /\ Init => Typed
  BY TypedInitially
<1>2. VolumeAssumption /\ UndeleteAssumption /\ Typed /\ [Next]_vars => Typed'
  BY TypedStays
<1>3. VolumeAssumption /\ Typed => TypeOK
  BY TypedIsEnough
<1> QED
  BY <1>1, <1>2, <1>3, PTL DEF Spec

(* --------------------- What the walk has collected ---------------------- *)

\* The names in a list of files, and of the file being reassembled.
NamesOf(s) == {s[i].name : i \in 1 .. Len(s)} \ {Root}
Held == IF pc = "copy" THEN {w.e.name} \ {Root} ELSE {}
Coll == NamesOf(stats) \cup NamesOf(deleted) \cup Held
ToRead ==
  visited \cup {stack[i].cluster : i \in 1 .. Len(stack)}
    \cup (IF pc = "folder" THEN {folder.cluster} ELSE {})

\* Each file is collected once, from one of the folders R that are read;
\* every folder in those is read or will be, and every wanted deleted file
\* in them is collected.
Once ==
  /\ Distinct(stats) /\ Distinct(deleted) /\ NamesOf(stats) \cap NamesOf(deleted) = {}
  /\ Held \cap NamesOf(stats) = {} /\ Held \cap NamesOf(deleted) = {}
FromRead(R) == \A x \in Coll : \E p \in R : x \in NamesIn(p)
DirsFollowed(R) == \A p \in R, d \in Dirs : Intact(d) /\ Listed(d, p) => home[d][1] \in ToRead
FilesFound(R) ==
  \A p \in R, x \in Files : x \in wanted /\ x \notin alive /\ x \in NamesIn(p) => x \in Coll
Collected(R) == Once /\ FromRead(R) /\ DirsFollowed(R) /\ FilesFound(R)

\* The names in a list with one more element.
LEMMA NamesAppend ==
  ASSUME NEW S, NEW s \in Seq(S), NEW e
  PROVE  /\ NamesOf(Append(s, e)) = NamesOf(s) \cup ({e.name} \ {Root})
         /\ Distinct(s) /\ e.name \notin NamesOf(s) => Distinct(Append(s, e))
<1> DEFINE t == Append(s, e)
<1>1. /\ Len(t) = Len(s) + 1 /\ t[Len(s) + 1] = e /\ Len(s) \in Nat
      /\ \A k \in 1 .. Len(s) : t[k] = s[k]
  OBVIOUS
<1>2. /\ \A k \in 1 .. Len(s) + 1 : k \in 1 .. Len(s) \/ k = Len(s) + 1
      /\ \A k \in 1 .. Len(s) : k \in 1 .. Len(s) + 1
      /\ Len(s) + 1 \in 1 .. Len(s) + 1
  BY <1>1
<1> HIDE DEF t
<1>3. NamesOf(t) = NamesOf(s) \cup ({e.name} \ {Root})
  BY <1>1, <1>2 DEF NamesOf
<1>4. ASSUME Distinct(s), e.name \notin NamesOf(s)
      PROVE  Distinct(t)
  <2>1. \A k \in 1 .. Len(s) : s[k].name # Root => s[k].name # e.name
    BY <1>4 DEF NamesOf
  <2> SUFFICES ASSUME NEW k \in 1 .. Len(t), NEW l \in 1 .. Len(t),
                      t[k].name = t[l].name, t[k].name # Root
               PROVE  k = l
    BY DEF Distinct
  <2> QED BY <1>1, <1>2, <1>4, <2>1 DEF Distinct
<1> QED
  BY <1>3, <1>4 DEF t

\* The names in a list and in its tail.
LEMMA NamesHead ==
  ASSUME NEW S, NEW s \in Seq(S), s # <<>>
  PROVE  /\ NamesOf(s) = NamesOf(Tail(s)) \cup ({Head(s).name} \ {Root})
         /\ Distinct(s) => Distinct(Tail(s)) /\ Head(s).name \notin NamesOf(Tail(s))
<1> DEFINE t == Tail(s)
           e == Head(s)
<1>1. /\ Len(s) = Len(t) + 1 /\ s[1] = e /\ Len(t) \in Nat
      /\ \A k \in 1 .. Len(t) : t[k] = s[k + 1]
  OBVIOUS
<1>2. /\ \A k \in 1 .. Len(t) + 1 : k = 1 \/ (k - 1 \in 1 .. Len(t) /\ k - 1 + 1 = k)
      /\ \A k \in 1 .. Len(t) : k + 1 \in 1 .. Len(t) + 1 /\ k + 1 # 1
      /\ 1 \in 1 .. Len(t) + 1
      /\ \A k, l \in 1 .. Len(t) : k + 1 = l + 1 => k = l
  BY <1>1
<1> HIDE DEF t, e
<1>3. NamesOf(s) = NamesOf(t) \cup ({e.name} \ {Root})
  <2>1. \A k \in 1 .. Len(s) : s[k].name = e.name \/ \E l \in 1 .. Len(t) : s[k].name = t[l].name
    <3> SUFFICES ASSUME NEW k \in 1 .. Len(s), k # 1 PROVE \E l \in 1 .. Len(t) : s[k].name = t[l].name
      BY <1>1
    <3>1. PICK l \in 1 .. Len(t) : l + 1 = k
      BY <1>1, <1>2
    <3> QED BY <1>1, <3>1
  <2>2. \A l \in 1 .. Len(t) : \E k \in 1 .. Len(s) : s[k].name = t[l].name
    BY <1>1, <1>2
  <2>3. \E k \in 1 .. Len(s) : s[k].name = e.name
    BY <1>1, <1>2
  <2>4. \A x \in NamesOf(s) : x \in NamesOf(t) \/ x \in {e.name} \ {Root}
    BY <2>1 DEF NamesOf
  <2>5. \A x \in NamesOf(t) : x \in NamesOf(s)
    BY <2>2 DEF NamesOf
  <2>6. \A x \in {e.name} \ {Root} : x \in NamesOf(s)
    BY <2>3 DEF NamesOf
  <2> QED BY <2>4, <2>5, <2>6
<1>4. ASSUME Distinct(s)
      PROVE  Distinct(t) /\ e.name \notin NamesOf(t)
  <2>1. ASSUME NEW k \in 1 .. Len(t), NEW l \in 1 .. Len(t), t[k].name = t[l].name, t[k].name # Root
        PROVE  k = l
    <3>1. k + 1 = l + 1
      BY <1>1, <1>2, <1>4, <2>1 DEF Distinct
    <3> QED BY <1>2, <3>1
  <2>2. ASSUME NEW k \in 1 .. Len(t), t[k].name = e.name, e.name # Root
        PROVE  FALSE
    <3>1. k + 1 = 1
      BY <1>1, <1>2, <1>4, <2>2 DEF Distinct
    <3> QED BY <1>2, <3>1
  <2> QED BY <2>1, <2>2 DEF Distinct, NamesOf
<1> QED
  BY <1>3, <1>4 DEF t, e

\* The names in two lists, one after the other.
LEMMA NamesConcat ==
  ASSUME NEW S, NEW r \in Seq(S), NEW t \in Seq(S)
  PROVE  /\ NamesOf(r \o t) = NamesOf(r) \cup NamesOf(t)
         /\ Distinct(r) /\ Distinct(t) /\ NamesOf(r) \cap NamesOf(t) = {} => Distinct(r \o t)
<1> DEFINE u == r \o t
<1>1. /\ \A k \in 1 .. Len(r) : u[k] = r[k] /\ k \in 1 .. Len(u)
      /\ \A k \in 1 .. Len(t) : u[Len(r) + k] = t[k] /\ Len(r) + k \in 1 .. Len(u)
      /\ \A k \in 1 .. Len(u) : k \in 1 .. Len(r) \/ \E i \in 1 .. Len(t) : k = Len(r) + i
  BY ConcatFacts
<1> HIDE DEF u
<1>2. NamesOf(u) = NamesOf(r) \cup NamesOf(t)
  <2>1. ASSUME NEW k \in 1 .. Len(u)
        PROVE  (\E i \in 1 .. Len(r) : u[k] = r[i]) \/ (\E i \in 1 .. Len(t) : u[k] = t[i])
    BY <1>1
  <2>2. \A i \in 1 .. Len(r) : \E k \in 1 .. Len(u) : u[k] = r[i]
    BY <1>1
  <2>3. \A i \in 1 .. Len(t) : \E k \in 1 .. Len(u) : u[k] = t[i]
    BY <1>1
  <2>4. \A x \in NamesOf(u) : x \in NamesOf(r) \/ x \in NamesOf(t)
    BY <2>1 DEF NamesOf
  <2>5. \A x \in NamesOf(r) : x \in NamesOf(u)
    BY <2>2 DEF NamesOf
  <2>6. \A x \in NamesOf(t) : x \in NamesOf(u)
    BY <2>3 DEF NamesOf
  <2> QED BY <2>4, <2>5, <2>6
<1>3. ASSUME Distinct(r), Distinct(t), NamesOf(r) \cap NamesOf(t) = {}
      PROVE  Distinct(u)
  <2>1. \A k \in 1 .. Len(r), i \in 1 .. Len(t) : r[k].name = t[i].name => r[k].name = Root
    BY <1>3 DEF NamesOf
  <2> QED BY <1>3, <2>1, ConcatDistinct DEF u
<1> QED
  BY <1>2, <1>3 DEF u

\* What is listed and intact depends on the volume alone.
LEMMA SameVolumeSays ==
  ASSUME UNCHANGED volume
  PROVE  /\ \A p : NamesIn(p)' = NamesIn(p)
         /\ \A d : Intact(d)' = Intact(d)
         /\ \A d, p : Listed(d, p)' = Listed(d, p)
<1>1. entries' = entries /\ home' = home /\ data' = data /\ fs' = fs /\ fat' = fat
  BY DEF volume
<1>2. \A p : NamesIn(p)' = NamesIn(p)
  BY <1>1 DEF NamesIn
<1>3. \A d : Intact(d)' = Intact(d)
  BY <1>1 DEF Intact
<1>4. \A d, p : Listed(d, p)' = Listed(d, p)
  BY <1>1 DEF Listed, Tells, StartsWithDotEntry, Shows
<1> QED
  BY <1>2, <1>3, <1>4

\* Folders and files once followed and found stay so if nothing is lost.
LEMMA StillFollowed ==
  ASSUME UNCHANGED volume, VolumeTyped, NEW R, DirsFollowed(R),
         \A c \in Cluster : c \in ToRead => c \in ToRead'
  PROVE  DirsFollowed(R)'
<1>1. home' = home
  BY DEF volume
<1> SUFFICES ASSUME NEW p \in R, NEW d \in Dirs, Intact(d)', Listed(d, p)'
             PROVE  home[d][1] \in ToRead'
  BY <1>1 DEF DirsFollowed
<1>2. Intact(d) /\ Listed(d, p)
  BY SameVolumeSays
<1>3. home[d][1] \in ToRead
  BY <1>2 DEF DirsFollowed
<1>4. home[d][1] \in Cluster
  <2>1. home[d] # <<>> /\ home[d] \in Seq(Cluster)
    BY <1>2 DEF Intact, VolumeTyped, Names
  <2> QED BY <2>1
<1> QED
  BY <1>3, <1>4

\* Files once found stay so if none is lost.
LEMMA StillFound ==
  ASSUME UNCHANGED volume, wanted' = wanted, NEW R, FilesFound(R),
         \A x \in wanted : x \in Coll => x \in Coll'
  PROVE  FilesFound(R)'
<1>1. alive' = alive /\ \A p : NamesIn(p)' = NamesIn(p)
  BY SameVolumeSays DEF volume
<1> QED
  BY <1>1 DEF FilesFound

\* What is collected stays so as long as nothing is lost and no file comes twice.
LEMMA StillCollected ==
  ASSUME UNCHANGED volume, wanted' = wanted, VolumeTyped, NEW R, Collected(R),
         Once', Coll' \subseteq Coll, \A x \in wanted : x \in Coll => x \in Coll',
         \A c \in Cluster : c \in ToRead => c \in ToRead'
  PROVE  Collected(R)'
<1>1. FromRead(R)'
  BY SameVolumeSays DEF FromRead, Collected
<1>2. FilesFound(R)'
  BY StillFound DEF Collected
<1>3. DirsFollowed(R)'
  BY StillFollowed DEF Collected
<1> QED
  BY <1>1, <1>2, <1>3 DEF Collected

\* Where a live entry, or an exFAT one, says its file begins, there it is.
LEMMA StartSays ==
  ASSUME VolumeAssumption, VolumeTyped, VolumeSound, NEW p \in Folders, NEW e, SaysOf(p, e),
         NEW parent, StartOf(e, parent) \in Cluster
  PROVE  /\ ~e.deleted /\ p \in alive \cup {Root} =>
              e.name \in alive /\ data[StartOf(e, parent)].of = e.name
         /\ fs = "exfat" => data[StartOf(e, parent)].of \in Names
<1>1. e.name \in Names /\ (p \in alive \cup {Root} /\ ~e.deleted => e.name \in alive)
      /\ ((e.deleted /\ fs = "fat32") \/ e.start = First(e.name))
  BY DEF SaysOf
<1>2. ~e.deleted \/ fs = "exfat" => StartOf(e, parent) = e.start /\ e.start = First(e.name)
  BY <1>1 DEF StartOf
<1>3. ASSUME ~e.deleted \/ fs = "exfat"
      PROVE  /\ 1 \in 1 .. Len(home[e.name])
             /\ StartOf(e, parent) = home[e.name][1]
  <2>1. home[e.name] # <<>> /\ StartOf(e, parent) = home[e.name][1]
    BY <1>2, <1>3, ClusterFacts DEF First
  <2>2. home[e.name] \in Seq(Cluster)
    BY <1>1 DEF VolumeTyped
  <2> QED BY <2>1, <2>2
<1>4. AliveInPlace /\ HomesHeld
  BY DEF VolumeSound
<1>5. ~e.deleted /\ p \in alive \cup {Root} => data[StartOf(e, parent)].of = e.name
  BY <1>1, <1>3, <1>4 DEF AliveInPlace
<1>6. fs = "exfat" => data[StartOf(e, parent)].of \in Names
  BY <1>1, <1>3, <1>4 DEF HomesHeld
<1> QED
  BY <1>1, <1>5, <1>6

\* The folders that parsing pushes.
LEMMA PushedOnList ==
  ASSUME VolumeAssumption, VolumeTyped, VolumeSound,
         NEW items, NEW pushed, NEW found, ParseDoes(items, pushed, found),
         NEW p \in Folders, Lists(items, p), ~folder.gone => p \in alive \cup {Root}
  PROVE  \A k \in 1 .. Len(pushed) : OnList(pushed[k]) /\ pushed[k].clusters = <<>>
<1> SUFFICES ASSUME NEW k \in 1 .. Len(pushed)
             PROVE  OnList(pushed[k]) /\ pushed[k].clusters = <<>>
  OBVIOUS
<1>1. PICK i \in 1 .. Len(items) :
        /\ items[i].name \in Dirs /\ StartOf(items[i], folder.cluster) \in Unvisited
        /\ pushed[k] = Folder(StartOf(items[i], folder.cluster), items[i].deleted \/ folder.gone)
  BY DEF ParseDoes, Pushed
<1>2. PICK j \in 1 .. Len(entries[p]) : items[i] = entries[p][j]
  <2>1. items[i].name # Root
    BY <1>1, ClusterFacts
  <2> QED BY <2>1 DEF Lists
<1>3. PICK e : e = entries[p][j] /\ SaysOf(p, e)
  BY DEF VolumeSound, EntriesSay
<1> DEFINE c == StartOf(e, folder.cluster)
<1>4. /\ pushed[k].cluster = c /\ pushed[k].gone = (e.deleted \/ folder.gone)
      /\ pushed[k].clusters = <<>>
  BY <1>1, <1>2, <1>3 DEF Folder
<1>5. pushed[k].gone \in BOOLEAN
  <2>1. pushed[k] \in FolderType
    BY DEF ParseDoes
  <2> QED BY <2>1 DEF FolderType
<1>6. c \in Cluster
  BY <1>1, <1>2, <1>3 DEF Unvisited
<1> HIDE DEF c
<1>7. /\ ~e.deleted /\ p \in alive \cup {Root} => e.name \in alive /\ data[c].of = e.name
      /\ fs = "exfat" => data[c].of \in Names
  BY <1>3, <1>6, StartSays DEF c
<1>8. e.name \in Dirs
  BY <1>1, <1>2, <1>3
<1>9. ~pushed[k].gone => ~e.deleted /\ p \in alive \cup {Root}
  BY <1>4
<1> QED
  BY <1>4, <1>5, <1>6, <1>7, <1>8, <1>9 DEF OnList

\* A cluster that was still to be read is read or still to be read.
LEMMA ParseReads ==
  ASSUME VolumeAssumption, RecoveryTyped, ParseFolder,
         NEW items, NEW pushed, NEW found, ParseDoes(items, pushed, found),
         folder.cluster = 0 \/ folder.cluster \in visited
  PROVE  /\ \A c \in Cluster : c \in ToRead => c \in ToRead'
         /\ \A k \in 1 .. Len(pushed) : pushed[k].cluster \in ToRead'
         /\ visited \subseteq ToRead'
<1>1. stack' = stack \o pushed /\ visited' = visited /\ pc = "folder" /\ pc' = "walk"
  BY DEF ParseDoes, ParseFolder
<1>2. stack \in Seq(FolderType) /\ pushed \in Seq(FolderType)
  BY DEF ParseDoes, RecoveryTyped, WalkTyped
<1>3. /\ \A k \in 1 .. Len(stack) : stack'[k] = stack[k] /\ k \in 1 .. Len(stack')
      /\ \A k \in 1 .. Len(pushed) : stack'[Len(stack) + k] = pushed[k] /\ Len(stack) + k \in 1 .. Len(stack')
  BY <1>1, <1>2, ConcatFacts
<1>4. \A k \in 1 .. Len(stack) : stack[k].cluster \in ToRead'
  <2> SUFFICES ASSUME NEW k \in 1 .. Len(stack) PROVE stack[k].cluster \in ToRead'
    OBVIOUS
  <2>1. k \in 1 .. Len(stack') /\ stack'[k].cluster = stack[k].cluster
    BY <1>3
  <2> QED BY <2>1 DEF ToRead
<1>5. \A k \in 1 .. Len(pushed) : pushed[k].cluster \in ToRead'
  <2> SUFFICES ASSUME NEW k \in 1 .. Len(pushed) PROVE pushed[k].cluster \in ToRead'
    OBVIOUS
  <2>1. PICK l \in 1 .. Len(stack') : stack'[l] = pushed[k]
    BY <1>3
  <2>2. stack'[l].cluster = pushed[k].cluster
    BY <2>1
  <2> QED BY <2>2 DEF ToRead
<1>6. visited \subseteq ToRead'
  BY <1>1 DEF ToRead
<1>7. \A c \in Cluster : c \in ToRead =>
        c \in visited \/ (\E k \in 1 .. Len(stack) : c = stack[k].cluster)
  BY ClusterFacts DEF ToRead
<1> QED
  BY <1>4, <1>5, <1>6, <1>7

\* What parsing adds to the files collected.
LEMMA ParseAdds ==
  ASSUME RecoveryTyped, ParseFolder, NEW items, NEW pushed, NEW found,
         ParseDoes(items, pushed, found), Once, Distinct(items), NamesOf(items) \cap Coll = {}
  PROVE  Once' /\ Coll' = Coll \cup NamesOf(found) /\ NamesOf(found) \subseteq NamesOf(items)
<1>1. pc = "folder" /\ pc' = "walk" /\ stats' = stats /\ deleted' = deleted \o found
  BY DEF ParseFolder, ParseDoes
<1>2. deleted \in Seq(EntryType) /\ found \in Seq(EntryType)
  BY DEF ParseDoes, RecoveryTyped, FilesTyped
<1>3. NamesOf(found) \subseteq NamesOf(items)
  <2>1. \A k \in 1 .. Len(found) : \E i \in 1 .. Len(items) : found[k].name = items[i].name
    BY DEF ParseDoes, Found
  <2> QED BY <2>1 DEF NamesOf
<1>4. Held = {} /\ Held' = {}
  BY <1>1 DEF Held
<1>5. Distinct(found)
  BY DEF ParseDoes, Found
<1>6. NamesOf(deleted') = NamesOf(deleted) \cup NamesOf(found)
  BY <1>1, <1>2, NamesConcat
<1>7. Distinct(deleted')
  <2>1. NamesOf(deleted) \cap NamesOf(found) = {}
    BY <1>3 DEF Coll
  <2> QED BY <1>1, <1>2, <1>5, <2>1, NamesConcat DEF Once
<1>8. NamesOf(stats)' = NamesOf(stats) /\ Distinct(stats)' = Distinct(stats)
  BY <1>1
<1>9. NamesOf(stats) \cap NamesOf(deleted') = {}
  BY <1>3, <1>6 DEF Once, Coll
<1>10. Coll' = Coll \cup NamesOf(found)
  BY <1>4, <1>6, <1>8 DEF Coll
<1>11. Once'
  BY <1>4, <1>7, <1>8, <1>9 DEF Once
<1> QED
  BY <1>3, <1>10, <1>11

\* Reading clusters that hold nothing but a file's data collects nothing.
LEMMA ParseJunk ==
  ASSUME VolumeAssumption, VolumeTyped, RecoveryTyped, ParseFolder,
         NEW items, NEW pushed, NEW found, ParseDoes(items, pushed, found),
         OnlyJunk(items), folder.cluster = 0 \/ folder.cluster \in visited,
         NEW R, Collected(R)
  PROVE  Collected(R)' /\ pushed = <<>>
<1>1. Distinct(items) /\ NamesOf(items) = {}
  BY DEF OnlyJunk, Distinct, NamesOf
<1>2. Once' /\ Coll' = Coll
  <2>1. Once
    BY DEF Collected
  <2> QED BY <1>1, <2>1, ParseAdds
<1>3. UNCHANGED volume /\ wanted' = wanted
  BY DEF ParseFolder
<1>4. \A c \in Cluster : c \in ToRead => c \in ToRead'
  BY ParseReads
<1>5. Collected(R)'
  BY <1>2, <1>3, <1>4, StillCollected
<1>6. pushed = <<>>
  <2>1. pushed \in Seq(FolderType)
    BY DEF ParseDoes
  <2>2. \A k \in 1 .. Len(pushed) : FALSE
    BY ClusterFacts DEF ParseDoes, Pushed, OnlyJunk
  <2> QED BY <2>1, <2>2
<1> QED
  BY <1>5, <1>6

\* Reading one more folder.
LEMMA ParseCollects ==
  ASSUME VolumeAssumption, VolumeTyped, VolumeSound, RecoveryTyped, ParseFolder,
         NEW items, NEW pushed, NEW found, ParseDoes(items, pushed, found),
         NEW R \in SUBSET Folders, Collected(R),
         NEW p \in Folders, p \notin R, Lists(items, p), ~folder.gone => p \in alive \cup {Root},
         folder.cluster = 0 \/ folder.cluster \in visited
  PROVE  Collected(R \cup {p})'
<1> DEFINE Q == R \cup {p}
<1>1. /\ entries' = entries /\ home' = home /\ data' = data /\ fs' = fs /\ fat' = fat
      /\ alive' = alive /\ wanted' = wanted /\ UNCHANGED volume
  BY DEF ParseFolder, volume
<1>2. Once /\ FromRead(R) /\ DirsFollowed(R) /\ FilesFound(R)
  BY DEF Collected
<1>3. \A q \in R : NamesIn(q) \cap NamesIn(p) = {}
  <2>1. EntriesApart
    BY DEF VolumeSound
  <2>2. entries[p] \in Seq(EntryType) /\ \A q \in R : entries[q] \in Seq(EntryType)
    BY DEF VolumeTyped
  <2> SUFFICES ASSUME NEW q \in R, NEW x \in NamesIn(q), x \in NamesIn(p) PROVE FALSE
    OBVIOUS
  <2>3. PICK i \in 1 .. Len(entries[q]) : x = entries[q][i].name
    BY <2>2 DEF NamesIn
  <2>4. PICK j \in 1 .. Len(entries[p]) : x = entries[p][j].name
    BY <2>2 DEF NamesIn
  <2>5. q = p
    BY <2>1, <2>3, <2>4 DEF EntriesApart
  <2> QED BY <2>5
<1>4. NamesOf(items) \subseteq NamesIn(p)
  <2> SUFFICES ASSUME NEW k \in 1 .. Len(items), items[k].name # Root PROVE items[k].name \in NamesIn(p)
    BY DEF NamesOf
  <2>1. PICK j \in 1 .. Len(entries[p]) : items[k] = entries[p][j]
    BY DEF Lists
  <2>2. j \in DOMAIN entries[p]
    <3>1. entries[p] \in Seq(EntryType)
      BY DEF VolumeTyped
    <3> QED BY <3>1
  <2> QED BY <2>1, <2>2 DEF NamesIn
<1>5. NamesOf(items) \cap Coll = {}
  BY <1>2, <1>3, <1>4 DEF FromRead
<1>6. Once' /\ Coll' = Coll \cup NamesOf(found) /\ NamesOf(found) \subseteq NamesOf(items)
  <2>1. Distinct(items)
    BY DEF Lists
  <2> QED BY <1>2, <1>5, <2>1, ParseAdds
<1>7. DirsFollowed(R)'
  <2>1. \A c \in Cluster : c \in ToRead => c \in ToRead'
    BY ParseReads
  <2> QED BY <1>1, <1>2, <2>1, StillFollowed
<1>8. FilesFound(R)'
  BY <1>1, <1>2, <1>6, StillFound
<1>9. \A x \in Coll' : \E q \in Q : x \in NamesIn(q)'
  <2>1. \A q : NamesIn(q)' = NamesIn(q)
    BY <1>1, SameVolumeSays
  <2> QED BY <1>2, <1>4, <1>6, <2>1 DEF FromRead
<1>10. ASSUME NEW d \in Dirs, Intact(d)', Listed(d, p)'
       PROVE  home[d][1] \in ToRead'
  <2>1. Intact(d) /\ Listed(d, p)
    BY <1>1, <1>10, SameVolumeSays
  <2>2. entries[p] \in Seq(EntryType) /\ home[d] \in Seq(Cluster) /\ home[d] # <<>>
    BY <2>1 DEF VolumeTyped, Intact, Names
  <2>3. home[d][1] \in Cluster
    BY <2>2
  <2>4. PICK j \in 1 .. Len(entries[p]) : entries[p][j].name = d /\ Tells(entries[p][j], d)
    BY <2>1, <2>2 DEF Listed
  <2>5. PICK e \in EntryType : e = entries[p][j]
    BY <2>2
  <2>6. StartOf(e, folder.cluster) = home[d][1]
    BY <2>1, <2>3, <2>4, <2>5, FolderFound
  <2>7. PICK i \in 1 .. Len(items) : items[i] = e
    BY <2>5 DEF Lists
  <2>8. CASE home[d][1] \in Unvisited
    <3>1. items[i].name \in Dirs /\ StartOf(items[i], folder.cluster) = home[d][1]
      BY <2>4, <2>5, <2>6, <2>7
    <3>2. PICK k \in 1 .. Len(pushed) : pushed[k].cluster = home[d][1]
      BY <2>8, <3>1 DEF ParseDoes, Pushed
    <3>3. pushed[k].cluster \in ToRead'
      BY ParseReads
    <3> QED BY <3>2, <3>3
  <2>9. CASE home[d][1] \notin Unvisited
    <3>1. home[d][1] \in visited
      BY <2>3, <2>9 DEF Unvisited
    <3>2. visited \subseteq ToRead'
      BY ParseReads
    <3> QED BY <3>1, <3>2
  <2> QED BY <2>8, <2>9
<1>11. ASSUME NEW x \in Files, x \in wanted, x \notin alive, x \in NamesIn(p)
       PROVE  x \in Coll'
  <2>1. entries[p] \in Seq(EntryType)
    BY DEF VolumeTyped
  <2>2. PICK j \in 1 .. Len(entries[p]) : entries[p][j].name = x
    BY <1>11, <2>1 DEF NamesIn
  <2>3. PICK e \in EntryType : e = entries[p][j] /\ SaysOf(p, e)
    BY <2>1 DEF VolumeSound, EntriesSay
  <2>4. PICK i \in 1 .. Len(items) : items[i] = e
    BY <2>3 DEF Lists
  <2>5. e.name = x /\ x \notin Dirs /\ x # Root
    BY <2>2, <2>3, ClusterFacts
  <2>6. e.deleted \/ folder.gone
    BY <1>11, <2>3, <2>5 DEF SaysOf
  <2>7. PICK k \in 1 .. Len(found) : found[k].name = x
    BY <2>4, <2>5, <2>6 DEF ParseDoes, Found
  <2>8. x \in NamesOf(found)
    BY <2>5, <2>7 DEF NamesOf
  <2> QED BY <1>6, <2>8
<1>12. FromRead(Q)'
  BY <1>9 DEF FromRead
<1>13. DirsFollowed(Q)'
  <2>1. home' = home
    BY <1>1
  <2> QED BY <1>7, <1>10, <2>1 DEF DirsFollowed
<1>14. FilesFound(Q)'
  <2>1. NamesIn(p)' = NamesIn(p)
    BY <1>1, SameVolumeSays
  <2> QED BY <1>1, <1>8, <1>11, <2>1 DEF FilesFound
<1> QED
  BY <1>6, <1>12, <1>13, <1>14 DEF Collected

(* ----------------------- The walk over the folders ---------------------- *)

\* The folders read so far, the root counted as one of them.
ReadFolders ==
  ({data[c].of : c \in visited \ ToSet(folder.clusters)} \cup {Root}) \cap Folders

\* Before the root is parsed, nothing is pushed or collected.
RootOpen ==
  /\ stack = <<>> /\ folder.cluster = RootCluster(fs) /\ ~folder.gone
  /\ \/ folder.at = folder.cluster /\ folder.clusters = <<>> /\ visited = {}
     \/ /\ folder.at = NoCluster /\ folder.cluster # 0
        /\ folder.clusters = <<folder.cluster>> /\ visited = {folder.cluster}
Fresh ==
  /\ deleted = <<>> /\ stats = <<>>
  /\ \/ /\ pc = "walk" /\ stack = <<Folder(RootCluster(fs), FALSE)>> /\ visited = {}
        /\ folder = NoFolder
     \/ pc = "folder" /\ RootOpen
\* Afterwards, every folder on the stack or being read is below it.
RootDone == RootCluster(fs) # 0 => RootCluster(fs) \in visited
StackOK == \A k \in 1 .. Len(stack) : OnList(stack[k]) /\ stack[k].clusters = <<>>
FolderOK ==
  IF pc # "folder" THEN folder = NoFolder
  ELSE /\ OnList(folder) /\ ReadAs(folder) /\ ToSet(folder.clusters) \subseteq visited
       /\ IF folder.clusters = <<>> THEN folder.at = folder.cluster
          ELSE folder.at \in Cluster => data[folder.at].of \in Files
Later == RootDone /\ StackOK /\ FolderOK /\ Collected(ReadFolders)
InOrder ==
  /\ pc = "life" => visited = {} /\ folder = NoFolder /\ deleted = <<>> /\ stats = <<>>
  /\ pc # "life" => Fresh \/ Later
  /\ pc = "done" => stack = <<>> /\ deleted = <<>>

\* The steps that handle the files leave the walk over the folders as it is.
LEMMA LaterStays ==
  ASSUME UNCHANGED volume, SameWalk, VolumeTyped, Later, pc' = "folder" <=> pc = "folder",
         Once', Coll' \subseteq Coll, \A x \in wanted : x \in Coll => x \in Coll'
  PROVE  Later'
<1>1. /\ fs' = fs /\ data' = data /\ alive' = alive
      /\ stack' = stack /\ visited' = visited /\ folder' = folder /\ wanted' = wanted
  BY DEF volume, SameWalk
<1>2. RootDone' /\ FolderOK'
  <2>1. RootDone'
    BY <1>1 DEF Later, RootDone, RootCluster
  <2>2. OnList(folder)' = OnList(folder) /\ ReadAs(folder)' = ReadAs(folder)
    BY <1>1 DEF OnList, ReadAs
  <2>3. FolderOK
    BY DEF Later
  <2>4. FolderOK'
    BY <1>1, <2>2, <2>3 DEF FolderOK
  <2> QED BY <2>1, <2>4
<1>3. StackOK'
  <2> SUFFICES ASSUME NEW k \in 1 .. Len(stack) PROVE OnList(stack[k])' /\ stack[k].clusters = <<>>
    BY <1>1 DEF StackOK
  <2>1. OnList(stack[k]) /\ stack[k].clusters = <<>>
    BY DEF Later, StackOK
  <2> QED BY <1>1, <2>1 DEF OnList
<1>4. ToRead' = ToRead
  BY <1>1 DEF ToRead
<1> DEFINE R == ReadFolders
<1>5. R' = R
  BY <1>1 DEF ReadFolders
<1>6. PICK Q : Q = R
  OBVIOUS
<1>7. Collected(Q)'
  <2>1. Collected(Q)
    BY <1>6 DEF Later
  <2> QED BY <1>1, <1>4, <2>1, StillCollected
<1>8. Collected(ReadFolders)'
  <2>1. Q = ReadFolders'
    BY <1>5, <1>6
  <2> HIDE DEF R
  <2> QED BY <1>7, <2>1 DEF Collected, FromRead, DirsFollowed, FilesFound
<1> QED
  BY <1>2, <1>3, <1>8 DEF Later

\* The first folder, and the next one, is opened.
LEMMA OpenInOrder ==
  ASSUME VolumeAssumption, VolumeTyped, RecoveryTyped, InOrder, OpenFolder
  PROVE  InOrder'
<1>1. /\ pc = "walk" /\ pc' = "folder" /\ stack # <<>> /\ stack' = SubSeq(stack, 1, Len(stack) - 1)
      /\ folder' = [stack[Len(stack)] EXCEPT !.at = stack[Len(stack)].cluster]
      /\ UNCHANGED volume /\ visited' = visited /\ deleted' = deleted /\ stats' = stats
      /\ wanted' = wanted
  BY DEF OpenFolder, Front, Last
<1>2. fs' = fs /\ data' = data /\ alive' = alive
  BY <1>1 DEF volume
<1>3. stack \in Seq(FolderType) /\ Len(stack) \in Nat /\ Len(stack) \in 1 .. Len(stack)
  BY <1>1 DEF RecoveryTyped, WalkTyped
<1>4. PICK f \in FolderType : f = stack[Len(stack)]
  BY <1>3
<1>5. /\ folder' = [f EXCEPT !.at = f.cluster] /\ folder'.cluster = f.cluster
      /\ folder'.gone = f.gone /\ folder'.at = f.cluster /\ folder'.clusters = f.clusters
  BY <1>1, <1>4 DEF FolderType
<1>6. CASE Fresh
  <2>1. /\ deleted = <<>> /\ stats = <<>> /\ stack = <<Folder(RootCluster(fs), FALSE)>> /\ visited = {}
    BY <1>1, <1>6 DEF Fresh
  <2>2. PICK g : g = Folder(RootCluster(fs), FALSE)
    OBVIOUS
  <2>3. stack = <<g>> /\ Len(stack) = 1 /\ stack[1] = g
    BY <2>1, <2>2
  <2>4. f = g /\ stack' = <<>>
    <3>1. SubSeq(stack, 1, 0) = <<>>
      BY <1>3
    <3> QED BY <1>1, <1>4, <2>3, <3>1
  <2>5. f.cluster = RootCluster(fs) /\ f.gone = FALSE /\ f.clusters = <<>>
    BY <2>2, <2>4 DEF Folder
  <2>6. RootOpen'
    BY <1>1, <1>2, <1>5, <2>1, <2>4, <2>5 DEF RootOpen, RootCluster
  <2>7. Fresh'
    BY <1>1, <2>1, <2>6 DEF Fresh
  <2> QED BY <1>1, <2>7 DEF InOrder
<1>7. CASE Later
  <2>1. OnList(f) /\ f.clusters = <<>>
    BY <1>3, <1>4, <1>7 DEF Later, StackOK
  <2>2. Len(stack') = Len(stack) - 1 /\ \A k \in 1 .. Len(stack') : k \in 1 .. Len(stack) /\ stack'[k] = stack[k]
    <3>1. PICK n \in Nat : n + 1 = Len(stack)
      <4>1. PICK l \in Nat : l = Len(stack) /\ l \in 1 .. l
        BY <1>3
      <4>2. l - 1 \in Nat /\ l - 1 + 1 = l
        BY <4>1
      <4> QED BY <4>1, <4>2
    <3>2. stack' = SubSeq(stack, 1, n) /\ Len(stack) - 1 = n
      BY <1>1, <3>1
    <3>3. Len(stack') = n /\ \A k \in 1 .. n : stack'[k] = stack[k]
      BY <1>3, <3>1, <3>2
    <3>4. \A k \in 1 .. n : k \in 1 .. Len(stack)
      BY <3>1
    <3> QED BY <3>2, <3>3, <3>4
  <2>3. StackOK'
    <3> SUFFICES ASSUME NEW k \in 1 .. Len(stack') PROVE OnList(stack[k])' /\ stack'[k].clusters = <<>>
      BY DEF StackOK
    <3>1. PICK g : g = stack[k] /\ g = stack'[k] /\ OnList(g) /\ g.clusters = <<>>
      BY <1>7, <2>2 DEF Later, StackOK
    <3>2. OnList(stack'[k]) /\ stack'[k].clusters = <<>>
      BY <3>1
    <3> QED BY <1>2, <3>2 DEF OnList
  <2>4. RootDone'
    BY <1>1, <1>2, <1>7 DEF Later, RootDone, RootCluster
  <2>5. FolderOK'
    <3>1. ReadAs(folder)' /\ ToSet(folder'.clusters) = {}
      <4>1. folder'.clusters = <<>> /\ <<>> \in Seq(Cluster)
        BY <1>5, <2>1
      <4>2. ToSet(<<>>) = {}
        BY DEF ToSet
      <4> QED BY <4>1, <4>2 DEF ReadAs
    <3>2. OnList(folder)'
      BY <1>2, <1>5, <2>1 DEF OnList
    <3> QED BY <1>1, <1>5, <2>1, <3>1, <3>2 DEF FolderOK
  <2>6. \A c \in Cluster : c \in ToRead => c \in ToRead'
    <3> SUFFICES ASSUME NEW k \in 1 .. Len(stack) PROVE stack[k].cluster \in ToRead'
      BY <1>1 DEF ToRead
    <3>1. CASE k = Len(stack)
      BY <1>1, <1>4, <1>5, <3>1 DEF ToRead
    <3>2. CASE k # Len(stack)
      <4>1. k \in 1 .. Len(stack') /\ stack'[k] = stack[k]
        BY <1>1, <1>3, <2>2, <3>2
      <4>2. stack'[k].cluster = stack[k].cluster
        BY <4>1
      <4> QED BY <4>1, <4>2 DEF ToRead
    <3> QED BY <3>1, <3>2
  <2>7. Held = {} /\ Held' = {}
    BY <1>1 DEF Held
  <2>8. Coll' = Coll /\ (Once => Once')
    BY <1>1, <2>7 DEF Coll, Once
  <2>9. PICK Q : Q = ReadFolders
    OBVIOUS
  <2>10. Collected(Q)'
    <3>1. Collected(Q)
      BY <1>7, <2>9 DEF Later
    <3>2. Once'
      BY <2>8, <3>1 DEF Collected
    <3> QED BY <1>1, <2>6, <2>8, <3>1, <3>2, StillCollected
  <2>11. Q = ReadFolders'
    <3>1. folder = NoFolder
      BY <1>1, <1>7 DEF Later, FolderOK
    <3>2. folder.clusters = <<>> /\ folder'.clusters = <<>>
      BY <1>5, <2>1, <3>1 DEF NoFolder, Folder
    <3> QED BY <1>1, <1>2, <2>9, <3>2 DEF ReadFolders
  <2>12. Collected(ReadFolders)'
    BY <2>10, <2>11 DEF Collected, FromRead, DirsFollowed, FilesFound
  <2> QED BY <1>1, <2>3, <2>4, <2>5, <2>12 DEF Later, InOrder
<1> QED
  BY <1>1, <1>6, <1>7 DEF InOrder

\* A folder's chain goes on into a file's clusters only.
LEMMA NextHoldsFile ==
  ASSUME VolumeAssumption, VolumeTyped, VolumeSound, NEW c \in Cluster, fs = "exfat" => c # RootAt,
         NextOfFolder(c) \in Cluster
  PROVE  data[NextOfFolder(c)].of \in Files
<1>1. fs # "exfat" /\ fat[c] \in Cluster /\ NextOfFolder(c) = fat[c]
  BY ClusterFacts DEF NextOfFolder, NextCluster
<1>2. PICK x \in Files \cap alive : \E k \in 1 .. Len(home[x]) :
        k + 1 \in 1 .. Len(home[x]) /\ home[x][k] = c /\ home[x][k + 1] = fat[c]
  BY <1>1 DEF VolumeSound, ChainsOfFiles
<1>3. PICK k \in 1 .. Len(home[x]) : home[x][k] = fat[c]
  BY <1>2
<1>4. data[fat[c]].of = x
  BY <1>3 DEF VolumeSound, AliveInPlace
<1> QED
  BY <1>1, <1>4

\* One more cluster of the folder that is being read.
LEMMA ReadInOrder ==
  ASSUME VolumeAssumption, VolumeTyped, VolumeSound, RecoveryTyped, InOrder, ReadFolderCluster
  PROVE  InOrder'
<1> DEFINE c == folder.at
<1>1. /\ pc = "folder" /\ pc' = "folder" /\ c \in Cluster /\ c \notin visited
      /\ visited' = visited \cup {c}
      /\ folder' = [folder EXCEPT !.clusters = Append(@, c), !.at = NextOfFolder(c)]
      /\ UNCHANGED volume /\ stack' = stack /\ deleted' = deleted /\ stats' = stats
      /\ wanted' = wanted
  BY DEF ReadFolderCluster, Unvisited
<1>2. fs' = fs /\ data' = data /\ alive' = alive
  BY <1>1 DEF volume
<1>3. folder \in FolderType /\ folder.clusters \in Seq(Cluster)
  BY DEF RecoveryTyped, WalkTyped, FolderType
<1> HIDE DEF c
<1>4. /\ folder'.cluster = folder.cluster /\ folder'.gone = folder.gone
      /\ folder'.at = NextOfFolder(c) /\ folder'.clusters = Append(folder.clusters, c)
  BY <1>1, <1>3 DEF FolderType
<1>5. CASE Fresh
  <2>1. /\ deleted = <<>> /\ stats = <<>> /\ stack = <<>> /\ folder.cluster = RootCluster(fs)
        /\ ~folder.gone /\ folder.at = folder.cluster /\ folder.clusters = <<>> /\ visited = {}
    BY <1>1, <1>5, ClusterFacts DEF Fresh, RootOpen, c
  <2>2. c = RootCluster(fs) /\ c # 0
    BY <1>1, <2>1, ClusterFacts DEF c
  <2>3. NextOfFolder(c) = NoCluster
    <3>1. fat[c] = Eoc /\ c = RootAt
      BY <2>2 DEF VolumeSound, RootHeld, RootCluster
    <3>2. fat[c] \notin Cluster
      BY <3>1, ClusterFacts
    <3> QED BY <3>1, <3>2 DEF NextOfFolder, NextCluster
  <2>4. Append(<<>>, c) = <<c>>
    OBVIOUS
  <2>5. RootOpen'
    BY <1>1, <1>2, <1>4, <2>1, <2>2, <2>3, <2>4 DEF RootOpen, RootCluster
  <2>6. Fresh'
    BY <1>1, <2>1, <2>5 DEF Fresh
  <2> QED BY <1>1, <2>6 DEF InOrder
<1>6. CASE Later
  <2>1. /\ OnList(folder) /\ ReadAs(folder) /\ ToSet(folder.clusters) \subseteq visited
        /\ IF folder.clusters = <<>> THEN c = folder.cluster ELSE data[c].of \in Files
    BY <1>1, <1>6 DEF Later, FolderOK, c
  <2> DEFINE old == folder.clusters
             new == Append(old, c)
  <2>2. /\ new \in Seq(Cluster) /\ Len(new) = Len(old) + 1 /\ Len(old) \in Nat
        /\ new[Len(old) + 1] = c /\ \A k \in 1 .. Len(old) : new[k] = old[k]
    BY <1>1, <1>3
  <2>3. ToSet(new) = ToSet(old) \cup {c}
    BY <1>1, <1>3, OneMoreRead
  <2>4. old = <<>> <=> Len(old) = 0
    BY <1>3
  <2> HIDE DEF old, new
  <2>5. new # <<>>
    BY <2>2
  <2>6. new[1] = folder.cluster
    <3>1. CASE old = <<>>
      <4>1. Len(old) + 1 = 1
        BY <2>4, <3>1
      <4> QED BY <2>1, <2>2, <3>1, <4>1 DEF old
    <3>2. CASE old # <<>>
      <4>1. 1 \in 1 .. Len(old)
        BY <2>2, <2>4, <3>2
      <4>2. old[1] = folder.cluster
        BY <2>1, <3>2 DEF ReadAs, old
      <4> QED BY <2>2, <4>1, <4>2
    <3> QED BY <3>1, <3>2
  <2>7. \A k \in 2 .. Len(new) : data[new[k]].of \in Files
    <3> SUFFICES ASSUME NEW k \in 2 .. Len(new) PROVE data[new[k]].of \in Files
      OBVIOUS
    <3>1. CASE k = Len(old) + 1
      <4>1. old # <<>>
        BY <2>2, <2>4, <3>1
      <4>2. data[c].of \in Files
        BY <2>1, <4>1 DEF old
      <4> QED BY <2>2, <3>1, <4>2
    <3>2. CASE k # Len(old) + 1
      <4>1. k \in 2 .. Len(old) /\ k \in 1 .. Len(old) /\ old # <<>>
        BY <2>2, <2>4, <3>2
      <4>2. data[old[k]].of \in Files
        BY <2>1, <4>1 DEF ReadAs, old
      <4> QED BY <2>2, <4>1, <4>2
    <3> QED BY <3>1, <3>2
  <2>8. folder'.clusters = new /\ data' = data
    BY <1>2, <1>4 DEF new, old
  <2>9. ReadAs(folder)'
    BY <1>4, <2>2, <2>6, <2>7, <2>8 DEF ReadAs
  <2>10. OnList(folder)'
    BY <1>2, <1>4, <2>1 DEF OnList
  <2>11. folder'.at \in Cluster => data'[folder'.at].of \in Files
    <3>1. fs = "exfat" => c # RootAt
      <4>1. fs = "exfat" => RootCluster(fs) = RootAt /\ RootAt # 0
        BY ClusterFacts DEF RootCluster, VolumeAssumption
      <4> QED BY <1>1, <1>6, <4>1 DEF Later, RootDone
    <3> QED BY <1>1, <1>2, <1>4, <3>1, NextHoldsFile
  <2>12. FolderOK'
    <3>1. ToSet(folder.clusters)' \subseteq visited'
      BY <1>1, <2>1, <2>3, <2>8 DEF old
    <3> QED BY <1>1, <2>5, <2>8, <2>9, <2>10, <2>11, <3>1 DEF FolderOK
  <2>13. StackOK'
    <3> SUFFICES ASSUME NEW k \in 1 .. Len(stack) PROVE OnList(stack[k])' /\ stack[k].clusters = <<>>
      BY <1>1 DEF StackOK
    <3>1. OnList(stack[k]) /\ stack[k].clusters = <<>>
      BY <1>6 DEF Later, StackOK
    <3> QED BY <1>1, <1>2, <3>1 DEF OnList
  <2>14. RootDone'
    BY <1>1, <1>2, <1>6 DEF Later, RootDone, RootCluster
  <2>15. \A x \in Cluster : x \in ToRead => x \in ToRead'
    BY <1>1, <1>4 DEF ToRead
  <2>16. Held = {} /\ Held' = {}
    BY <1>1 DEF Held
  <2>17. Coll' = Coll /\ (Once => Once')
    BY <1>1, <2>16 DEF Coll, Once
  <2>18. PICK Q : Q = ReadFolders
    OBVIOUS
  <2>19. Collected(Q)'
    <3>1. Collected(Q)
      BY <1>6, <2>18 DEF Later
    <3>2. Once'
      BY <2>17, <3>1 DEF Collected
    <3> QED BY <1>1, <2>15, <2>17, <3>1, <3>2, StillCollected
  <2>20. Q = ReadFolders'
    <3>1. visited' \ ToSet(folder'.clusters) = visited \ ToSet(folder.clusters)
      BY <1>1, <2>3, <2>8 DEF old
    <3> QED BY <1>2, <2>18, <3>1 DEF ReadFolders
  <2>21. Collected(ReadFolders)'
    BY <2>19, <2>20 DEF Collected, FromRead, DirsFollowed, FilesFound
  <2> QED BY <1>1, <2>12, <2>13, <2>14, <2>21 DEF Later, InOrder
<1> QED
  BY <1>1, <1>5, <1>6 DEF InOrder

\* The entries of the folder that was read.
LEMMA ParseInOrder ==
  ASSUME VolumeAssumption, VolumeTyped, VolumeSound, RecoveryTyped, InOrder, ParseFolder
  PROVE  InOrder'
<1>1. /\ pc = "folder" /\ pc' = "walk" /\ folder.at \notin Unvisited
      /\ UNCHANGED volume /\ visited' = visited /\ folder' = NoFolder /\ stats' = stats
      /\ wanted' = wanted
  BY DEF ParseFolder
<1>2. fs' = fs /\ data' = data /\ alive' = alive
  BY <1>1 DEF volume
<1>3. /\ folder \in FolderType /\ folder.cluster \in Cluster \cup {0} /\ folder.at \in Cluster \cup {0}
      /\ stack \in Seq(FolderType) /\ visited \in SUBSET Cluster
  BY DEF RecoveryTyped, WalkTyped, FolderType
<1>4. PICK items, pushed, found : ParseDoes(items, pushed, found)
  BY <1>3, ParseEffect
<1>5. folder'.clusters = <<>> /\ ToSet(<<>>) = {}
  BY <1>1 DEF NoFolder, Folder, ToSet
<1>6. ReadFolders' = ({data[c].of : c \in visited} \cup {Root}) \cap Folders
  BY <1>1, <1>2, <1>5 DEF ReadFolders
<1>7. PICK Q : Q = ({data[c].of : c \in visited} \cup {Root}) \cap Folders
  OBVIOUS
<1>8. /\ Collected(Q)' /\ RootDone
      /\ \A k \in 1 .. Len(stack) : OnList(stack[k]) /\ stack[k].clusters = <<>>
      /\ \A k \in 1 .. Len(pushed) : OnList(pushed[k]) /\ pushed[k].clusters = <<>>
  <2>1. CASE Fresh
    <3>1. /\ folder.cluster = RootCluster(fs) /\ ~folder.gone /\ deleted = <<>> /\ stats = <<>>
          /\ stack = <<>>
          /\ \/ folder.at = folder.cluster /\ folder.clusters = <<>> /\ visited = {}
             \/ folder.cluster # 0 /\ folder.clusters = <<folder.cluster>> /\ visited = {folder.cluster}
      BY <1>1, <2>1 DEF Fresh, RootOpen
    <3>2. folder.cluster # 0 => folder.clusters = <<folder.cluster>> /\ visited = {folder.cluster}
      BY <1>1, <1>3, <3>1 DEF Unvisited
    <3>3. items = FolderItems(folder)
      BY <1>4 DEF ParseDoes
    <3>4. Lists(items, Root)
      BY <3>1, <3>2, <3>3, RootListed
    <3>5. Collected({})
      <4>1. Held = {}
        BY <1>1 DEF Held
      <4>2. Coll = {} /\ Once
        BY <3>1, <4>1 DEF Coll, Once, NamesOf, Distinct
      <4> QED BY <4>2 DEF Collected, FromRead, DirsFollowed, FilesFound
    <3>6. Collected({} \cup {Root})'
      <4>1. folder.cluster = 0 \/ folder.cluster \in visited
        BY <3>2
      <4>2. Root \in Folders /\ {} \in SUBSET Folders /\ Root \notin {}
        BY DEF Folders
      <4> QED BY <1>4, <3>4, <3>5, <4>1, <4>2, ParseCollects
    <3>7. Q = {Root}
      <4>1. folder.cluster # 0 => data[folder.cluster].of = Root
        BY <3>1 DEF VolumeSound, RootHeld
      <4>2. folder.cluster = 0 => visited = {}
        BY <3>1
      <4>3. {data[c].of : c \in visited} \subseteq {Root}
        BY <3>2, <4>1, <4>2
      <4> QED BY <1>7, <4>3 DEF Folders
    <3>8. Collected(Q)'
      <4>1. {} \cup {Root} = Q
        BY <3>7
      <4> QED BY <3>6, <4>1
    <3>9. \A k \in 1 .. Len(pushed) : OnList(pushed[k]) /\ pushed[k].clusters = <<>>
      BY <1>4, <3>4, PushedOnList DEF Folders
    <3>10. RootDone
      BY <3>1, <3>2 DEF RootDone
    <3> QED BY <3>1, <3>8, <3>9, <3>10
  <2>2. CASE Later
    <3>1. /\ OnList(folder) /\ ReadAs(folder) /\ ToSet(folder.clusters) \subseteq visited
          /\ (folder.clusters = <<>> => folder.at = folder.cluster)
          /\ RootDone /\ StackOK /\ Collected(ReadFolders)
      BY <1>1, <2>2 DEF Later, FolderOK
    <3>2. PICK p \in Names \cup {Root} : p = data[folder.cluster].of /\ folder.cluster \in Cluster
      BY <3>1 DEF OnList, VolumeTyped
    <3>3. \A k \in 1 .. Len(folder.clusters) : folder.clusters[k] \in ToSet(folder.clusters)
      <4>1. DOMAIN folder.clusters = 1 .. Len(folder.clusters)
        BY <3>1 DEF ReadAs
      <4> QED BY <4>1 DEF ToSet
    <3>4. folder.cluster \in visited /\ (folder.clusters # <<>> => folder.cluster \in ToSet(folder.clusters))
      <4>1. CASE folder.clusters = <<>>
        BY <1>1, <3>1, <3>2, <4>1 DEF Unvisited
      <4>2. CASE folder.clusters # <<>>
        <5>1. 1 \in 1 .. Len(folder.clusters) /\ folder.clusters[1] = folder.cluster
          BY <3>1, <4>2 DEF ReadAs
        <5> QED BY <3>1, <3>3, <5>1
      <4> QED BY <4>1, <4>2
    <3>5. IF folder.clusters # <<>> /\ p \in Dirs THEN Lists(items, p) ELSE OnlyJunk(items)
      <4>1. items = FolderItems(folder)
        BY <1>4 DEF ParseDoes
      <4> QED BY <3>1, <3>2, <4>1, FolderListed
    <3>6. PICK R : R = ReadFolders
      OBVIOUS
    <3>7. Collected(R) /\ R \in SUBSET Folders
      BY <3>1, <3>6 DEF ReadFolders
    <3>8. \A k \in 2 .. Len(folder.clusters) : data[folder.clusters[k]].of \notin Folders
      BY <3>1, ClusterFacts DEF ReadAs, Folders
    <3>9. \A c \in ToSet(folder.clusters) : c = folder.cluster \/ data[c].of \notin Folders
      <4> SUFFICES ASSUME NEW c \in ToSet(folder.clusters)
                   PROVE  c = folder.cluster \/ data[c].of \notin Folders
        OBVIOUS
      <4>1. PICK k \in 1 .. Len(folder.clusters) : c = folder.clusters[k]
        <5>1. DOMAIN folder.clusters = 1 .. Len(folder.clusters)
          BY <3>1 DEF ReadAs
        <5> QED BY <5>1 DEF ToSet
      <4>2. k = 1 => c = folder.cluster
        <5>1. folder.clusters # <<>>
          BY <4>1
        <5> QED BY <3>1, <4>1, <5>1 DEF ReadAs
      <4>3. k # 1 => k \in 2 .. Len(folder.clusters)
        OBVIOUS
      <4> QED BY <3>8, <4>1, <4>2, <4>3
    <3>10. CASE folder.clusters # <<>> /\ p \in Dirs
      <4>1. Lists(items, p) /\ p \in Folders
        BY <3>5, <3>10 DEF Folders
      <4>2. p \notin R
        <5> SUFFICES ASSUME p \in R PROVE FALSE
          OBVIOUS
        <5>1. p # Root
          BY <3>10, ClusterFacts
        <5>2. PICK c \in visited \ ToSet(folder.clusters) : data[c].of = p
          BY <3>6, <5>1 DEF ReadFolders
        <5>3. home[p] = <<c>> /\ home[p] = <<folder.cluster>>
          BY <1>3, <3>2, <3>10, <5>2 DEF VolumeSound, OneHome
        <5>4. c = folder.cluster
          BY <5>3
        <5> QED BY <3>4, <3>10, <5>2, <5>4
      <4>3. ~folder.gone => p \in alive \cup {Root}
        BY <3>1, <3>2 DEF OnList
      <4>4. Collected(R \cup {p})'
        BY <1>4, <3>4, <3>7, <4>1, <4>2, <4>3, ParseCollects
      <4>5. Q = R \cup {p}
        <5>1. \A x \in Q : x \in R \cup {p}
          BY <1>7, <3>2, <3>6, <3>9 DEF ReadFolders
        <5>2. \A x \in R \cup {p} : x \in Q
          BY <1>7, <3>2, <3>4, <3>6, <4>1 DEF ReadFolders
        <5> QED BY <5>1, <5>2
      <4>6. \A k \in 1 .. Len(pushed) : OnList(pushed[k]) /\ pushed[k].clusters = <<>>
        BY <1>4, <4>1, <4>3, PushedOnList
      <4>7. Collected(Q)'
        BY <4>4, <4>5
      <4> QED BY <3>1, <4>6, <4>7 DEF StackOK
    <3>11. CASE ~ (folder.clusters # <<>> /\ p \in Dirs)
      <4>1. OnlyJunk(items)
        BY <3>5, <3>11
      <4>2. Collected(R)' /\ pushed = <<>>
        BY <1>4, <3>4, <3>7, <4>1, ParseJunk
      <4>3. Q = R
        <5>1. \A x \in Q : x \in R
          <6> SUFFICES ASSUME NEW x \in Q PROVE x \in R
            OBVIOUS
          <6>1. x \in Folders /\ (x = Root \/ \E c \in visited : x = data[c].of)
            BY <1>7
          <6>2. CASE x = Root
            BY <3>6, <6>1, <6>2 DEF ReadFolders
          <6>3. ASSUME NEW c \in visited, x = data[c].of, x # Root PROVE x \in R
            <7>1. CASE c \notin ToSet(folder.clusters)
              BY <3>6, <6>1, <6>3, <7>1 DEF ReadFolders
            <7>2. CASE c \in ToSet(folder.clusters)
              <8>1. c = folder.cluster
                BY <3>9, <6>1, <6>3, <7>2
              <8>2. folder.clusters # <<>>
                BY <1>5, <7>2
              <8>3. p \in Dirs
                BY <3>2, <6>1, <6>3, <8>1 DEF Folders
              <8> QED BY <3>11, <8>2, <8>3
            <7> QED BY <7>1, <7>2
          <6> QED BY <6>1, <6>2, <6>3
        <5>2. \A x \in R : x \in Q
          BY <1>7, <3>6 DEF ReadFolders
        <5> QED BY <5>1, <5>2
      <4>4. Collected(Q)'
        BY <4>2, <4>3
      <4>5. \A k \in 1 .. Len(pushed) : FALSE
        BY <4>2
      <4> QED BY <3>1, <4>4, <4>5 DEF StackOK
    <3> QED BY <3>10, <3>11
  <2> QED BY <1>1, <2>1, <2>2 DEF InOrder
<1>9. stack' = stack \o pushed /\ pushed \in Seq(FolderType)
  BY <1>4 DEF ParseDoes
<1>10. StackOK'
  <2> SUFFICES ASSUME NEW k \in 1 .. Len(stack') PROVE OnList(stack[k])' /\ stack'[k].clusters = <<>>
    BY DEF StackOK
  <2>1. /\ \A i \in 1 .. Len(stack) : stack'[i] = stack[i]
        /\ \A i \in 1 .. Len(pushed) : stack'[Len(stack) + i] = pushed[i]
        /\ k \in 1 .. Len(stack) \/ \E i \in 1 .. Len(pushed) : k = Len(stack) + i
    BY <1>3, <1>9, ConcatFacts
  <2>2. OnList(stack'[k]) /\ stack'[k].clusters = <<>>
    <3>1. CASE k \in 1 .. Len(stack)
      BY <1>8, <2>1, <3>1
    <3>2. ASSUME NEW i \in 1 .. Len(pushed), k = Len(stack) + i
          PROVE  OnList(stack'[k]) /\ stack'[k].clusters = <<>>
      <4>1. stack'[k] = pushed[i]
        BY <2>1, <3>2
      <4> QED BY <1>8, <4>1
    <3> QED BY <2>1, <3>1, <3>2
  <2> QED BY <1>2, <2>2 DEF OnList
<1>11. RootDone' /\ FolderOK'
  BY <1>1, <1>2, <1>8 DEF RootDone, RootCluster, FolderOK
<1>12. Collected(ReadFolders)'
  <2>1. Q = ReadFolders'
    BY <1>6, <1>7
  <2> QED BY <1>8, <2>1 DEF Collected, FromRead, DirsFollowed, FilesFound
<1> QED
  BY <1>1, <1>10, <1>11, <1>12 DEF Later, InOrder

\* A file goes into the report with the name of its entry.
LEMMA RecordNames ==
  ASSUME stats \in Seq(StatType), NEW e, NEW recovered, NEW out
  PROVE  /\ NamesOf(Record(e, recovered, out)) = NamesOf(stats) \cup ({e.name} \ {Root})
         /\ Distinct(stats) /\ e.name \notin NamesOf(stats) => Distinct(Record(e, recovered, out))
<1> DEFINE r == [name |-> e.name, recovered |-> recovered, out |-> out, size |-> e.size]
<1>1. r.name = e.name /\ Record(e, recovered, out) = Append(stats, r)
  BY DEF Record
<1> HIDE DEF r
<1>2. /\ NamesOf(Append(stats, r)) = NamesOf(stats) \cup ({r.name} \ {Root})
      /\ Distinct(stats) /\ r.name \notin NamesOf(stats) => Distinct(Append(stats, r))
  BY NamesAppend
<1> QED
  BY <1>1, <1>2

\* The next file leaves the list: it is dropped, reported or opened.
LEMMA NextFileOnce ==
  ASSUME RecoveryTyped, Once, NextFile
  PROVE  Once' /\ Coll' \subseteq Coll /\ \A x \in wanted : x \in Coll => x \in Coll'
<1> DEFINE e == Head(deleted)
           N == {e.name} \ {Root}
<1>1. /\ deleted \in Seq(EntryType) /\ stats \in Seq(StatType) /\ wanted \in SUBSET Files
  BY DEF RecoveryTyped, WalkTyped, FilesTyped
<1>2. pc = "walk" /\ deleted # <<>> /\ deleted' = Tail(deleted)
  BY DEF NextFile
<1>3. /\ NamesOf(deleted) = NamesOf(deleted') \cup N
      /\ Distinct(deleted') /\ e.name \notin NamesOf(deleted')
  <2>1. Distinct(deleted)
    BY DEF Once
  <2> QED BY <1>1, <1>2, <2>1, NamesHead
<1>4. Held = {} /\ Distinct(stats) /\ NamesOf(stats) \cap NamesOf(deleted) = {}
  BY <1>2 DEF Held, Once
<1>5. e.name \notin NamesOf(stats)
  BY <1>3, <1>4 DEF NamesOf
<1> HIDE DEF e, N
<1>6. CASE e.name \notin wanted \cup {Root} /\ UNCHANGED <<pc, w, stats>>
  <2>1. Held' = {} /\ stats' = stats
    BY <1>2, <1>6 DEF Held
  <2>2. Once'
    BY <1>3, <1>4, <2>1 DEF Once
  <2>3. Coll' \subseteq Coll
    BY <1>3, <2>1 DEF Coll
  <2>4. ASSUME NEW x \in wanted, x \in Coll PROVE x \in Coll'
    <3>1. x \notin N
      BY <1>6, <2>4 DEF N
    <3> QED BY <1>3, <1>4, <2>1, <2>4, <3>1 DEF Coll
  <2> QED BY <2>2, <2>3, <2>4
<1>7. CASE \E recovered \in BOOLEAN : stats' = Record(e, recovered, <<>>) /\ UNCHANGED <<pc, w>>
  <2>1. NamesOf(stats') = NamesOf(stats) \cup N /\ Distinct(stats')
    BY <1>1, <1>4, <1>5, <1>7, RecordNames DEF N
  <2>2. Held' = {}
    BY <1>2, <1>7 DEF Held
  <2>3. Once'
    <3>1. NamesOf(stats') \cap NamesOf(deleted') = {}
      BY <1>3, <1>4, <2>1 DEF N
    <3> QED BY <1>3, <2>1, <2>2, <3>1 DEF Once
  <2>4. Coll' = Coll
    BY <1>3, <1>4, <2>1, <2>2 DEF Coll
  <2> QED BY <2>3, <2>4
<1>8. CASE pc' = "copy" /\ (\E how : w' = Writer(e, how)) /\ UNCHANGED stats
  <2>1. Held' = N
    <3>1. w'.e = e
      BY <1>8 DEF Writer
    <3> QED BY <1>8, <3>1 DEF Held, N
  <2>2. Once'
    <3>1. N \cap NamesOf(stats) = {} /\ N \cap NamesOf(deleted') = {}
      BY <1>3, <1>5 DEF N
    <3>2. stats' = stats
      BY <1>8
    <3> QED BY <1>3, <1>4, <2>1, <3>1, <3>2 DEF Once
  <2>3. Coll' = Coll
    BY <1>3, <1>4, <1>8, <2>1 DEF Coll
  <2> QED BY <2>2, <2>3
<1>9. \/ e.name \notin wanted \cup {Root} /\ UNCHANGED <<pc, w, stats>>
      \/ \E recovered \in BOOLEAN : stats' = Record(e, recovered, <<>>) /\ UNCHANGED <<pc, w>>
      \/ pc' = "copy" /\ (\E how : w' = Writer(e, how)) /\ UNCHANGED stats
  BY DEF NextFile, e
<1> QED
  BY <1>6, <1>7, <1>8, <1>9

\* The file that was reassembled, or could not be written, is reported.
LEMMA FinishOnce ==
  ASSUME RecoveryTyped, Once, Finish \/ WriteFails
  PROVE  Once' /\ Coll' = Coll
<1> DEFINE N == {w.e.name} \ {Root}
<1>1. stats \in Seq(StatType)
  BY DEF RecoveryTyped, FilesTyped
<1>2. pc = "copy" /\ pc' = "walk" /\ deleted' = deleted
  BY DEF Finish, WriteFails
<1>3. PICK recovered, out : stats' = Record(w.e, recovered, out)
  BY DEF Finish, WriteFails
<1>4. Held = N /\ Held' = {}
  BY <1>2 DEF Held
<1>5. /\ Distinct(stats) /\ Distinct(deleted) /\ NamesOf(stats) \cap NamesOf(deleted) = {}
      /\ N \cap NamesOf(stats) = {} /\ N \cap NamesOf(deleted) = {}
  BY <1>4 DEF Once
<1>6. w.e.name \notin NamesOf(stats)
  BY <1>5 DEF NamesOf
<1>7. NamesOf(stats') = NamesOf(stats) \cup N /\ Distinct(stats')
  BY <1>1, <1>3, <1>5, <1>6, RecordNames
<1> HIDE DEF N
<1>8. Once'
  BY <1>2, <1>4, <1>5, <1>7 DEF Once
<1>9. Coll' = Coll
  BY <1>2, <1>4, <1>7 DEF Coll
<1> QED
  BY <1>8, <1>9

\* Before the recovery the walk has not begun.
LEMMA InOrderInitially == Init => InOrder
BY DEF Init, InOrder

\* Every step keeps the walk and its collection in order.
LEMMA InOrderStays ==
  VolumeAssumption /\ UndeleteAssumption /\ Typed /\ InOrder /\ [Next]_vars => InOrder'
<1> SUFFICES ASSUME VolumeAssumption, UndeleteAssumption, Typed, InOrder, [Next]_vars
             PROVE  InOrder'
  OBVIOUS
<1>1. VolumeTyped /\ VolumeSound /\ RecoveryTyped
  BY DEF Typed
<1>2. CASE pc = "life" /\ Live /\ UNCHANGED recovery
  <2>1. /\ pc' = pc /\ visited' = visited /\ folder' = folder /\ deleted' = deleted /\ stats' = stats
    BY <1>2 DEF recovery
  <2> QED BY <1>2, <2>1 DEF InOrder
<1>3. CASE Recover
  <2>1. /\ pc = "life" /\ pc' = "walk" /\ stack' = <<Folder(RootCluster(fs), FALSE)>>
        /\ visited' = visited /\ folder' = folder /\ deleted' = deleted /\ stats' = stats /\ fs' = fs
    BY <1>3 DEF Recover, volume
  <2>2. visited = {} /\ folder = NoFolder /\ deleted = <<>> /\ stats = <<>>
    BY <2>1 DEF InOrder
  <2>3. Fresh'
    BY <2>1, <2>2 DEF Fresh, RootCluster, Folder, NoFolder
  <2> QED BY <2>1, <2>3 DEF InOrder
<1>4. CASE OpenFolder
  BY <1>1, <1>4, OpenInOrder
<1>5. CASE ReadFolderCluster
  BY <1>1, <1>5, ReadInOrder
<1>6. CASE ParseFolder
  BY <1>1, <1>6, ParseInOrder
\* The rest begins when the folders are read, and leaves them alone.
<1>7. ASSUME UNCHANGED volume, SameWalk, Later, pc \in {"walk", "copy"}, pc' \in {"walk", "copy", "done"},
             Once', Coll' \subseteq Coll, \A x \in wanted : x \in Coll => x \in Coll',
             pc' = "done" => stack' = <<>> /\ deleted' = <<>>
      PROVE  InOrder'
  <2>1. Later'
    BY <1>1, <1>7, LaterStays
  <2> QED BY <1>7, <2>1 DEF InOrder
<1>8. CASE NextFile
  <2>1. /\ pc = "walk" /\ deleted # <<>> /\ pc' \in {"walk", "copy"}
    BY <1>8 DEF NextFile
  <2>2. Later /\ Once
    BY <2>1 DEF InOrder, Fresh, Later, Collected
  <2>3. SameWalk /\ UNCHANGED volume
    BY <1>8 DEF NextFile, SameWalk
  <2>4. Once' /\ Coll' \subseteq Coll /\ \A x \in wanted : x \in Coll => x \in Coll'
    BY <1>1, <1>8, <2>2, NextFileOnce
  <2> QED BY <1>7, <2>1, <2>2, <2>3, <2>4
<1>9. CASE Finished
  <2>1. /\ pc = "walk" /\ stack = <<>> /\ deleted = <<>> /\ pc' = "done"
        /\ stack' = stack /\ deleted' = deleted /\ stats' = stats /\ w' = w
    BY <1>9 DEF Finished
  <2>2. Later /\ Once
    BY <2>1 DEF InOrder, Fresh, Later, Collected
  <2>3. SameWalk /\ UNCHANGED volume
    BY <1>9 DEF Finished, SameWalk
  <2>4. Held = {} /\ Held' = {}
    BY <2>1 DEF Held
  <2>5. Once' /\ Coll' = Coll
    BY <2>1, <2>2, <2>4 DEF Once, Coll
  <2> QED BY <1>7, <2>1, <2>2, <2>3, <2>5
<1>10. CASE WriteFile \/ CopySkippingAllocated \/ CopyContiguous \/ CopyChain \/ RewindChain
  <2>1. /\ w'.e = w.e /\ SameWalk /\ pc = "copy" /\ pc' = "copy" /\ deleted' = deleted /\ stats' = stats
    BY <1>1, <1>10, CopyStepTyped
  <2>2. Later /\ Once
    BY <2>1 DEF InOrder, Fresh, Later, Collected
  <2>3. UNCHANGED volume
    BY <1>10, StepKeepsVolume DEF Step
  <2>4. Held' = Held
    BY <2>1 DEF Held
  <2>5. Once' /\ Coll' = Coll
    BY <2>1, <2>2, <2>4 DEF Once, Coll
  <2> QED BY <1>7, <2>1, <2>2, <2>3, <2>5
<1>11. CASE Finish \/ WriteFails
  <2>1. pc = "copy" /\ pc' = "walk" /\ SameWalk /\ UNCHANGED volume
    BY <1>11 DEF Finish, WriteFails, SameWalk
  <2>2. Later /\ Once
    BY <2>1 DEF InOrder, Fresh, Later, Collected
  <2>3. Once' /\ Coll' = Coll
    BY <1>1, <1>11, <2>2, FinishOnce
  <2> QED BY <1>7, <2>1, <2>2, <2>3
<1>12. CASE UNCHANGED vars
  <2>1. UNCHANGED volume /\ UNCHANGED recovery
    BY <1>12 DEF vars
  <2>2. /\ pc' = pc /\ visited' = visited /\ folder' = folder /\ deleted' = deleted /\ stats' = stats
        /\ stack' = stack /\ wanted' = wanted /\ w' = w /\ fs' = fs /\ dry_run' = dry_run
        /\ has_map' = has_map
    BY <2>1 DEF recovery, volume
  <2>3. CASE pc = "life"
    BY <2>2, <2>3 DEF InOrder
  <2>4. CASE pc # "life" /\ Fresh
    <3>1. Fresh'
      BY <2>2, <2>4 DEF Fresh, RootOpen, RootCluster
    <3> QED BY <2>2, <2>4, <3>1 DEF InOrder
  <2>5. CASE pc # "life" /\ Later
    <3>1. Coll' = Coll /\ Once' = Once /\ SameWalk
      BY <2>2 DEF Coll, Once, Held, SameWalk
    <3>2. Once
      BY <2>5 DEF Later, Collected
    <3>3. Later'
      BY <1>1, <2>1, <2>2, <2>5, <3>1, <3>2, LaterStays
    <3> QED BY <2>2, <2>5, <3>3 DEF InOrder
  <2> QED BY <2>3, <2>4, <2>5 DEF InOrder
<1> QED
  BY <1>2, <1>3, <1>4, <1>5, <1>6, <1>8, <1>9, <1>10, <1>11, <1>12 DEF Next, Step

\* Every folder on the way to a file that is reachable is read in the end.
LEMMA AllRead ==
  ASSUME VolumeAssumption, VolumeTyped, VolumeSound, DirsFollowed(ReadFolders),
         ToRead = visited, folder = NoFolder,
         NEW path \in SUBSET Dirs, \A d \in path : Intact(d) /\ \E p \in path \cup {Root} : Listed(d, p)
  PROVE  path \cup {Root} \subseteq ReadFolders
<1> DEFINE T == path \ ReadFolders
<1>1. Root \in ReadFolders
  BY DEF ReadFolders, Folders
<1> SUFFICES ASSUME T # {} PROVE FALSE
  BY <1>1
<1>2. PICK d \in T : \A p \in T : d \notin NamesIn(p)
  BY DEF VolumeSound, NoCycles
<1>3. d \in Dirs /\ Intact(d) /\ \E p \in path \cup {Root} : Listed(d, p)
  BY <1>2
<1>4. PICK p \in path \cup {Root} : Listed(d, p)
  BY <1>3
<1>5. p \in ReadFolders
  <2>1. d \in NamesIn(p)
    BY <1>4 DEF Listed, NamesIn
  <2> QED BY <1>1, <1>2, <2>1
<1>6. home[d][1] \in visited
  BY <1>3, <1>4, <1>5 DEF DirsFollowed
<1>7. data[home[d][1]].of = d
  <2>1. home[d] # <<>> /\ home[d] \in Seq(Cluster)
    BY <1>3 DEF Intact, VolumeTyped, Names
  <2>2. 1 \in DOMAIN home[d]
    BY <2>1
  <2>3. data[home[d][1]] = [of |-> d, block |-> 1]
    BY <1>3, <2>2 DEF Intact
  <2> QED BY <2>3
<1>8. d \in ReadFolders
  <2>1. ToSet(folder.clusters) = {}
    BY DEF NoFolder, Folder, ToSet
  <2> QED BY <1>3, <1>6, <1>7, <2>1 DEF ReadFolders, Folders
<1> QED
  BY <1>2, <1>8

\* What the invariant says of a recovery that is done.
LEMMA InOrderReports ==
  VolumeAssumption /\ Typed /\ InOrder => EveryDeletedFileReported
<1> SUFFICES ASSUME VolumeAssumption, Typed, InOrder, pc = "done", NEW x \in wanted
             PROVE  LET records == {i \in DOMAIN stats : stats[i].name = x}
                    IN  /\ Cardinality(records) <= 1
                        /\ x \notin alive /\ home[x] # <<>> /\ Reachable(x) => records # {}
  BY DEF EveryDeletedFileReported
<1> DEFINE records == {i \in DOMAIN stats : stats[i].name = x}
<1>1. VolumeTyped /\ VolumeSound /\ RecoveryTyped
  BY DEF Typed
<1>2. /\ stats \in Seq(StatType) /\ DOMAIN stats = 1 .. Len(stats) /\ wanted \in SUBSET Files
  <2>1. stats \in Seq(StatType) /\ wanted \in SUBSET Files
    BY <1>1 DEF RecoveryTyped, FilesTyped, WalkTyped
  <2> QED BY <2>1
<1>3. x \in Files /\ x # Root
  BY <1>2, ClusterFacts
<1>4. Later /\ stack = <<>> /\ deleted = <<>>
  BY DEF InOrder, Fresh
<1>5. folder = NoFolder /\ Collected(ReadFolders)
  BY <1>4 DEF Later, FolderOK
<1>6. Cardinality(records) <= 1
  <2>1. \A i, j \in records : i = j
    BY <1>2, <1>3, <1>5 DEF Collected, Once, Distinct
  <2>2. records = {} \/ \E i \in records : records = {i}
    <3> HIDE DEF records
    <3> QED BY <2>1
  <2> HIDE DEF records
  <2>3. CASE records = {}
    <3>1. Cardinality({}) = 0
      BY FS_EmptySet
    <3> QED BY <2>3, <3>1
  <2>4. ASSUME NEW i, records = {i} PROVE Cardinality(records) <= 1
    <3>1. Cardinality({i}) = 1
      BY FS_Singleton
    <3> QED BY <2>4, <3>1
  <2> QED BY <2>2, <2>3, <2>4
<1>7. ASSUME x \notin alive, Reachable(x)
      PROVE  records # {}
  <2>1. PICK path \in SUBSET Dirs :
          /\ \A d \in path : Intact(d) /\ \E p \in path \cup {Root} : Listed(d, p)
          /\ \E p \in path \cup {Root} : Listed(x, p)
    BY <1>7 DEF Reachable
  <2>2. ToRead = visited
    BY <1>4 DEF ToRead
  <2>3. path \cup {Root} \subseteq ReadFolders
    BY <1>1, <1>5, <2>1, <2>2, AllRead DEF Collected
  <2>4. PICK p \in ReadFolders : Listed(x, p)
    BY <2>1, <2>3
  <2>5. x \in NamesIn(p)
    BY <2>4 DEF Listed, NamesIn
  <2>6. x \in Coll
    BY <1>3, <1>5, <1>7, <2>5 DEF Collected, FilesFound
  <2>7. x \in NamesOf(stats)
    BY <1>4, <2>6 DEF Coll, Held, NamesOf
  <2>8. PICK i \in 1 .. Len(stats) : stats[i].name = x
    BY <2>7 DEF NamesOf
  <2> QED BY <1>2, <2>8
<1> QED
  BY <1>6, <1>7

\* Every deleted file whose entry can still be reached is in the report exactly
\* once, and every other one at most once (walk and recover_deleted of fat.rs
\* and exfat.rs), for every volume and every life of it.
THEOREM ReportsEachDeletedFileOnce == Spec => []EveryDeletedFileReported
<1> SUFFICES ASSUME VolumeAssumption, UndeleteAssumption PROVE Spec => []EveryDeletedFileReported
  BY VolumeAssumption, UndeleteAssumption
<1>1. VolumeAssumption /\ UndeleteAssumption /\ Init => Typed /\ InOrder
  BY TypedInitially, InOrderInitially
<1>2. VolumeAssumption /\ UndeleteAssumption /\ Typed /\ InOrder /\ [Next]_vars => Typed' /\ InOrder'
  BY TypedStays, InOrderStays
<1>3. VolumeAssumption /\ Typed /\ InOrder => EveryDeletedFileReported
  BY InOrderReports
<1> QED
  BY <1>1, <1>2, <1>3, PTL DEF Spec

==============================================================================
