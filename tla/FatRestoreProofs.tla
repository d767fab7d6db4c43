--------------------------- MODULE FatRestoreProofs ---------------------------
(***************************************************************************)
(* Proof that what nobody touched comes back, for FAT and exFAT volumes of *)
(* any size and any life of them: a deleted file that the walk can reach   *)
(* and whose clusters still hold it is written out block for block.        *)
(*                                                                         *)
(* Three things are kept.  Measured, of the volume: a file's clusters were *)
(* handed out upwards and around, an entry measures its file, a cluster    *)
(* that is not in use is Free in the FAT, and an exFAT chain leads to the  *)
(* next cluster of its file or nowhere.  Exactly, of the walk: what it     *)
(* collected of a file whose place is told is where the file is, and how   *)
(* long.  Copies, of the file being written: so far its blocks and nothing *)
(* else; what was passed over are gaps in it, few enough not to give up.   *)
(* Accurate then says of the report what Copies says of a finished copy.   *)
(***************************************************************************)
EXTENDS FatUndeleteProofs

(* --------------------------- Around the volume -------------------------- *)

\* Going around the volume, clusters ahead of one another add up.
LEMMA AheadShift ==
  ASSUME VolumeAssumption, NEW h \in Cluster, NEW a \in Cluster, NEW b \in Cluster,
         Ahead(a, h) <= Ahead(b, h)
  PROVE  Ahead(b, a) = Ahead(b, h) - Ahead(a, h)
BY DEF VolumeAssumption, Cluster, Ahead

\* Every cluster has a place of its own on the way around.
LEMMA AheadApart ==
  ASSUME VolumeAssumption, NEW h \in Cluster, NEW a \in Cluster, NEW b \in Cluster
  PROVE  /\ Ahead(a, h) \in Nat /\ Ahead(a, h) <= MaxCluster - 2 /\ Ahead(h, h) = 0
         /\ Ahead(a, h) = Ahead(b, h) => a = b
BY DEF VolumeAssumption, Cluster, Ahead

(* --------------------------- What is measured --------------------------- *)

\* The clusters of a file ascend, going around from the first.
Ascends(cs) ==
  \A i, j \in 1 .. Len(cs) : i < j => Ahead(cs[i], cs[1]) < Ahead(cs[j], cs[1])
HomesAscend == \A x \in Names : Ascends(home[x])
UnusedIsFree == fs # "exfat" => \A c \in Cluster : c \notin used => fat[c] = Free
\* The chain of an exFAT file in pieces, as far as its clusters still hold it.
ChainsLead ==
  fs = "exfat" =>
    \A x \in Names : ~Consecutive(home[x]) => \A k \in 1 .. Len(home[x]) - 1 :
      data[home[x][k]] = [of |-> x, block |-> k] /\ fat[home[x][k]] \in Cluster =>
        fat[home[x][k]] = home[x][k + 1]
SizeIs(e, cs, type) == e.size = Len(cs) /\ (e.contiguous <=> type = "exfat" /\ Consecutive(cs))
Measures(e) == SizeIs(e, home[e.name], fs)
EntriesMeasure == \A p \in Folders : \A i \in 1 .. Len(entries[p]) : Measures(entries[p][i])
Measured == HomesAscend /\ UnusedIsFree /\ ChainsLead /\ EntriesMeasure

\* The driver hands clusters out upwards and around.
LEMMA PlacedAscend ==
  ASSUME VolumeAssumption, VolumeTyped, NEW cs \in Seq(Cluster), cs \in Place(Len(cs)),
         \A k \in 1 .. Len(cs) : cs[k] \in Cluster /\ cs[k] \notin used
  PROVE  Ascends(cs) /\ \A i, j \in 1 .. Len(cs) : cs[i] = cs[j] => i = j
<1> DEFINE n == Len(cs)
<1>1. n \in Nat /\ hand \in Cluster
  BY DEF VolumeTyped
<1>2. ASSUME NEW i \in 1 .. n, NEW j \in 1 .. n, i < j
      PROVE  Ahead(cs[i], hand) < Ahead(cs[j], hand)
  <2>1. \A l \in 1 .. n, c \in Cluster \ used :
          FromHand(c) < FromHand(cs[l]) <=> \E m \in 1 .. l - 1 : cs[m] = c
    BY DEF Place
  <2>2. i \in 1 .. j - 1 /\ cs[i] \in Cluster \ used
    BY <1>1, <1>2
  <2> QED BY <2>1, <2>2 DEF FromHand
<1>3. ASSUME NEW i \in 1 .. n, NEW j \in 1 .. n, i < j
      PROVE  Ahead(cs[i], cs[1]) < Ahead(cs[j], cs[1])
  <2>1. 1 \in 1 .. n /\ cs[1] \in Cluster /\ cs[i] \in Cluster /\ cs[j] \in Cluster
    BY <1>1
  <2>2. /\ Ahead(cs[1], hand) \in Nat /\ Ahead(cs[i], hand) \in Nat /\ Ahead(cs[j], hand) \in Nat
    BY <1>1, <2>1, AheadApart
  <2>3. Ahead(cs[i], hand) < Ahead(cs[j], hand)
    BY <1>2, <1>3
  <2>4. Ahead(cs[1], hand) <= Ahead(cs[i], hand)
    <3>1. CASE i = 1
      BY <2>2, <3>1
    <3>2. CASE i # 1
      <4>1. 1 < i
        BY <1>1, <3>2
      <4>2. Ahead(cs[1], hand) < Ahead(cs[i], hand)
        BY <1>2, <2>1, <4>1
      <4> QED BY <2>2, <4>2
    <3> QED BY <3>1, <3>2
  <2>5. Ahead(cs[1], hand) <= Ahead(cs[j], hand)
    BY <2>2, <2>3, <2>4
  <2>6. Ahead(cs[i], cs[1]) = Ahead(cs[i], hand) - Ahead(cs[1], hand)
    BY <1>1, <2>1, <2>4, AheadShift
  <2>7. Ahead(cs[j], cs[1]) = Ahead(cs[j], hand) - Ahead(cs[1], hand)
    BY <1>1, <2>1, <2>5, AheadShift
  <2> QED BY <2>2, <2>3, <2>6, <2>7
<1>4. ASSUME NEW i \in 1 .. n, NEW j \in 1 .. n, cs[i] = cs[j]
      PROVE  i = j
  <2>1. ASSUME NEW k \in 1 .. n, NEW l \in 1 .. n, k < l PROVE cs[k] # cs[l]
    <3>1. Ahead(cs[k], hand) < Ahead(cs[l], hand)
      BY <1>2, <2>1
    <3>2. Ahead(cs[k], hand) \in Nat
      BY <1>1, AheadApart
    <3> QED BY <3>1, <3>2
  <2> QED BY <1>1, <1>4, <2>1
<1> QED
  BY <1>3, <1>4 DEF Ascends

\* Creating a file measures it, and takes nothing from what is measured.
LEMMA MadeMeasured ==
  ASSUME VolumeAssumption, VolumeTyped, VolumeSound, Measured, NEW x \in Names, NEW d \in Folders,
         NEW cs, NEW at, NEW i, NEW e, Made(x, d, cs, at, i, e), HandedOut(cs, at, e)
  PROVE  Measured'
<1> DEFINE placed == {cs[k] : k \in 1 .. Len(cs)}
<1>1. /\ cs \in Seq(Cluster) /\ Len(cs) \in Nat
      /\ \A k \in 1 .. Len(cs) : cs[k] \in Cluster /\ cs[k] \notin used
      /\ \A c \in placed : at[c] \in 1 .. Len(cs) /\ cs[at[c]] = c
      /\ fs' = fs /\ used' = used \cup placed /\ home' = [home EXCEPT ![x] = cs]
      /\ data' = [c \in Cluster |-> IF c \in placed THEN [of |-> x, block |-> at[c]] ELSE data[c]]
      /\ home[x] = <<>> /\ e.name = x /\ \A p \in Folders : x \notin NamesIn(p)
  BY DEF Made
<1>2. /\ cs \in Place(Len(cs)) /\ e.size = Len(cs)
      /\ e.contiguous <=> fs = "exfat" /\ Consecutive(cs)
      /\ fat' = IF fs = "exfat" /\ Consecutive(cs) THEN fat
                ELSE [c \in Cluster |-> IF c \notin placed THEN fat[c]
                                        ELSE IF at[c] = Len(cs) THEN Eoc ELSE cs[at[c] + 1]]
  BY DEF HandedOut
<1>3. Ascends(cs) /\ \A k, l \in 1 .. Len(cs) : cs[k] = cs[l] => k = l
  BY <1>1, <1>2, PlacedAscend
<1>4. /\ home \in [Names -> Seq(Cluster)] /\ home'[x] = cs
      /\ \A y \in Names : y # x => home'[y] = home[y]
  BY <1>1 DEF VolumeTyped
<1>5. HomesAscend'
  <2>1. \A y \in Names : Ascends(home'[y])
    BY <1>3, <1>4 DEF HomesAscend, Measured
  <2> QED BY <2>1 DEF HomesAscend, Ascends
<1> HIDE DEF placed
<1>6. UnusedIsFree'
  <2> SUFFICES ASSUME fs # "exfat", NEW c \in Cluster, c \notin used' PROVE fat'[c] = Free
    BY <1>1 DEF UnusedIsFree
  <2>1. c \notin used /\ c \notin placed
    BY <1>1
  <2>2. fat[c] = Free
    BY <2>1 DEF Measured, UnusedIsFree
  <2>3. fat' = [b \in Cluster |-> IF b \notin placed THEN fat[b]
                                  ELSE IF at[b] = Len(cs) THEN Eoc ELSE cs[at[b] + 1]]
    BY <1>2
  <2> QED BY <2>1, <2>2, <2>3
<1>7. ChainsLead'
  <2> SUFFICES ASSUME fs = "exfat", NEW y \in Names, ~Consecutive(home'[y]),
                      NEW k \in 1 .. Len(home'[y]) - 1,
                      data'[home'[y][k]] = [of |-> y, block |-> k], fat'[home'[y][k]] \in Cluster
               PROVE  fat'[home'[y][k]] = home'[y][k + 1]
    BY <1>1 DEF ChainsLead
  <2>1. CASE y = x
    <3>1. home'[y] = cs /\ ~Consecutive(cs) /\ k \in 1 .. Len(cs) /\ k # Len(cs)
      BY <1>1, <1>4, <2>1
    <3>2. cs[k] \in placed /\ cs[k] \in Cluster
      BY <1>1, <3>1 DEF placed
    <3>3. at[cs[k]] = k
      BY <1>1, <1>3, <3>1, <3>2
    <3>4. fat' = [c \in Cluster |-> IF c \notin placed THEN fat[c]
                                    ELSE IF at[c] = Len(cs) THEN Eoc ELSE cs[at[c] + 1]]
      BY <1>2, <3>1
    <3>5. fat'[cs[k]] = cs[k + 1]
      BY <3>1, <3>2, <3>3, <3>4
    <3> QED BY <3>1, <3>5
  <2>2. CASE y # x
    <3>1. home'[y] = home[y] /\ home[y] \in Seq(Cluster)
      BY <1>4, <2>2
    <3>2. PICK c \in Cluster : c = home[y][k]
      BY <3>1
    <3>3. c \notin placed
      <4>1. data'[c] = IF c \in placed THEN [of |-> x, block |-> at[c]] ELSE data[c]
        BY <1>1
      <4>2. data'[c].of = y
        BY <3>1, <3>2
      <4> QED BY <2>2, <4>1, <4>2
    <3>4. data'[c] = data[c]
      BY <1>1, <3>3
    <3>5. fat'[c] = fat[c]
      BY <1>2, <3>3
    <3>6. ChainsLead
      BY DEF Measured
    <3> QED BY <3>1, <3>2, <3>4, <3>5, <3>6 DEF ChainsLead
  <2> QED BY <2>1, <2>2
<1>8. EntriesMeasure'
  <2>1. /\ \A p \in Folders : p # d => entries'[p] = entries[p]
        /\ entries'[d][i] = e
        /\ \A j \in 1 .. Len(entries'[d]) : j # i =>
             j \in 1 .. Len(entries[d]) /\ entries'[d][j] = entries[d][j]
    BY MadeEntries
  <2>2. ASSUME NEW p \in Folders, NEW j \in 1 .. Len(entries[p])
        PROVE  SizeIs(entries[p][j], home'[entries[p][j].name], fs')
    <3>1. entries[p] \in Seq(EntryType)
      BY DEF VolumeTyped
    <3>2. PICK f \in EntryType : f = entries[p][j]
      BY <3>1
    <3>3. f.name # x
      <4>1. f.name \in NamesIn(p)
        BY <3>1, <3>2 DEF NamesIn
      <4> QED BY <1>1, <4>1
    <3>4. f.name \in Names
      BY <3>2 DEF VolumeSound, EntriesSay, SaysOf
    <3>5. home'[f.name] = home[f.name]
      BY <1>4, <3>3, <3>4
    <3>6. SizeIs(f, home[f.name], fs)
      BY <3>2 DEF Measured, EntriesMeasure, Measures
    <3> QED BY <1>1, <3>2, <3>5, <3>6
  <2>3. SizeIs(e, home'[e.name], fs')
    BY <1>1, <1>2, <1>4 DEF SizeIs
  <2>4. ASSUME NEW p \in Folders, NEW j \in 1 .. Len(entries'[p])
        PROVE  SizeIs(entries'[p][j], home'[entries'[p][j].name], fs')
    <3>1. CASE p = d /\ j = i
      BY <2>1, <2>3, <3>1
    <3>2. CASE ~ (p = d /\ j = i)
      <4>1. j \in 1 .. Len(entries[p]) /\ entries'[p][j] = entries[p][j]
        BY <2>1, <2>4, <3>2
      <4> QED BY <2>2, <4>1
    <3> QED BY <3>1, <3>2
  <2> QED BY <2>4 DEF EntriesMeasure, Measures, SizeIs
<1> QED
  BY <1>5, <1>6, <1>7, <1>8 DEF Measured

\* Deleting frees clusters, in the FAT of FAT16 and FAT32 too, and changes no measure.
LEMMA UnmadeMeasured ==
  ASSUME VolumeAssumption, VolumeTyped, VolumeSound, Measured, NEW x, NEW gone, Unmade(x, gone)
  PROVE  Measured'
<1> DEFINE freed == UNION {OnDisk(y) : y \in gone}
<1>1. /\ fs' = fs /\ data' = data /\ home' = home /\ used' = used \ freed
      /\ \/ fs = "exfat" /\ fat' = fat
         \/ fat' = [c \in Cluster |-> IF c \in freed THEN Free ELSE fat[c]]
      /\ \A p \in Folders :
           /\ Len(entries'[p]) = Len(entries[p])
           /\ \A i \in 1 .. Len(entries[p]) :
                /\ entries'[p][i].name = entries[p][i].name
                /\ entries'[p][i].size = entries[p][i].size
                /\ entries'[p][i].contiguous = entries[p][i].contiguous
  BY DEF Unmade
<1> HIDE DEF freed
<1>2. HomesAscend /\ UnusedIsFree /\ ChainsLead /\ EntriesMeasure
  BY DEF Measured
<1>3. HomesAscend'
  BY <1>1, <1>2 DEF HomesAscend
<1>4. UnusedIsFree'
  BY <1>1, <1>2 DEF UnusedIsFree
<1>5. ChainsLead'
  <2> SUFFICES ASSUME fs = "exfat", NEW y \in Names, ~Consecutive(home[y]),
                      NEW k \in 1 .. Len(home[y]) - 1,
                      data[home[y][k]] = [of |-> y, block |-> k], fat'[home[y][k]] \in Cluster
               PROVE  fat'[home[y][k]] = home[y][k + 1]
    BY <1>1 DEF ChainsLead
  <2>1. PICK c \in Cluster : c = home[y][k]
    BY DEF VolumeTyped
  <2>2. fat'[c] = fat[c]
    BY <1>1, <2>1, ClusterFacts
  <2> QED BY <1>2, <2>1, <2>2 DEF ChainsLead
<1>6. EntriesMeasure'
  <2>1. ASSUME NEW p \in Folders, NEW i \in 1 .. Len(entries'[p])
        PROVE  SizeIs(entries'[p][i], home'[entries'[p][i].name], fs')
    <3>1. i \in 1 .. Len(entries[p])
      BY <1>1
    <3>2. PICK f : f = entries[p][i]
      OBVIOUS
    <3>3. PICK g : g = entries'[p][i]
      OBVIOUS
    <3>4. g.name = f.name /\ g.size = f.size /\ g.contiguous = f.contiguous
      BY <1>1, <3>1, <3>2, <3>3
    <3>5. SizeIs(f, home[f.name], fs)
      BY <1>2, <3>1, <3>2 DEF EntriesMeasure, Measures
    <3>6. SizeIs(g, home[f.name], fs)
      BY <3>4, <3>5 DEF SizeIs
    <3> QED BY <1>1, <3>3, <3>4, <3>6
  <2> QED BY <2>1 DEF EntriesMeasure, Measures, SizeIs
<1> QED
  BY <1>3, <1>4, <1>5, <1>6 DEF Measured

\* A volume that was just formatted has nothing to measure.
LEMMA MeasuredAtFirst == VolumeAssumption /\ LifeInit => Measured
<1> SUFFICES ASSUME VolumeAssumption, LifeInit PROVE Measured
  OBVIOUS
<1>1. home = [x \in Names |-> <<>>] /\ entries = [d \in Folders |-> <<>>]
  BY DEF LifeInit, Folders
<1>2. HomesAscend
  <2>1. \A x \in Names : home[x] = <<>>
    BY <1>1
  <2>2. Ascends(<<>>)
    BY DEF Ascends
  <2> QED BY <2>1, <2>2 DEF HomesAscend
<1>3. UnusedIsFree
  BY DEF LifeInit, UnusedIsFree
<1>4. ChainsLead
  <2>1. \A x \in Names : Consecutive(home[x])
    BY <1>1 DEF Consecutive
  <2> QED BY <2>1 DEF ChainsLead
<1>5. EntriesMeasure
  BY <1>1 DEF EntriesMeasure
<1> QED
  BY <1>2, <1>3, <1>4, <1>5 DEF Measured

\* What is measured depends on the volume alone.
LEMMA SameMeasure == UNCHANGED volume /\ Measured => Measured'
BY DEF volume, Measured, HomesAscend, UnusedIsFree, ChainsLead, EntriesMeasure, Measures, SizeIs

\* Every step, of the life and of the recovery, keeps the measures.
LEMMA MeasuredStays ==
  VolumeAssumption /\ Typed /\ Measured /\ [Next]_vars => Measured'
<1> SUFFICES ASSUME VolumeAssumption, Typed, Measured, [Next]_vars PROVE Measured'
  OBVIOUS
<1>1. VolumeTyped /\ VolumeSound
  BY DEF Typed
<1>2. ASSUME NEW x \in Names, NEW d \in Folders, Create(x, d) PROVE Measured'
  BY <1>1, <1>2, CreateMakes, MadeMeasured
<1>3. ASSUME NEW x \in Names, Delete(x) PROVE Measured'
  BY <1>1, <1>3, DeleteUnmakes, UnmadeMeasured
<1>4. Live => Measured'
  BY <1>2, <1>3 DEF Live, Folders
<1>5. UNCHANGED volume => Measured'
  BY SameMeasure
<1> QED
  BY <1>4, <1>5, StepKeepsVolume DEF Next, vars

(* ------------------------ What was collected of it ---------------------- *)

\* The first block of a file that is all there.
LEMMA FirstBlock ==
  ASSUME VolumeAssumption, VolumeTyped, NEW x \in Names, Intact(x)
  PROVE  /\ home[x] \in Seq(Cluster) /\ Len(home[x]) \in Nat \ {0} /\ 1 \in 1 .. Len(home[x])
         /\ \A k \in 1 .. Len(home[x]) :
              home[x][k] \in Cluster /\ data[home[x][k]] = [of |-> x, block |-> k]
<1>1. home[x] # <<>> /\ home[x] \in Seq(Cluster)
  BY DEF Intact, VolumeTyped
<1>2. DOMAIN home[x] = 1 .. Len(home[x]) /\ Len(home[x]) \in Nat \ {0}
  BY <1>1
<1> QED
  BY <1>1, <1>2 DEF Intact

\* A file that is still in its first cluster is found by an entry that tells
\* of it: of the free clusters with that low half, the only one that begins
\* like it (resolve_start_cluster).
LEMMA FileFound ==
  ASSUME VolumeAssumption, VolumeTyped, NEW e \in EntryType, NEW parent \in Nat,
         e.name \in Files, Intact(e.name), Tells(e, e.name)
  PROVE  StartOf(e, parent) = home[e.name][1]
<1> DEFINE h == home[e.name][1]
           free  == {c \in Cluster : c % Half = e.start /\ fat[c] = Free}
           typed == {c \in free : Shows(c, e.name)}
           pool  == IF typed = {} THEN free ELSE typed
           needed == Max({e.size, 1})
           longest == {c \in pool : \A d \in pool : FreeRun(d, needed) <= FreeRun(c, needed)}
           near  == {c \in longest : \A d \in longest : Abs(c - parent) <= Abs(d - parent)}
           dots  == {c \in free : StartsWithDotEntry(c)}
<1>1. h \in Cluster /\ data[h] = [of |-> e.name, block |-> 1]
  BY FirstBlock DEF Names
<1>2. /\ e.start \in Nat /\ Half \in Nat \ {0} /\ h \in Nat /\ MaxCluster \in Nat /\ h <= MaxCluster
      /\ e.name \notin Dirs /\ e.size \in Nat
  BY <1>1, ClusterFacts DEF EntryType, VolumeAssumption, Cluster
<1>3. CASE e.start = h /\ (fs # "fat32" \/ ~e.deleted \/ MaxCluster < Half \/ e.start >= Half)
  BY <1>3 DEF StartOf, ResolveStartCluster
<1>4. CASE /\ fs = "fat32" /\ e.deleted /\ e.start >= 2 /\ h % Half = e.start /\ fat[h] = Free
           /\ \A c \in Cluster \ {h} : c % Half = e.start /\ fat[c] = Free => ~Shows(c, e.name)
  <2>1. Shows(h, e.name)
    BY <1>1 DEF Shows
  <2>2. h \in free /\ typed = {h} /\ pool = {h}
    BY <1>1, <1>4, <2>1
  <2>3. e.start < Half
    BY <1>2, <1>4
  <2>4. MaxCluster < Half => e.start = h
    BY <1>2, <1>4
  <2>5. Cardinality(free) = 1 => Min(free) = h
    <3> SUFFICES ASSUME Cardinality(free) = 1 PROVE Min(free) = h
      OBVIOUS
    <3>1. free \in SUBSET Cluster
      OBVIOUS
    <3> HIDE DEF free
    <3>2. IsFiniteSet(free)
      <4>1. IsFiniteSet(Cluster)
        BY <1>2, FS_Interval DEF Cluster
      <4> QED BY <3>1, <4>1, FS_Subset
    <3>3. \E c : free = {c}
      BY <3>2, FS_Singleton
    <3>4. \A d \in free : d = h
      BY <2>2, <3>3
    <3> QED BY <2>2, <3>1, <3>4, SoleCluster
  <2>6. needed \in Nat
    <3> DEFINE S == {e.size, 1}
    <3>1. S \in SUBSET Nat /\ S # {} /\ e.size + 1 \in Nat /\ \A s \in S : s <= e.size + 1
      BY <1>2
    <3> HIDE DEF S
    <3>2. Max(S) \in S
      BY <3>1, GreatestNatural
    <3> QED BY <3>1, <3>2 DEF S
  <2> HIDE DEF free, typed, dots, needed, h
  <2>7. longest = {h}
    <3>1. FreeRun(h, needed) \in Nat
      BY <1>1, <2>6, FreeRunBounds
    <3> HIDE DEF pool
    <3> QED BY <2>2, <3>1
  <2>8. Min(near) = h
    <3>1. Abs(h - parent) \in Nat
      BY <1>2 DEF Abs
    <3>2. near = {h}
      <4> HIDE DEF longest
      <4> QED BY <2>7, <3>1
    <3> HIDE DEF near
    <3> QED BY <1>1, <3>2, SoleCluster
  <2>9. ResolveStartCluster(e, parent) =
          IF fs # "fat32" \/ MaxCluster < Half \/ e.start >= Half \/ e.start < 2 \/ free = {}
            THEN e.start
          ELSE IF Cardinality(free) = 1 THEN Min(free)
          ELSE IF e.name \in Dirs THEN IF dots # {} THEN Min(dots) ELSE e.start
          ELSE Min(near)
    BY DEF ResolveStartCluster, free, typed, pool, needed, longest, near, dots
  <2> HIDE DEF near
  <2>10. ResolveStartCluster(e, parent) = h
    BY <1>2, <1>4, <2>2, <2>3, <2>4, <2>5, <2>8, <2>9
  <2> QED BY <1>4, <2>10 DEF StartOf, h
<1> QED
  BY <1>2, <1>3, <1>4 DEF Tells

\* What is told of x: its blocks are in place and an entry says where.
Told(x) == Intact(x) /\ \E p \in Folders : Listed(x, p)
Exact(e) == e.start = home[e.name][1] /\ Measures(e)
ExactIfTold(e) == e.name \in Files /\ Told(e.name) => Exact(e)
Exactly ==
  /\ \A i \in 1 .. Len(deleted) : ExactIfTold(deleted[i])
  /\ pc = "copy" => ExactIfTold(w.e)

\* With a name in one entry, that entry is the one that tells.
LEMMA EntryTells ==
  ASSUME VolumeTyped, VolumeSound, NEW p \in Folders, NEW i \in 1 .. Len(entries[p]),
         Told(entries[p][i].name)
  PROVE  Tells(entries[p][i], entries[p][i].name)
<1> DEFINE x == entries[p][i].name
<1>1. PICK q \in Folders : Listed(x, q)
  BY DEF Told
<1>2. PICK j \in DOMAIN entries[q] : entries[q][j].name = x /\ Tells(entries[q][j], x)
  BY <1>1 DEF Listed
<1>3. j \in 1 .. Len(entries[q])
  <2>1. entries[q] \in Seq(EntryType)
    BY DEF VolumeTyped
  <2> QED BY <2>1
<1>4. q = p /\ j = i
  BY <1>2, <1>3 DEF VolumeSound, EntriesApart
<1> QED
  BY <1>2, <1>4

\* What a folder that was read holds, names of nothing apart, are entries.
LEMMA ItemsAreEntries ==
  ASSUME VolumeAssumption, VolumeTyped, VolumeSound, RecoveryTyped, InOrder, ParseFolder
  PROVE  \A k \in 1 .. Len(FolderItems(folder)) :
           \/ FolderItems(folder)[k].name = Root
           \/ \E p \in Folders : \E j \in 1 .. Len(entries[p]) : FolderItems(folder)[k] = entries[p][j]
<1>1. pc = "folder" /\ folder.at \notin Unvisited
  BY DEF ParseFolder
<1>2. /\ folder \in FolderType /\ folder.cluster \in Cluster \cup {0} /\ folder.at \in Cluster \cup {0}
      /\ visited \in SUBSET Cluster
  BY DEF RecoveryTyped, WalkTyped, FolderType
<1>3. CASE Fresh
  <2>1. /\ folder.cluster = RootCluster(fs) /\ ~folder.gone
        /\ \/ folder.at = folder.cluster /\ folder.clusters = <<>> /\ visited = {}
           \/ folder.cluster # 0 /\ folder.clusters = <<folder.cluster>> /\ visited = {folder.cluster}
    BY <1>1, <1>3 DEF Fresh, RootOpen
  <2>2. folder.cluster # 0 => folder.clusters = <<folder.cluster>>
    BY <1>1, <1>2, <2>1 DEF Unvisited
  <2>3. Lists(FolderItems(folder), Root)
    BY <2>1, <2>2, RootListed
  <2> QED BY <2>3 DEF Lists, Folders
<1>4. CASE Later
  <2>1. OnList(folder) /\ ReadAs(folder)
    BY <1>1, <1>4 DEF Later, FolderOK
  <2>2. \/ OnlyJunk(FolderItems(folder))
        \/ data[folder.cluster].of \in Dirs /\ Lists(FolderItems(folder), data[folder.cluster].of)
    BY <2>1, FolderListed
  <2> QED BY <2>2 DEF OnlyJunk, Lists, Folders
<1> QED
  BY <1>1, <1>3, <1>4 DEF InOrder

\* Parsing collects of a told file where it begins and what it measures.
LEMMA ParseExact ==
  ASSUME VolumeAssumption, VolumeTyped, VolumeSound, Measured, RecoveryTyped, InOrder, ParseFolder,
         Exactly
  PROVE  \A i \in 1 .. Len(deleted') : ExactIfTold(deleted'[i])
<1>1. folder \in FolderType /\ folder.cluster \in Nat
  BY ClusterFacts DEF RecoveryTyped, WalkTyped, FolderType
<1>2. PICK items, pushed, found : ParseDoes(items, pushed, found)
  BY <1>1, ParseEffect
<1>3. /\ items = FolderItems(folder) /\ items \in Seq(EntryType)
      /\ found \in Seq(EntryType) /\ deleted \in Seq(EntryType) /\ deleted' = deleted \o found
      /\ Found(items, found)
  BY <1>2 DEF ParseDoes, RecoveryTyped, FilesTyped
<1>4. ASSUME NEW k \in 1 .. Len(found), found[k].name \in Files, Told(found[k].name)
      PROVE  Exact(found[k])
  <2>1. PICK i \in 1 .. Len(items) :
          /\ found[k].name = items[i].name /\ found[k].start = StartOf(items[i], folder.cluster)
          /\ found[k].size = items[i].size /\ found[k].contiguous = items[i].contiguous
    BY <1>3 DEF Found
  <2>2. PICK e \in EntryType : e = items[i]
    BY <1>3
  <2>3. PICK f : f = found[k]
    OBVIOUS
  <2>4. /\ f.name = e.name /\ f.start = StartOf(e, folder.cluster)
        /\ f.size = e.size /\ f.contiguous = e.contiguous /\ e.name \in Files /\ Told(e.name)
    BY <1>4, <2>1, <2>2, <2>3
  <2>5. PICK p \in Folders : \E j \in 1 .. Len(entries[p]) : e = entries[p][j]
    <3>1. e.name # Root
      BY <2>4, ClusterFacts
    <3> QED BY <1>3, <2>2, <3>1, ItemsAreEntries
  <2>6. Tells(e, e.name) /\ Measures(e)
    <3>1. PICK j \in 1 .. Len(entries[p]) : e = entries[p][j]
      BY <2>5
    <3> QED BY <2>4, <3>1, EntryTells DEF Measured, EntriesMeasure
  <2>7. f.start = home[e.name][1]
    BY <1>1, <2>4, <2>6, FileFound DEF Told
  <2>8. Measures(f)
    BY <2>4, <2>6 DEF Measures, SizeIs
  <2> QED BY <2>3, <2>4, <2>7, <2>8 DEF Exact
<1>5. \A i \in 1 .. Len(deleted') :
        \/ i \in 1 .. Len(deleted) /\ deleted'[i] = deleted[i]
        \/ \E k \in 1 .. Len(found) : deleted'[i] = found[k]
  BY <1>3, ConcatFacts
<1> QED
  BY <1>4, <1>5 DEF Exactly, ExactIfTold

(* ----------------------- A file that can come back ---------------------- *)

\* The free gaps among a file's clusters.
OpenGaps(x) == {c \in Gaps(x) : c \notin used}

\* What can come back depends on the volume, and on its map being readable.
LEMMA SameRecoverable ==
  ASSUME UNCHANGED volume, has_map' = has_map, NEW x
  PROVE  Recoverable(x)' = Recoverable(x)
<1>1. /\ home' = home /\ data' = data /\ used' = used /\ alive' = alive
      /\ \A d : Intact(d)' = Intact(d)
      /\ \A d, p : Listed(d, p)' = Listed(d, p)
  BY SameVolumeSays DEF volume
<1>2. Reachable(x)' = Reachable(x)
  BY <1>1 DEF Reachable
<1>3. Gaps(x)' = Gaps(x) /\ OnDisk(x)' = OnDisk(x)
  BY <1>1 DEF Gaps, OnDisk
<1>4. Intact(x)' = Intact(x)
  BY <1>1
<1> QED
  BY <1>1, <1>2, <1>3, <1>4 DEF Recoverable, Accepts

\* What is collected of it is exact, and its clusters are its own and free.
LEMMA RecoverableFacts ==
  ASSUME VolumeAssumption, VolumeTyped, InUseIsMarked, Measured, NEW x \in Files, Recoverable(x)
  PROVE  /\ x \in Names /\ Intact(x) /\ Told(x) /\ x \notin alive /\ home[x] # <<>> /\ Reachable(x)
         /\ \A k \in 1 .. Len(home[x]) : home[x][k] \in FreeClusters
<1>1. /\ x \in Names /\ Intact(x) /\ x \notin alive /\ OnDisk(x) \cap used = {} /\ Reachable(x)
      /\ home[x] # <<>>
  BY DEF Recoverable, Names, Intact
<1>2. Told(x)
  BY <1>1 DEF Reachable, Told, Folders
<1>3. \A k \in 1 .. Len(home[x]) : home[x][k] \in Cluster /\ home[x][k] \in OnDisk(x)
  <2>1. home[x] \in Seq(Cluster) /\ DOMAIN home[x] = 1 .. Len(home[x])
    BY <1>1, FirstBlock
  <2> QED BY <2>1 DEF OnDisk
<1>4. \A c \in Cluster : c \notin used => c \in FreeClusters
  BY DEF FreeClusters, ClusterIsFree, ClusterAllocated, Measured, UnusedIsFree
<1> QED
  BY <1>1, <1>2, <1>3, <1>4

\* Clusters that ascend are not more than there are.
LEMMA AscendFits ==
  ASSUME VolumeAssumption, NEW cs \in Seq(Cluster), Len(cs) # 0, Ascends(cs)
  PROVE  /\ Len(cs) <= MaxCluster - 1
         /\ \A i, j \in 1 .. Len(cs) : cs[i] = cs[j] => i = j
         /\ \A i, j \in 1 .. Len(cs) : Ahead(cs[i], cs[1]) <= Ahead(cs[j], cs[1]) => i <= j
<1> DEFINE n == Len(cs)
           A(k) == Ahead(cs[k], cs[1])
           S == {m \in Nat : m + 1 <= n => m <= A(m + 1)}
<1>1. n \in Nat \ {0} /\ MaxCluster \in Nat /\ \A k \in 1 .. n : cs[k] \in Cluster
  BY DEF VolumeAssumption
<1>2. \A k \in 1 .. n : A(k) \in Nat /\ A(k) <= MaxCluster - 2
  <2> SUFFICES ASSUME NEW k \in 1 .. n PROVE A(k) \in Nat /\ A(k) <= MaxCluster - 2
    OBVIOUS
  <2>1. cs[k] \in Cluster /\ cs[1] \in Cluster
    BY <1>1
  <2> QED BY <2>1, AheadApart
<1>3. \A i, j \in 1 .. n : i < j => A(i) < A(j)
  BY DEF Ascends
<1> HIDE DEF A, n
<1>4. 0 \in S
  BY <1>1, <1>2
<1>5. ASSUME NEW m \in Nat, m \in S PROVE m + 1 \in S
  <2>1. (m + 1) + 1 = m + 2 /\ m + 1 \in Nat
    BY <1>5
  <2> SUFFICES ASSUME m + 2 <= n PROVE m + 1 <= A(m + 2)
    BY <2>1
  <2>2. m <= A(m + 1)
    BY <1>1, <1>5
  <2>3. m + 1 \in 1 .. n /\ m + 2 \in 1 .. n
    BY <1>1
  <2>4. A(m + 1) < A(m + 2)
    BY <1>3, <2>3
  <2> QED BY <1>2, <2>2, <2>3, <2>4
<1>6. n <= MaxCluster - 1
  <2>1. \A m \in Nat : m \in S
    <3> HIDE DEF S
    <3> QED BY <1>4, <1>5, InductionOnSet
  <2>2. n - 1 \in S /\ n - 1 \in Nat
    BY <1>1, <2>1
  <2>3. n - 1 <= A(n)
    BY <1>1, <2>2
  <2> QED BY <1>1, <1>2, <2>3
<1>7. \A i, j \in 1 .. n : A(i) <= A(j) => i <= j
  BY <1>1, <1>2, <1>3
<1>8. \A i, j \in 1 .. n : cs[i] = cs[j] => i = j
  <2> SUFFICES ASSUME NEW i \in 1 .. n, NEW j \in 1 .. n, cs[i] = cs[j] PROVE i = j
    OBVIOUS
  <2>1. A(i) = A(j)
    BY DEF A
  <2> QED BY <1>1, <1>2, <1>7, <2>1
<1> QED
  BY <1>6, <1>7, <1>8 DEF A, n

\* Consecutive clusters count up from the first.
LEMMA InOnePiece ==
  ASSUME VolumeAssumption, NEW cs \in Seq(Cluster), Consecutive(cs)
  PROVE  \A k \in 1 .. Len(cs) : cs[k] = cs[1] + k - 1
<1> DEFINE n == Len(cs)
           S == {m \in Nat : m + 1 <= n => cs[m + 1] = cs[1] + m}
<1>1. n \in Nat /\ \A k \in 1 .. n : cs[k] \in Nat
  BY ClusterFacts
<1>2. \A k \in 1 .. n - 1 : cs[k + 1] = cs[k] + 1
  BY DEF Consecutive
<1> HIDE DEF n
<1>3. 0 \in S
  BY <1>1
<1>4. ASSUME NEW m \in Nat, m \in S PROVE m + 1 \in S
  <2> SUFFICES ASSUME m + 2 <= n PROVE cs[m + 2] = cs[1] + (m + 1)
    BY <1>1
  <2>1. cs[m + 1] = cs[1] + m /\ 1 \in 1 .. n /\ m + 1 \in 1 .. n - 1
    BY <1>1, <1>4
  <2>2. cs[(m + 1) + 1] = cs[m + 1] + 1
    BY <1>2, <2>1
  <2> QED BY <1>1, <2>1, <2>2
<1>5. \A m \in Nat : m \in S
  <2> HIDE DEF S
  <2> QED BY <1>3, <1>4, InductionOnSet
<1> SUFFICES ASSUME NEW k \in 1 .. n PROVE cs[k] = cs[1] + k - 1
  BY DEF n
<1>6. k - 1 \in S /\ k - 1 \in Nat
  BY <1>1, <1>5
<1> QED
  BY <1>1, <1>6

\* Where the walk stands, going around: everything free behind it is read,
\* nothing ahead of it is.
LEMMA WalkAround ==
  ASSUME VolumeAssumption,
         NEW free \in SUBSET Cluster, NEW start \in Cluster, NEW at \in Cluster, NEW wrapped,
         NEW seen \in SUBSET Cluster, NEW mapped,
         WalkAt(free, start, at, wrapped, seen, mapped)
  PROVE  /\ \A c \in seen : Ahead(c, start) < Ahead(at, start)
         /\ \A c \in free : Ahead(c, start) < Ahead(at, start) => c \in seen
         /\ at = start \/ at \in free
         /\ start <= at => ~wrapped
<1> USE DEF Cluster, VolumeAssumption, Ahead
<1>1. CASE AtTheStart(start, at, wrapped, seen)
  BY <1>1 DEF AtTheStart
<1>2. CASE ~wrapped /\ StillAhead(free, start, at, seen)
  BY <1>2 DEF StillAhead
<1>3. CASE wrapped /\ Wrapped(free, start, at, seen)
  BY <1>3 DEF Wrapped
<1>4. CASE AtTheEnd(free, at, wrapped, seen, mapped)
  BY <1>4 DEF AtTheEnd
<1> QED
  BY <1>1, <1>2, <1>3, <1>4 DEF WalkAt

\* The walk goes from a cluster to the next one if that is free.
LEMMA NextIsFollowing ==
  ASSUME VolumeAssumption, w.at \in Cluster, w.at + 1 \in FreeClusters, w.wrapped = FALSE
  PROVE  Follow(has_map).cluster = w.at + 1
<1> DEFINE ahead == {c \in FreeClusters : c > w.at /\ c < MaxCluster + 1}
<1>1. /\ FreeClusters \in SUBSET Cluster /\ w.at \in Nat
      /\ \A c \in FreeClusters : c \in Nat /\ c <= MaxCluster
  <2>1. FreeClusters \in SUBSET Cluster
    BY DEF FreeClusters
  <2> QED BY <2>1 DEF Cluster, VolumeAssumption
<1>2. w.at + 1 \in ahead /\ \A c \in ahead : w.at + 1 <= c
  BY <1>1 DEF VolumeAssumption
<1>3. Min(ahead) = w.at + 1
  <2>1. ahead \in SUBSET Cluster
    BY <1>1
  <2> HIDE DEF ahead
  <2>2. Min(ahead) \in ahead /\ \A c \in ahead : Min(ahead) <= c
    BY <1>2, <2>1, LeastCluster
  <2>3. Min(ahead) \in Nat
    BY <2>1, <2>2, ClusterFacts
  <2> QED BY <1>1, <1>2, <2>2, <2>3
<1>4. Follow(has_map).cluster = Min(ahead)
  BY <1>2 DEF Follow, NextAfter
<1> QED
  BY <1>3, <1>4

(* --------------------------- How a copy stands -------------------------- *)

\* Writer v has put out the first blocks of x, and nothing else.
PutOut(v, x) ==
  /\ Len(v.out) <= Len(home[x]) /\ v.left = Len(home[x]) - Len(v.out)
  /\ \A i \in 1 .. Len(v.out) : v.out[i] = [of |-> x, block |-> i]
\* What is next of a file in one piece, and of one along its chain, which may
\* be cut.
Straight(v, x) ==
  /\ v.how = "contiguous" => Consecutive(home[x])
  /\ v.how = "chain" => ~Consecutive(home[x])
  /\ Len(v.out) < Len(home[x]) =>
       /\ Consecutive(home[x]) => v.at = home[x][Len(v.out) + 1]
       /\ v.how = "chain" => v.at = home[x][Len(v.out) + 1] \/ v.at \notin Cluster
\* The walk over the free clusters has read of x what it put out; what it
\* passed over are open gaps in x.
JpegAt(x, k) == IF Ext[x] # "jpg" THEN "off" ELSE IF k = 0 THEN "start" ELSE "scan"
Around(v, x) ==
  v.how \in FreeWalks =>
    /\ \A i \in 1 .. Len(home[x]) : home[x][i] \in ToSet(v.read) <=> i <= Len(v.out)
    /\ v.tries <= Cardinality(ToSet(v.read) \cap OpenGaps(x))
    /\ v.jpeg = JpegAt(x, Len(v.out))
Copied(v, x) == PutOut(v, x) /\ Straight(v, x) /\ Around(v, x)
Copies == pc = "copy" /\ w.e.name \in Files /\ Recoverable(w.e.name) => Copied(w, w.e.name)

\* A copy that begins where the file does.
LEMMA CopyBegins ==
  ASSUME VolumeAssumption, VolumeTyped, NEW e, e.name \in Files, Intact(e.name), Exact(e),
         NEW how,
         how = "contiguous" => Consecutive(home[e.name]),
         how = "chain" => ~Consecutive(home[e.name])
  PROVE  Copied(Writer(e, how), e.name)
<1> DEFINE x == e.name
           v == Writer(e, how)
<1>1. home[x] \in Seq(Cluster) /\ Len(home[x]) \in Nat \ {0}
  BY FirstBlock DEF Names
<1>2. /\ v.how = how /\ v.at = home[x][1] /\ v.left = Len(home[x]) /\ v.tries = 0
      /\ v.out = <<>> /\ v.read = <<>>
      /\ how \in FreeWalks => v.jpeg = IF Ext[x] = "jpg" THEN "start" ELSE "off"
  BY DEF Writer, Exact, Measures, SizeIs
<1>3. Len(<<>>) = 0 /\ ToSet(<<>>) = {} /\ Cardinality({}) = 0
  BY FS_EmptySet DEF ToSet
<1> HIDE DEF x, v
<1>4. PutOut(v, x)
  BY <1>1, <1>2, <1>3 DEF PutOut
<1>5. Straight(v, x)
  BY <1>1, <1>2, <1>3 DEF Straight, x
<1>6. Around(v, x)
  <2>1. v.jpeg = JpegAt(x, 0) \/ how \notin FreeWalks
    BY <1>2 DEF JpegAt
  <2>2. {} \cap OpenGaps(x) = {}
    OBVIOUS
  <2>3. \A k \in 1 .. Len(home[x]) : ~(k <= 0)
    OBVIOUS
  <2>4. \A k \in 1 .. Len(home[x]) : home[x][k] \in ToSet(v.read) <=> k <= Len(v.out)
    BY <1>2, <1>3, <2>3
  <2>5. v.tries <= Cardinality(ToSet(v.read) \cap OpenGaps(x))
    <3>1. ToSet(v.read) = {} /\ v.tries = 0
      BY <1>2, <1>3
    <3>2. Cardinality(ToSet(v.read) \cap OpenGaps(x)) = 0
      BY <1>3, <2>2, <3>1
    <3> QED BY <3>1, <3>2
  <2>6. v.how \in FreeWalks => v.jpeg = JpegAt(x, Len(v.out))
    <3>1. Len(v.out) = 0 /\ v.how = how
      BY <1>2, <1>3
    <3> QED BY <2>1, <3>1
  <2> QED BY <2>4, <2>5, <2>6 DEF Around
<1> QED
  BY <1>4, <1>5, <1>6 DEF Copied, x, v

\* What Take does to the writer.
LEMMA TakeEffect ==
  ASSUME w \in WriterType, NEW next, NEW wrapped, NEW jpeg, Take(next, wrapped, jpeg)
  PROVE  /\ w'.how = w.how /\ w'.e = w.e /\ w'.at = next /\ w'.left = w.left - 1 /\ w'.tries = 0
         /\ w'.jpeg = jpeg /\ w'.out = Append(w.out, data[w.at]) /\ w'.read = Append(w.read, w.at)
BY DEF Take, WriterType

\* The next block of x is put out.
LEMMA NextPutOut ==
  ASSUME VolumeAssumption, VolumeTyped, NEW x \in Files, Intact(x), w \in WriterType, PutOut(w, x),
         Len(w.out) < Len(home[x]), w.at = home[x][Len(w.out) + 1],
         NEW v, v.out = Append(w.out, data[w.at]), v.left = w.left - 1
  PROVE  PutOut(v, x) /\ Len(v.out) = Len(w.out) + 1
<1> DEFINE k == Len(w.out)
           b == data[w.at]
<1>1. /\ Len(home[x]) \in Nat
      /\ \A i \in 1 .. Len(home[x]) : data[home[x][i]] = [of |-> x, block |-> i]
  BY FirstBlock DEF Names
<1>2. w.out \in Seq(BlockType) /\ k \in Nat
  BY DEF WriterType
<1>3. b = [of |-> x, block |-> k + 1]
  BY <1>1, <1>2
<1>4. b \in BlockType
  BY <1>2, <1>3 DEF BlockType, Names
<1> HIDE DEF b
<1>5. /\ Len(Append(w.out, b)) = k + 1 /\ Append(w.out, b)[k + 1] = b
      /\ \A i \in 1 .. k : Append(w.out, b)[i] = w.out[i]
  BY <1>2, <1>4
<1>6. v.out = Append(w.out, b)
  BY DEF b
<1>7. \A i \in 1 .. k + 1 : v.out[i] = [of |-> x, block |-> i]
  <2> SUFFICES ASSUME NEW i \in 1 .. k + 1 PROVE v.out[i] = [of |-> x, block |-> i]
    OBVIOUS
  <2>1. CASE i = k + 1
    BY <1>3, <1>5, <1>6, <2>1
  <2>2. CASE i # k + 1
    <3>1. i \in 1 .. k
      BY <1>2, <2>2
    <3> QED BY <1>5, <1>6, <3>1 DEF PutOut
  <2> QED BY <2>1, <2>2
<1>8. Len(v.out) = k + 1
  BY <1>5, <1>6
<1>9. k <= Len(home[x]) /\ w.left = Len(home[x]) - k /\ k < Len(home[x])
  BY DEF PutOut
<1>10. k + 1 <= Len(home[x]) /\ v.left = Len(home[x]) - (k + 1)
  <2>1. v.left = w.left - 1
    OBVIOUS
  <2> HIDE DEF k
  <2> QED BY <1>1, <1>2, <1>9, <2>1
<1> HIDE DEF k
<1>11. PutOut(v, x)
  BY <1>7, <1>8, <1>10 DEF PutOut
<1> QED
  BY <1>8, <1>11 DEF k

(* ------------------------- Along the free clusters ---------------------- *)

\* What is known of a file being reassembled that can come back.
Restoring(x) ==
  /\ VolumeTyped /\ IInv /\ Measured /\ pc = "copy" /\ w \in WriterType
  /\ x \in Files /\ x = w.e.name /\ Recoverable(x) /\ Exact(w.e) /\ Copied(w, x)

\* The walk meets the next cluster of the file, or an open gap in it that
\* only a JPEG can have, filled with what no JPEG contains.
InTheGap(x) ==
  /\ w.at \in OpenGaps(x) /\ w.at \notin ToSet(w.read) /\ w.at \notin OnDisk(x)
  /\ Len(w.out) > 0 /\ ~Consecutive(home[x]) /\ has_map
  /\ Ext[x] = "jpg" /\ Cardinality(OpenGaps(x)) <= MaxTries /\ ~Accepts("scan", data[w.at])
LEMMA WalkMeets ==
  ASSUME VolumeAssumption, NEW x, Restoring(x), w.how \in FreeWalks, w.at \in Cluster, w.left > 0
  PROVE  Len(w.out) < Len(home[x]) /\ (w.at = home[x][Len(w.out) + 1] \/ InTheGap(x))
<1> DEFINE cs == home[x]
           k == Len(w.out)
           n == Len(cs)
           s == cs[1]
           seen == ToSet(w.read)
<1>1. /\ VolumeTyped /\ IInv /\ Measured /\ w \in WriterType /\ x \in Files /\ x = w.e.name
      /\ Recoverable(x) /\ Exact(w.e) /\ PutOut(w, x) /\ Straight(w, x) /\ Around(w, x) /\ pc = "copy"
      /\ InUseIsMarked /\ Reading
  BY DEF Restoring, Copied, IInv
<1>2. /\ x \in Names /\ Intact(x) /\ \A i \in 1 .. n : cs[i] \in FreeClusters
  BY <1>1, RecoverableFacts
<1>3. /\ cs \in Seq(Cluster) /\ n \in Nat \ {0} /\ 1 \in 1 .. n /\ k \in Nat /\ s \in Cluster
      /\ \A i \in 1 .. n : cs[i] \in Cluster
  BY <1>1, <1>2, FirstBlock DEF WriterType
<1>4. k < n
  <2>1. w.left = n - k /\ w.left > 0
    BY <1>1 DEF PutOut
  <2>2. n \in Nat /\ k \in Nat
    BY <1>3
  <2> HIDE DEF n, k
  <2> QED BY <2>1, <2>2
<1>5. w.e.start = s
  BY <1>1 DEF Exact
<1>6. /\ s \in Cluster /\ seen \in SUBSET Cluster /\ FreeClusters \in SUBSET Cluster
      /\ WalkAt(FreeClusters, s, w.at, w.wrapped, seen, has_map)
  <2>1. WalkInOrder /\ w.read \in Seq(Cluster)
    BY <1>1 DEF Reading
  <2>2. seen \in SUBSET Cluster
    BY <2>1 DEF ToSet
  <2>3. WalkAt(FreeClusters, s, w.at, w.wrapped, seen, has_map)
    BY <1>5, <2>1 DEF WalkInOrder
  <2>4. FreeClusters \in SUBSET Cluster
    BY DEF FreeClusters
  <2> QED BY <1>3, <2>2, <2>3, <2>4
<1>7. /\ \A c \in FreeClusters : Ahead(c, s) < Ahead(w.at, s) => c \in seen
      /\ w.at = s \/ w.at \in FreeClusters
  <2> HIDE DEF s, seen
  <2> QED BY <1>6, WalkAround
<1>8. w.at \notin seen
  BY <1>3, <1>6, WalkIsFresh
<1>9. \A i \in 1 .. n : cs[i] \in seen <=> i <= k
  BY <1>1 DEF Around
<1>10. k + 1 \in 1 .. n /\ cs[k + 1] \notin seen /\ cs[k + 1] \in FreeClusters
  BY <1>2, <1>3, <1>4, <1>9
<1>11. /\ Ahead(w.at, s) \in Nat /\ Ahead(cs[k + 1], s) \in Nat
       /\ Ahead(w.at, s) <= Ahead(cs[k + 1], s)
  <2>1. cs[k + 1] \in Cluster
    BY <1>3, <1>10
  <2> HIDE DEF s
  <2>2. Ahead(w.at, s) \in Nat /\ Ahead(cs[k + 1], s) \in Nat
    BY <1>3, <2>1, AheadApart
  <2> QED BY <1>7, <1>10, <2>2
<1>12. Ascends(cs)
  BY <1>1, <1>2 DEF Measured, HomesAscend
<1>13. ASSUME NEW i \in 1 .. n, w.at = cs[i]
       PROVE  w.at = cs[k + 1]
  <2>1. i > k
    BY <1>3, <1>8, <1>9, <1>13
  <2>2. i <= k + 1
    BY <1>3, <1>10, <1>11, <1>12, <1>13, AscendFits
  <2>3. i = k + 1
    BY <1>3, <2>1, <2>2
  <2> QED BY <1>13, <2>3
<1>14. ASSUME w.at # cs[k + 1]
       PROVE  InTheGap(x)
  <2>1. w.at \notin OnDisk(x)
    <3>1. DOMAIN cs = 1 .. n
      BY <1>3
    <3> QED BY <1>13, <1>14, <3>1 DEF OnDisk
  <2>2. k > 0
    <3> SUFFICES ASSUME k = 0 PROVE FALSE
      BY <1>3
    <3>1. Ahead(s, s) = 0
      BY <1>3, AheadApart
    <3>2. Ahead(w.at, s) = Ahead(s, s)
      BY <1>11, <3>1
    <3>3. w.at = s
      BY <1>3, <3>2, AheadApart
    <3> QED BY <1>14, <3>3
  <2>3. w.at \in FreeClusters
    <3>1. w.at # s
      BY <1>3, <1>13, <1>14
    <3> QED BY <1>7, <3>1
  <2>4. ~Consecutive(cs)
    BY <1>1, <1>4, <1>14 DEF Straight
  <2>5. Ahead(w.at, s) < Ahead(Last(cs), s)
    <3>1. Last(cs) = cs[n] /\ n \in 1 .. n
      BY <1>3 DEF Last
    <3>2. Ahead(w.at, s) # Ahead(cs[k + 1], s)
      BY <1>3, <1>10, <1>14, AheadApart
    <3>3. Ahead(cs[k + 1], s) <= Ahead(cs[n], s)
      <4>1. CASE k + 1 = n
        BY <1>11, <4>1
      <4>2. CASE k + 1 # n
        <5>1. Ahead(cs[k + 1], s) < Ahead(cs[n], s)
          BY <1>3, <1>10, <1>12, <3>1, <4>2 DEF Ascends
        <5>2. Ahead(cs[n], s) \in Nat
          BY <1>3, <3>1, AheadApart
        <5> QED BY <1>11, <5>1, <5>2
      <4> QED BY <4>1, <4>2
    <3>4. Ahead(cs[n], s) \in Nat
      BY <1>3, <3>1, AheadApart
    <3> QED BY <1>11, <3>1, <3>2, <3>3, <3>4
  <2>6. w.at \in Gaps(x)
    BY <2>1, <2>5 DEF Gaps
  <2>7. \/ has_map /\ OpenGaps(x) = {}
        \/ /\ has_map /\ Ext[x] = "jpg" /\ Cardinality(OpenGaps(x)) <= MaxTries
           /\ \A c \in OpenGaps(x) : ~Accepts("scan", data[c])
    BY <1>1, <2>4 DEF Recoverable, OpenGaps
  <2>8. w.at \notin used
    BY <1>1, <2>3, <2>7 DEF FreeClusters, ClusterIsFree, ClusterAllocated, InUseIsMarked
  <2>9. w.at \in OpenGaps(x)
    BY <2>6, <2>8 DEF OpenGaps
  <2> QED BY <1>8, <2>1, <2>2, <2>4, <2>7, <2>9 DEF InTheGap
<1> QED
  BY <1>4, <1>14

\* Gaps can be counted.
LEMMA GapsCount ==
  ASSUME VolumeAssumption, NEW x
  PROVE  /\ IsFiniteSet(OpenGaps(x)) /\ Cardinality(OpenGaps(x)) \in Nat
         /\ \A S : /\ IsFiniteSet(S \cap OpenGaps(x)) /\ Cardinality(S \cap OpenGaps(x)) \in Nat
                  /\ \A c \in OpenGaps(x) : c \notin S =>
                       /\ Cardinality(S \cap OpenGaps(x)) < Cardinality(OpenGaps(x))
                       /\ Cardinality((S \cup {c}) \cap OpenGaps(x)) = Cardinality(S \cap OpenGaps(x)) + 1
<1> DEFINE G == OpenGaps(x)
<1>1. G \in SUBSET Cluster
  BY DEF OpenGaps, Gaps
<1>2. IsFiniteSet(Cluster)
  BY FS_Interval DEF Cluster, VolumeAssumption
<1>3. IsFiniteSet(G) /\ Cardinality(G) \in Nat
  BY <1>1, <1>2, FS_Subset, FS_CardinalityType
<1> HIDE DEF G
<1>4. ASSUME NEW S
      PROVE  IsFiniteSet(S \cap G) /\ Cardinality(S \cap G) \in Nat
  BY <1>3, FS_Subset, FS_CardinalityType
<1>5. ASSUME NEW S, NEW c \in G, c \notin S
      PROVE  /\ Cardinality(S \cap G) < Cardinality(G)
             /\ Cardinality((S \cup {c}) \cap G) = Cardinality(S \cap G) + 1
  <2>1. S \cap G \in SUBSET G /\ S \cap G # G
    BY <1>5
  <2>2. Cardinality(S \cap G) <= Cardinality(G) /\ Cardinality(S \cap G) # Cardinality(G)
    BY <1>3, <2>1, FS_Subset
  <2>3. (S \cup {c}) \cap G = (S \cap G) \cup {c} /\ c \notin S \cap G
    BY <1>5
  <2>4. Cardinality((S \cap G) \cup {c}) = Cardinality(S \cap G) + 1
    BY <1>4, <2>3, FS_AddElement
  <2> QED BY <1>3, <1>4, <2>2, <2>3, <2>4
<1> QED
  BY <1>3, <1>4, <1>5 DEF G

\* The file's own next block is accepted, whatever the file is; a scan needs
\* more of its own kind.
LEMMA NextFits ==
  ASSUME UndeleteAssumption, NEW x \in Files, NEW k \in Nat, NEW b, b = [of |-> x, block |-> k + 1]
  PROVE  Accepts(JpegAt(x, k), b)
<1>1. b.of = x /\ b.block = k + 1
  OBVIOUS
<1>2. Ext[x] = "jpg" => x \notin Refused
  BY DEF UndeleteAssumption
<1> QED
  BY <1>1, <1>2 DEF Accepts, JpegAt

\* Restoring(x) in parts.
LEMMA RestoringFacts ==
  ASSUME VolumeAssumption, NEW x, Restoring(x)
  PROVE  /\ PutOut(w, x) /\ Straight(w, x) /\ Around(w, x) /\ w \in WriterType
         /\ x \in Names /\ Intact(x) /\ w.e.start = home[x][1]
         /\ home[x] \in Seq(Cluster) /\ Len(home[x]) \in Nat \ {0} /\ Len(w.out) \in Nat
         /\ w.read \in Seq(Cluster)
         /\ \A i \in 1 .. Len(home[x]) :
              /\ home[x][i] \in Cluster /\ home[x][i] \in FreeClusters
              /\ data[home[x][i]] = [of |-> x, block |-> i]
         /\ \A i, j \in 1 .. Len(home[x]) : home[x][i] = home[x][j] => i = j
<1>1. /\ VolumeTyped /\ IInv /\ Measured /\ w \in WriterType /\ x \in Files /\ x = w.e.name
      /\ Recoverable(x) /\ Exact(w.e) /\ PutOut(w, x) /\ Straight(w, x) /\ Around(w, x)
  BY DEF Restoring, Copied
<1>2. /\ x \in Names /\ Intact(x) /\ \A i \in 1 .. Len(home[x]) : home[x][i] \in FreeClusters
  BY <1>1, RecoverableFacts DEF IInv
<1>3. /\ home[x] \in Seq(Cluster) /\ Len(home[x]) \in Nat \ {0}
      /\ \A i \in 1 .. Len(home[x]) :
           home[x][i] \in Cluster /\ data[home[x][i]] = [of |-> x, block |-> i]
  BY <1>1, <1>2, FirstBlock
<1>4. Len(w.out) \in Nat /\ w.read \in Seq(Cluster)
  BY <1>1 DEF WriterType
<1>5. w.e.start = home[x][1]
  BY <1>1 DEF Exact
<1>6. \A i, j \in 1 .. Len(home[x]) : home[x][i] = home[x][j] => i = j
  <2>1. Ascends(home[x])
    BY <1>1, <1>2 DEF Measured, HomesAscend
  <2> QED BY <1>3, <2>1, AscendFits
<1> QED
  BY <1>1, <1>2, <1>3, <1>4, <1>5, <1>6

\* A cluster taken on the walk is the next of the file.
LEMMA TakeCopies ==
  ASSUME VolumeAssumption, UndeleteAssumption, NEW x, Restoring(x), NEW how \in FreeWalks,
         TakeFreeCluster(how)
  PROVE  Copied(w', x)
<1> DEFINE cs == home[x]
           k == Len(w.out)
           n == Len(cs)
           b == data[w.at]
           next == Follow(has_map)
           fits == Accepts(w.jpeg, b)
           jpeg == IF ~fits \/ w.jpeg = "off" THEN "off" ELSE "scan"
<1>1. /\ PutOut(w, x) /\ Straight(w, x) /\ Around(w, x) /\ w \in WriterType
      /\ Intact(x) /\ w.e.start = cs[1] /\ cs \in Seq(Cluster) /\ n \in Nat \ {0} /\ k \in Nat
      /\ w.read \in Seq(Cluster)
      /\ \A i \in 1 .. n :
           cs[i] \in Cluster /\ cs[i] \in FreeClusters /\ data[cs[i]] = [of |-> x, block |-> i]
      /\ \A i, j \in 1 .. n : cs[i] = cs[j] => i = j
  BY RestoringFacts
<1>2. /\ w.how = how /\ w.left > 0 /\ w.at \in Cluster
      /\ fits \/ w.out = <<>> \/ ~has_map \/ w.tries >= MaxTries
      /\ Take(next.cluster, next.wrapped, jpeg)
  BY DEF TakeFreeCluster, Copying
<1>3. x \in Files /\ VolumeTyped /\ IInv /\ pc = "copy"
  BY DEF Restoring
<1>4. k < n /\ (w.at = cs[k + 1] \/ InTheGap(x))
  BY <1>2, WalkMeets
<1>5. w.jpeg = JpegAt(x, k) /\ w.tries <= Cardinality(ToSet(w.read) \cap OpenGaps(x))
      /\ \A i \in 1 .. n : cs[i] \in ToSet(w.read) <=> i <= k
  BY <1>1, <1>2 DEF Around
<1>6. w.at = cs[k + 1]
  <2> SUFFICES ASSUME InTheGap(x) PROVE FALSE
    BY <1>4
  <2>1. /\ w.at \in OpenGaps(x) /\ w.at \notin ToSet(w.read) /\ k > 0 /\ has_map
        /\ Ext[x] = "jpg" /\ Cardinality(OpenGaps(x)) <= MaxTries /\ ~Accepts("scan", b)
    BY DEF InTheGap
  <2>2. ~fits
    BY <1>5, <2>1 DEF JpegAt
  <2>3. w.out # <<>>
    BY <2>1
  <2>4. Cardinality(ToSet(w.read) \cap OpenGaps(x)) < Cardinality(OpenGaps(x))
    BY <2>1, GapsCount
  <2>5. /\ Cardinality(ToSet(w.read) \cap OpenGaps(x)) \in Nat /\ Cardinality(OpenGaps(x)) \in Nat
        /\ w.tries \in Nat /\ MaxTries \in Nat
    <3>1. w.tries \in 0 .. MaxTries /\ MaxTries \in Nat
      BY <1>1 DEF WriterType, UndeleteAssumption
    <3>2. Cardinality(ToSet(w.read) \cap OpenGaps(x)) \in Nat /\ Cardinality(OpenGaps(x)) \in Nat
      BY GapsCount
    <3> QED BY <3>1, <3>2
  <2>6. w.tries >= MaxTries
    BY <1>2, <2>1, <2>2, <2>3
  <2> QED BY <1>5, <2>1, <2>4, <2>5, <2>6
<1>7. k + 1 \in 1 .. n /\ b = [of |-> x, block |-> k + 1]
  BY <1>1, <1>4, <1>6
<1>8. fits
  BY <1>1, <1>3, <1>5, <1>7, NextFits
<1>9. /\ w'.how = how /\ w'.at = next.cluster /\ w'.left = w.left - 1 /\ w'.tries = 0
      /\ w'.jpeg = jpeg /\ w'.out = Append(w.out, b) /\ w'.read = Append(w.read, w.at)
  <2> HIDE DEF next, jpeg
  <2> QED BY <1>1, <1>2, TakeEffect
<1>10. PutOut(w', x) /\ Len(w'.out) = k + 1
  BY <1>1, <1>3, <1>4, <1>6, <1>9, NextPutOut
<1>11. Straight(w', x)
  <2>1. how # "contiguous" /\ how # "chain"
    BY DEF FreeWalks
  <2>2. ASSUME Consecutive(cs), k + 1 < n
        PROVE  next.cluster = cs[(k + 1) + 1]
    <3>1. k + 1 \in 1 .. n - 1 /\ k + 2 \in 1 .. n /\ k + 2 = (k + 1) + 1
      BY <1>1, <2>2
    <3>2. cs[k + 2] = w.at + 1
      <4>1. cs[(k + 1) + 1] = cs[k + 1] + 1
        BY <2>2, <3>1 DEF Consecutive
      <4> QED BY <1>6, <3>1, <4>1
    <3>3. w.at \in Cluster /\ w.at + 1 \in FreeClusters
      <4>1. cs[k + 2] \in FreeClusters
        BY <1>1, <3>1
      <4> HIDE DEF cs, k
      <4> QED BY <1>2, <3>2, <4>1
    <3>4. cs[1] <= w.at
      <4>1. cs[k + 1] = cs[1] + (k + 1) - 1
        BY <1>1, <1>7, <2>2, InOnePiece
      <4>2. cs[1] \in Nat
        BY <1>1, ClusterFacts
      <4> QED BY <1>1, <1>6, <4>1, <4>2
    <3>5. WalkAt(FreeClusters, cs[1], w.at, w.wrapped, ToSet(w.read), has_map)
      BY <1>1, <1>2, <1>3 DEF IInv, Reading, WalkInOrder
    <3>6. FreeClusters \in SUBSET Cluster /\ ToSet(w.read) \in SUBSET Cluster /\ cs[1] \in Cluster
      BY <1>1 DEF FreeClusters, ToSet
    <3>7. w.wrapped = FALSE
      <4>1. ~w.wrapped
        <5>1. PICK start \in Cluster : start = cs[1]
          BY <3>6
        <5>2. start \in Nat /\ w.at \in Nat /\ start <= w.at
          BY <3>3, <3>4, <5>1, ClusterFacts
        <5>3. WalkAt(FreeClusters, start, w.at, w.wrapped, ToSet(w.read), has_map)
          BY <3>5, <5>1
        <5> QED BY <3>3, <5>2, <5>3 DEF WalkAt, AtTheStart, StillAhead, Wrapped, AtTheEnd
      <4>2. w.wrapped \in BOOLEAN
        BY <1>1 DEF WriterType
      <4> QED BY <4>1, <4>2
    <3>8. next.cluster = w.at + 1
      BY <3>3, <3>7, NextIsFollowing
    <3> QED BY <3>1, <3>2, <3>8
  <2> QED BY <1>9, <1>10, <2>1, <2>2 DEF Straight
<1>12. Around(w', x)
  <2>1. ToSet(w'.read) = ToSet(w.read) \cup {w.at}
    BY <1>1, <1>2, <1>9, OneMoreRead
  <2>2. \A i \in 1 .. n : cs[i] \in ToSet(w'.read) <=> i <= k + 1
    <3> SUFFICES ASSUME NEW i \in 1 .. n PROVE cs[i] \in ToSet(w'.read) <=> i <= k + 1
      OBVIOUS
    <3>1. cs[i] \in ToSet(w'.read) <=> i <= k \/ i = k + 1
      BY <1>1, <1>5, <1>6, <1>7, <2>1
    <3> QED BY <1>1, <3>1
  <2>3. 0 <= Cardinality(ToSet(w'.read) \cap OpenGaps(x))
    <3>1. Cardinality(ToSet(w'.read) \cap OpenGaps(x)) \in Nat
      BY GapsCount
    <3> QED BY <3>1
  <2>4. jpeg = JpegAt(x, k + 1)
    BY <1>1, <1>5, <1>8 DEF JpegAt
  <2> HIDE DEF jpeg
  <2> QED BY <1>9, <1>10, <2>2, <2>3, <2>4 DEF Around
<1> QED
  BY <1>10, <1>11, <1>12 DEF Copied

\* A cluster passed over on the walk is an open gap in the file.
LEMMA PassCopies ==
  ASSUME VolumeAssumption, UndeleteAssumption, NEW x, Restoring(x), NEW how \in FreeWalks,
         PassOver(how)
  PROVE  Copied(w', x)
<1> DEFINE cs == home[x]
           k == Len(w.out)
           n == Len(cs)
           b == data[w.at]
           next == Follow(TRUE)
<1>1. /\ PutOut(w, x) /\ Straight(w, x) /\ Around(w, x) /\ w \in WriterType
      /\ cs \in Seq(Cluster) /\ n \in Nat \ {0} /\ k \in Nat /\ w.read \in Seq(Cluster)
      /\ \A i \in 1 .. n : cs[i] \in Cluster /\ data[cs[i]] = [of |-> x, block |-> i]
  BY RestoringFacts
<1>2. w.how = how /\ w.left > 0 /\ w.at \in Cluster /\ ~Accepts(w.jpeg, b)
  BY DEF PassOver, Copying
<1>3. w' = [w EXCEPT !.at = next.cluster, !.wrapped = next.wrapped, !.tries = @ + 1,
                     !.read = Append(@, w.at)]
  BY DEF PassOver
<1>4. k < n /\ (w.at = cs[k + 1] \/ InTheGap(x))
  BY <1>2, WalkMeets
<1>5. w.jpeg = JpegAt(x, k) /\ w.tries <= Cardinality(ToSet(w.read) \cap OpenGaps(x))
      /\ \A i \in 1 .. n : cs[i] \in ToSet(w.read) <=> i <= k
  BY <1>1, <1>2 DEF Around
<1>6. InTheGap(x)
  <2> SUFFICES ASSUME w.at = cs[k + 1] PROVE FALSE
    BY <1>4
  <2>1. k + 1 \in 1 .. n /\ b = [of |-> x, block |-> k + 1]
    BY <1>1, <1>4
  <2>2. x \in Files
    BY DEF Restoring
  <2> QED BY <1>1, <1>2, <1>5, <2>1, <2>2, NextFits
<1>7. w.at \in OpenGaps(x) /\ w.at \notin ToSet(w.read) /\ w.at \notin OnDisk(x) /\ ~Consecutive(cs)
  BY <1>6 DEF InTheGap
<1>8. /\ w'.how = how /\ w'.left = w.left /\ w'.tries = w.tries + 1 /\ w'.jpeg = w.jpeg
      /\ w'.out = w.out /\ w'.read = Append(w.read, w.at)
  <2> HIDE DEF next
  <2> QED BY <1>1, <1>2, <1>3 DEF WriterType
<1>9. PutOut(w', x)
  BY <1>1, <1>8 DEF PutOut
<1>10. Straight(w', x)
  <2>1. how # "contiguous" /\ how # "chain"
    BY DEF FreeWalks
  <2> QED BY <1>7, <1>8, <2>1 DEF Straight
<1>11. Around(w', x)
  <2>1. ToSet(w'.read) = ToSet(w.read) \cup {w.at}
    BY <1>1, <1>2, <1>8, OneMoreRead
  <2>2. \A i \in 1 .. n : cs[i] # w.at
    <3>1. DOMAIN cs = 1 .. n
      BY <1>1
    <3> QED BY <1>7, <3>1 DEF OnDisk
  <2>3. \A i \in 1 .. n : cs[i] \in ToSet(w'.read) <=> i <= k
    BY <1>5, <2>1, <2>2
  <2>4. w.tries + 1 <= Cardinality(ToSet(w'.read) \cap OpenGaps(x))
    <3>1. /\ Cardinality((ToSet(w.read) \cup {w.at}) \cap OpenGaps(x))
             = Cardinality(ToSet(w.read) \cap OpenGaps(x)) + 1
          /\ Cardinality(ToSet(w.read) \cap OpenGaps(x)) \in Nat
      BY <1>7, GapsCount
    <3>2. w.tries \in Nat
      <4>1. w.tries \in 0 .. MaxTries /\ MaxTries \in Nat
        BY <1>1 DEF WriterType, UndeleteAssumption
      <4> QED BY <4>1
    <3> QED BY <1>5, <2>1, <3>1, <3>2
  <2> QED BY <1>5, <1>8, <2>3, <2>4 DEF Around
<1> QED
  BY <1>9, <1>10, <1>11 DEF Copied

(* ---------------------- In one piece, along the chain ------------------- *)

\* copy_contiguous reads the file's own clusters, one after the other.
LEMMA ContiguousCopies ==
  ASSUME VolumeAssumption, UndeleteAssumption, NEW x, Restoring(x), CopyContiguous
  PROVE  Copied(w', x)
<1> DEFINE cs == home[x]
           k == Len(w.out)
           n == Len(cs)
<1>1. /\ PutOut(w, x) /\ Straight(w, x) /\ w \in WriterType /\ Intact(x)
      /\ cs \in Seq(Cluster) /\ n \in Nat \ {0} /\ k \in Nat
  BY RestoringFacts
<1>2. w.how = "contiguous" /\ w.left > 0 /\ w.at \in Cluster /\ Take(w.at + 1, FALSE, "off")
  BY DEF CopyContiguous, Copying
<1>3. x \in Files /\ VolumeTyped
  BY DEF Restoring
<1>4. k < n
  <2>1. w.left = n - k /\ w.left > 0
    BY <1>1, <1>2 DEF PutOut
  <2>2. n \in Nat /\ k \in Nat
    BY <1>1
  <2> HIDE DEF n, k
  <2> QED BY <2>1, <2>2
<1>5. Consecutive(cs) /\ w.at = cs[k + 1]
  BY <1>1, <1>2, <1>4 DEF Straight
<1>6. /\ w'.how = "contiguous" /\ w'.at = w.at + 1 /\ w'.left = w.left - 1
      /\ w'.out = Append(w.out, data[w.at])
  BY <1>1, <1>2, TakeEffect
<1>7. PutOut(w', x) /\ Len(w'.out) = k + 1
  BY <1>1, <1>3, <1>4, <1>5, <1>6, NextPutOut
<1>8. Straight(w', x)
  <2>1. k + 1 < n => cs[(k + 1) + 1] = cs[k + 1] + 1
    <3>1. k + 1 < n => k + 1 \in 1 .. n - 1
      BY <1>1
    <3> QED BY <1>5, <3>1 DEF Consecutive
  <2> QED BY <1>5, <1>6, <1>7, <2>1 DEF Straight
<1>9. Around(w', x)
  BY <1>6 DEF Around, FreeWalks
<1> QED
  BY <1>7, <1>8, <1>9 DEF Copied

\* copy_chain reads them too, as far as the chain goes.
LEMMA ChainCopies ==
  ASSUME VolumeAssumption, UndeleteAssumption, NEW x, Restoring(x), fs = "exfat", CopyChain
  PROVE  Copied(w', x)
<1> DEFINE cs == home[x]
           k == Len(w.out)
           n == Len(cs)
<1>1. /\ PutOut(w, x) /\ Straight(w, x) /\ w \in WriterType /\ Intact(x) /\ x \in Names
      /\ cs \in Seq(Cluster) /\ n \in Nat \ {0} /\ k \in Nat
      /\ \A i \in 1 .. n : data[cs[i]] = [of |-> x, block |-> i]
  BY RestoringFacts
<1>2. w.how = "chain" /\ w.left > 0 /\ w.at \in Cluster /\ Take(NextCluster(w.at), FALSE, "off")
  BY DEF CopyChain, Copying
<1>3. x \in Files /\ VolumeTyped /\ ChainsLead
  BY DEF Restoring, Measured
<1>4. k < n
  <2>1. w.left = n - k /\ w.left > 0
    BY <1>1, <1>2 DEF PutOut
  <2>2. n \in Nat /\ k \in Nat
    BY <1>1
  <2> HIDE DEF n, k
  <2> QED BY <2>1, <2>2
<1>5. ~Consecutive(cs) /\ w.at = cs[k + 1]
  BY <1>1, <1>2, <1>4 DEF Straight
<1>6. /\ w'.how = "chain" /\ w'.at = NextCluster(w.at) /\ w'.left = w.left - 1
      /\ w'.out = Append(w.out, data[w.at])
  BY <1>1, <1>2, TakeEffect
<1>7. PutOut(w', x) /\ Len(w'.out) = k + 1
  BY <1>1, <1>3, <1>4, <1>5, <1>6, NextPutOut
<1>8. Straight(w', x)
  <2>1. ASSUME k + 1 < n, NextCluster(w.at) \in Cluster
        PROVE  NextCluster(w.at) = cs[(k + 1) + 1]
    <3>1. k + 1 \in 1 .. n - 1 /\ k + 1 \in 1 .. n
      BY <1>1, <2>1
    <3>2. data[cs[k + 1]] = [of |-> x, block |-> k + 1]
      BY <1>1, <3>1
    <3>3. fat[w.at] \in Cluster /\ NextCluster(w.at) = fat[w.at]
      BY <2>1, ClusterFacts DEF NextCluster
    <3>4. fat[cs[k + 1]] = cs[(k + 1) + 1]
      BY <1>1, <1>3, <1>5, <3>1, <3>2, <3>3 DEF ChainsLead
    <3> QED BY <1>5, <3>3, <3>4
  <2> QED BY <1>5, <1>6, <1>7, <2>1 DEF Straight
<1>9. Around(w', x)
  BY <1>6 DEF Around, FreeWalks
<1> QED
  BY <1>7, <1>8, <1>9 DEF Copied

\* A copy ends when the file is whole.
LEMMA EndsWhole ==
  ASSUME VolumeAssumption, UndeleteAssumption, NEW x, Restoring(x), Ended,
         w.how = "chain" => w.left = 0
  PROVE  w.out = [k \in DOMAIN home[x] |-> [of |-> x, block |-> k]]
<1> DEFINE cs == home[x]
           k == Len(w.out)
           n == Len(cs)
<1>1. /\ PutOut(w, x) /\ Straight(w, x) /\ Around(w, x) /\ w \in WriterType
      /\ cs \in Seq(Cluster) /\ n \in Nat \ {0} /\ k \in Nat
      /\ \A i \in 1 .. n : cs[i] \in Cluster /\ cs[i] \in FreeClusters
  BY RestoringFacts
<1>2. k <= n /\ w.left = n - k
  BY <1>1 DEF PutOut
<1>3. k = n
  <2> SUFFICES ASSUME k < n PROVE FALSE
    BY <1>1, <1>2
  <2>1. w.left # 0
    <3>1. n \in Nat /\ k \in Nat
      BY <1>1
    <3> HIDE DEF n, k
    <3> QED BY <1>2, <3>1
  <2>2. w.at \notin Cluster /\ w.how # "chain"
    BY <2>1 DEF Ended
  <2>3. k + 1 \in 1 .. n /\ cs[k + 1] \in Cluster /\ cs[k + 1] \in FreeClusters
    BY <1>1
  <2>4. ~Consecutive(cs)
    BY <1>1, <2>2, <2>3 DEF Straight
  <2>5. w.how \in FreeWalks
    <3>1. w.how # "contiguous"
      BY <1>1, <2>4 DEF Straight
    <3>2. w.how \in FreeWalks \cup {"contiguous", "chain"}
      BY <1>1 DEF WriterType
    <3> QED BY <2>2, <3>1, <3>2
  <2>6. has_map
    BY <2>4 DEF Restoring, Recoverable
  <2>7. FreeClusters \subseteq ToSet(w.read)
    <3>1. WalkAt(FreeClusters, w.e.start, w.at, w.wrapped, ToSet(w.read), has_map)
          /\ w.e.start \in Cluster /\ FreeClusters \subseteq Cluster
      BY <2>5 DEF Restoring, IInv, Reading, WalkInOrder, FreeClusters
    <3> QED BY <2>2, <2>6, <3>1 DEF WalkAt, AtTheStart, StillAhead, Wrapped, AtTheEnd
  <2>8. cs[k + 1] \in ToSet(w.read) <=> k + 1 <= k
    BY <1>1, <2>3, <2>5 DEF Around
  <2> QED BY <1>1, <2>3, <2>7, <2>8
<1>4. w.out \in Seq(BlockType) /\ \A i \in 1 .. k : w.out[i] = [of |-> x, block |-> i]
  BY <1>1 DEF WriterType, PutOut
<1>5. DOMAIN w.out = 1 .. n /\ DOMAIN cs = 1 .. n /\ w.out = [i \in DOMAIN w.out |-> w.out[i]]
  BY <1>1, <1>3, <1>4
<1> QED
  BY <1>3, <1>4, <1>5

(* --------------------------- The whole recovery ------------------------- *)

\* Only exFAT follows a chain.
ChainIsExfat == pc = "copy" /\ w.how = "chain" => fs = "exfat"
\* The record of a file that can come back says that it did.
Whole(r) ==
  r.name \in wanted /\ Recoverable(r.name) =>
    r.recovered /\ r.out = [k \in DOMAIN home[r.name] |-> [of |-> r.name, block |-> k]]
Accurate == ~dry_run /\ faults = 0 => \A i \in 1 .. Len(stats) : Whole(stats[i])
Restores == Exactly /\ Copies /\ ChainIsExfat /\ Accurate

\* What is said of an entry and of a record depends on the volume.
LEMMA SameExact ==
  ASSUME UNCHANGED volume, NEW e
  PROVE  ExactIfTold(e)' = ExactIfTold(e)
<1>1. home' = home /\ fs' = fs
  BY DEF volume
<1>2. \A x : Told(x)' = Told(x)
  BY SameVolumeSays DEF Told
<1>3. Exact(e)' = Exact(e)
  BY <1>1 DEF Exact, Measures, SizeIs
<1> QED
  BY <1>2, <1>3 DEF ExactIfTold
LEMMA SameWhole ==
  ASSUME UNCHANGED volume, has_map' = has_map, wanted' = wanted, NEW r
  PROVE  Whole(r)' = Whole(r)
<1>1. home' = home /\ \A x : Recoverable(x)' = Recoverable(x)
  BY SameRecoverable DEF volume
<1> QED
  BY <1>1 DEF Whole
LEMMA SameCopied ==
  ASSUME UNCHANGED volume, NEW v, NEW x
  PROVE  Copied(v, x)' = Copied(v, x)
<1>1. home' = home /\ used' = used
  BY DEF volume
<1>2. OpenGaps(x)' = OpenGaps(x)
  BY <1>1 DEF OpenGaps, Gaps, OnDisk
<1> QED
  BY <1>1, <1>2 DEF Copied, PutOut, Straight, Around, JpegAt

\* What is collected, and what is opened of it, stays exact.
LEMMA ExactlyStays ==
  ASSUME VolumeAssumption, UndeleteAssumption, Typed, Measured, InOrder, Exactly, Step
  PROVE  Exactly'
<1>1. VolumeTyped /\ VolumeSound /\ RecoveryTyped /\ UNCHANGED volume
  BY StepKeepsVolume DEF Typed
<1>2. deleted \in Seq(EntryType)
  BY <1>1 DEF RecoveryTyped, FilesTyped
<1>3. (\A i \in 1 .. Len(deleted') : ExactIfTold(deleted'[i])) /\ (pc' = "copy" => ExactIfTold(w'.e))
  <2>1. CASE Recover
    <3>1. deleted = <<>> /\ deleted' = deleted /\ pc' # "copy"
      BY <2>1 DEF Recover, InOrder
    <3> QED BY <3>1
  <2>2. CASE OpenFolder \/ ReadFolderCluster \/ Finished \/ Finish \/ WriteFails
    <3>1. deleted' = deleted /\ pc' # "copy"
      BY <2>2 DEF OpenFolder, ReadFolderCluster, Finished, Finish, WriteFails
    <3> QED BY <3>1 DEF Exactly
  <2>3. CASE ParseFolder
    <3>1. pc' # "copy"
      BY <2>3 DEF ParseFolder
    <3> QED BY <1>1, <2>3, <3>1, ParseExact
  <2>4. CASE NextFile
    <3>1. deleted # <<>> /\ deleted' = Tail(deleted) /\ pc = "walk"
      BY <2>4 DEF NextFile
    <3>2. /\ \A i \in 1 .. Len(Tail(deleted)) :
               i + 1 \in 1 .. Len(deleted) /\ Tail(deleted)[i] = deleted[i + 1]
          /\ 1 \in 1 .. Len(deleted) /\ Head(deleted) = deleted[1]
      BY <1>2, <3>1
    <3>3. ASSUME pc' = "copy" PROVE w'.e = Head(deleted)
      <4>1. PICK how : w' = Writer(Head(deleted), how)
        BY <2>4, <3>1, <3>3 DEF NextFile
      <4> QED BY <4>1 DEF Writer
    <3> QED BY <3>1, <3>2, <3>3 DEF Exactly
  <2>5. CASE WriteFile \/ CopySkippingAllocated \/ CopyContiguous \/ CopyChain \/ RewindChain
    <3>1. pc = "copy" /\ w'.e = w.e /\ deleted' = deleted
      BY <1>1, <2>5, CopyStepTyped
    <3> QED BY <3>1 DEF Exactly
  <2> QED BY <2>1, <2>2, <2>3, <2>4, <2>5 DEF Step
<1>4. ASSUME NEW i \in 1 .. Len(deleted') PROVE ExactIfTold(deleted[i])'
  <2>1. PICK e : e = deleted'[i]
    OBVIOUS
  <2>2. ExactIfTold(e)'
    BY <1>1, <1>3, <2>1, SameExact
  <2> QED BY <2>1, <2>2
<1>5. ASSUME pc' = "copy" PROVE ExactIfTold(w.e)'
  <2>1. PICK e : e = w'.e
    OBVIOUS
  <2>2. ExactIfTold(e)'
    BY <1>1, <1>3, <1>5, <2>1, SameExact
  <2> QED BY <2>1, <2>2
<1> QED
  BY <1>4, <1>5 DEF Exactly

\* A chain is followed, and given up, in exFAT volumes.
LEMMA ChainStays ==
  ASSUME VolumeAssumption, UndeleteAssumption, Typed, ChainIsExfat, Step
  PROVE  ChainIsExfat'
<1>1. RecoveryTyped /\ fs' = fs
  BY StepKeepsVolume DEF Typed, volume
<1>2. CASE NextFile
  <2>1. ASSUME pc' = "copy", fs # "exfat" PROVE w'.how # "chain"
    <3>1. w' = Writer(Head(deleted), "walk")
      BY <1>2, <2>1 DEF NextFile
    <3> QED BY <3>1 DEF Writer
  <2> QED BY <1>1, <2>1 DEF ChainIsExfat
<1>3. CASE RewindChain
  <2>1. w'.how = "skip"
    BY <1>3 DEF RewindChain, Writer
  <2> QED BY <2>1 DEF ChainIsExfat
<1>4. CASE WriteFile \/ CopySkippingAllocated \/ CopyContiguous \/ CopyChain
  <2>1. pc = "copy"
    BY <1>1, <1>4, CopyStepTyped DEF Typed
  <2>2. w \in WriterType
    BY <1>1, <2>1 DEF RecoveryTyped, FilesTyped
  <2>3. w'.how = w.how
    <3>1. ASSUME NEW how, PassOver(how) PROVE w'.how = w.how
      BY <2>2, <3>1 DEF PassOver, WriterType
    <3>2. ASSUME NEW next, NEW wrapped, NEW jpeg, Take(next, wrapped, jpeg) PROVE w'.how = w.how
      BY <2>2, <3>2, TakeEffect
    <3>3. ASSUME NEW how, TakeFreeCluster(how) PROVE w'.how = w.how
      BY <3>2, <3>3 DEF TakeFreeCluster
    <3>4. CopyContiguous \/ CopyChain => w'.how = w.how
      BY <3>2 DEF CopyContiguous, CopyChain
    <3> QED BY <1>4, <3>1, <3>3, <3>4 DEF WriteFile, CopySkippingAllocated
  <2> QED BY <1>1, <2>1, <2>3 DEF ChainIsExfat
<1>5. CASE Recover \/ OpenFolder \/ ReadFolderCluster \/ ParseFolder \/ Finished \/ Finish \/ WriteFails
  <2>1. pc' # "copy"
    BY <1>5 DEF Recover, OpenFolder, ReadFolderCluster, ParseFolder, Finished, Finish, WriteFails
  <2> QED BY <2>1 DEF ChainIsExfat
<1> QED
  BY <1>2, <1>3, <1>4, <1>5 DEF Step

\* All that is kept holds of a file being written that can come back.
LEMMA FileRestored ==
  ASSUME VolumeAssumption, VolumeTyped, RecoveryTyped, Measured, IInv, Exactly, Copies,
         pc = "copy", w.e.name \in Files, Recoverable(w.e.name)
  PROVE  Restoring(w.e.name)
<1>1. w \in WriterType /\ Copied(w, w.e.name)
  BY DEF RecoveryTyped, FilesTyped, Copies
<1>2. Told(w.e.name)
  BY RecoverableFacts DEF IInv
<1>3. Exact(w.e)
  BY <1>2 DEF Exactly, ExactIfTold
<1> QED
  BY <1>1, <1>3 DEF Restoring

\* What is written of a file that can come back stays its own.
LEMMA CopiesStay ==
  ASSUME VolumeAssumption, UndeleteAssumption, Typed, Measured, IInv, Exactly, Copies, ChainIsExfat,
         Step
  PROVE  Copies'
<1>1. VolumeTyped /\ VolumeSound /\ RecoveryTyped /\ UNCHANGED volume
  BY StepKeepsVolume DEF Typed
<1>2. ASSUME pc' = "copy", has_map' = has_map, w'.e.name \in Files, Recoverable(w'.e.name) =>
               Copied(w', w'.e.name)
      PROVE  Copies'
  <2>1. PICK v, x : v = w' /\ x = w'.e.name
    OBVIOUS
  <2>2. Recoverable(x)' = Recoverable(x) /\ Copied(v, x)' = Copied(v, x)
    BY <1>1, <1>2, SameRecoverable, SameCopied
  <2>3. Recoverable(w.e.name)' => Copied(w, w.e.name)'
    BY <1>2, <2>1, <2>2
  <2> QED BY <2>3 DEF Copies
<1>3. ASSUME pc' = "copy", w'.e.name \in Files, Recoverable(w'.e.name), NextFile
      PROVE  Copied(w', w'.e.name) /\ has_map' = has_map
  <2>1. PICK e : e = Head(deleted)
    OBVIOUS
  <2>2. /\ pc = "walk" /\ deleted # <<>> /\ has_map' = has_map
        /\ \/ fs # "exfat" /\ w' = Writer(e, "walk")
           \/ fs = "exfat" /\ e.contiguous /\ w' = Writer(e, "contiguous")
           \/ fs = "exfat" /\ ~e.contiguous /\ w' = Writer(e, "chain")
    BY <1>3, <2>1 DEF NextFile
  <2>3. w'.e = e
    BY <2>2 DEF Writer
  <2>4. e = deleted[1] /\ 1 \in 1 .. Len(deleted)
    <3>1. deleted \in Seq(EntryType)
      BY <1>1 DEF RecoveryTyped, FilesTyped
    <3> QED BY <2>1, <2>2, <3>1
  <2>5. e.name \in Files /\ Intact(e.name) /\ Told(e.name)
    BY <1>1, <1>3, <2>3, RecoverableFacts DEF IInv
  <2>6. Exact(e)
    BY <2>4, <2>5 DEF Exactly, ExactIfTold
  <2>7. fs = "exfat" => (e.contiguous <=> Consecutive(home[e.name]))
    BY <2>6 DEF Exact, Measures, SizeIs
  <2> QED BY <1>1, <2>2, <2>3, <2>5, <2>6, <2>7, CopyBegins
<1>4. ASSUME w'.e = w.e, w'.e.name \in Files, Recoverable(w'.e.name), pc = "copy",
             WriteFile \/ CopySkippingAllocated \/ CopyContiguous \/ CopyChain \/ RewindChain
      PROVE  Copied(w', w.e.name)
  <2>1. PICK x : x = w.e.name /\ Restoring(x)
    BY <1>1, <1>4, FileRestored
  <2>2. "walk" \in FreeWalks /\ "skip" \in FreeWalks
    BY DEF FreeWalks
  <2>3. CASE WriteFile \/ CopySkippingAllocated
    BY <2>1, <2>2, <2>3, TakeCopies, PassCopies DEF WriteFile, CopySkippingAllocated
  <2>4. CASE CopyContiguous
    BY <2>1, <2>4, ContiguousCopies
  <2>5. CASE CopyChain
    <3>1. fs = "exfat"
      BY <2>5 DEF CopyChain, Copying, ChainIsExfat
    <3> QED BY <2>1, <2>5, <3>1, ChainCopies
  <2>6. CASE RewindChain
    <3>1. w' = Writer(w.e, "skip")
      BY <2>6 DEF RewindChain
    <3>2. Intact(x) /\ Exact(w.e) /\ x \in Files
      BY <2>1, RestoringFacts DEF Restoring
    <3> QED BY <1>1, <2>1, <3>1, <3>2, CopyBegins
  <2> QED BY <1>4, <2>3, <2>4, <2>5, <2>6
<1>5. CASE NextFile
  <2>1. pc' # "copy" => Copies'
    BY DEF Copies
  <2>2. has_map' = has_map
    BY <1>5 DEF NextFile
  <2> QED BY <1>2, <1>3, <1>5, <2>1, <2>2 DEF Copies
<1>6. CASE WriteFile \/ CopySkippingAllocated \/ CopyContiguous \/ CopyChain \/ RewindChain
  <2>1. w'.e = w.e /\ pc = "copy" /\ pc' = "copy" /\ has_map' = has_map
    BY <1>1, <1>6, CopyStepTyped DEF SameWalk
  <2> QED BY <1>2, <1>4, <1>6, <2>1 DEF Copies
<1>7. CASE Recover \/ OpenFolder \/ ReadFolderCluster \/ ParseFolder \/ Finished \/ Finish \/ WriteFails
  <2>1. pc' # "copy"
    BY <1>7 DEF Recover, OpenFolder, ReadFolderCluster, ParseFolder, Finished, Finish, WriteFails
  <2> QED BY <2>1 DEF Copies
<1> QED
  BY <1>5, <1>6, <1>7 DEF Step

\* What was collected of a file that can come back is no implausible entry.
LEMMA RecoverableIsPlausible ==
  ASSUME VolumeAssumption, VolumeTyped, InUseIsMarked, Measured,
         NEW e, ExactIfTold(e), e.name \in Files, Recoverable(e.name)
  PROVE  Plausible(e) /\ ValidExtent(e)
<1> DEFINE cs == home[e.name]
           n == Len(cs)
<1>1. Intact(e.name) /\ Told(e.name) /\ e.name \in Names
  BY RecoverableFacts
<1>2. /\ cs \in Seq(Cluster) /\ n \in Nat \ {0} /\ 1 \in 1 .. n
      /\ \A k \in 1 .. n : cs[k] \in Cluster
  BY <1>1, FirstBlock
<1>3. e.start = cs[1] /\ e.size = n /\ (e.contiguous <=> fs = "exfat" /\ Consecutive(cs))
  BY <1>1 DEF ExactIfTold, Exact, Measures, SizeIs
<1>4. n <= MaxCluster - 1
  <2>1. Ascends(cs)
    BY <1>1 DEF Measured, HomesAscend
  <2> QED BY <1>2, <2>1, AscendFits
<1>5. e.contiguous => e.start + e.size - 1 <= MaxCluster
  <2> SUFFICES ASSUME Consecutive(cs) PROVE cs[1] + n - 1 <= MaxCluster
    BY <1>3
  <2>1. n \in 1 .. n
    BY <1>2
  <2>2. cs[n] = cs[1] + n - 1 /\ cs[n] \in Cluster
    BY <1>2, <2>1, InOnePiece
  <2>3. cs[n] <= MaxCluster
    BY <2>2 DEF Cluster, VolumeAssumption
  <2> QED BY <2>2, <2>3
<1>6. e.size > 0 /\ e.start \in Cluster
  BY <1>2, <1>3
<1> HIDE DEF cs, n
<1> QED
  BY <1>3, <1>4, <1>5, <1>6 DEF Plausible, ValidExtent

\* One record more, of a file that cannot come back, or that did.
LEMMA RecordWhole ==
  ASSUME stats \in Seq(StatType), Accurate, UNCHANGED <<volume, has_map, wanted, dry_run>>,
         faults' = 0 => faults = 0, NEW e, NEW recovered, NEW out,
         \/ stats' = stats
         \/ /\ stats' = Record(e, recovered, out)
            /\ ~dry_run /\ faults' = 0 =>
                 Whole([name |-> e.name, recovered |-> recovered, out |-> out, size |-> e.size])
  PROVE  Accurate'
<1> SUFFICES ASSUME ~dry_run, faults' = 0, NEW i \in 1 .. Len(stats') PROVE Whole(stats[i])'
  BY DEF Accurate
<1> DEFINE more == [name |-> e.name, recovered |-> recovered, out |-> out, size |-> e.size]
<1>1. \A j \in 1 .. Len(stats) : Whole(stats[j])
  BY DEF Accurate
<1>2. PICK r : r = stats'[i]
  OBVIOUS
<1>3. Whole(r)
  <2>1. CASE stats' = stats
    BY <1>1, <1>2, <2>1
  <2>2. CASE stats' = Append(stats, more) /\ Whole(more)
    <3>1. i \in 1 .. Len(stats) \/ i = Len(stats) + 1
      BY <2>2
    <3>2. i \in 1 .. Len(stats) => stats'[i] = stats[i]
      BY <2>2
    <3>3. i = Len(stats) + 1 => stats'[i] = more
      BY <2>2
    <3> HIDE DEF more
    <3> QED BY <1>1, <1>2, <2>2, <3>1, <3>2, <3>3
  <2> QED BY <2>1, <2>2 DEF Record
<1>4. Whole(r)' = Whole(r)
  BY SameWhole DEF volume
<1> QED
  BY <1>2, <1>3, <1>4

\* The report stays accurate.
LEMMA AccurateStays ==
  ASSUME VolumeAssumption, UndeleteAssumption, Typed, InOrder, Measured, IInv, Exactly, Copies,
         Accurate, Step
  PROVE  Accurate'
<1>1. VolumeTyped /\ VolumeSound /\ RecoveryTyped /\ UNCHANGED volume
  BY StepKeepsVolume DEF Typed
<1>2. stats \in Seq(StatType) /\ wanted \in SUBSET Files /\ deleted \in Seq(EntryType) /\ faults \in Nat
  BY <1>1 DEF RecoveryTyped, FilesTyped, WalkTyped, UndeleteAssumption
<1>3. CASE Recover
  <2>1. stats' = <<>>
    BY <1>3 DEF Recover, InOrder
  <2> QED BY <2>1 DEF Accurate
<1>4. ASSUME stats' = stats, UNCHANGED <<has_map, wanted, dry_run>>, faults' = faults
      PROVE  Accurate'
  BY <1>1, <1>2, <1>4, RecordWhole
<1>5. CASE OpenFolder \/ ReadFolderCluster \/ ParseFolder \/ Finished \/ WriteFile
             \/ CopySkippingAllocated \/ CopyContiguous \/ CopyChain \/ RewindChain
  <2>1. stats' = stats /\ UNCHANGED <<has_map, wanted, dry_run>> /\ faults' = faults
    BY <1>5 DEF OpenFolder, ReadFolderCluster, ParseFolder, Finished, WriteFile, CopySkippingAllocated,
                CopyContiguous, CopyChain, RewindChain, TakeFreeCluster, PassOver, CopyOnly
  <2> QED BY <1>4, <2>1
<1>6. CASE NextFile
  <2>1. PICK e : e = Head(deleted)
    OBVIOUS
  <2>2. /\ deleted # <<>> /\ UNCHANGED <<has_map, wanted, dry_run>> /\ faults' = faults
        /\ \/ stats' = stats
           \/ /\ ~(IF fs = "exfat" THEN ValidExtent(e) ELSE Plausible(e))
              /\ stats' = Record(e, FALSE, <<>>)
           \/ dry_run /\ stats' = Record(e, TRUE, <<>>)
    BY <1>6, <2>1 DEF NextFile
  <2>3. CASE stats' = stats
    BY <1>4, <2>2, <2>3
  <2>4. CASE /\ ~(IF fs = "exfat" THEN ValidExtent(e) ELSE Plausible(e))
             /\ stats' = Record(e, FALSE, <<>>)
    <3>1. e = deleted[1] /\ 1 \in 1 .. Len(deleted)
      BY <1>2, <2>1, <2>2
    <3>2. ExactIfTold(e)
      BY <3>1 DEF Exactly
    <3>3. ~ (e.name \in wanted /\ Recoverable(e.name))
      BY <1>1, <1>2, <2>4, <3>2, RecoverableIsPlausible DEF IInv
    <3>4. PICK r : r = [name |-> e.name, recovered |-> FALSE, out |-> <<>>, size |-> e.size]
      OBVIOUS
    <3>5. Whole(r)
      BY <3>3, <3>4 DEF Whole
    <3> QED BY <1>1, <1>2, <2>2, <2>4, <3>4, <3>5, RecordWhole
  <2>5. CASE dry_run /\ stats' = Record(e, TRUE, <<>>)
    BY <1>1, <1>2, <2>2, <2>5, RecordWhole
  <2> QED BY <2>2, <2>3, <2>4, <2>5
<1>7. CASE Finish
  <2>1. /\ pc = "copy" /\ Ended /\ (w.how = "chain" => w.left = 0)
        /\ stats' = Record(w.e, TRUE, w.out)
        /\ UNCHANGED <<has_map, wanted, dry_run>> /\ faults' = faults
    BY <1>7 DEF Finish
  <2>2. PICK e, out : e = w.e /\ out = w.out
    OBVIOUS
  <2>3. PICK r : r = [name |-> e.name, recovered |-> TRUE, out |-> out, size |-> e.size]
    OBVIOUS
  <2>4. ASSUME e.name \in wanted, Recoverable(e.name)
        PROVE  out = [k \in DOMAIN home[e.name] |-> [of |-> e.name, block |-> k]]
    <3>1. Restoring(e.name)
      BY <1>1, <1>2, <2>1, <2>2, <2>4, FileRestored
    <3> QED BY <2>1, <2>2, <3>1, EndsWhole
  <2>5. Whole(r)
    BY <2>3, <2>4 DEF Whole
  <2> QED BY <1>1, <1>2, <2>1, <2>2, <2>3, <2>5, RecordWhole
<1>8. CASE WriteFails
  <2>1. faults' = faults + 1
    BY <1>8 DEF WriteFails
  <2>2. faults' # 0
    BY <1>2, <2>1
  <2> QED BY <2>2 DEF Accurate
<1> QED
  BY <1>3, <1>5, <1>6, <1>7, <1>8 DEF Step

\* Initially nothing is collected, written or reported.
LEMMA RestoresAtFirst == Init => Restores
BY DEF Init, Restores, Exactly, Copies, ChainIsExfat, Accurate

\* Nothing happens to it when nothing happens.
LEMMA StutterRestores ==
  ASSUME stats \in Seq(StatType), Exactly, Copies, ChainIsExfat, Accurate, UNCHANGED vars
  PROVE  Exactly' /\ Copies' /\ ChainIsExfat' /\ Accurate'
<1>1. /\ UNCHANGED volume /\ pc' = pc /\ deleted' = deleted /\ w' = w /\ stats' = stats
      /\ UNCHANGED <<has_map, wanted, dry_run, faults>>
  BY DEF vars, recovery
<1>2. ASSUME NEW e PROVE ExactIfTold(e)' = ExactIfTold(e)
  BY <1>1, SameExact
<1>3. Exactly'
  <2>1. ASSUME NEW i \in 1 .. Len(deleted') PROVE ExactIfTold(deleted[i])'
    <3>1. PICK e : e = deleted'[i]
      OBVIOUS
    <3>2. ExactIfTold(e)'
      BY <1>1, <1>2, <3>1 DEF Exactly
    <3> QED BY <3>1, <3>2
  <2>2. ASSUME pc' = "copy" PROVE ExactIfTold(w.e)'
    <3>1. PICK e : e = w'.e
      OBVIOUS
    <3>2. ExactIfTold(e)'
      BY <1>1, <1>2, <2>2, <3>1 DEF Exactly
    <3> QED BY <3>1, <3>2
  <2> QED BY <2>1, <2>2 DEF Exactly
<1>4. Copies'
  <2>1. PICK v, x : v = w' /\ x = w'.e.name
    OBVIOUS
  <2>2. Recoverable(x)' = Recoverable(x) /\ Copied(v, x)' = Copied(v, x)
    BY <1>1, SameRecoverable, SameCopied
  <2> QED BY <1>1, <2>1, <2>2 DEF Copies
<1>5. ChainIsExfat'
  BY <1>1 DEF ChainIsExfat, volume
<1>6. Accurate'
  BY <1>1, RecordWhole
<1> QED
  BY <1>3, <1>4, <1>5, <1>6

\* All that is kept of the recovery of untouched files.
Restored == Typed /\ InOrder /\ IInv /\ Measured /\ Restores

\* It is kept by every step.
LEMMA RestoredStays ==
  VolumeAssumption /\ UndeleteAssumption /\ Restored /\ [Next]_vars => Restored'
<1> SUFFICES ASSUME VolumeAssumption, UndeleteAssumption, Restored, [Next]_vars PROVE Restored'
  OBVIOUS
<1>1. Typed /\ InOrder /\ IInv /\ Measured /\ Exactly /\ Copies /\ ChainIsExfat /\ Accurate
  BY DEF Restored, Restores
<1>2. Typed' /\ InOrder' /\ IInv' /\ Measured'
  BY <1>1, TypedStays, InOrderStays, IInvStep, MeasuredStays
<1>3. Restores' => Restored'
  BY <1>2 DEF Restored
<1>4. CASE pc = "life" /\ Live /\ UNCHANGED recovery
  <2>1. pc' = "life" /\ deleted' = <<>> /\ stats' = <<>>
    BY <1>1, <1>4 DEF recovery, InOrder
  <2>2. Exactly' /\ Copies' /\ ChainIsExfat'
    BY <2>1 DEF Exactly, Copies, ChainIsExfat
  <2>3. Accurate'
    BY <2>1 DEF Accurate
  <2> QED BY <1>3, <2>2, <2>3 DEF Restores
<1>5. CASE Step
  <2>1. Exactly' /\ Copies' /\ ChainIsExfat' /\ Accurate'
    BY <1>1, <1>5, ExactlyStays, CopiesStay, ChainStays, AccurateStays
  <2> QED BY <1>3, <2>1 DEF Restores
<1>6. CASE UNCHANGED vars
  <2>1. stats \in Seq(StatType)
    BY <1>1 DEF Typed, RecoveryTyped, FilesTyped
  <2> QED BY <1>1, <1>3, <1>6, <2>1, StutterRestores DEF Restores
<1> QED
  BY <1>4, <1>5, <1>6 DEF Next

\* Of a recovery that is done, every file that can come back has a record,
\* and the record says that it did.
LEMMA RestoredIsEnough ==
  VolumeAssumption /\ UndeleteAssumption /\ Restored => UntouchedFilesComeBack
<1> SUFFICES ASSUME VolumeAssumption, UndeleteAssumption, Restored,
                    pc = "done", ~dry_run, faults = 0, NEW x \in wanted, Recoverable(x)
             PROVE  \E i \in DOMAIN stats :
                      /\ stats[i].name = x /\ stats[i].recovered
                      /\ stats[i].out = [k \in DOMAIN home[x] |-> [of |-> x, block |-> k]]
  BY DEF UntouchedFilesComeBack
<1>1. Typed /\ InOrder /\ IInv /\ Measured /\ Accurate
  BY DEF Restored, Restores
<1>2. VolumeTyped /\ wanted \in SUBSET Files /\ stats \in Seq(StatType)
  BY <1>1 DEF Typed, RecoveryTyped, WalkTyped, FilesTyped
<1>3. x \notin alive /\ home[x] # <<>> /\ Reachable(x)
  BY <1>1, <1>2, RecoverableFacts DEF IInv
<1>4. PICK i \in DOMAIN stats : stats[i].name = x
  <2>1. EveryDeletedFileReported
    BY <1>1, InOrderReports
  <2> QED BY <1>3, <2>1 DEF EveryDeletedFileReported
<1>5. i \in 1 .. Len(stats)
  BY <1>2, <1>4
<1>6. Whole(stats[i])
  BY <1>1, <1>5 DEF Accurate
<1> QED
  BY <1>4, <1>6 DEF Whole

(***************************************************************************)
(* A file nothing has touched since it was deleted comes back block for    *)
(* block: found again where resolve_start_cluster looks, reached by walk   *)
(* through the folders deleted with it, and put together by write_file     *)
(* across the gaps that other files hold, across the end of the volume     *)
(* and along the chain that exFAT may have left.  For every volume, every  *)
(* life of it and every recovery in which no output file failed.           *)
(***************************************************************************)
THEOREM RestoresUntouchedFiles == Spec => []UntouchedFilesComeBack
<1> SUFFICES ASSUME VolumeAssumption, UndeleteAssumption PROVE Spec => []UntouchedFilesComeBack
  BY VolumeAssumption, UndeleteAssumption
<1>1. VolumeAssumption /\ UndeleteAssumption /\ Init => Restored
  <2>1. VolumeAssumption /\ Init => Measured
    BY MeasuredAtFirst DEF Init
  <2> QED BY <2>1, TypedInitially, InOrderInitially, IInvInitially, RestoresAtFirst DEF Restored
<1>2. VolumeAssumption /\ UndeleteAssumption /\ Restored /\ [Next]_vars => Restored'
  BY RestoredStays
<1>3. VolumeAssumption /\ UndeleteAssumption /\ Restored => UntouchedFilesComeBack
  BY RestoredIsEnough
<1> QED
  BY <1>1, <1>2, <1>3, PTL DEF Spec
=============================================================================
