----------------------- MODULE MetadataUndeleteProofs -----------------------
(***************************************************************************)
(* Proof that NTFS, ext, HFS+ and ISO 9660 report no file twice, and the   *)
(* first three none that is still there (a disc's files are all there, and *)
(* are what is wanted), for every size of the volume and its tables, every *)
(* life of it and every set of files and folders.                          *)
(*                                                                         *)
(* The invariant has a part for each file system.  It says what the life   *)
(* of the volume leaves in its records, and how what was reported relates  *)
(* to where the recovery stands.                                           *)
(***************************************************************************)
EXTENDS MetadataUndelete, SetFacts

(* ---------------------------- The invariant ---------------------------- *)

IsList(s) == Len(s) \in Nat /\ s = [i \in 1 .. Len(s) |-> s[i]]
Has(r, fields) == fields \subseteq DOMAIN r
Distinct(s) == \A i, j \in DOMAIN s : s[i].key = s[j].key => i = j
ReportKeys == {reports[i].key : i \in DOMAIN reports}
AliveApart == \A x, y \in alive : lives[x].key = lives[y].key => x = y

\* What was done to the volume is written down as it was done; nothing is
\* reported before the recovery, and nothing twice.
Lived ==
  /\ lives = [x \in Names |-> lives[x]]
  /\ \A x \in Names :
       /\ Has(lives[x], {"key", "path"})
       /\ IsList(lives[x].path)
  /\ alive \subseteq Born
  /\ ops \in Nat
  /\ pc = "new" => Born = {}
Reported == IsList(reports) /\ Distinct(reports) /\ (pc \in {"new", "life"} => reports = <<>>)

\* NTFS: the records of what is alive are in use and each has its own; those
\* reported are behind the scan and not in use.
NtfsSound ==
  /\ pc # "new" => meta = [r \in Mft |-> meta[r]]
  /\ AliveApart
  /\ \A x \in alive : lives[x].key \in Mft /\ meta[lives[x].key].in_use
  /\ \A k \in ReportKeys : k \in Mft /\ ~meta[k].in_use
  /\ pc = "scan" =>
       /\ w.at \in Nat /\ \A k \in ReportKeys : k < w.at
       /\ Has(w, {"step", "at"})
       /\ w.step # "record" => w.at \in Mft /\ ~meta[w.at].in_use

\* ext: what was found is of deleted inodes, of each once, and not yet
\* reported.
FoundSound ==
  /\ \A f \in w.found : IsDeleted(meta.table[f.ino]) /\ f.ino \notin ReportKeys
  /\ \A f, g \in w.found : f.ino = g.ino => f = g
ExtSound ==
  /\ pc # "new" => meta.table = [i \in Ino |-> meta.table[i]]
  /\ AliveApart
  /\ \A x \in alive : /\ lives[x].key \in Ino
                      /\ meta.table[lives[x].key].links = 1 /\ meta.table[lives[x].key].dtime = 0
  /\ \A k \in ReportKeys : IsDeleted(meta.table[k])
  /\ pc = "scan" =>
       /\ FoundSound /\ Has(w, {"step", "found"})
       /\ w.step = "walk" => reports = <<>>

\* HFS+: every file record there is, live, stale or journaled, is of a file
\* that once was; no catalog number was ever given out twice; what is alive
\* has its record.
FileIds == {lives[x].key : x \in Files \cap Born}
Known(rec, ids) == rec.kind = "file" => rec.id \in ids /\ rec.mod_date \in Nat
FilesKnown(records, ids) == IsList(records) /\ \A i \in DOMAIN records : Known(records[i], ids)
KindOf(x) == IF x \in Dirs THEN "folder" ELSE "file"
Catalogued(x, records) == \E i \in DOMAIN records :
  records[i].id = lives[x].key /\ records[i].kind = KindOf(x)
CatalogSound ==
  /\ Has(meta.node, {"live", "slack"})
  /\ FilesKnown(meta.node.live, FileIds) /\ FilesKnown(meta.node.slack, FileIds)
  /\ meta.journal = [s \in 1 .. Copies |-> meta.journal[s]]
  /\ \A s \in 1 .. Copies : FilesKnown(meta.journal[s].live, FileIds)
  /\ \A x \in alive : Catalogued(x, meta.node.live)
IdsSound ==
  /\ IsFiniteSet(Born)
  /\ \A x \in Born : lives[x].key \in Nat /\ lives[x].key <= RootFolder + Cardinality(Born)
  /\ \A x, y \in Born : lives[x].key = lives[y].key => x = y
\* A stale record behind the pass was the first of its file; those of the
\* journal that are left are of other files, each of its own.
SlackPass ==
  /\ Has(w, {"step", "at"}) /\ w.at \in Nat
  /\ \A k \in ReportKeys : \E j \in DOMAIN meta.node.slack :
       j < w.at /\ Stale(j) /\ meta.node.slack[j].id = k
JournalPass ==
  /\ Has(w, {"step", "todo"})
  /\ \A r \in w.todo : r.id \in FileIds /\ r.id \notin LiveIds /\ r.id \notin ReportKeys
  /\ \A r, q \in w.todo : r.id = q.id => r = q
HfsSound ==
  /\ IdsSound
  /\ pc # "new" => CatalogSound
  /\ \A k \in ReportKeys : k \in FileIds /\ k \notin LiveIds
  /\ pc = "scan" => IF w.step = "slack" THEN SlackPass ELSE JournalPass

\* ISO 9660: no two files of a disc begin in one block.
Begins(records, i) ==
  /\ i \in DOMAIN records /\ records[i].to = ""
  /\ i = 1 \/ ~records[i - 1].more
Folders == Dirs \cup {Root}
UsedBlocks == UNION {ToSet(lives[x].blocks) : x \in alive}
DiscSound ==
  /\ Has(meta, {"dirs"})
  /\ meta.dirs = [d \in Folders |-> meta.dirs[d]]
  /\ \A d \in Folders :
       /\ IsList(meta.dirs[d])
       /\ \A i \in DOMAIN meta.dirs[d] :
            /\ meta.dirs[d][i].to # "" => meta.dirs[d][i].to \in Dirs /\ ~meta.dirs[d][i].more
            /\ Begins(meta.dirs[d], i) => meta.dirs[d][i].at \in UsedBlocks
  /\ \A d, e \in Folders : \A i \in DOMAIN meta.dirs[d], j \in DOMAIN meta.dirs[e] :
       Begins(meta.dirs[d], i) /\ Begins(meta.dirs[e], j) /\ meta.dirs[d][i].at = meta.dirs[e][j].at => d = e /\ i = j
\* What is reported began in a folder walked before, or in this one before
\* the record that comes next or the file that is still going on.
Listing(d, k) == k \in 1 .. Len(meta.dirs[d]) + 1
                 /\ w.records = SubSeq(meta.dirs[d], k, Len(meta.dirs[d]))
ReportedFrom(done, d, k) ==
  \A key \in ReportKeys :
    \E e \in done \cup {d} : \E i \in DOMAIN meta.dirs[e] :
      /\ Begins(meta.dirs[e], i) /\ meta.dirs[e][i].at = key
      /\ e = d => i < k
PendingAt(d, k) ==
  /\ k > 1 /\ meta.dirs[d][k - 1].more
  /\ w.pending # <<>> /\ w.pending = <<w.pending[1]>>
  /\ Has(w.pending[1], {"extents"})
  /\ IsList(w.pending[1].extents) /\ w.pending[1].extents # <<>>
  /\ \E p \in 1 .. k - 1 :
       /\ Begins(meta.dirs[d], p) /\ meta.dirs[d][p].at = w.pending[1].extents[1].at
       /\ ReportedFrom(w.visited \ {d}, d, p)
NothingPending(d, k) ==
  /\ w.pending = <<>>
  /\ k = 1 \/ ~meta.dirs[d][k - 1].more
  /\ ReportedFrom(w.visited \ {d}, d, k)
StackSound ==
  /\ IsList(w.stack)
  /\ \A i \in DOMAIN w.stack : w.stack[i].to \in Folders
  /\ w.visited \subseteq Folders
Opening ==
  /\ Has(w, {"step", "stack", "visited"})
  /\ \A key \in ReportKeys : \E e \in w.visited : \E i \in DOMAIN meta.dirs[e] :
       Begins(meta.dirs[e], i) /\ meta.dirs[e][i].at = key
ReadingFolder ==
  /\ Has(w, {"step", "stack", "visited", "records", "pending"})
  /\ \E d \in w.visited : \E k \in 1 .. Len(meta.dirs[d]) + 1 :
       Listing(d, k) /\ (PendingAt(d, k) \/ NothingPending(d, k))
IsoSound ==
  /\ pc # "new" => DiscSound
  /\ pc = "scan" => StackSound /\ IF w.step = "open" THEN Opening ELSE ReadingFolder

Sound ==
  /\ Lived /\ Reported
  /\ pc # "new" => fs \in {"ntfs", "ext", "hfs", "iso"}
  /\ fs = "ntfs" => NtfsSound
  /\ fs = "ext"  => ExtSound
  /\ fs = "hfs"  => HfsSound
  /\ fs = "iso"  => IsoSound

(* -------------------------------- Lists -------------------------------- *)

\* A list is a sequence of what it holds.
LEMMA ListIsSequence ==
  ASSUME NEW s, IsList(s)
  PROVE  /\ s \in Seq({s[i] : i \in 1 .. Len(s)}) /\ DOMAIN s = 1 .. Len(s) /\ Len(s) \in Nat
         /\ \A S : (\A i \in 1 .. Len(s) : s[i] \in S) => s \in Seq(S)
BY DEF IsList

\* A sequence is a list.
LEMMA SequenceIsList ==
  ASSUME NEW S, NEW s \in Seq(S)
  PROVE  IsList(s) /\ DOMAIN s = 1 .. Len(s) /\ Len(s) \in Nat
BY DEF IsList

\* What a longer list holds.
LEMMA AppendList ==
  ASSUME NEW s, IsList(s), NEW e
  PROVE  /\ IsList(Append(s, e)) /\ Len(Append(s, e)) = Len(s) + 1
         /\ DOMAIN Append(s, e) = 1 .. Len(s) + 1
         /\ Append(s, e)[Len(s) + 1] = e
         /\ \A i \in 1 .. Len(s) : Append(s, e)[i] = s[i]
         /\ Append(s, e) # <<>>
<1> DEFINE S == {s[i] : i \in 1 .. Len(s)} \cup {e}
<1>1. s \in Seq(S) /\ Len(s) \in Nat
  <2>1. \A i \in 1 .. Len(s) : s[i] \in S
    OBVIOUS
  <2> HIDE DEF S
  <2> QED BY <2>1, ListIsSequence
<1>2. e \in S
  OBVIOUS
<1> HIDE DEF S
<1>3. Append(s, e) \in Seq(S) /\ Len(Append(s, e)) = Len(s) + 1
  BY <1>1, <1>2
<1>4. IsList(Append(s, e)) /\ DOMAIN Append(s, e) = 1 .. Len(s) + 1
  BY <1>3, SequenceIsList
<1>5. Append(s, e)[Len(s) + 1] = e /\ \A i \in 1 .. Len(s) : Append(s, e)[i] = s[i]
  BY <1>1, <1>2
<1>6. Append(s, e) # <<>>
  BY <1>1, <1>3
<1> QED
  BY <1>3, <1>4, <1>5, <1>6

\* What two lists hold together.
LEMMA JoinLists ==
  ASSUME NEW s, IsList(s), NEW t, IsList(t)
  PROVE  /\ IsList(s \o t) /\ Len(s \o t) = Len(s) + Len(t)
         /\ DOMAIN (s \o t) = 1 .. Len(s) + Len(t)
         /\ \A i \in 1 .. Len(s) : (s \o t)[i] = s[i]
         /\ \A i \in 1 .. Len(t) : (s \o t)[Len(s) + i] = t[i]
         /\ \A i \in 1 .. Len(s) + Len(t) : ~ (i <= Len(s)) =>
              i - Len(s) \in 1 .. Len(t) /\ (s \o t)[i] = t[i - Len(s)]
<1> DEFINE S == {s[i] : i \in 1 .. Len(s)} \cup {t[i] : i \in 1 .. Len(t)}
<1>1. s \in Seq(S) /\ t \in Seq(S) /\ Len(s) \in Nat /\ Len(t) \in Nat
  <2>1. (\A i \in 1 .. Len(s) : s[i] \in S) /\ \A i \in 1 .. Len(t) : t[i] \in S
    OBVIOUS
  <2> HIDE DEF S
  <2> QED BY <2>1, ListIsSequence
<1> HIDE DEF S
<1>2. s \o t \in Seq(S) /\ Len(s \o t) = Len(s) + Len(t)
  BY <1>1
<1>3. IsList(s \o t) /\ DOMAIN (s \o t) = 1 .. Len(s) + Len(t)
  BY <1>2, SequenceIsList
<1>4. /\ \A i \in 1 .. Len(s) : (s \o t)[i] = s[i]
      /\ \A i \in 1 .. Len(t) : (s \o t)[Len(s) + i] = t[i]
      /\ \A i \in 1 .. Len(s) + Len(t) : ~ (i <= Len(s)) =>
           i - Len(s) \in 1 .. Len(t) /\ (s \o t)[i] = t[i - Len(s)]
  BY <1>1
<1> QED
  BY <1>2, <1>3, <1>4

\* A short list.
LEMMA OneOrNone ==
  ASSUME NEW e
  PROVE  /\ IsList(<<>>) /\ Len(<<>>) = 0 /\ DOMAIN <<>> = {}
         /\ IsList(<<e>>) /\ Len(<<e>>) = 1 /\ <<e>>[1] = e
BY DEF IsList

\* A part of a list.
LEMMA PartOfList ==
  ASSUME NEW s, IsList(s), NEW m \in Int, NEW n \in Int, 1 <= m, n <= Len(s), m <= n + 1
  PROVE  /\ IsList(SubSeq(s, m, n)) /\ Len(SubSeq(s, m, n)) = n - m + 1
         /\ \A i \in 1 .. n - m + 1 : SubSeq(s, m, n)[i] = s[m + i - 1]
<1> DEFINE S == {s[i] : i \in 1 .. Len(s)}
<1>1. s \in Seq(S) /\ Len(s) \in Nat
  BY ListIsSequence
<1> HIDE DEF S
<1>2. SubSeq(s, m, n) = [i \in 1 .. n - m + 1 |-> s[m + i - 1]]
  BY <1>1
<1>3. Len(SubSeq(s, m, n)) = n - m + 1
  BY <1>2
<1> QED
  BY <1>2, <1>3 DEF IsList

\* A list without its first, of one or more.
LEMMA TailOfList ==
  ASSUME NEW s, IsList(s), s # <<>>
  PROVE  /\ Len(s) >= 1 /\ Head(s) = s[1]
         /\ IsList(Tail(s)) /\ Len(Tail(s)) = Len(s) - 1
         /\ \A i \in 1 .. Len(s) - 1 : Tail(s)[i] = s[i + 1]
<1> DEFINE S == {s[i] : i \in 1 .. Len(s)}
<1>1. s \in Seq(S) /\ Len(s) \in Nat
  BY ListIsSequence
<1> HIDE DEF S
<1>2. Len(s) >= 1 /\ Head(s) = s[1]
  BY <1>1
<1>3. Tail(s) \in Seq(S) /\ Len(Tail(s)) = Len(s) - 1
  BY <1>1, <1>2
<1>4. IsList(Tail(s))
  BY <1>3, SequenceIsList
<1>5. \A i \in 1 .. Len(s) - 1 : Tail(s)[i] = s[i + 1]
  BY <1>1, <1>2
<1> QED
  BY <1>2, <1>3, <1>4, <1>5

\* A list without one of its elements.
LEMMA RemovedFromList ==
  ASSUME NEW s, IsList(s), NEW k \in DOMAIN s
  PROVE  /\ IsList(RemoveAt(s, k))
         /\ \A i \in DOMAIN RemoveAt(s, k) : \E j \in DOMAIN s : RemoveAt(s, k)[i] = s[j]
         /\ \A j \in DOMAIN s \ {k} : \E i \in DOMAIN RemoveAt(s, k) : RemoveAt(s, k)[i] = s[j]
<1> DEFINE a == SubSeq(s, 1, k - 1)
           b == SubSeq(s, k + 1, Len(s))
<1>1. Len(s) \in Nat /\ DOMAIN s = 1 .. Len(s) /\ k \in 1 .. Len(s)
  BY ListIsSequence
<1>2. /\ IsList(a) /\ Len(a) = k - 1
      /\ \A i \in 1 .. k - 1 : a[i] = s[i]
  <2>1. 1 \in Int /\ k - 1 \in Int /\ 1 <= 1 /\ k - 1 <= Len(s) /\ 1 <= (k - 1) + 1
    BY <1>1
  <2>2. /\ IsList(a) /\ Len(a) = k - 1 - 1 + 1
        /\ \A i \in 1 .. k - 1 - 1 + 1 : a[i] = s[1 + i - 1]
    BY <2>1, PartOfList
  <2> QED
    BY <1>1, <2>2
<1>3. /\ IsList(b) /\ Len(b) = Len(s) - k
      /\ \A i \in 1 .. Len(s) - k : b[i] = s[k + i]
  <2>1. 1 \in Int /\ k + 1 \in Int /\ Len(s) \in Int /\ 1 <= k + 1 /\ Len(s) <= Len(s) /\ k + 1 <= Len(s) + 1
    BY <1>1
  <2>2. /\ IsList(b) /\ Len(b) = Len(s) - (k + 1) + 1
        /\ \A i \in 1 .. Len(s) - (k + 1) + 1 : b[i] = s[k + 1 + i - 1]
    BY <2>1, PartOfList
  <2> QED
    BY <1>1, <2>2
<1>4. RemoveAt(s, k) = a \o b
  BY DEF RemoveAt
<1> HIDE DEF a, b
<1>5. /\ IsList(a \o b) /\ DOMAIN (a \o b) = 1 .. Len(a) + Len(b)
      /\ \A i \in 1 .. Len(a) : (a \o b)[i] = a[i]
      /\ \A i \in 1 .. Len(b) : (a \o b)[Len(a) + i] = b[i]
      /\ \A i \in 1 .. Len(a) + Len(b) : ~ (i <= Len(a)) =>
           i - Len(a) \in 1 .. Len(b) /\ (a \o b)[i] = b[i - Len(a)]
  <2>1. IsList(a) /\ IsList(b)
    BY <1>2, <1>3
  <2> QED BY <2>1, JoinLists
<1>6. /\ IsList(a \o b) /\ DOMAIN (a \o b) = 1 .. (k - 1) + (Len(s) - k)
      /\ \A i \in 1 .. k - 1 : (a \o b)[i] = a[i]
      /\ \A i \in 1 .. Len(s) - k : (a \o b)[k - 1 + i] = b[i]
      /\ \A i \in 1 .. (k - 1) + (Len(s) - k) : ~ (i <= k - 1) =>
           i - (k - 1) \in 1 .. Len(s) - k /\ (a \o b)[i] = b[i - (k - 1)]
  BY <1>2, <1>3, <1>5
<1>7. ASSUME NEW i \in DOMAIN (a \o b)
      PROVE  \E j \in DOMAIN s : (a \o b)[i] = s[j]
  <2>1. CASE i <= k - 1
    <3>1. i \in 1 .. k - 1 /\ i \in DOMAIN s
      BY <1>1, <1>6, <1>7, <2>1
    <3> QED
      BY <1>2, <1>6, <3>1
  <2>2. CASE ~ (i <= k - 1)
    <3>1. /\ i - (k - 1) \in 1 .. Len(s) - k /\ (a \o b)[i] = b[i - (k - 1)]
          /\ k + (i - (k - 1)) \in DOMAIN s
      BY <1>1, <1>6, <1>7, <2>2
    <3> QED
      BY <1>3, <3>1
  <2> QED
    BY <2>1, <2>2
<1>8. ASSUME NEW j \in DOMAIN s \ {k}
      PROVE  \E i \in DOMAIN (a \o b) : (a \o b)[i] = s[j]
  <2>1. CASE j < k
    <3>1. j \in 1 .. k - 1 /\ j \in DOMAIN (a \o b)
      BY <1>1, <1>6, <2>1
    <3> QED
      BY <1>2, <1>6, <3>1
  <2>2. CASE ~ (j < k)
    <3>1. j - k \in 1 .. Len(s) - k /\ k - 1 + (j - k) \in DOMAIN (a \o b) /\ k + (j - k) = j
      BY <1>1, <1>6, <2>2
    <3>2. (a \o b)[k - 1 + (j - k)] = b[j - k] /\ b[j - k] = s[k + (j - k)]
      BY <1>3, <1>6, <3>1
    <3> QED
      BY <3>1, <3>2
  <2> QED
    BY <2>1, <2>2
<1> DEFINE t == a \o b
<1>9. /\ IsList(t)
      /\ \A i \in DOMAIN t : \E j \in DOMAIN s : t[i] = s[j]
      /\ \A j \in DOMAIN s \ {k} : \E i \in DOMAIN t : t[i] = s[j]
  BY <1>6, <1>7, <1>8
<1>10. RemoveAt(s, k) = t
  BY <1>4
<1> HIDE DEF t
<1> QED
  BY <1>9, <1>10

(* ------------------------------- Reporting ----------------------------- *)

\* At most one report more, of a key.
Adds(key) ==
  \/ UNCHANGED reports
  \/ \E r : r.key = key /\ reports' = Append(reports, r)

\* A report is of the key it is made for.
LEMMA DeliverAdds ==
  ASSUME NEW key, NEW path, NEW size, NEW out, NEW enough
  PROVE  /\ Deliver(key, path, size, out, enough) => Adds(key)
         /\ Skip(key, path, size) => Adds(key)
BY DEF Deliver, Skip, Record, Adds

\* A key that was not there leaves the keys distinct.
LEMMA AddsOne ==
  ASSUME NEW key, Adds(key), key \notin ReportKeys, IsList(reports), Distinct(reports)
  PROVE  /\ IsList(reports') /\ Distinct(reports')
         /\ ReportKeys' \subseteq ReportKeys \cup {key}
<1>1. CASE UNCHANGED reports
  BY <1>1 DEF ReportKeys, IsList, Distinct
<1>2. ASSUME NEW r, r.key = key, reports' = Append(reports, r)
      PROVE  /\ IsList(reports') /\ Distinct(reports')
             /\ ReportKeys' \subseteq ReportKeys \cup {key}
  <2>1. /\ IsList(reports') /\ DOMAIN reports' = 1 .. Len(reports) + 1
        /\ reports'[Len(reports) + 1] = r
        /\ \A i \in 1 .. Len(reports) : reports'[i] = reports[i]
    BY <1>2, AppendList
  <2>2. Len(reports) \in Nat /\ DOMAIN reports = 1 .. Len(reports)
    BY ListIsSequence
  <2>3. \A i \in 1 .. Len(reports) + 1 : i # Len(reports) + 1 => i \in 1 .. Len(reports)
    BY <2>2
  <2>4. \A i \in 1 .. Len(reports) : reports[i].key # key
    BY <2>2 DEF ReportKeys
  <2>5. Distinct(reports')
    BY <1>2, <2>1, <2>2, <2>3, <2>4 DEF Distinct
  <2>6. ReportKeys' \subseteq ReportKeys \cup {key}
    BY <1>2, <2>1, <2>2, <2>3 DEF ReportKeys
  <2> QED
    BY <2>1, <2>5, <2>6
<1> QED
  BY <1>1, <1>2 DEF Adds

(* ------------------------------- The volume ---------------------------- *)

\* A name's path, or its folder's, is a list.
LEMMA PathIsList ==
  ASSUME Lived, NEW d \in LiveDirs
  PROVE  IsList(PathOf(d))
<1>1. CASE d = Root
  BY <1>1, OneOrNone DEF PathOf
<1>2. CASE d # Root
  BY <1>2 DEF PathOf, LiveDirs, Lived, Names
<1> QED
  BY <1>1, <1>2

\* A file or folder is made.
LEMMA Made ==
  ASSUME Lived, pc # "new", pc' = pc, ops < MaxOps, ops' = ops + 1, NEW x \in Names, NEW d \in LiveDirs,
         NEW key, NEW blocks, NEW since,
         lives' = [lives EXCEPT ![x] = [key |-> key, path |-> Append(PathOf(d), x),
                                        blocks |-> blocks, since |-> since]],
         alive' = alive \cup {x}
  PROVE  /\ Lived' /\ Born' = Born \cup {x}
         /\ lives'[x].key = key /\ lives'[x].blocks = blocks /\ lives'[x].path = Append(PathOf(d), x)
         /\ \A y \in Names : y # x => lives'[y] = lives[y]
<1>1. IsList(Append(PathOf(d), x)) /\ Append(PathOf(d), x) # <<>>
  BY PathIsList, AppendList
<1>2. lives' = [y \in Names |-> IF y = x THEN [key |-> key, path |-> Append(PathOf(d), x),
                                               blocks |-> blocks, since |-> since]
                                ELSE lives[y]]
  BY DEF Lived
<1>3. /\ \A y \in Names : y # x => lives'[y] = lives[y]
      /\ lives'[x] = [key |-> key, path |-> Append(PathOf(d), x), blocks |-> blocks, since |-> since]
  BY <1>2
<1>4. Born' = Born \cup {x}
  BY <1>1, <1>3 DEF Born
<1>5. lives' = [y \in Names |-> lives'[y]]
  BY <1>2
<1>6. ASSUME NEW y \in Names
      PROVE  /\ Has(lives'[y], {"key", "path"})
             /\ IsList(lives'[y].path)
  <2>1. CASE y = x
    <3>1. lives'[x].path = Append(PathOf(d), x) /\ Has(lives'[x], {"key", "path"})
      BY <1>3 DEF Has
    <3> QED
      BY <1>1, <2>1, <3>1
  <2>2. CASE y # x
    BY <1>3, <2>2 DEF Lived
  <2> QED
    BY <2>1, <2>2
<1>7. alive' \subseteq Born' /\ ops' \in Nat
  BY <1>4 DEF Lived
<1> QED
  BY <1>3, <1>4, <1>5, <1>6, <1>7 DEF Lived

\* One is deleted.
LEMMA Unmade ==
  ASSUME Lived, pc # "new", pc' = pc, ops' = ops + 1, NEW x,
         lives' = lives, alive' = alive \ {x}
  PROVE  Lived' /\ Born' = Born
<1>1. Born' = Born
  BY DEF Born
<1> QED
  BY <1>1 DEF Lived, IsList

\* Nothing is done to it.
LEMMA LivedOn ==
  ASSUME Lived, UNCHANGED <<lives, alive>>, ops' \in {ops, ops + 1}, pc' = "new" => pc = "new"
  PROVE  Lived' /\ Born' = Born
<1>1. Born' = Born
  BY DEF Born
<1>2. ops' \in Nat
  BY DEF Lived
<1> QED
  BY <1>1, <1>2 DEF Lived, IsList

\* A formatted volume has no files yet.
LEMMA FormattedEmpty ==
  ASSUME Lived, Reported, pc = "new", pc' = "life", UNCHANGED <<lives, alive, ops, reports>>
  PROVE  /\ Lived' /\ Reported' /\ Born' = {} /\ alive' = {} /\ ReportKeys' = {}
<1>1. Born' = Born /\ Born = {} /\ alive = {}
  BY DEF Born, Lived
<1>2. reports' = <<>>
  BY DEF Reported
<1>3. Lived'
  BY <1>1 DEF Lived, IsList
<1>4. Reported' /\ ReportKeys' = {}
  BY <1>2 DEF Reported, IsList, Distinct, ReportKeys
<1> QED
  BY <1>1, <1>3, <1>4

\* Nothing is reported while the volume lives.
LEMMA NothingReported ==
  ASSUME Reported, pc = "life", pc' \in {"life", "scan"}, UNCHANGED reports
  PROVE  Reported' /\ ReportKeys = {} /\ ReportKeys' = {} /\ reports = <<>>
BY DEF Reported, IsList, Distinct, ReportKeys

\* A step that reports nothing.
LEMMA ReportedStill ==
  ASSUME Reported, pc = "scan", pc' \in {"scan", "done"}, UNCHANGED reports
  PROVE  Reported' /\ ReportKeys' = ReportKeys
BY DEF Reported, IsList, Distinct, ReportKeys

\* A step that reports a key that was not.
LEMMA ReportedMore ==
  ASSUME Reported, pc = "scan", pc' = pc, NEW key, Adds(key), key \notin ReportKeys
  PROVE  Reported' /\ ReportKeys' \subseteq ReportKeys \cup {key}
<1>1. /\ IsList(reports') /\ Distinct(reports') /\ ReportKeys' \subseteq ReportKeys \cup {key}
  BY AddsOne DEF Reported
<1> QED
  BY <1>1 DEF Reported

\* The least of a set of numbers is one of them.
LEMMA MinIsIn ==
  ASSUME NEW S \in SUBSET Nat, S # {}
  PROVE  Min(S) \in S
<1>1. \E x \in S : \A y \in S : x <= y
  BY LeastNatural
<1> QED
  BY <1>1 DEF Min

(* --------------------------------- NTFS -------------------------------- *)

\* A new NTFS volume holds no file and nothing has been reported of it.
LEMMA NtfsFormatSound ==
  ASSUME Sound, NtfsFormat
  PROVE  Sound'
<1>1. /\ pc = "new" /\ pc' = "life" /\ fs = "ntfs" /\ fs' = fs
      /\ UNCHANGED <<lives, alive, ops, reports>>
  BY DEF NtfsFormat
<1>2. /\ Lived' /\ Reported' /\ alive' = {} /\ ReportKeys' = {}
  BY <1>1, FormattedEmpty DEF Sound
<1>3. meta' = [r \in Mft |-> meta'[r]]
  BY DEF NtfsFormat
<1>4. NtfsSound'
  BY <1>1, <1>2, <1>3 DEF NtfsSound, AliveApart
<1> QED
  BY <1>1, <1>2, <1>4 DEF Sound

\* A new file takes a record that nothing alive has.
LEMMA NtfsCreateSound ==
  ASSUME Sound, NtfsCreate
  PROVE  Sound'
<1>1. /\ pc = "life" /\ pc' = pc /\ fs = "ntfs" /\ fs' = fs /\ ops < MaxOps /\ ops' = ops + 1
      /\ reports' = reports
  BY DEF NtfsCreate, Doing, LifeOnly
<1>2. Lived /\ Reported /\ NtfsSound
  BY <1>1 DEF Sound
<1>3. Reported' /\ ReportKeys' = {}
  BY <1>1, <1>2, NothingReported
<1> DEFINE r == FreeRecord
<1>4. r \in Mft /\ ~meta[r].in_use
  <2>1. {q \in Mft : ~meta[q].in_use} \in SUBSET Nat /\ {q \in Mft : ~meta[q].in_use} # {}
    BY NtfsAssumption DEF NtfsCreate, Mft
  <2>2. r \in {q \in Mft : ~meta[q].in_use}
    BY <2>1, MinIsIn DEF FreeRecord
  <2> QED
    BY <2>2
<1>5. meta = [q \in Mft |-> meta[q]]
  BY <1>1, <1>2 DEF NtfsSound
<1>6. PICK x \in Names \ Born, d \in LiveDirs, hand \in Hands, inside \in BOOLEAN, cut \in BOOLEAN :
        NtfsCreate!2!(x, d, hand, inside, cut)
  BY DEF NtfsCreate
<1> DEFINE bl   == IF inside THEN <<>> ELSE Allocate(hand, BlocksIn(x))
           all  == IF bl = <<>> THEN <<>> ELSE Layout(x, bl)
           data == IF x \in Dirs THEN NoData
                   ELSE IF inside THEN Resident(Content(x)) ELSE Runs(Size[x], all)
           new  == [in_use |-> TRUE, dir |-> x \in Dirs, torn |-> FALSE, data |-> data,
                    names |-> <<FileName("SHORT", RecordOf(d), Dos, 5),
                                FileName(x, RecordOf(d), Posix, 1)>>]
<1>7. new.in_use = TRUE
  BY Zenon
<1>8. IF cut THEN meta' = [meta EXCEPT ![r].data = data, ![r].torn = TRUE] /\ UNCHANGED <<lives, alive>>
       ELSE /\ meta' = [meta EXCEPT ![r] = new]
            /\ lives' = [lives EXCEPT ![x] = [key |-> r, path |-> Append(PathOf(d), x),
                                               blocks |-> all, since |-> Now]]
            /\ alive' = alive \cup {x}
  BY <1>6
<1> HIDE DEF bl, all, data, new, r
<1>9. CASE cut
  <2>1. meta' = [q \in Mft |-> meta'[q]] /\ \A q \in Mft : q # r => meta'[q] = meta[q]
    BY <1>5, <1>9, <1>8
  <2>2. Lived'
    BY <1>1, <1>2, <1>9, <1>8, LivedOn
  <2>3. NtfsSound'
    BY <1>1, <1>2, <1>3, <1>4, <1>9, <1>8, <2>1 DEF NtfsSound, AliveApart
  <2> QED
    BY <1>1, <1>3, <2>2, <2>3 DEF Sound
<1>10. CASE ~cut
  <2>1. /\ meta' = [meta EXCEPT ![r] = new]
        /\ lives' = [lives EXCEPT ![x] = [key |-> r, path |-> Append(PathOf(d), x),
                                           blocks |-> all, since |-> Now]]
        /\ alive' = alive \cup {x}
    BY <1>10, <1>8
  <2>2. /\ meta' = [q \in Mft |-> meta'[q]]
        /\ \A q \in Mft : q # r => meta'[q] = meta[q]
        /\ meta'[r].in_use
    BY <1>4, <1>5, <1>7, <2>1
  <2>3. /\ Lived' /\ lives'[x].key = r
        /\ \A y \in Names : y # x => lives'[y] = lives[y]
    BY <1>1, <1>2, <2>1, Made
  <2>4. \A y \in alive : /\ y \in Names /\ y # x /\ lives'[y].key = lives[y].key /\ lives[y].key # r
                         /\ lives[y].key \in Mft /\ meta'[lives[y].key].in_use
    BY <1>2, <1>4, <2>2, <2>3 DEF NtfsSound, Lived, Born
  <2>5. NtfsSound'
    BY <1>1, <1>2, <1>3, <1>4, <2>1, <2>2, <2>3, <2>4 DEF NtfsSound, AliveApart
  <2> QED
    BY <1>1, <1>3, <2>3, <2>5 DEF Sound
<1> QED
  BY <1>9, <1>10

\* A deleted file's record is no longer in use; every other keeps its own.
LEMMA NtfsDeleteSound ==
  ASSUME Sound, NtfsDelete
  PROVE  Sound'
<1>1. /\ pc = "life" /\ pc' = pc /\ fs = "ntfs" /\ fs' = fs /\ ops' = ops + 1
      /\ reports' = reports /\ lives' = lives
  BY DEF NtfsDelete, Doing, LifeOnly
<1>2. Lived /\ Reported /\ NtfsSound
  BY <1>1 DEF Sound
<1>3. Reported' /\ ReportKeys' = {}
  BY <1>1, <1>2, NothingReported
<1>4. PICK x \in alive, strip \in BOOLEAN :
        /\ meta' = [meta EXCEPT ![lives[x].key].in_use = FALSE,
                                ![lives[x].key].names = IF strip THEN <<>> ELSE @]
        /\ alive' = alive \ {x}
  BY DEF NtfsDelete
<1>5. meta = [q \in Mft |-> meta[q]]
  BY <1>1, <1>2 DEF NtfsSound
<1>6. meta' = [q \in Mft |-> meta'[q]] /\ \A q \in Mft : q # lives[x].key => meta'[q] = meta[q]
  <2>1. PICK key : key = lives[x].key
    OBVIOUS
  <2>2. PICK names : meta' = [meta EXCEPT ![key].in_use = FALSE, ![key].names = names]
    <3>1. CASE strip
      BY <1>4, <2>1, <3>1
    <3>2. CASE ~strip
      BY <1>4, <2>1, <3>2
    <3> QED
      BY <3>1, <3>2
  <2>3. PICK old : old = meta
    OBVIOUS
  <2>4. old = [q \in Mft |-> old[q]] /\ meta' = [old EXCEPT ![key].in_use = FALSE, ![key].names = names]
    BY <1>5, <2>2, <2>3
  <2>5. meta' = [q \in Mft |-> meta'[q]] /\ \A q \in Mft : q # key => meta'[q] = old[q]
    BY <2>4
  <2> QED
    BY <2>1, <2>3, <2>5
<1>7. Lived'
  BY <1>1, <1>2, <1>4, Unmade
<1>8. NtfsSound'
  <2>1. \A y \in alive' : /\ y \in alive /\ lives[y].key # lives[x].key
                          /\ lives[y].key \in Mft /\ meta[lives[y].key].in_use
    BY <1>2, <1>4 DEF NtfsSound, AliveApart
  <2>2. \A y \in alive' : lives'[y].key \in Mft /\ meta'[lives'[y].key].in_use
    BY <1>1, <1>6, <2>1
  <2>3. AliveApart'
    BY <1>1, <1>2, <2>1 DEF NtfsSound, AliveApart
  <2> QED
    BY <1>1, <1>3, <1>6, <2>2, <2>3 DEF NtfsSound
<1> QED
  BY <1>1, <1>3, <1>7, <1>8 DEF Sound

\* The scan reports a record that is not in use, and goes on behind it.
LEMMA NtfsScanSound ==
  ASSUME Sound, NtfsRecover \/ NtfsStep
  PROVE  Sound'
<1>1. /\ fs = "ntfs" /\ fs' = fs /\ UNCHANGED volume /\ pc' \in {"scan", "done"}
  BY DEF NtfsRecover, NtfsStep, NtfsRecord, NtfsClimb, NtfsWrite, NtfsEnd, Started, Reading, Walking,
         Stop, volume
<1>2. Lived /\ Reported /\ NtfsSound
  BY <1>1 DEF Sound
<1>3. Lived'
  BY <1>1, <1>2, LivedOn DEF volume
<1>4. meta' = meta /\ alive' = alive /\ lives' = lives
  BY <1>1 DEF volume
<1>5. SUFFICES Reported' /\ NtfsSound'
  BY <1>1, <1>3 DEF Sound
<1>6. /\ pc' # "new" => meta' = [r \in Mft |-> meta'[r]]
      /\ AliveApart'
      /\ \A x \in alive' : lives'[x].key \in Mft /\ meta'[lives'[x].key].in_use
  BY <1>1, <1>2, <1>4 DEF NtfsSound, AliveApart, NtfsRecover, NtfsStep, NtfsRecord, NtfsClimb, NtfsWrite,
     NtfsEnd, Started, Reading
<1>7. CASE NtfsRecover
  <2>1. pc = "life" /\ pc' = "scan" /\ reports' = reports /\ w' = [step |-> "record", at |-> 0]
    BY <1>7 DEF NtfsRecover, Started
  <2>2. Reported' /\ ReportKeys' = {}
    BY <1>2, <2>1, NothingReported
  <2> QED
    BY <1>6, <2>1, <2>2 DEF NtfsSound, Has
<1>8. CASE NtfsRecord
  <2>1. /\ pc = "scan" /\ pc' = pc /\ reports' = reports /\ w.at \in Mft
        /\ \/ w' = NextRecord(w.at)
           \/ ~meta[w.at].in_use /\ \E path : w' = [step |-> "write", at |-> w.at, path |-> path]
           \/ ~meta[w.at].in_use /\ \E path, current, seen :
                w' = [step |-> "climb", at |-> w.at, path |-> path, current |-> current, seen |-> seen]
    BY <1>8 DEF NtfsRecord, Reading, Walking
  <2>2. Reported' /\ ReportKeys' = ReportKeys
    BY <1>2, <2>1, ReportedStill
  <2>3. w.at \in Nat /\ \A k \in ReportKeys : k < w.at /\ k \in Nat /\ k \in Mft /\ ~meta[k].in_use
    BY <1>2, <2>1, NtfsAssumption DEF NtfsSound, Mft
  <2>4. CASE w' = NextRecord(w.at)
    BY <1>4, <1>6, <2>1, <2>2, <2>3, <2>4 DEF NtfsSound, Has, NextRecord
  <2>5. CASE ~meta[w.at].in_use /\ \E path : w' = [step |-> "write", at |-> w.at, path |-> path]
    BY <1>4, <1>6, <2>1, <2>2, <2>3, <2>5 DEF NtfsSound, Has
  <2>6. CASE ~meta[w.at].in_use /\ \E path, current, seen :
          w' = [step |-> "climb", at |-> w.at, path |-> path, current |-> current, seen |-> seen]
    BY <1>4, <1>6, <2>1, <2>2, <2>3, <2>6 DEF NtfsSound, Has
  <2> QED
    BY <2>1, <2>4, <2>5, <2>6
<1>9. CASE NtfsClimb
  <2>1. pc = "scan" /\ pc' = pc /\ reports' = reports /\ w.step = "climb"
    BY <1>9 DEF NtfsClimb, Reading, Walking
  <2>2. Reported' /\ ReportKeys' = ReportKeys
    BY <1>2, <2>1, ReportedStill
  <2>3. w'.at = w.at /\ w'.step \in {"climb", "write"} /\ Has(w', {"step", "at"})
    <3> DEFINE best == IF Climbs /\ ReadRecord(w.current) THEN BestName(meta[w.current]) ELSE {}
               b == CHOOSE x \in best : TRUE
               up == [w EXCEPT !.path = <<b.name>> \o @, !.current = b.parent, !.seen = @ \cup {w.current}]
    <3>1. w' = [step |-> "write", at |-> w.at, path |-> w.path] \/ w' = up
      BY <1>9 DEF NtfsClimb, Walking
    <3>2. Has(w, {"step", "at"})
      BY <1>2, <2>1 DEF NtfsSound
    <3>3. DOMAIN up = DOMAIN w /\ up.at = w.at /\ up.step = w.step
      <4> HIDE DEF b
      <4> QED BY <3>2 DEF Has
    <3> HIDE DEF best, b, up
    <3> QED
      BY <2>1, <3>1, <3>2, <3>3 DEF Has
  <2>4. /\ w.at \in Nat /\ w.at \in Mft /\ ~meta[w.at].in_use
        /\ \A k \in ReportKeys : k < w.at /\ k \in Mft /\ ~meta[k].in_use
    BY <1>2, <2>1 DEF NtfsSound
  <2> QED
    BY <1>4, <1>6, <2>1, <2>2, <2>3, <2>4 DEF NtfsSound
<1>10. CASE NtfsWrite
  <2>1. /\ pc = "scan" /\ pc' = pc /\ w.step = "write" /\ w' = [step |-> "record", at |-> w.at + 1]
        /\ Adds(w.at)
    BY <1>10, DeliverAdds DEF NtfsWrite, Reading, NextRecord, Adds
  <2>2. /\ w.at \in Nat /\ w.at \in Mft /\ ~meta[w.at].in_use
        /\ \A k \in ReportKeys : k < w.at /\ k \in Nat /\ k \in Mft /\ ~meta[k].in_use
    BY <1>2, <2>1, NtfsAssumption DEF NtfsSound, Mft
  <2>3. w.at \notin ReportKeys
    BY <2>2
  <2>4. Reported' /\ ReportKeys' \subseteq ReportKeys \cup {w.at}
    BY <1>2, <2>1, <2>3, ReportedMore
  <2>5. \A k \in ReportKeys' : k < w.at + 1 /\ k \in Mft /\ ~meta[k].in_use
    BY <2>2, <2>4
  <2> QED
    BY <1>4, <1>6, <2>1, <2>2, <2>4, <2>5 DEF NtfsSound, Has
<1>11. CASE NtfsEnd
  <2>1. pc = "scan" /\ pc' = "done" /\ reports' = reports
    BY <1>11 DEF NtfsEnd, Reading, Stop
  <2>2. Reported' /\ ReportKeys' = ReportKeys
    BY <1>2, <2>1, ReportedStill
  <2> QED
    BY <1>2, <1>4, <1>6, <2>1, <2>2 DEF NtfsSound
<1> QED
  BY <1>7, <1>8, <1>9, <1>10, <1>11 DEF NtfsStep

(* ---------------------------------- ext -------------------------------- *)

\* A new ext volume holds no file and every inode is unused.
LEMMA ExtFormatSound ==
  ASSUME Sound, ExtFormat
  PROVE  Sound'
<1>1. /\ pc = "new" /\ pc' = "life" /\ fs = "ext" /\ fs' = fs
      /\ UNCHANGED <<lives, alive, ops, reports>>
  BY DEF ExtFormat
<1>2. /\ Lived' /\ Reported' /\ alive' = {} /\ ReportKeys' = {}
  BY <1>1, FormattedEmpty DEF Sound
<1>3. meta'.table = [i \in Ino |-> meta'.table[i]]
  BY DEF ExtFormat
<1>4. ExtSound'
  BY <1>1, <1>2, <1>3 DEF ExtSound, AliveApart
<1> QED
  BY <1>1, <1>2, <1>4 DEF Sound

\* A new file takes an inode that nothing alive has.
LEMMA ExtCreateSound ==
  ASSUME Sound, ExtCreate
  PROVE  Sound'
<1>1. /\ pc = "life" /\ pc' = pc /\ fs = "ext" /\ fs' = fs /\ ops < MaxOps /\ ops' = ops + 1
      /\ reports' = reports
  BY DEF ExtCreate, Doing, LifeOnly
<1>2. Lived /\ Reported /\ ExtSound
  BY <1>1 DEF Sound
<1>3. Reported' /\ ReportKeys' = {}
  BY <1>1, <1>2, NothingReported
<1> DEFINE i == FreeInode
<1>4. i \in Ino /\ meta.table[i].links = 0
  <2>1. {j \in Ino : meta.table[j].links = 0} \in SUBSET Nat /\ {j \in Ino : meta.table[j].links = 0} # {}
    BY ExtAssumption DEF ExtCreate, Ino
  <2>2. i \in {j \in Ino : meta.table[j].links = 0}
    BY <2>1, MinIsIn DEF FreeInode
  <2> QED
    BY <2>2
<1>5. meta.table = [j \in Ino |-> meta.table[j]]
  BY <1>1, <1>2 DEF ExtSound
<1>6. PICK x \in Names \ Born, d \in LiveDirs, hand \in Hands, extents \in BOOLEAN :
        ExtCreate!2!(x, d, hand, extents)
  BY DEF ExtCreate
<1> DEFINE bl  == Allocate(hand, BlocksIn(x))
           all == IF x \in Dirs \/ bl = <<>> THEN <<>> ELSE Layout(x, bl)
           new == [mode |-> IF x \in Dirs THEN "dir" ELSE "reg", links |-> 1, dtime |-> 0,
                   ctime |-> Now, size |-> IF x \in Dirs THEN 1 ELSE Size[x],
                   extents |-> extents,
                   map |-> IF x \in Dirs THEN [kind |-> "dir"]
                           ELSE IF extents THEN Extents(all) ELSE Pointers(all)]
<1>7. new.links = 1 /\ new.dtime = 0
  BY Zenon
<1>8. /\ meta'.table = [meta.table EXCEPT ![i] = new]
      /\ lives' = [lives EXCEPT ![x] = [key |-> i, path |-> Append(PathOf(d), x),
                                         blocks |-> all, since |-> Now]]
      /\ alive' = alive \cup {x}
  BY <1>6 DEF Commit
<1> HIDE DEF bl, all, new, i
<1>9. /\ meta'.table = [j \in Ino |-> meta'.table[j]]
      /\ \A j \in Ino : j # i => meta'.table[j] = meta.table[j]
      /\ meta'.table[i].links = 1 /\ meta'.table[i].dtime = 0
  BY <1>4, <1>5, <1>7, <1>8
<1>10. /\ Lived' /\ lives'[x].key = i
       /\ \A y \in Names : y # x => lives'[y] = lives[y]
  BY <1>1, <1>2, <1>8, Made
<1>11. \A y \in alive : /\ y \in Names /\ y # x /\ lives'[y].key = lives[y].key /\ lives[y].key # i
                        /\ lives[y].key \in Ino
                        /\ meta'.table[lives[y].key].links = 1 /\ meta'.table[lives[y].key].dtime = 0
  BY <1>2, <1>4, <1>9, <1>10 DEF ExtSound, Lived, Born
<1>12. ExtSound'
  BY <1>1, <1>2, <1>3, <1>4, <1>8, <1>9, <1>10, <1>11 DEF ExtSound, AliveApart
<1> QED
  BY <1>1, <1>3, <1>10, <1>12 DEF Sound

\* A deleted file's inode has no link and a time of deletion; others stay.
LEMMA ExtDeleteSound ==
  ASSUME Sound, ExtDelete
  PROVE  Sound'
<1>1. /\ pc = "life" /\ pc' = pc /\ fs = "ext" /\ fs' = fs /\ ops' = ops + 1
      /\ reports' = reports /\ lives' = lives
  BY DEF ExtDelete, Doing, LifeOnly
<1>2. Lived /\ Reported /\ ExtSound
  BY <1>1 DEF Sound
<1>3. Reported' /\ ReportKeys' = {}
  BY <1>1, <1>2, NothingReported
<1>4. meta.table = [j \in Ino |-> meta.table[j]]
  BY <1>1, <1>2 DEF ExtSound
<1>5. PICK x \in alive :
        /\ meta'.table = [j \in Ino |-> meta'.table[j]]
        /\ \A j \in Ino : j # lives[x].key => meta'.table[j] = meta.table[j]
        /\ alive' = alive \ {x}
  <2>1. PICK x \in alive, keepMap \in BOOLEAN, zeroEntry \in BOOLEAN : ExtDelete!2!(x, keepMap, zeroEntry)
    BY DEF ExtDelete
  <2> DEFINE i == lives[x].key
  <2>2. /\ meta'.table = [meta.table EXCEPT ![i].links = 0, ![i].dtime = Now, ![i].ctime = Now,
                                            ![i].map = IF keepMap THEN @ ELSE NoMap]
        /\ alive' = alive \ {x}
    BY <2>1 DEF Commit
  <2>3. \E map : meta'.table = [meta.table EXCEPT ![i].links = 0, ![i].dtime = Now, ![i].ctime = Now,
                                                  ![i].map = map]
    BY <2>2
  <2>4. /\ meta'.table = [j \in Ino |-> meta'.table[j]]
        /\ \A j \in Ino : j # i => meta'.table[j] = meta.table[j]
    BY <1>4, <2>3
  <2> QED
    BY <2>2, <2>4
<1>6. Lived'
  BY <1>1, <1>2, <1>5, Unmade
<1>7. ExtSound'
  BY <1>1, <1>2, <1>3, <1>5 DEF ExtSound, AliveApart
<1> QED
  BY <1>1, <1>3, <1>6, <1>7 DEF Sound

\* Of each inode the first name counts, unless one was found before.
LEMMA FoundOnce ==
  ASSUME FoundSound, NEW below
  PROVE  LET found == w.found \cup NewlyFound(w.found, below)
         IN  /\ \A f \in found : IsDeleted(meta.table[f.ino])
             /\ \A f, g \in found : f.ino = g.ino => f = g
<1> DEFINE new == NewlyFound(w.found, below)
           path(i) == below[Min({k \in DOMAIN below : below[k].ino = i})].path
           inos == {below[k].ino : k \in DOMAIN below}
           lost == {i \in inos : meta.table[i].mode = "reg" /\ IsDeleted(meta.table[i])}
<1>1. new = {Folder(i, path(i)) : i \in lost \ {f.ino : f \in w.found}}
  BY DEF NewlyFound
<1> HIDE DEF new, path, inos
<1>2. \A f \in new : /\ f = Folder(f.ino, path(f.ino))
                     /\ IsDeleted(meta.table[f.ino])
                     /\ \A g \in w.found : g.ino # f.ino
  <2> SUFFICES ASSUME NEW f \in new
               PROVE  /\ f = Folder(f.ino, path(f.ino))
                      /\ IsDeleted(meta.table[f.ino])
                      /\ \A g \in w.found : g.ino # f.ino
    OBVIOUS
  <2>1. PICK i \in lost \ {g.ino : g \in w.found} : f = Folder(i, path(i))
    BY <1>1
  <2>2. f.ino = i
    BY <2>1 DEF Folder
  <2> QED
    BY <2>1, <2>2
<1>3. \A f, g \in new : f.ino = g.ino => f = g
  BY <1>2
<1>4. /\ \A f \in w.found : IsDeleted(meta.table[f.ino])
      /\ \A f, g \in w.found : f.ino = g.ino => f = g
  BY DEF FoundSound
<1>5. \A f \in w.found \cup new : IsDeleted(meta.table[f.ino])
  BY <1>2, <1>4
<1>6. \A f, g \in w.found \cup new : f.ino = g.ino => f = g
  BY <1>2, <1>3, <1>4
<1> QED
  BY <1>5, <1>6 DEF new

\* The recovery reports what was found, of each deleted inode once.
LEMMA ExtScanSound ==
  ASSUME Sound, ExtRecover \/ ExtStep
  PROVE  Sound'
<1>1. /\ fs = "ext" /\ fs' = fs /\ UNCHANGED volume /\ pc' \in {"scan", "done"} /\ pc \in {"life", "scan"}
  BY DEF ExtRecover, ExtStep, ExtDirectory, ExtFound, ExtFile, ExtEnd, Started, Reading, Walking,
         Stop, volume
<1>2. Lived /\ Reported /\ ExtSound
  BY <1>1 DEF Sound
<1>3. Lived'
  BY <1>1, <1>2, LivedOn DEF volume
<1>4. meta' = meta /\ alive' = alive /\ lives' = lives
  BY <1>1 DEF volume
<1>5. SUFFICES Reported' /\ ExtSound'
  BY <1>1, <1>3 DEF Sound
<1>6. /\ pc' # "new" => meta'.table = [i \in Ino |-> meta'.table[i]]
      /\ AliveApart'
      /\ \A x \in alive' : /\ lives'[x].key \in Ino /\ meta'.table[lives'[x].key].links = 1
                           /\ meta'.table[lives'[x].key].dtime = 0
  BY <1>1, <1>2, <1>4 DEF ExtSound, AliveApart
<1>7. CASE ExtRecover
  <2>1. pc = "life" /\ pc' = "scan" /\ reports' = reports /\ w'.found = {} /\ Has(w', {"step", "found"})
    BY <1>7 DEF ExtRecover, Started, Has
  <2>2. Reported' /\ ReportKeys' = {} /\ reports = <<>>
    BY <1>2, <2>1, NothingReported
  <2>3. FoundSound'
    BY <2>1 DEF FoundSound
  <2> QED
    BY <1>6, <2>1, <2>2, <2>3 DEF ExtSound
<1>8. ASSUME pc = "scan"
      PROVE  FoundSound /\ Has(w, {"step", "found"}) /\ (w.step = "walk" => reports = <<>>)
  BY <1>2, <1>8 DEF ExtSound
<1>9. CASE ExtDirectory
  <2>1. pc = "scan" /\ pc' = pc /\ reports' = reports /\ w.step = "walk" /\ reports = <<>>
    BY <1>8, <1>9 DEF ExtDirectory, Reading, Walking
  <2>2. Reported' /\ ReportKeys' = ReportKeys /\ ReportKeys = {}
    BY <1>2, <2>1, ReportedStill DEF ReportKeys
  <2>3. PICK below : /\ Has(w', {"step", "found"}) /\ w'.step = w.step
                     /\ w'.found = w.found \cup NewlyFound(w.found, below)
    <3> DEFINE dir == Last(w.stack)
               rest == Front(w.stack)
               entries == IF dir.ino \in w.visited \/ DirInode(dir.ino) = <<>> THEN <<>>
                          ELSE Entries(dir.ino)
               below == [k \in DOMAIN entries |-> Folder(entries[k].e.ino, Append(dir.path, entries[k].e.name))]
               deeper == SelectSeq(below, LAMBDA f : /\ meta.table[f.ino].mode = "dir"
                                                     /\ Len(dir.path) < MaxDirDepth)
    <3>1. w' = [w EXCEPT !.visited = @ \cup {dir.ino}, !.stack = rest \o deeper,
                         !.found = @ \cup NewlyFound(@, below)]
      BY <1>9 DEF ExtDirectory, Walking
    <3> HIDE DEF dir, rest, entries, below, deeper
    <3> QED
      BY <1>8, <2>1, <3>1 DEF Has
  <2>4. FoundSound'
    BY <1>4, <1>8, <2>1, <2>2, <2>3, FoundOnce DEF FoundSound
  <2> QED
    BY <1>6, <2>1, <2>2, <2>3, <2>4 DEF ExtSound
<1>10. CASE ExtFound
  <2>1. /\ pc = "scan" /\ pc' = pc /\ reports' = reports
        /\ w'.found = w.found /\ w'.step = "file" /\ Has(w', {"step", "found"})
    BY <1>10 DEF ExtFound, Reading, Walking, Has
  <2>2. Reported' /\ ReportKeys' = ReportKeys
    BY <1>2, <2>1, ReportedStill
  <2>3. FoundSound'
    BY <1>4, <1>8, <2>1, <2>2 DEF FoundSound
  <2> QED
    BY <1>2, <1>4, <1>6, <2>1, <2>2, <2>3 DEF ExtSound
<1>11. CASE ExtFile
  <2>1. PICK f \in w.found : /\ pc = "scan" /\ pc' = pc /\ w.step = "file"
                             /\ w' = [w EXCEPT !.found = @ \ {f}] /\ Adds(f.ino)
    BY <1>11, DeliverAdds DEF ExtFile, Reading, Adds
  <2>2. Has(w', {"step", "found"}) /\ w'.step = "file" /\ w'.found = w.found \ {f}
    BY <1>8, <2>1 DEF Has
  <2>3. f.ino \notin ReportKeys /\ IsDeleted(meta.table[f.ino])
    BY <1>8, <2>1 DEF FoundSound
  <2>4. Reported' /\ ReportKeys' \subseteq ReportKeys \cup {f.ino}
    BY <1>2, <2>1, <2>3, ReportedMore
  <2>5. \A g \in w'.found : g \in w.found /\ g.ino # f.ino
    BY <1>8, <2>1, <2>2 DEF FoundSound
  <2>6. FoundSound'
    BY <1>4, <1>8, <2>1, <2>2, <2>4, <2>5 DEF FoundSound
  <2>7. \A k \in ReportKeys' : IsDeleted(meta'.table[k])
    BY <1>2, <1>4, <2>3, <2>4 DEF ExtSound
  <2> QED
    BY <1>6, <2>1, <2>2, <2>4, <2>6, <2>7 DEF ExtSound
<1>12. CASE ExtEnd
  <2>1. pc = "scan" /\ pc' = "done" /\ reports' = reports
    BY <1>12 DEF ExtEnd, Reading, Stop
  <2>2. Reported' /\ ReportKeys' = ReportKeys
    BY <1>2, <2>1, ReportedStill
  <2> QED
    BY <1>2, <1>4, <1>6, <2>1, <2>2 DEF ExtSound
<1> QED
  BY <1>7, <1>9, <1>10, <1>11, <1>12 DEF ExtStep

(* --------------------------------- HFS+ -------------------------------- *)

\* A function over the places of a list is one.
LEMMA FunctionIsList ==
  ASSUME NEW n \in Nat, NEW f, f = [i \in 1 .. n |-> f[i]]
  PROVE  IsList(f) /\ Len(f) = n /\ DOMAIN f = 1 .. n
<1>1. f \in Seq({f[i] : i \in 1 .. n}) /\ Len(f) = n
  OBVIOUS
<1> QED
  BY <1>1, SequenceIsList

\* A record more.
Grown(s, r, t, ids) ==
  /\ FilesKnown(t, ids)
  /\ \E i \in DOMAIN t : t[i] = r
  /\ \A j \in DOMAIN s : \E i \in DOMAIN t : t[i] = s[j]

\* A list of known records with a known one more, at either end, is one.
LEMMA KnownMore ==
  ASSUME NEW s, NEW ids, FilesKnown(s, ids), NEW r, Known(r, ids)
  PROVE  Grown(s, r, Append(s, r), ids) /\ Grown(s, r, <<r>> \o s, ids)
<1>1. IsList(s) /\ \A i \in DOMAIN s : Known(s[i], ids)
  BY DEF FilesKnown
<1>2. DOMAIN s = 1 .. Len(s) /\ Len(s) \in Nat
  BY <1>1, ListIsSequence
<1> DEFINE a == Append(s, r)
           b == <<r>> \o s
<1>3. /\ IsList(a) /\ DOMAIN a = 1 .. Len(s) + 1 /\ a[Len(s) + 1] = r
      /\ \A i \in 1 .. Len(s) : a[i] = s[i]
  BY <1>1, AppendList
<1>4. IsList(<<r>>) /\ Len(<<r>>) = 1 /\ <<r>>[1] = r
  BY OneOrNone
<1> DEFINE one == <<r>>
<1> HIDE DEF one
<1>5. /\ IsList(one \o s) /\ DOMAIN (one \o s) = 1 .. Len(one) + Len(s)
      /\ \A i \in 1 .. Len(one) : (one \o s)[i] = one[i]
      /\ \A i \in 1 .. Len(s) : (one \o s)[Len(one) + i] = s[i]
      /\ \A i \in 1 .. Len(one) + Len(s) : ~ (i <= Len(one)) =>
           i - Len(one) \in 1 .. Len(s) /\ (one \o s)[i] = s[i - Len(one)]
  <2>1. IsList(one)
    BY <1>4 DEF one
  <2> QED
    BY <1>1, <2>1, JoinLists
<1>6. Len(one) = 1 /\ one[1] = r
  BY <1>4 DEF one
<1>7. /\ IsList(b) /\ DOMAIN b = 1 .. Len(s) + 1 /\ b[1] = r
      /\ \A i \in 1 .. Len(s) : b[1 + i] = s[i]
      /\ \A i \in 1 .. Len(s) + 1 : i # 1 => i - 1 \in 1 .. Len(s) /\ b[i] = s[i - 1]
  <2>1. /\ IsList(one \o s) /\ DOMAIN (one \o s) = 1 .. Len(s) + 1 /\ (one \o s)[1] = r
        /\ \A i \in 1 .. Len(s) : (one \o s)[1 + i] = s[i]
        /\ \A i \in 1 .. Len(s) + 1 : i # 1 => i - 1 \in 1 .. Len(s) /\ (one \o s)[i] = s[i - 1]
    BY <1>2, <1>5, <1>6
  <2> QED
    BY <2>1 DEF one
<1> HIDE DEF a, b
<1>8. FilesKnown(a, ids)
  <2> SUFFICES ASSUME NEW i \in DOMAIN a PROVE Known(a[i], ids)
    BY <1>3 DEF FilesKnown
  <2>1. i = Len(s) + 1 \/ i \in 1 .. Len(s)
    BY <1>2, <1>3
  <2> QED
    BY <1>1, <1>2, <1>3, <2>1
<1>9. FilesKnown(b, ids)
  <2> SUFFICES ASSUME NEW i \in DOMAIN b PROVE Known(b[i], ids)
    BY <1>7 DEF FilesKnown
  <2>1. i = 1 \/ (i - 1 \in 1 .. Len(s) /\ b[i] = s[i - 1])
    BY <1>7
  <2> QED
    BY <1>1, <1>2, <1>7, <2>1
<1>10. (\E i \in DOMAIN a : a[i] = r) /\ (\E i \in DOMAIN b : b[i] = r)
  BY <1>2, <1>3, <1>7
<1>11. ASSUME NEW j \in DOMAIN s
       PROVE  (\E i \in DOMAIN a : a[i] = s[j]) /\ (\E i \in DOMAIN b : b[i] = s[j])
  <2>1. j \in DOMAIN a /\ a[j] = s[j] /\ 1 + j \in DOMAIN b /\ b[1 + j] = s[j]
    BY <1>2, <1>3, <1>7
  <2> QED
    BY <2>1
<1> QED
  BY <1>8, <1>9, <1>10, <1>11 DEF a, b, Grown

\* A record less.
LEMMA KnownLess ==
  ASSUME NEW s, NEW ids, FilesKnown(s, ids)
  PROVE  /\ s # <<>> => FilesKnown(Tail(s), ids)
         /\ \A k \in DOMAIN s : FilesKnown(RemoveAt(s, k), ids)
         /\ FilesKnown(<<>>, ids)
<1>1. IsList(s) /\ \A i \in DOMAIN s : Known(s[i], ids)
  BY DEF FilesKnown
<1>2. DOMAIN s = 1 .. Len(s) /\ Len(s) \in Nat
  BY <1>1, ListIsSequence
<1>3. ASSUME s # <<>> PROVE FilesKnown(Tail(s), ids)
  <2>1. /\ IsList(Tail(s)) /\ Len(Tail(s)) = Len(s) - 1
        /\ \A i \in 1 .. Len(s) - 1 : Tail(s)[i] = s[i + 1]
    BY <1>1, <1>3, TailOfList
  <2>2. DOMAIN Tail(s) = 1 .. Len(s) - 1
    BY <2>1, ListIsSequence
  <2>3. \A i \in 1 .. Len(s) - 1 : i + 1 \in DOMAIN s
    BY <1>2
  <2> QED
    BY <1>1, <2>1, <2>2, <2>3 DEF FilesKnown
<1>4. ASSUME NEW k \in DOMAIN s PROVE FilesKnown(RemoveAt(s, k), ids)
  BY <1>1, RemovedFromList DEF FilesKnown
<1>5. FilesKnown(<<>>, ids)
  BY OneOrNone DEF FilesKnown
<1> QED
  BY <1>3, <1>4, <1>5

\* Files known are known when there are more.
LEMMA KnownStill ==
  ASSUME NEW s, NEW ids, NEW more, FilesKnown(s, ids), ids \subseteq more
  PROVE  FilesKnown(s, more)
BY DEF FilesKnown, Known

\* The node as it becomes, and its copy.
LEMMA JournaledSound ==
  ASSUME CatalogSound, NEW node, NEW overflow, Journaled(node, overflow), FileIds \subseteq FileIds',
         Has(node, {"live", "slack"}),
         FilesKnown(node.live, FileIds'), FilesKnown(node.slack, FileIds'),
         \A x \in alive' : \E i \in DOMAIN node.live :
           node.live[i].id = lives'[x].key /\ node.live[i].kind = KindOf(x)
  PROVE  CatalogSound'
<1>1. meta'.node = node /\ meta'.journal = [meta.journal EXCEPT ![meta.head] = node]
  BY DEF Journaled
<1>2. /\ meta'.journal = [s \in 1 .. Copies |-> meta'.journal[s]]
      /\ \A s \in 1 .. Copies : meta'.journal[s] \in {meta.journal[s], node}
  BY <1>1 DEF CatalogSound
<1>3. \A s \in 1 .. Copies : FilesKnown(meta'.journal[s].live, FileIds')
  BY <1>2, KnownStill DEF CatalogSound
<1>4. \A x \in alive' : Catalogued(x, meta.node.live)'
  BY <1>1 DEF Catalogued
<1> QED
  BY <1>1, <1>2, <1>3, <1>4 DEF CatalogSound

\* A new HFS+ volume has an empty catalog and an empty journal.
LEMMA HfsFormatSound ==
  ASSUME Sound, HfsFormat
  PROVE  Sound'
<1>1. /\ pc = "new" /\ pc' = "life" /\ fs = "hfs" /\ fs' = fs
      /\ UNCHANGED <<lives, alive, ops, reports>>
  BY DEF HfsFormat
<1>2. /\ Lived' /\ Reported' /\ alive' = {} /\ ReportKeys' = {} /\ Born' = {}
  BY <1>1, FormattedEmpty DEF Sound
<1>3. IdsSound'
  BY <1>2, FS_EmptySet DEF IdsSound
<1>4. /\ meta'.node = EmptyNode /\ meta'.journal = [s \in 1 .. Copies |-> EmptyNode]
  BY DEF HfsFormat
<1>5. FilesKnown(<<>>, FileIds')
  BY OneOrNone DEF FilesKnown
<1>6. CatalogSound'
  <2>1. EmptyNode.live = <<>> /\ EmptyNode.slack = <<>> /\ Has(EmptyNode, {"live", "slack"})
    BY DEF EmptyNode, Has
  <2>2. meta'.journal = [s \in 1 .. Copies |-> meta'.journal[s]]
        /\ \A s \in 1 .. Copies : meta'.journal[s] = EmptyNode
    BY <1>4
  <2> QED
    BY <1>2, <1>4, <1>5, <2>1, <2>2 DEF CatalogSound
<1>7. HfsSound'
  BY <1>1, <1>2, <1>3, <1>6 DEF HfsSound
<1> QED
  BY <1>1, <1>2, <1>7 DEF Sound

\* A file or folder with a catalog number that was never given out.
LEMMA FreshId ==
  ASSUME IdsSound, NEW x \in Names \ Born, Born' = Born \cup {x}, lives'[x].key = NextId,
         \A y \in Names : y # x => lives'[y] = lives[y]
  PROVE  /\ IdsSound' /\ FileIds \subseteq FileIds'
         /\ x \in Files => NextId \in FileIds'
<1>1. IsFiniteSet(Born') /\ Cardinality(Born') = Cardinality(Born) + 1 /\ Cardinality(Born) \in Nat
  BY FS_AddElement, FS_CardinalityType DEF IdsSound
<1>2. \A y \in Born : y \in Names /\ y # x /\ lives'[y].key = lives[y].key
  BY DEF Born
<1>3. NextId = RootFolder + Cardinality(Born) + 1 /\ RootFolder = 2
  BY DEF NextId, RootFolder
<1>4. \A y \in Born : lives[y].key \in Nat /\ lives[y].key <= RootFolder + Cardinality(Born)
  BY DEF IdsSound
<1>5. \A y \in Born' : lives'[y].key \in Nat /\ lives'[y].key <= RootFolder + Cardinality(Born')
  BY <1>1, <1>2, <1>3, <1>4
<1>6. \A y \in Born : lives[y].key # NextId
  BY <1>1, <1>3, <1>4
<1>7. \A y, z \in Born' : lives'[y].key = lives'[z].key => y = z
  BY <1>2, <1>6 DEF IdsSound
<1>8. FileIds \subseteq FileIds' /\ (x \in Files => NextId \in FileIds')
  BY <1>2 DEF FileIds
<1> QED
  BY <1>1, <1>5, <1>7, <1>8 DEF IdsSound

\* A new record, of a number of its own.
LEMMA HfsCreateSound ==
  ASSUME Sound, HfsCreate
  PROVE  Sound'
<1>1. /\ pc = "life" /\ pc' = pc /\ fs = "hfs" /\ fs' = fs /\ ops < MaxOps /\ ops' = ops + 1
      /\ reports' = reports
  BY DEF HfsCreate, Doing, LifeOnly
<1>2. Lived /\ Reported /\ HfsSound
  BY <1>1 DEF Sound
<1>3. Reported' /\ ReportKeys' = {}
  BY <1>1, <1>2, NothingReported
<1>4. IdsSound /\ CatalogSound
  BY <1>1, <1>2 DEF HfsSound
<1>5. PICK x \in Names \ Born, d \in LiveDirs, hand \in Hands, inFront \in BOOLEAN :
        HfsCreate!2!(x, d, hand, inFront)
  BY DEF HfsCreate
<1> DEFINE n   == IF x \in Dirs THEN 0 ELSE Max({1, Size[x] - 1})
           bl  == Allocate(hand, n)
           rec == IF x \in Dirs
                    THEN [kind |-> "folder", id |-> NextId, name |-> x, parent |-> FolderId(d)]
                  ELSE FileRecordOf(x, bl)
           live  == IF inFront THEN <<rec>> \o meta.node.live ELSE Append(meta.node.live, rec)
           slack == IF meta.node.slack = <<>> THEN <<>> ELSE Tail(meta.node.slack)
           over  == meta.overflow \cup IF x \in Dirs THEN {} ELSE OverflowOf(x, bl)
<1>6. /\ lives' = [lives EXCEPT ![x] = [key |-> NextId, path |-> Append(PathOf(d), x),
                                        blocks |-> bl, since |-> Now]]
      /\ alive' = alive \cup {x}
      /\ Journaled([live |-> live, slack |-> slack], over)
  BY <1>5
<1>7. /\ Lived' /\ Born' = Born \cup {x} /\ lives'[x].key = NextId
      /\ \A y \in Names : y # x => lives'[y] = lives[y]
  <2> HIDE DEF n, bl, rec, live, slack, over
  <2> QED BY <1>1, <1>2, <1>6, Made
<1>8. /\ IdsSound' /\ FileIds \subseteq FileIds' /\ (x \in Files => NextId \in FileIds')
  BY <1>4, <1>7, FreshId
<1>9. rec.id = NextId /\ rec.kind = KindOf(x) /\ (rec.kind = "file" => x \in Files /\ rec.mod_date = Now)
  BY <1>7 DEF FileRecordOf, KindOf, Names
<1>10. Now \in Nat
  BY <1>2 DEF Lived, Now
<1> HIDE DEF n, bl, rec, over
<1>11. FilesKnown(meta.node.live, FileIds') /\ FilesKnown(meta.node.slack, FileIds')
  BY <1>4, <1>8, KnownStill DEF CatalogSound
<1>12. Known(rec, FileIds')
  BY <1>8, <1>9, <1>10 DEF Known
<1>13. /\ FilesKnown(live, FileIds')
       /\ \E i \in DOMAIN live : live[i] = rec
       /\ \A j \in DOMAIN meta.node.live : \E i \in DOMAIN live : live[i] = meta.node.live[j]
  <2> DEFINE old == meta.node.live
  <2>1. Grown(old, rec, Append(old, rec), FileIds') /\ Grown(old, rec, <<rec>> \o old, FileIds')
    BY <1>11, <1>12, KnownMore
  <2>2. Grown(old, rec, live, FileIds')
    BY <2>1
  <2> HIDE DEF live
  <2> QED
    BY <2>2 DEF Grown
<1>14. FilesKnown(slack, FileIds')
  BY <1>11, KnownLess
<1> HIDE DEF live, slack
<1>15. ASSUME NEW y \in alive'
       PROVE  \E i \in DOMAIN live : live[i].id = lives'[y].key /\ live[i].kind = KindOf(y)
  <2>1. CASE y = x
    BY <1>7, <1>9, <1>13, <2>1
  <2>2. CASE y # x
    <3>1. y \in alive /\ lives'[y] = lives[y]
      BY <1>2, <1>6, <1>7, <1>15, <2>2 DEF Lived, Born
    <3>2. PICK j \in DOMAIN meta.node.live :
            meta.node.live[j].id = lives[y].key /\ meta.node.live[j].kind = KindOf(y)
      BY <1>4, <3>1 DEF CatalogSound, Catalogued
    <3> QED
      BY <1>13, <3>1, <3>2
  <2> QED
    BY <2>1, <2>2
<1>16. CatalogSound'
  <2> DEFINE node == [live |-> live, slack |-> slack]
  <2>1. node.live = live /\ node.slack = slack /\ Has(node, {"live", "slack"})
    BY DEF Has
  <2>2. Journaled(node, over)
    BY <1>6
  <2> HIDE DEF node
  <2> QED
    BY <1>4, <1>8, <1>13, <1>14, <1>15, <2>1, <2>2, JournaledSound
<1>17. HfsSound'
  BY <1>1, <1>3, <1>8, <1>16 DEF HfsSound
<1> QED
  BY <1>1, <1>3, <1>7, <1>17 DEF Sound

\* A file grows under its own number.
LEMMA HfsGrowSound ==
  ASSUME Sound, HfsGrow
  PROVE  Sound'
<1>1. /\ pc = "life" /\ pc' = pc /\ fs = "hfs" /\ fs' = fs /\ ops' = ops + 1
      /\ reports' = reports /\ alive' = alive
  BY DEF HfsGrow, Doing, LifeOnly
<1>2. Lived /\ Reported /\ HfsSound
  BY <1>1 DEF Sound
<1>3. Reported' /\ ReportKeys' = {}
  BY <1>1, <1>2, NothingReported
<1>4. IdsSound /\ CatalogSound
  BY <1>1, <1>2 DEF HfsSound
<1>5. PICK x \in alive \cap Files, first \in Free : HfsGrow!2!(x, first)
  BY DEF HfsGrow
<1> DEFINE bl   == Append(lives[x].blocks, first)
           old  == meta.node.live
           rec  == FileRecordOf(x, bl)
           live == [i \in DOMAIN old |-> IF old[i].id = lives[x].key THEN rec ELSE old[i]]
           node == [meta.node EXCEPT !.live = live]
           over == {o \in meta.overflow : o.id # lives[x].key} \cup OverflowOf(x, bl)
<1>6. lives' = [lives EXCEPT ![x].blocks = bl] /\ Journaled(node, over)
  BY <1>5
<1>7. x \in Names /\ x \in Born /\ x \in Files /\ x \notin Dirs /\ x \in alive
  BY <1>2, <1>5, RunAssumption DEF Lived, Born, Names
<1>8. /\ lives' = [y \in Names |-> lives'[y]]
      /\ \A y \in Names : /\ lives'[y].key = lives[y].key /\ lives'[y].path = lives[y].path
                          /\ DOMAIN lives'[y] = DOMAIN lives[y]
  <2>1. /\ lives = [y \in Names |-> lives[y]]
        /\ \A y \in Names : Has(lives[y], {"key", "path"})
    BY <1>2 DEF Lived
  <2>2. lives' = [y \in Names |-> lives'[y]] /\ \A y \in Names : y # x => lives'[y] = lives[y]
    BY <1>6, <2>1
  <2>3. lives'[x] = [lives[x] EXCEPT !.blocks = bl]
    BY <1>6, <1>7, <2>1
  <2>4. /\ lives'[x].key = lives[x].key /\ lives'[x].path = lives[x].path
        /\ DOMAIN lives'[x] = DOMAIN lives[x]
    BY <1>7, <2>1, <2>3 DEF Has
  <2> QED
    BY <2>2, <2>4
<1> HIDE DEF bl, over
<1>9. Born' = Born
  BY <1>8 DEF Born
<1>10. Lived'
  BY <1>1, <1>2, <1>8, <1>9 DEF Lived, Has, IsList
<1>11. IdsSound' /\ FileIds' = FileIds
  <2>1. \A y \in Born : y \in Names
    BY DEF Born
  <2> QED
    BY <1>4, <1>8, <1>9, <2>1 DEF IdsSound, FileIds
<1>12. rec.id = lives[x].key /\ rec.kind = "file" /\ rec.mod_date = Now /\ Now \in Nat
  BY <1>2, <1>7, <1>8 DEF FileRecordOf, Lived, Now
<1> HIDE DEF rec
<1>13. FilesKnown(old, FileIds) /\ FilesKnown(meta.node.slack, FileIds)
  BY <1>4 DEF CatalogSound
<1>14. Known(rec, FileIds)
  BY <1>7, <1>12 DEF Known, FileIds
<1>15. FilesKnown(live, FileIds)
  <2>1. DOMAIN old = 1 .. Len(old) /\ Len(old) \in Nat
    BY <1>13, ListIsSequence DEF FilesKnown
  <2>2. live = [i \in 1 .. Len(old) |-> live[i]]
    BY <2>1
  <2>3. IsList(live) /\ DOMAIN live = DOMAIN old
    <3> HIDE DEF live
    <3> QED BY <2>1, <2>2, FunctionIsList
  <2>4. \A i \in DOMAIN old : Known(live[i], FileIds)
    BY <1>13, <1>14 DEF FilesKnown
  <2> QED
    BY <2>3, <2>4 DEF FilesKnown
<1>16. ASSUME NEW y \in alive'
       PROVE  \E i \in DOMAIN live : live[i].id = lives'[y].key /\ live[i].kind = KindOf(y)
  <2>1. y \in alive /\ y \in Born /\ y \in Names /\ lives'[y].key = lives[y].key
    BY <1>1, <1>2, <1>8, <1>16 DEF Lived, Born
  <2>2. PICK i \in DOMAIN old : old[i].id = lives[y].key /\ old[i].kind = KindOf(y)
    BY <1>4, <2>1 DEF CatalogSound, Catalogued
  <2>3. CASE y = x
    <3>1. live[i] = rec /\ i \in DOMAIN live
      BY <2>2, <2>3
    <3> QED
      BY <1>7, <1>12, <2>1, <2>3, <3>1 DEF KindOf
  <2>4. CASE y # x
    <3>1. lives[y].key # lives[x].key
      BY <1>4, <1>7, <2>1, <2>4 DEF IdsSound
    <3>2. live[i] = old[i] /\ i \in DOMAIN live
      BY <2>2, <3>1
    <3> QED
      BY <2>1, <2>2, <3>2
  <2> QED
    BY <2>3, <2>4
<1>17. CatalogSound'
  <2>1. node.live = live /\ node.slack = meta.node.slack /\ Has(node, {"live", "slack"})
    <3>1. Has(meta.node, {"live", "slack"})
      BY <1>4 DEF CatalogSound
    <3> HIDE DEF live
    <3> QED BY <3>1 DEF Has
  <2>2. Journaled(node, over)
    BY <1>6
  <2> HIDE DEF node, live, old
  <2> QED
    BY <1>4, <1>11, <1>13, <1>15, <1>16, <2>1, <2>2, JournaledSound
<1>18. HfsSound'
  BY <1>1, <1>3, <1>11, <1>17 DEF HfsSound
<1> QED
  BY <1>1, <1>3, <1>10, <1>18 DEF Sound

\* The record taken out is of the file deleted; the others keep theirs.
LEMMA HfsDeleteSound ==
  ASSUME Sound, HfsDelete
  PROVE  Sound'
<1>1. /\ pc = "life" /\ pc' = pc /\ fs = "hfs" /\ fs' = fs /\ ops' = ops + 1
      /\ reports' = reports /\ lives' = lives
  BY DEF HfsDelete, Doing, LifeOnly
<1>2. Lived /\ Reported /\ HfsSound
  BY <1>1 DEF Sound
<1>3. Reported' /\ ReportKeys' = {}
  BY <1>1, <1>2, NothingReported
<1>4. IdsSound /\ CatalogSound
  BY <1>1, <1>2 DEF HfsSound
<1> DEFINE old   == meta.node.live
           slack == <<Last(old)>> \o meta.node.slack
<1>5. PICK x \in alive : \E kept \in SUBSET {o \in meta.overflow : o.id = lives[x].key} :
         \E i \in DOMAIN old :
           /\ old[i].id = lives[x].key
           /\ Journaled([live |-> RemoveAt(old, i), slack |-> slack],
                        {o \in meta.overflow : o.id # lives[x].key} \cup kept)
           /\ alive' = alive \ {x}
  BY DEF HfsDelete
<1>6. PICK kept \in SUBSET {o \in meta.overflow : o.id = lives[x].key} : \E i \in DOMAIN old :
         /\ old[i].id = lives[x].key
         /\ Journaled([live |-> RemoveAt(old, i), slack |-> slack],
                      {o \in meta.overflow : o.id # lives[x].key} \cup kept)
         /\ alive' = alive \ {x}
  BY <1>5
<1> DEFINE over == {o \in meta.overflow : o.id # lives[x].key} \cup kept
<1>7. PICK i \in DOMAIN old :
        /\ old[i].id = lives[x].key
        /\ Journaled([live |-> RemoveAt(old, i), slack |-> slack], over)
        /\ alive' = alive \ {x}
  BY <1>6
<1> HIDE DEF over
<1>8. Lived' /\ Born' = Born
  BY <1>1, <1>2, <1>7, Unmade
<1>9. IdsSound' /\ FileIds' = FileIds
  BY <1>1, <1>4, <1>8 DEF IdsSound, FileIds
<1>10. FilesKnown(old, FileIds) /\ FilesKnown(meta.node.slack, FileIds)
  BY <1>4 DEF CatalogSound
<1> HIDE DEF old
<1>11. Known(Last(old), FileIds)
  <2>1. IsList(old) /\ \A j \in DOMAIN old : Known(old[j], FileIds)
    BY <1>10 DEF FilesKnown
  <2>2. DOMAIN old = 1 .. Len(old) /\ Len(old) \in Nat
    BY <2>1, ListIsSequence
  <2>3. Len(old) \in DOMAIN old
    BY <1>7, <2>2
  <2> QED
    BY <2>1, <2>3 DEF Last
<1>12. FilesKnown(slack, FileIds)
  BY <1>10, <1>11, KnownMore DEF Grown
<1> DEFINE live == RemoveAt(old, i)
           node == [live |-> live, slack |-> slack]
<1>13. FilesKnown(live, FileIds)
  BY <1>10, KnownLess
<1>14. \A j \in DOMAIN old \ {i} : \E k \in DOMAIN live : live[k] = old[j]
  BY <1>10, RemovedFromList DEF FilesKnown
<1>15. /\ node.live = live /\ node.slack = slack /\ Has(node, {"live", "slack"})
       /\ Journaled(node, over)
  BY <1>7 DEF Has
<1> HIDE DEF live, slack, node
<1>16. ASSUME NEW y \in alive'
       PROVE  \E k \in DOMAIN live : live[k].id = lives'[y].key /\ live[k].kind = KindOf(y)
  <2>1. y \in alive /\ y # x /\ y \in Born /\ x \in Born
    BY <1>2, <1>7, <1>16 DEF Lived
  <2>2. PICK j \in DOMAIN old : old[j].id = lives[y].key /\ old[j].kind = KindOf(y)
    BY <1>4, <2>1 DEF CatalogSound, Catalogued, old
  <2>3. lives[y].key # lives[x].key
    BY <1>4, <2>1 DEF IdsSound
  <2>4. j # i
    BY <1>7, <2>2, <2>3
  <2> QED
    BY <1>1, <1>14, <2>2, <2>4
<1>17. CatalogSound'
  BY <1>4, <1>9, <1>12, <1>13, <1>15, <1>16, JournaledSound
<1>18. HfsSound'
  BY <1>1, <1>3, <1>9, <1>17 DEF HfsSound
<1> QED
  BY <1>1, <1>3, <1>8, <1>18 DEF Sound

\* What the passes look at depends on the catalog alone.
LEMMA SamePasses ==
  ASSUME UNCHANGED <<meta, lives>>
  PROVE  /\ LiveIds' = LiveIds /\ FileIds' = FileIds
         /\ \A j : Stale(j)' <=> Stale(j)
<1>1. LiveIds' = LiveIds
  BY DEF LiveIds, FilesOf
<1>2. FileIds' = FileIds
  BY DEF FileIds, Born
<1>3. \A j : Stale(j)' <=> Stale(j)
  BY <1>1 DEF Stale, FilesOf
<1> QED
  BY <1>1, <1>2, <1>3

\* A candidate is reported, if at all, under its catalog number.
LEMMA RestoreAdds ==
  ASSUME NEW rec, Restore(rec)
  PROVE  Adds(rec.id)
BY DeliverAdds DEF Restore, Adds

\* The journal gives one record for each file, of those in neither of the
\* other passes.
LEMMA JournalOnce ==
  ASSUME CatalogSound
  PROVE  /\ \A r \in FromJournal : r.id \in FileIds /\ r.id \notin LiveIds \cup FreeSpaceIds
         /\ \A r, q \in FromJournal : r.id = q.id => r = q
<1>1. ASSUME NEW p \in JournalFiles
      PROVE  /\ p[1] \in Nat /\ p[2] \in Nat
             /\ InJournal(p).id \in FileIds /\ InJournal(p).mod_date \in Nat
  <2>1. PICK s \in 1 .. Copies : p \in {s} \X FilesOf(meta.journal[s].live)
    BY DEF JournalFiles
  <2> DEFINE list == meta.journal[s].live
  <2>2. p[1] = s /\ p[2] \in FilesOf(list) /\ InJournal(p) = list[p[2]]
    BY <2>1 DEF InJournal
  <2>3. FilesKnown(list, FileIds)
    BY DEF CatalogSound
  <2> HIDE DEF list
  <2>4. DOMAIN list = 1 .. Len(list) /\ Len(list) \in Nat
    BY <2>3, ListIsSequence DEF FilesKnown
  <2> QED
    BY <2>2, <2>3, <2>4, HfsAssumption DEF FilesKnown, Known, FilesOf
<1>2. ASSUME NEW p \in JournalFiles, NEW q \in JournalFiles, Newest(p), Newest(q),
             InJournal(p).id = InJournal(q).id
      PROVE  InJournal(p) = InJournal(q)
  <2> DEFINE P == InJournal(p)
             Q == InJournal(q)
  <2>1. /\ Q.mod_date < P.mod_date \/ (Q.mod_date = P.mod_date /\ ReadBefore(q, p))
        /\ P.mod_date < Q.mod_date \/ (P.mod_date = Q.mod_date /\ ReadBefore(p, q))
    BY <1>2 DEF Newest
  <2>2. P.mod_date \in Nat /\ Q.mod_date \in Nat
    BY <1>1
  <2>3. ReadBefore(q, p) /\ ReadBefore(p, q)
    <3> HIDE DEF P, Q
    <3> QED BY <2>1, <2>2
  <2>4. p[1] = q[1] /\ p[2] = q[2]
    BY <1>1, <2>3 DEF ReadBefore
  <2> QED
    BY <2>4 DEF InJournal
<1> DEFINE left == {p \in JournalFiles : InJournal(p).id \notin LiveIds \cup FreeSpaceIds /\ Newest(p)}
<1>3. FromJournal = {InJournal(p) : p \in left}
  BY DEF FromJournal
<1>4. ASSUME NEW r \in FromJournal
      PROVE  r.id \in FileIds /\ r.id \notin LiveIds \cup FreeSpaceIds
  <2>1. PICK p \in left : r = InJournal(p)
    BY <1>3
  <2> QED
    BY <1>1, <2>1
<1>5. ASSUME NEW r \in FromJournal, NEW q \in FromJournal, r.id = q.id
      PROVE  r = q
  <2>1. PICK p \in left : r = InJournal(p)
    BY <1>3
  <2>2. PICK o \in left : q = InJournal(o)
    BY <1>3
  <2> QED
    BY <1>2, <1>5, <2>1, <2>2
<1> QED
  BY <1>4, <1>5

\* The free space, then the journal: no file a second time, and none that is
\* still in the catalog.
LEMMA HfsScanSound ==
  ASSUME Sound, HfsRecover \/ HfsStep
  PROVE  Sound'
<1>1. /\ fs = "hfs" /\ fs' = fs /\ UNCHANGED volume /\ pc' \in {"scan", "done"} /\ pc \in {"life", "scan"}
  BY DEF HfsRecover, HfsStep, HfsSlack, HfsJournal, HfsFile, HfsEnd, Started, Reading, Walking,
         Stop, volume
<1>2. Lived /\ Reported /\ HfsSound
  BY <1>1 DEF Sound
<1>3. Lived' /\ Born' = Born
  BY <1>1, <1>2, LivedOn DEF volume
<1>4. meta' = meta /\ alive' = alive /\ lives' = lives
  BY <1>1 DEF volume
<1>5. SUFFICES Reported' /\ HfsSound'
  BY <1>1, <1>3 DEF Sound
<1>6. IdsSound /\ CatalogSound
  BY <1>1, <1>2 DEF HfsSound
<1>7. LiveIds' = LiveIds /\ FileIds' = FileIds /\ \A j : Stale(j)' <=> Stale(j)
  BY <1>4, SamePasses
<1>8. IdsSound' /\ CatalogSound'
  <2>1. IdsSound'
    BY <1>3, <1>4, <1>6 DEF IdsSound
  <2>2. CatalogSound'
    BY <1>4, <1>6, <1>7 DEF CatalogSound, Catalogued
  <2> QED
    BY <2>1, <2>2
<1>9. \A k \in ReportKeys : k \in FileIds /\ k \notin LiveIds
  BY <1>2 DEF HfsSound
<1>10. pc = "scan" => IF w.step = "slack" THEN SlackPass ELSE JournalPass
  BY <1>2 DEF HfsSound
<1>11. CASE HfsRecover
  <2>1. pc = "life" /\ pc' = "scan" /\ reports' = reports /\ w' = [step |-> "slack", at |-> 1]
    BY <1>11 DEF HfsRecover, Started
  <2>2. Reported' /\ ReportKeys' = {}
    BY <1>2, <2>1, NothingReported
  <2>3. SlackPass' /\ w'.step = "slack"
    BY <2>1, <2>2 DEF SlackPass, Has
  <2> QED
    BY <1>8, <2>2, <2>3 DEF HfsSound
<1>12. CASE HfsSlack
  <2> DEFINE slack == meta.node.slack
  <2>1. /\ pc = "scan" /\ pc' = pc /\ w.step = "slack" /\ w.at \in DOMAIN slack
        /\ w' = [w EXCEPT !.at = @ + 1]
        /\ IF Stale(w.at) THEN Adds(slack[w.at].id) ELSE reports' = reports
    BY <1>12, RestoreAdds DEF HfsSlack, Reading
  <2>2. /\ Has(w, {"step", "at"}) /\ w.at \in Nat
        /\ \A k \in ReportKeys : \E j \in DOMAIN slack : j < w.at /\ Stale(j) /\ slack[j].id = k
    BY <1>10, <2>1 DEF SlackPass
  <2>3. Has(w', {"step", "at"}) /\ w'.at = w.at + 1 /\ w'.step = "slack" /\ w'.at \in Nat
    BY <2>1, <2>2 DEF Has
  <2>4. FilesKnown(slack, FileIds)
    BY <1>6 DEF CatalogSound
  <2>5. DOMAIN slack = 1 .. Len(slack) /\ Len(slack) \in Nat
    <3> HIDE DEF slack
    <3> QED BY <2>4, ListIsSequence DEF FilesKnown
  <2>6. /\ Reported'
        /\ \A k \in ReportKeys' : k \in ReportKeys \/ (Stale(w.at) /\ k = slack[w.at].id)
    <3>1. CASE Stale(w.at)
      <4>1. slack[w.at].id \notin ReportKeys
        <5> SUFFICES ASSUME slack[w.at].id \in ReportKeys PROVE FALSE
          OBVIOUS
        <5>1. PICK j \in DOMAIN slack : j < w.at /\ Stale(j) /\ slack[j].id = slack[w.at].id
          BY <2>2
        <5> QED
          BY <3>1, <5>1 DEF Stale
      <4> QED
        BY <1>2, <2>1, <3>1, <4>1, ReportedMore
    <3>2. CASE ~Stale(w.at)
      BY <1>2, <2>1, <3>2, ReportedStill
    <3> QED
      BY <3>1, <3>2
  <2>7. ASSUME NEW k \in ReportKeys'
        PROVE  /\ k \in FileIds /\ k \notin LiveIds
               /\ \E j \in DOMAIN slack : j < w.at + 1 /\ Stale(j) /\ slack[j].id = k
    <3>1. CASE k \in ReportKeys
      <4>1. PICK j \in DOMAIN slack : j < w.at /\ Stale(j) /\ slack[j].id = k
        BY <2>2, <3>1
      <4>2. j < w.at + 1
        BY <2>2, <2>5, <4>1
      <4> QED
        BY <1>9, <3>1, <4>1, <4>2
    <3>2. CASE Stale(w.at) /\ k = slack[w.at].id
      <4>1. slack[w.at].kind = "file" /\ k \notin LiveIds
        BY <3>2 DEF Stale, FilesOf
      <4>2. k \in FileIds
        BY <2>1, <2>4, <3>2, <4>1 DEF FilesKnown, Known
      <4>3. w.at \in DOMAIN slack /\ w.at < w.at + 1
        BY <2>1, <2>2
      <4>4. \E j \in DOMAIN slack : j < w.at + 1 /\ Stale(j) /\ slack[j].id = k
        BY <3>2, <4>3
      <4> QED
        BY <4>1, <4>2, <4>4
    <3> QED
      BY <2>6, <2>7, <3>1, <3>2
  <2>8. SlackPass'
    BY <1>4, <1>7, <2>3, <2>7 DEF SlackPass
  <2> QED
    BY <1>7, <1>8, <2>3, <2>6, <2>7, <2>8 DEF HfsSound
<1>13. CASE HfsJournal
  <2>1. /\ pc = "scan" /\ pc' = pc /\ w.step = "slack" /\ reports' = reports
        /\ w' = [step |-> "journal", todo |-> FromJournal]
    BY <1>13 DEF HfsJournal, Reading, Walking
  <2>2. Reported' /\ ReportKeys' = ReportKeys
    BY <1>2, <2>1, ReportedStill
  <2>3. \A k \in ReportKeys : k \in FreeSpaceIds
    BY <1>10, <2>1 DEF SlackPass, FreeSpaceIds, Stale
  <2>4. /\ \A r \in FromJournal : r.id \in FileIds /\ r.id \notin LiveIds \cup FreeSpaceIds
        /\ \A r, q \in FromJournal : r.id = q.id => r = q
    BY <1>6, JournalOnce
  <2>5. w'.step = "journal" /\ w'.todo = FromJournal /\ Has(w', {"step", "todo"})
    BY <2>1 DEF Has
  <2>6. JournalPass'
    BY <1>7, <2>2, <2>3, <2>4, <2>5 DEF JournalPass
  <2> QED
    BY <1>7, <1>8, <1>9, <2>2, <2>5, <2>6 DEF HfsSound
<1>14. CASE HfsFile
  <2>1. PICK rec \in w.todo : /\ pc = "scan" /\ pc' = pc /\ w.step = "journal"
                              /\ w' = [w EXCEPT !.todo = @ \ {rec}] /\ Adds(rec.id)
    BY <1>14, RestoreAdds DEF HfsFile, Reading
  <2>2. JournalPass
    BY <1>10, <2>1
  <2>3. Has(w', {"step", "todo"}) /\ w'.step = "journal" /\ w'.todo = w.todo \ {rec}
    BY <2>1, <2>2 DEF JournalPass, Has
  <2>4. rec.id \in FileIds /\ rec.id \notin LiveIds /\ rec.id \notin ReportKeys
    BY <2>1, <2>2 DEF JournalPass
  <2>5. Reported' /\ ReportKeys' \subseteq ReportKeys \cup {rec.id}
    BY <1>2, <2>1, <2>4, ReportedMore
  <2>6. \A r \in w'.todo : r \in w.todo /\ r.id # rec.id
    BY <2>1, <2>2, <2>3 DEF JournalPass
  <2>7. JournalPass'
    BY <1>7, <2>2, <2>3, <2>5, <2>6 DEF JournalPass
  <2> QED
    BY <1>7, <1>8, <1>9, <2>3, <2>4, <2>5, <2>7 DEF HfsSound
<1>15. CASE HfsEnd
  <2>1. pc = "scan" /\ pc' = "done" /\ reports' = reports
    BY <1>15 DEF HfsEnd, Reading, Stop
  <2>2. Reported' /\ ReportKeys' = ReportKeys
    BY <1>2, <2>1, ReportedStill
  <2> QED
    BY <1>7, <1>8, <1>9, <2>1, <2>2 DEF HfsSound
<1> QED
  BY <1>11, <1>12, <1>13, <1>14, <1>15 DEF HfsStep

(* ------------------------------- ISO 9660 ------------------------------ *)

\* A new disc has the root folder alone, with nothing in it.
LEMMA IsoFormatSound ==
  ASSUME Sound, IsoFormat
  PROVE  Sound'
<1>1. /\ pc = "new" /\ pc' = "life" /\ fs = "iso" /\ fs' = fs
      /\ UNCHANGED <<lives, alive, ops, reports>>
  BY DEF IsoFormat
<1>2. Lived' /\ Reported'
  BY <1>1, FormattedEmpty DEF Sound
<1>3. Has(meta', {"dirs"}) /\ meta'.dirs = [d \in Folders |-> <<>>]
  BY DEF IsoFormat, Has, Folders
<1>4. /\ meta'.dirs = [d \in Folders |-> meta'.dirs[d]]
      /\ \A d \in Folders : meta'.dirs[d] = <<>> /\ DOMAIN meta'.dirs[d] = {} /\ IsList(meta'.dirs[d])
  BY <1>3, OneOrNone
<1>5. DiscSound'
  BY <1>3, <1>4 DEF DiscSound, Folders
<1>6. IsoSound'
  BY <1>1, <1>5 DEF IsoSound
<1> QED
  BY <1>1, <1>2, <1>6 DEF Sound

\* The records of one file or folder: a folder's leads to it, a file's begin
\* in a block that was not used and go on to the last.
Entered(records, first) ==
  /\ IsList(records)
  /\ \A i \in DOMAIN records :
       /\ records[i].to # "" => records[i].to \in Dirs /\ ~records[i].more
       /\ records[i].to = "" => IF i = 1 THEN records[i].at = first ELSE records[i - 1].more

\* Put at the end of a list, only the first of them begins something.
Joined(new, old, records) == new = old \o records
BeginsBefore(new, old, i) ==
  i \in DOMAIN old /\ new[i] = old[i] /\ (Begins(new, i) => Begins(old, i))
BeginsFirst(new, old, records, first, i) ==
  /\ \E j \in DOMAIN records : new[i] = records[j]
  /\ Begins(new, i) => /\ i = Len(old) + 1 /\ 1 \in DOMAIN records
                       /\ new[i] = records[1] /\ records[1].to = "" /\ records[1].at = first

\* Records entered at the end of a folder begin one file at most, at its
\* first block; what began before still does.
LEMMA EnteredBegins ==
  ASSUME NEW old, IsList(old), NEW records, NEW first, Entered(records, first),
         NEW new, Joined(new, old, records)
  PROVE  /\ IsList(new)
         /\ \A i \in DOMAIN new :
              BeginsBefore(new, old, i) \/ BeginsFirst(new, old, records, first, i)
<1>1. Len(old) \in Nat /\ DOMAIN old = 1 .. Len(old)
  BY ListIsSequence
<1>2. IsList(records) /\ Len(records) \in Nat /\ DOMAIN records = 1 .. Len(records)
  BY ListIsSequence DEF Entered
<1>3. /\ IsList(old \o records) /\ DOMAIN (old \o records) = 1 .. Len(old) + Len(records)
      /\ \A j \in 1 .. Len(old) : (old \o records)[j] = old[j]
      /\ \A j \in 1 .. Len(old) + Len(records) : ~ (j <= Len(old)) =>
           j - Len(old) \in 1 .. Len(records) /\ (old \o records)[j] = records[j - Len(old)]
  BY <1>2, JoinLists
<1>4. /\ IsList(new) /\ DOMAIN new = 1 .. Len(old) + Len(records)
      /\ \A j \in 1 .. Len(old) : new[j] = old[j]
      /\ \A j \in 1 .. Len(old) + Len(records) : ~ (j <= Len(old)) =>
           j - Len(old) \in 1 .. Len(records) /\ new[j] = records[j - Len(old)]
  BY <1>3 DEF Joined
<1> SUFFICES ASSUME NEW i \in DOMAIN new
             PROVE  BeginsBefore(new, old, i) \/ BeginsFirst(new, old, records, first, i)
  BY <1>4
<1>5. CASE i <= Len(old)
  <2>1. i \in 1 .. Len(old) /\ (i # 1 => i - 1 \in 1 .. Len(old))
    BY <1>1, <1>2, <1>4, <1>5
  <2>2. new[i] = old[i] /\ (i # 1 => new[i - 1] = old[i - 1])
    BY <1>4, <2>1
  <2> QED
    BY <1>1, <2>1, <2>2 DEF Begins, BeginsBefore
<1>6. CASE ~ (i <= Len(old))
  <2>1. i - Len(old) \in DOMAIN records /\ new[i] = records[i - Len(old)]
    BY <1>2, <1>4, <1>6
  <2>2. ASSUME Begins(new, i), i # Len(old) + 1
        PROVE  FALSE
    <3>1. /\ i - 1 \in 1 .. Len(old) + Len(records) /\ ~ (i - 1 <= Len(old)) /\ i # 1
          /\ (i - 1) - Len(old) = (i - Len(old)) - 1 /\ i - Len(old) # 1
      BY <1>1, <1>2, <1>4, <1>6, <2>2
    <3>2. new[i - 1] = records[(i - Len(old)) - 1]
      BY <1>4, <3>1
    <3>3. records[i - Len(old)].to = "" /\ ~records[(i - Len(old)) - 1].more
      BY <2>1, <2>2, <3>1, <3>2 DEF Begins
    <3> QED
      BY <2>1, <3>1, <3>3 DEF Entered
  <2>3. ASSUME Begins(new, i), i = Len(old) + 1
        PROVE  1 \in DOMAIN records /\ new[i] = records[1] /\ records[1].to = "" /\ records[1].at = first
    <3>1. i - Len(old) = 1
      BY <1>1, <2>3
    <3>2. 1 \in DOMAIN records /\ new[i] = records[1] /\ records[1].to = ""
      BY <2>1, <2>3, <3>1 DEF Begins
    <3> QED
      BY <3>2 DEF Entered
  <2> QED
    BY <2>1, <2>2, <2>3 DEF BeginsFirst
<1> QED
  BY <1>5, <1>6

\* Put at the end of a folder they leave the disc sound.
LEMMA AddSound ==
  ASSUME DiscSound, NEW d \in Folders, NEW records, NEW first, Entered(records, first), Add(d, records),
         UsedBlocks \subseteq UsedBlocks',
         \A i \in DOMAIN records : records[i].to = "" => first \in UsedBlocks' \ UsedBlocks
  PROVE  DiscSound'
<1>1. Has(meta', {"dirs"}) /\ meta'.dirs = [meta.dirs EXCEPT ![d] = meta.dirs[d] \o records]
  <2> DEFINE dirs == [meta.dirs EXCEPT ![d] = meta.dirs[d] \o records]
  <2>1. meta' = [meta EXCEPT !.dirs = dirs]
    BY DEF Add
  <2> HIDE DEF dirs
  <2>2. Has(meta', {"dirs"}) /\ meta'.dirs = dirs
    BY <2>1 DEF Has, DiscSound
  <2> QED
    BY <2>2 DEF dirs
<1>2. /\ meta'.dirs = [e \in Folders |-> meta'.dirs[e]]
      /\ meta'.dirs[d] = meta.dirs[d] \o records
      /\ \A e \in Folders : e # d => meta'.dirs[e] = meta.dirs[e]
  <2>1. meta.dirs = [e \in Folders |-> meta.dirs[e]]
    BY DEF DiscSound
  <2> QED
    BY <1>1, <2>1
<1>3. \A e \in Folders : IsList(meta.dirs[e])
  BY DEF DiscSound
\* What begins began before, or is the first of the new ones.
<1>4. ASSUME NEW e \in Folders, NEW i \in DOMAIN meta'.dirs[e]
      PROVE  /\ IsList(meta'.dirs[e])
             /\ \/ /\ i \in DOMAIN meta.dirs[e] /\ meta'.dirs[e][i] = meta.dirs[e][i]
                   /\ Begins(meta'.dirs[e], i) => Begins(meta.dirs[e], i)
                \/ /\ \E j \in DOMAIN records : meta'.dirs[e][i] = records[j]
                   /\ Begins(meta'.dirs[e], i) =>
                        /\ e = d /\ i = Len(meta.dirs[d]) + 1
                        /\ meta'.dirs[e][i].at = first /\ first \in UsedBlocks' \ UsedBlocks
  <2>1. CASE e # d
    BY <1>2, <1>3, <1>4, <2>1
  <2>2. CASE e = d
    <3>1. IsList(meta.dirs[d]) /\ Joined(meta'.dirs[d], meta.dirs[d], records)
      BY <1>2, <1>3 DEF Joined
    <3>2. /\ IsList(meta'.dirs[d])
          /\ \A k \in DOMAIN meta'.dirs[d] :
               \/ BeginsBefore(meta'.dirs[d], meta.dirs[d], k)
               \/ BeginsFirst(meta'.dirs[d], meta.dirs[d], records, first, k)
      BY <3>1, EnteredBegins
    <3> QED
      BY <1>4, <2>2, <3>2 DEF BeginsBefore, BeginsFirst
  <2> QED
    BY <2>1, <2>2
<1>5. ASSUME NEW e \in Folders, NEW i \in DOMAIN meta'.dirs[e]
      PROVE  /\ meta'.dirs[e][i].to # "" => meta'.dirs[e][i].to \in Dirs /\ ~meta'.dirs[e][i].more
             /\ Begins(meta'.dirs[e], i) =>
                  /\ meta'.dirs[e][i].at \in UsedBlocks'
                  /\ \/ /\ Begins(meta.dirs[e], i) /\ i \in DOMAIN meta.dirs[e]
                        /\ meta'.dirs[e][i].at = meta.dirs[e][i].at
                        /\ meta'.dirs[e][i].at \in UsedBlocks
                     \/ e = d /\ i = Len(meta.dirs[d]) + 1 /\ meta'.dirs[e][i].at \notin UsedBlocks
  <2>1. CASE /\ i \in DOMAIN meta.dirs[e] /\ meta'.dirs[e][i] = meta.dirs[e][i]
             /\ Begins(meta'.dirs[e], i) => Begins(meta.dirs[e], i)
    BY <1>5, <2>1 DEF DiscSound
  <2>2. CASE /\ \E j \in DOMAIN records : meta'.dirs[e][i] = records[j]
             /\ Begins(meta'.dirs[e], i) =>
                  /\ e = d /\ i = Len(meta.dirs[d]) + 1
                  /\ meta'.dirs[e][i].at = first /\ first \in UsedBlocks' \ UsedBlocks
    <3>1. PICK j \in DOMAIN records : meta'.dirs[e][i] = records[j]
      BY <2>2
    <3>2. records[j].to # "" => records[j].to \in Dirs /\ ~records[j].more
      BY DEF Entered
    <3>3. meta'.dirs[e][i].to # "" => meta'.dirs[e][i].to \in Dirs /\ ~meta'.dirs[e][i].more
      <4>1. PICK r : r = records[j]
        OBVIOUS
      <4>2. meta'.dirs[e][i] = r /\ (r.to # "" => r.to \in Dirs /\ ~r.more)
        BY <3>1, <3>2, <4>1
      <4> QED
        BY <4>2
    <3>4. PICK at : at = meta'.dirs[e][i].at
      OBVIOUS
    <3>5. Begins(meta'.dirs[e], i) =>
            e = d /\ i = Len(meta.dirs[d]) + 1 /\ at \in UsedBlocks' /\ at \notin UsedBlocks
      BY <2>2, <3>4
    <3> QED
      BY <3>3, <3>4, <3>5
  <2> QED
    BY <1>4, <1>5, <2>1, <2>2
<1>6. \A e \in Folders : IsList(meta'.dirs[e])
  <2>1. IsList(meta.dirs[d]) /\ Joined(meta'.dirs[d], meta.dirs[d], records)
    BY <1>2, <1>3 DEF Joined
  <2>2. IsList(meta'.dirs[d])
    BY <2>1, EnteredBegins
  <2> QED
    BY <1>2, <1>3, <2>2
<1>7. ASSUME NEW e \in Folders, NEW f \in Folders,
             NEW i \in DOMAIN meta'.dirs[e], NEW j \in DOMAIN meta'.dirs[f],
             Begins(meta'.dirs[e], i), Begins(meta'.dirs[f], j),
             meta'.dirs[e][i].at = meta'.dirs[f][j].at
      PROVE  e = f /\ i = j
  <2>1. \/ /\ Begins(meta.dirs[e], i) /\ Begins(meta.dirs[f], j)
           /\ i \in DOMAIN meta.dirs[e] /\ j \in DOMAIN meta.dirs[f]
           /\ meta.dirs[e][i].at = meta.dirs[f][j].at
        \/ e = d /\ i = Len(meta.dirs[d]) + 1 /\ f = d /\ j = Len(meta.dirs[d]) + 1
    BY <1>5, <1>7
  <2> QED
    BY <2>1 DEF DiscSound
<1>8. \A e \in Folders : \A i \in DOMAIN meta'.dirs[e] :
        /\ meta'.dirs[e][i].to # "" => meta'.dirs[e][i].to \in Dirs /\ ~meta'.dirs[e][i].more
        /\ Begins(meta'.dirs[e], i) => meta'.dirs[e][i].at \in UsedBlocks'
  BY <1>5
<1>9. \A e, f \in Folders : \A i \in DOMAIN meta'.dirs[e], j \in DOMAIN meta'.dirs[f] :
        Begins(meta'.dirs[e], i) /\ Begins(meta'.dirs[f], j) /\ meta'.dirs[e][i].at = meta'.dirs[f][j].at
          => e = f /\ i = j
  BY <1>7
<1> QED
  BY <1>1, <1>2, <1>6, <1>8, <1>9 DEF DiscSound

\* Two lists of one are a list of two.
LEMMA TwoTogether ==
  ASSUME NEW a, NEW b
  PROVE  /\ IsList(<<a>> \o <<b>>) /\ DOMAIN (<<a>> \o <<b>>) = 1 .. 2
         /\ (<<a>> \o <<b>>)[1] = a /\ (<<a>> \o <<b>>)[2] = b
<1> DEFINE s == <<a>>
           t == <<b>>
<1>1. /\ IsList(s) /\ Len(s) = 1 /\ s[1] = a
      /\ IsList(t) /\ Len(t) = 1 /\ t[1] = b
  BY OneOrNone
<1> HIDE DEF s, t
<1>2. /\ IsList(s \o t) /\ DOMAIN (s \o t) = 1 .. Len(s) + Len(t)
      /\ \A i \in 1 .. Len(s) : (s \o t)[i] = s[i]
      /\ \A i \in 1 .. Len(t) : (s \o t)[Len(s) + i] = t[i]
  <2>1. IsList(s) /\ IsList(t)
    BY <1>1
  <2> QED
    BY <2>1, JoinLists
<1>3. IsList(s \o t) /\ DOMAIN (s \o t) = 1 .. 2 /\ (s \o t)[1] = a /\ (s \o t)[2] = b
  BY <1>1, <1>2
<1> QED
  BY <1>3 DEF s, t

\* A new file's records begin in a block that was free.
LEMMA IsoFileSound ==
  ASSUME Sound, IsoFile
  PROVE  Sound'
<1>1. /\ pc = "life" /\ pc' = pc /\ fs = "iso" /\ fs' = fs /\ ops < MaxOps /\ ops' = ops + 1
      /\ reports' = reports
  BY DEF IsoFile, Doing, LifeOnly
<1>2. Lived /\ Reported /\ DiscSound
  BY <1>1 DEF Sound, IsoSound
<1>3. Reported'
  BY <1>1, <1>2, NothingReported
<1>4. PICK x \in Files \ Born, d \in LiveDirs, hand \in Hands,
           area \in (IF meta.joliet THEN {"none"} ELSE {"text", "loop"}),
           parts \in {"one", "two", "cut"} :
        IsoFile!2!(x, d, hand, area, parts)
  BY DEF IsoFile
<1> DEFINE ahead == {b \in Free : b >= hand}
           first == Min(ahead)
           bl    == [k \in 1 .. Size[x] |-> first + k - 1]
           n     == IF parts = "one" THEN Size[x] ELSE 1
           rest  == Size[x] - n
           one   == Entry(x, "", first, n, parts # "one", area)
           two   == Entry(x, "", first + n, rest, FALSE, area)
           records == <<one>> \o IF parts = "two" THEN <<two>> ELSE <<>>
           blocks  == IF parts = "cut" THEN <<first>> ELSE bl
<1>5. /\ ahead # {} /\ Size[x] > 0 /\ Add(d, records)
      /\ lives' = [lives EXCEPT ![x] = [key |-> first, path |-> Append(PathOf(d), x),
                                         blocks |-> blocks, since |-> Now]]
      /\ alive' = alive \cup {x}
  BY <1>4
<1>6. first \in Free /\ first \in Nat
  <2>1. ahead \in SUBSET Nat
    BY RunAssumption DEF Free, Block
  <2>2. first \in ahead
    BY <1>5, <2>1, MinIsIn
  <2> QED
    BY <2>1, <2>2
<1>7. first \in ToSet(blocks)
  <2>1. CASE parts = "cut"
    BY <2>1 DEF ToSet
  <2>2. CASE parts # "cut"
    <3>1. Size[x] \in Nat /\ Size[x] > 0 /\ first \in Nat
      BY <1>4, <1>5, <1>6, RunAssumption
    <3>2. 1 \in DOMAIN bl /\ bl[1] = first
      <4> HIDE DEF first
      <4> QED BY <3>1
    <3> QED
      BY <2>2, <3>2 DEF ToSet
  <2> QED
    BY <2>1, <2>2
<1>8. /\ one.to = "" /\ one.at = first /\ (parts = "two" => one.more)
      /\ two.to = ""
  BY DEF Entry
<1> HIDE DEF one, two, first, bl, n, rest, blocks
<1>9. Entered(records, first)
  <2>1. CASE parts = "two"
    <3>1. records = <<one>> \o <<two>>
      BY <2>1
    <3>2. /\ IsList(records) /\ DOMAIN records = 1 .. 2 /\ records[1] = one /\ records[2] = two
      <4> HIDE DEF records
      <4> QED BY <3>1, TwoTogether
    <3> HIDE DEF records
    <3>3. \A i \in 1 .. 2 : i = 1 \/ (i = 2 /\ i - 1 = 1)
      OBVIOUS
    <3> QED
      BY <1>8, <2>1, <3>2, <3>3 DEF Entered
  <2>2. CASE parts # "two"
    <3>1. records = <<one>>
      BY <2>2
    <3>2. /\ IsList(records) /\ DOMAIN records = 1 .. 1 /\ records[1] = one
      <4> HIDE DEF records
      <4> QED BY <3>1 DEF IsList
    <3> HIDE DEF records
    <3>3. \A i \in 1 .. 1 : i = 1
      OBVIOUS
    <3> QED
      BY <1>8, <3>2, <3>3 DEF Entered
  <2> QED
    BY <2>1, <2>2
<1> HIDE DEF records, ahead
<1>10. d \in Folders /\ x \in Names /\ x \notin alive
  BY <1>2, <1>4 DEF LiveDirs, Folders, Names, Lived
<1>11. /\ Lived' /\ lives'[x].blocks = blocks
       /\ \A y \in Names : y # x => lives'[y] = lives[y]
  BY <1>1, <1>2, <1>5, <1>10, Made
<1>12. UsedBlocks \subseteq UsedBlocks' /\ first \in UsedBlocks' /\ first \notin UsedBlocks
  <2>1. \A y \in alive : y \in alive' /\ lives'[y] = lives[y]
    BY <1>2, <1>5, <1>10, <1>11 DEF Lived, Born
  <2>2. UsedBlocks \subseteq UsedBlocks'
    BY <2>1 DEF UsedBlocks
  <2>3. first \in UsedBlocks'
    BY <1>5, <1>7, <1>11 DEF UsedBlocks
  <2>4. first \notin UsedBlocks
    BY <1>6 DEF Free, UsedBlocks
  <2> QED
    BY <2>2, <2>3, <2>4
<1>13. DiscSound'
  BY <1>2, <1>5, <1>9, <1>10, <1>12, AddSound
<1>14. IsoSound'
  BY <1>1, <1>13 DEF IsoSound
<1> QED
  BY <1>1, <1>3, <1>11, <1>14 DEF Sound

\* A folder's record leads to it.
LEMMA IsoFolderSound ==
  ASSUME Sound, IsoFolder
  PROVE  Sound'
<1>1. /\ pc = "life" /\ pc' = pc /\ fs = "iso" /\ fs' = fs /\ ops < MaxOps /\ ops' = ops + 1
      /\ reports' = reports
  BY DEF IsoFolder, Doing, LifeOnly
<1>2. Lived /\ Reported /\ DiscSound
  BY <1>1 DEF Sound, IsoSound
<1>3. Reported'
  BY <1>1, <1>2, NothingReported
<1> DEFINE area == IF meta.joliet THEN "none" ELSE "text"
<1>4. PICK x \in Dirs, d \in LiveDirs :
        /\ IF x \in alive THEN UNCHANGED <<lives, alive>>
           ELSE /\ lives' = [lives EXCEPT ![x] = [None EXCEPT !.path = Append(PathOf(d), x)]]
                /\ alive' = alive \cup {x}
        /\ Add(d, <<Entry(x, x, 0, 0, FALSE, area)>>)
  BY DEF IsoFolder
<1> HIDE DEF area
<1> DEFINE one == Entry(x, x, 0, 0, FALSE, area)
           records == <<one>>
<1>5. one.to = x /\ ~one.more /\ Add(d, records)
  BY <1>4 DEF Entry
<1> HIDE DEF one
<1>6. IsList(records) /\ DOMAIN records = 1 .. 1 /\ records[1] = one
  BY DEF IsList
<1> HIDE DEF records
<1>7. \A i \in DOMAIN records : records[i].to = x /\ ~records[i].more
  <2>1. \A i \in 1 .. 1 : i = 1
    OBVIOUS
  <2> QED
    BY <1>5, <1>6, <2>1
<1>8. x # "" /\ x \in Dirs
  BY IsoAssumption
<1>9. Entered(records, 0)
  BY <1>6, <1>7, <1>8 DEF Entered
<1>10. d \in Folders /\ x \in Names
  BY <1>4 DEF LiveDirs, Folders, Names
<1>11. Lived' /\ UsedBlocks \subseteq UsedBlocks'
  <2>1. CASE x \in alive
    <3>1. UNCHANGED <<lives, alive>>
      BY <1>4, <2>1
    <3>2. Lived'
      BY <1>1, <1>2, <3>1, LivedOn
    <3> QED
      BY <3>1, <3>2 DEF UsedBlocks
  <2>2. CASE x \notin alive
    <3>1. /\ lives' = [lives EXCEPT ![x] = [key |-> 0, path |-> Append(PathOf(d), x),
                                            blocks |-> <<>>, since |-> 0]]
          /\ alive' = alive \cup {x}
      BY <1>4, <2>2 DEF None
    <3>2. Lived' /\ \A y \in Names : y # x => lives'[y] = lives[y]
      BY <1>1, <1>2, <1>10, <3>1, Made
    <3>3. \A y \in alive : y \in alive' /\ lives'[y] = lives[y]
      BY <1>2, <2>2, <3>1, <3>2 DEF Lived, Born
    <3> QED
      BY <3>2, <3>3 DEF UsedBlocks
  <2> QED
    BY <2>1, <2>2
<1>12. DiscSound'
  BY <1>2, <1>5, <1>7, <1>8, <1>9, <1>10, <1>11, AddSound
<1>13. IsoSound'
  BY <1>1, <1>12 DEF IsoSound
<1> QED
  BY <1>1, <1>3, <1>11, <1>13 DEF Sound

\* What is left of a folder's records.
LEMMA RecordsLeft ==
  ASSUME NEW s, IsList(s), NEW k \in 1 .. Len(s) + 1, NEW r, r = SubSeq(s, k, Len(s))
  PROVE  /\ r # <<>> => /\ k \in 1 .. Len(s) /\ k + 1 \in 1 .. Len(s) + 1
                        /\ Head(r) = s[k] /\ Tail(r) = SubSeq(s, k + 1, Len(s))
         /\ r = <<>> => k = Len(s) + 1
<1>1. Len(s) \in Nat /\ k \in Int
  BY ListIsSequence
<1>2. /\ IsList(r) /\ Len(r) = Len(s) - k + 1
      /\ \A i \in 1 .. Len(s) - k + 1 : r[i] = s[k + i - 1]
  BY <1>1, PartOfList
<1>3. ASSUME r = <<>> PROVE k = Len(s) + 1
  <2>1. Len(r) = 0
    BY <1>3
  <2> QED
    BY <1>1, <1>2, <2>1
<1>4. ASSUME r # <<>>
      PROVE  /\ k \in 1 .. Len(s) /\ k + 1 \in 1 .. Len(s) + 1
             /\ Head(r) = s[k] /\ Tail(r) = SubSeq(s, k + 1, Len(s))
  <2>1. /\ Len(r) >= 1 /\ Head(r) = r[1]
        /\ IsList(Tail(r)) /\ Len(Tail(r)) = Len(r) - 1
        /\ \A i \in 1 .. Len(r) - 1 : Tail(r)[i] = r[i + 1]
    BY <1>2, <1>4, TailOfList
  <2>2. k \in 1 .. Len(s) /\ k + 1 \in 1 .. Len(s) + 1 /\ Head(r) = s[k]
    BY <1>1, <1>2, <2>1
  <2> DEFINE rest == SubSeq(s, k + 1, Len(s))
  <2>3. /\ IsList(rest) /\ Len(rest) = Len(s) - (k + 1) + 1
        /\ \A i \in 1 .. Len(s) - (k + 1) + 1 : rest[i] = s[k + 1 + i - 1]
    BY <1>1, <2>2, PartOfList
  <2> DEFINE tail == Tail(r)
  <2> HIDE DEF rest, tail
  <2>4. tail = rest
    <3>1. /\ IsList(tail) /\ Len(tail) = Len(s) - k
          /\ \A i \in 1 .. Len(s) - k : tail[i] = r[i + 1] /\ i + 1 \in 1 .. Len(s) - k + 1
      BY <1>1, <1>2, <2>1 DEF tail
    <3>2. \A i \in 1 .. Len(s) - k : tail[i] = s[k + i]
      <4>1. \A i \in 1 .. Len(s) - k : k + (i + 1) - 1 = k + i
        BY <1>1
      <4> QED
        BY <1>2, <3>1, <4>1
    <3>3. IsList(rest) /\ Len(rest) = Len(s) - k /\ \A i \in 1 .. Len(s) - k : rest[i] = s[k + i]
      <4>1. Len(s) - (k + 1) + 1 = Len(s) - k /\ \A i \in 1 .. Len(s) - k : k + 1 + i - 1 = k + i
        BY <1>1
      <4> QED
        BY <2>3, <4>1
    <3>4. tail = [i \in 1 .. Len(s) - k |-> s[k + i]]
      <4>1. tail = [i \in 1 .. Len(s) - k |-> tail[i]]
        BY <3>1 DEF IsList
      <4> QED
        BY <3>2, <4>1
    <3>5. rest = [i \in 1 .. Len(s) - k |-> s[k + i]]
      <4>1. rest = [i \in 1 .. Len(s) - k |-> rest[i]]
        BY <3>3 DEF IsList
      <4> QED
        BY <3>3, <4>1
    <3> QED
      BY <3>4, <3>5
  <2> QED
    BY <2>2, <2>4 DEF rest, tail
<1> QED
  BY <1>3, <1>4

\* All of a list.
LEMMA WholeOfList ==
  ASSUME NEW s, IsList(s)
  PROVE  s = SubSeq(s, 1, Len(s))
<1>1. Len(s) \in Nat
  BY ListIsSequence
<1> DEFINE t == SubSeq(s, 1, Len(s))
<1>2. /\ IsList(t) /\ Len(t) = Len(s) - 1 + 1
      /\ \A i \in 1 .. Len(s) - 1 + 1 : t[i] = s[1 + i - 1]
  BY <1>1, PartOfList
<1> HIDE DEF t
<1>3. Len(s) - 1 + 1 = Len(s) /\ \A i \in 1 .. Len(s) : 1 + i - 1 = i
  BY <1>1
<1>4. t = [i \in 1 .. Len(s) |-> t[i]] /\ \A i \in 1 .. Len(s) : t[i] = s[i]
  BY <1>2, <1>3 DEF IsList
<1>5. s = [i \in 1 .. Len(s) |-> s[i]]
  BY DEF IsList
<1>6. t = s
  BY <1>4, <1>5
<1> QED
  BY <1>6 DEF t

\* A list's last is one of it, and what is left in front of it a list.
LEMMA FrontOfList ==
  ASSUME NEW s, IsList(s), s # <<>>
  PROVE  /\ \E i \in DOMAIN s : Last(s) = s[i]
         /\ IsList(Front(s)) /\ \A i \in DOMAIN Front(s) : i \in DOMAIN s /\ Front(s)[i] = s[i]
<1>1. Len(s) \in Nat /\ DOMAIN s = 1 .. Len(s)
  BY ListIsSequence
<1>2. Len(s) >= 1
  BY TailOfList
<1>3. Last(s) = s[Len(s)] /\ Len(s) \in DOMAIN s
  BY <1>1, <1>2 DEF Last
<1> DEFINE front == SubSeq(s, 1, Len(s) - 1)
<1>4. /\ IsList(front) /\ Len(front) = Len(s) - 1 - 1 + 1
      /\ \A i \in 1 .. Len(s) - 1 - 1 + 1 : front[i] = s[1 + i - 1]
  BY <1>1, <1>2, PartOfList
<1> HIDE DEF front
<1>5. DOMAIN front = 1 .. Len(front)
  BY <1>4, ListIsSequence
<1>6. \A i \in DOMAIN front : i \in DOMAIN s /\ front[i] = s[i]
  <2>1. \A i \in DOMAIN front : i \in DOMAIN s /\ i \in 1 .. Len(s) - 1 - 1 + 1 /\ 1 + i - 1 = i
    BY <1>1, <1>2, <1>4, <1>5
  <2> QED
    BY <1>4, <2>1
<1>7. Front(s) = front
  BY DEF Front, front
<1> QED
  BY <1>3, <1>4, <1>6, <1>7

\* A file is reported by the block it begins in.
LEMMA RecoverFileAdds ==
  ASSUME NEW path, NEW extents, RecoverFile(path, extents)
  PROVE  Adds(extents[1].at)
BY DeliverAdds DEF RecoverFile, Adds

\* What was reported before a place was before every later one.
LEMMA ReportedLater ==
  ASSUME DiscSound, NEW done \in SUBSET Folders, NEW d \in Folders, NEW p \in Int, NEW k \in Int, p <= k,
         ReportedFrom(done, d, p)
  PROVE  ReportedFrom(done, d, k)
<1>1. \A i \in DOMAIN meta.dirs[d] : i \in Int
  <2>1. DOMAIN meta.dirs[d] = 1 .. Len(meta.dirs[d]) /\ Len(meta.dirs[d]) \in Nat
    BY ListIsSequence DEF DiscSound
  <2> QED
    BY <2>1
<1>2. \A i \in DOMAIN meta.dirs[d] : i < p => i < k
  BY <1>1
<1> QED
  BY <1>2 DEF ReportedFrom

\* A file that begins behind all that was reported is not one of them.
LEMMA IsoReports ==
  ASSUME Reported, pc = "scan", pc' = pc, meta' = meta, DiscSound,
         NEW done \in SUBSET Folders, NEW d \in Folders,
         NEW p \in DOMAIN meta.dirs[d], Begins(meta.dirs[d], p), ReportedFrom(done, d, p),
         Adds(meta.dirs[d][p].at), NEW k \in Int, p < k
  PROVE  Reported' /\ ReportedFrom(done, d, k)'
<1> DEFINE new == meta.dirs[d][p].at
<1>1. p \in Int /\ \A i \in DOMAIN meta.dirs[d] : i \in Int
  <2>1. DOMAIN meta.dirs[d] = 1 .. Len(meta.dirs[d]) /\ Len(meta.dirs[d]) \in Nat
    BY ListIsSequence DEF DiscSound
  <2> QED
    BY <2>1
<1>2. new \notin ReportKeys
  <2> SUFFICES ASSUME new \in ReportKeys PROVE FALSE
    OBVIOUS
  <2>1. PICK e \in done \cup {d} : \E i \in DOMAIN meta.dirs[e] :
          /\ Begins(meta.dirs[e], i) /\ meta.dirs[e][i].at = new
          /\ e = d => i < p
    BY DEF ReportedFrom
  <2>2. PICK i \in DOMAIN meta.dirs[e] :
          /\ Begins(meta.dirs[e], i) /\ meta.dirs[e][i].at = new
          /\ e = d => i < p
    BY <2>1
  <2>3. e = d /\ i = p
    <3>1. e \in Folders
      OBVIOUS
    <3> QED
      BY <2>2, <3>1 DEF DiscSound
  <2> QED
    BY <1>1, <2>2, <2>3
<1> HIDE DEF new
<1>3. Adds(new)
  BY DEF new
<1>4. Reported' /\ ReportKeys' \subseteq ReportKeys \cup {new}
  BY <1>2, <1>3, ReportedMore
<1>5. ASSUME NEW key \in ReportKeys'
      PROVE  \E e \in done \cup {d} : \E i \in DOMAIN meta.dirs[e] :
               /\ Begins(meta.dirs[e], i) /\ meta.dirs[e][i].at = key
               /\ e = d => i < k
  <2>1. CASE key = new
    BY <2>1 DEF new
  <2>2. CASE key # new
    <3>1. key \in ReportKeys
      BY <1>4, <1>5, <2>2
    <3>2. \A i \in DOMAIN meta.dirs[d] : i < p => i < k
      BY <1>1
    <3> QED
      BY <3>1, <3>2 DEF ReportedFrom
  <2> QED
    BY <2>1, <2>2
<1> QED
  BY <1>4, <1>5 DEF ReportedFrom

\* A folder is read once, from its first record.
LEMMA IsoOpenSound ==
  ASSUME Reported, DiscSound, StackSound, Opening, IsoOpen
  PROVE  Reported' /\ StackSound' /\ IF w'.step = "open" THEN Opening' ELSE ReadingFolder'
<1>1. /\ pc = "scan" /\ pc' = pc /\ w.step = "open" /\ w.stack # <<>>
      /\ reports' = reports /\ meta' = meta
  BY DEF IsoOpen, Reading, Walking, volume
<1>2. Reported' /\ ReportKeys' = ReportKeys
  BY <1>1, ReportedStill
<1> PICK dir : dir = Last(w.stack)
  OBVIOUS
<1> PICK d : d = dir.to
  OBVIOUS
<1>3. Has(w, {"step", "stack", "visited"})
  BY DEF Opening
<1>4. d \in Folders /\ IsList(Front(w.stack)) /\ \A i \in DOMAIN Front(w.stack) : Front(w.stack)[i].to \in Folders
  <2>1. IsList(w.stack) /\ \A i \in DOMAIN w.stack : w.stack[i].to \in Folders
    BY DEF StackSound
  <2> QED
    BY <1>1, <2>1, FrontOfList
<1> DEFINE next == [w EXCEPT !.stack = Front(@), !.visited = @ \cup {d}]
<1>5. /\ next.stack = Front(w.stack) /\ next.visited = w.visited \cup {d}
      /\ next.step = "open" /\ Has(next, {"step", "stack", "visited"})
  BY <1>1, <1>3 DEF Has
<1>6. IF d \in w.visited \/ w.entries >= MaxEntries THEN w' = next
      ELSE w' = [step |-> "read", stack |-> next.stack, visited |-> next.visited,
                 entries |-> w.entries, path |-> dir.path, records |-> meta.dirs[d],
                 pending |-> <<>>]
  BY DEF IsoOpen, Walking, WasVisited
<1> HIDE DEF next
<1>7. w'.stack = Front(w.stack) /\ w'.visited = w.visited \cup {d}
  BY <1>5, <1>6
<1>8. StackSound'
  BY <1>4, <1>7 DEF StackSound, Folders
<1>9. CASE d \in w.visited \/ w.entries >= MaxEntries
  <2>1. w' = next
    BY <1>6, <1>9
  <2>2. Opening'
    BY <1>1, <1>2, <1>5, <2>1 DEF Opening
  <2> QED
    BY <1>2, <1>5, <1>8, <2>1, <2>2
<1>10. CASE ~ (d \in w.visited \/ w.entries >= MaxEntries)
  <2>1. /\ w'.step = "read" /\ w'.records = meta.dirs[d] /\ w'.pending = <<>>
        /\ Has(w', {"step", "stack", "visited", "records", "pending"})
    BY <1>6, <1>10 DEF Has
  <2>2. IsList(meta.dirs[d]) /\ Len(meta.dirs[d]) \in Nat
    BY <1>4, ListIsSequence DEF DiscSound
  <2>3. meta.dirs[d] = SubSeq(meta.dirs[d], 1, Len(meta.dirs[d]))
    BY <2>2, WholeOfList
  <2>4. 1 \in 1 .. Len(meta.dirs[d]) + 1
    BY <2>2
  <2>5. Listing(d, 1)'
    BY <1>1, <2>1, <2>3, <2>4 DEF Listing
  <2>6. ReportedFrom(w.visited \ {d}, d, 1)'
    <3>1. \A e \in w.visited : e \in (w'.visited \ {d}) \cup {d} /\ e # d
      BY <1>7, <1>10
    <3> QED
      BY <1>1, <1>2, <3>1 DEF Opening, ReportedFrom
  <2>7. NothingPending(d, 1)'
    BY <2>1, <2>6 DEF NothingPending
  <2>8. d \in w'.visited
    BY <1>7
  <2>9. ReadingFolder'
    BY <1>1, <2>1, <2>4, <2>5, <2>7, <2>8 DEF ReadingFolder
  <2> QED
    BY <1>2, <1>8, <2>1, <2>9
<1> QED
  BY <1>9, <1>10

\* A folder that ends leaves no file behind that was going on.
LEMMA IsoCloseSound ==
  ASSUME Reported, DiscSound, StackSound, ReadingFolder, IsoClose
  PROVE  Reported' /\ StackSound' /\ w'.step = "open" /\ Opening'
<1>1. /\ pc = "scan" /\ pc' = pc /\ w.records = <<>> /\ meta' = meta
      /\ w'.step = "open" /\ w'.stack = w.stack /\ w'.visited = w.visited
      /\ Has(w', {"step", "stack", "visited"})
      /\ IF w.pending # <<>> THEN Adds(w.pending[1].extents[1].at) ELSE UNCHANGED reports
  BY RecoverFileAdds DEF IsoClose, Reading, volume, Flush, Has
<1>2. PICK d \in w.visited : \E k \in 1 .. Len(meta.dirs[d]) + 1 :
        Listing(d, k) /\ (PendingAt(d, k) \/ NothingPending(d, k))
  BY DEF ReadingFolder
<1>3. PICK k \in 1 .. Len(meta.dirs[d]) + 1 : Listing(d, k) /\ (PendingAt(d, k) \/ NothingPending(d, k))
  BY <1>2
<1>4. StackSound'
  BY <1>1 DEF StackSound, Folders, IsList
<1>5. d \in Folders /\ w.visited \ {d} \in SUBSET Folders
  BY DEF StackSound
<1>6. CASE PendingAt(d, k)
  <2>1. PICK p \in 1 .. k - 1 : /\ Begins(meta.dirs[d], p) /\ meta.dirs[d][p].at = w.pending[1].extents[1].at
                                /\ ReportedFrom(w.visited \ {d}, d, p)
    BY <1>6 DEF PendingAt
  <2>2. p \in DOMAIN meta.dirs[d] /\ Adds(meta.dirs[d][p].at)
    BY <1>1, <1>6, <2>1 DEF Begins, PendingAt
  <2>3. PICK done \in SUBSET Folders : done = w.visited \ {d}
    BY <1>5
  <2>4. p + 1 \in Int /\ p < p + 1
    OBVIOUS
  <2>5. ReportedFrom(done, d, p)
    BY <2>1, <2>3
  <2>6. Reported' /\ ReportedFrom(done, d, p + 1)'
    BY <1>1, <1>5, <2>1, <2>2, <2>4, <2>5, IsoReports
  <2>7. \A e \in done \cup {d} : e \in w'.visited
    BY <1>1, <2>3
  <2>8. Opening'
    BY <1>1, <2>6, <2>7 DEF Opening, ReportedFrom
  <2> QED
    BY <1>1, <1>4, <2>6, <2>8
<1>7. CASE NothingPending(d, k)
  <2>1. Reported' /\ ReportKeys' = ReportKeys
    BY <1>1, <1>7, ReportedStill DEF NothingPending
  <2>2. (w.visited \ {d}) \cup {d} = w.visited
    OBVIOUS
  <2>3. Opening'
    BY <1>1, <1>7, <2>1, <2>2 DEF Opening, NothingPending, ReportedFrom
  <2> QED
    BY <1>1, <1>4, <2>1, <2>3
<1> QED
  BY <1>3, <1>6, <1>7

\* The first of a list stays it when there is one more.
LEMMA FirstStays ==
  ASSUME NEW s, IsList(s), s # <<>>, NEW e
  PROVE  Append(s, e)[1] = s[1] /\ IsList(Append(s, e)) /\ Append(s, e) # <<>>
<1>1. Len(s) \in Nat /\ Len(s) >= 1
  BY TailOfList, ListIsSequence
<1>2. \A i \in 1 .. Len(s) : Append(s, e)[i] = s[i]
  BY AppendList
<1>3. IsList(Append(s, e)) /\ Append(s, e) # <<>>
  BY AppendList
<1> QED
  BY <1>1, <1>2, <1>3

\* What a record does to the file that is going on, and what is reported.
RecordDone(rec) ==
  LET here == [at |-> rec.at, n |-> rec.n]
  IN  \/ /\ w.pending # <<>> /\ rec.more /\ reports' = reports
         /\ w'.pending = <<[w.pending[1] EXCEPT !.extents = Append(@, here)]>>
      \/ /\ w.pending # <<>> /\ ~rec.more /\ w'.pending = <<>>
         /\ Adds(w.pending[1].extents[1].at)
      \/ /\ w.pending = <<>> /\ ~rec.more /\ w'.pending = <<>> /\ reports' = reports
      \/ /\ w.pending = <<>> /\ rec.to = "" /\ rec.more /\ reports' = reports
         /\ \E path : w'.pending = <<[path |-> path, extents |-> <<here>>]>>
      \/ /\ w.pending = <<>> /\ rec.to = "" /\ ~rec.more /\ w'.pending = <<>>
         /\ Adds(rec.at)

\* A record read ends or continues the file that is going on, begins one, or
\* names a folder to walk; it reports one file at most.
LEMMA IsoRecordDoes ==
  ASSUME IsoRecord, Has(w, {"step", "stack", "visited", "records", "pending"}),
         w.pending # <<>> => /\ Has(w.pending[1], {"extents"}) /\ IsList(w.pending[1].extents)
                             /\ w.pending[1].extents # <<>> /\ w.pending = <<w.pending[1]>>,
         NEW rec, rec = Head(w.records), rec.to # "" => ~rec.more
  PROVE  /\ pc = "scan" /\ pc' = pc /\ w.step = "read" /\ w.records # <<>> /\ meta' = meta
         /\ Has(w', {"step", "stack", "visited", "records", "pending"}) /\ w'.step = w.step
         /\ w'.visited = w.visited /\ w'.records = Tail(w.records)
         /\ \/ w'.stack = w.stack
            \/ rec.to # "" /\ \E path : w'.stack = Append(w.stack, IsoStart(rec.to, path))
         /\ RecordDone(rec)
<1>1. /\ pc = "scan" /\ pc' = pc /\ w.step = "read" /\ w.records # <<>> /\ meta' = meta
  BY DEF IsoRecord, Reading, volume
<1> PICK here : here = [at |-> rec.at, n |-> rec.n]
  OBVIOUS
<1> PICK path : path = Append(w.path, NameOf(rec))
  OBVIOUS
<1> PICK next : next = [w EXCEPT !.records = Tail(@), !.entries = @ + 1]
  OBVIOUS
<1> PICK deeper : deeper = Append(w.stack, IsoStart(rec.to, path))
  OBVIOUS
<1> PICK flat : flat = [next EXCEPT !.pending = <<>>, !.stack = w.stack]
  OBVIOUS
<1> PICK nested : nested = [next EXCEPT !.pending = <<>>, !.stack = deeper]
  OBVIOUS
<1> PICK more : more = <<[w.pending[1] EXCEPT !.extents = Append(@, here)]>>
  OBVIOUS
<1>2. /\ Has(next, {"step", "stack", "visited", "records", "pending"}) /\ DOMAIN next = DOMAIN w
      /\ next.step = w.step /\ next.visited = w.visited /\ next.records = Tail(w.records)
      /\ next.stack = w.stack /\ next.pending = w.pending
  BY DEF Has
<1>3. \/ /\ IsoContinues(rec) /\ rec.more /\ w' = [next EXCEPT !.pending = more]
         /\ reports' = reports
      \/ /\ IsoContinues(rec) /\ ~rec.more /\ w' = [next EXCEPT !.pending = <<>>] /\ Flush(more)
      \/ /\ rec.to # ""
         /\ w.pending # <<>> => Flush(w.pending)
         /\ w.pending = <<>> => reports' = reports
         /\ w' = flat \/ w' = nested
      \/ /\ ~IsoContinues(rec) /\ rec.to = "" /\ rec.more /\ reports' = reports
         /\ w' = [next EXCEPT !.pending = <<[path |-> path, extents |-> <<here>>]>>]
      \/ /\ ~IsoContinues(rec) /\ rec.to = "" /\ ~rec.more /\ w' = next
         /\ RecoverFile(path, <<here>>)
  <2>1. \/ /\ IsoContinues(rec) /\ rec.more /\ w' = [next EXCEPT !.pending = more]
           /\ reports' = reports
        \/ /\ IsoContinues(rec) /\ ~rec.more /\ w' = [next EXCEPT !.pending = <<>>] /\ Flush(more)
        \/ /\ rec.to # ""
           /\ w.pending # <<>> => Flush(w.pending)
           /\ w.pending = <<>> => reports' = reports
           /\ w' = [next EXCEPT !.pending = <<>>,
                      !.stack = IF Len(w.path) + 1 < MaxDepth THEN Append(@, IsoStart(rec.to, path))
                                ELSE @]
        \/ /\ ~IsoContinues(rec) /\ rec.to = "" /\ rec.more /\ reports' = reports
           /\ w' = [next EXCEPT !.pending = <<[path |-> path, extents |-> <<here>>]>>]
        \/ /\ ~IsoContinues(rec) /\ rec.to = "" /\ ~rec.more /\ w' = next
           /\ RecoverFile(path, <<here>>)
    BY DEF IsoRecord
  <2>2. next.stack = w.stack
    BY <1>2
  <2>3. IF Len(w.path) + 1 < MaxDepth
          THEN [next EXCEPT !.pending = <<>>, !.stack = Append(@, IsoStart(rec.to, path))]
                 = [next EXCEPT !.pending = <<>>, !.stack = deeper]
        ELSE [next EXCEPT !.pending = <<>>, !.stack = @] = [next EXCEPT !.pending = <<>>, !.stack = w.stack]
    BY <1>2 DEF Has
  <2> QED
    BY <2>1, <2>2, <2>3
<1>4. /\ w.pending # <<>> => /\ more[1].extents[1] = w.pending[1].extents[1]
  <2> SUFFICES ASSUME w.pending # <<>> PROVE more[1].extents[1] = w.pending[1].extents[1]
    OBVIOUS
  <2> PICK old : old = w.pending[1].extents
    OBVIOUS
  <2>1. more[1].extents = Append(old, here)
    BY DEF Has
  <2>2. Append(old, here)[1] = old[1]
    BY FirstStays
  <2> QED
    BY <2>1, <2>2
<1>5. /\ Flush(more) => Adds(more[1].extents[1].at)
      /\ Flush(w.pending) => Adds(w.pending[1].extents[1].at)
      /\ RecoverFile(path, <<here>>) => Adds(rec.at)
  <2>1. <<here>>[1].at = rec.at
    OBVIOUS
  <2>2. RecoverFile(path, <<here>>) => Adds(<<here>>[1].at)
    BY RecoverFileAdds
  <2> QED
    BY <2>1, <2>2, RecoverFileAdds DEF Flush
<1>6. CASE IsoContinues(rec) /\ rec.more /\ w' = [next EXCEPT !.pending = more] /\ reports' = reports
  BY <1>1, <1>2, <1>6 DEF RecordDone, IsoContinues, Has
<1>7. CASE IsoContinues(rec) /\ ~rec.more /\ w' = [next EXCEPT !.pending = <<>>] /\ Flush(more)
  BY <1>1, <1>2, <1>4, <1>5, <1>7 DEF RecordDone, IsoContinues, Has
<1>8. CASE /\ rec.to # ""
           /\ w.pending # <<>> => Flush(w.pending)
           /\ w.pending = <<>> => reports' = reports
           /\ w' = flat \/ w' = nested
  <2>1. \A r \in {flat, nested} :
          /\ Has(r, {"step", "stack", "visited", "records", "pending"}) /\ r.step = w.step
          /\ r.visited = w.visited /\ r.records = Tail(w.records)
          /\ r.stack \in {w.stack, deeper} /\ r.pending = <<>>
    BY <1>2 DEF Has
  <2>2. w' \in {flat, nested}
    BY <1>8
  <2>3. /\ Has(w', {"step", "stack", "visited", "records", "pending"}) /\ w'.step = w.step
        /\ w'.visited = w.visited /\ w'.records = Tail(w.records)
        /\ w'.stack \in {w.stack, deeper} /\ w'.pending = <<>>
    BY <2>1, <2>2
  <2>4. RecordDone(rec)
    BY <1>5, <1>8, <2>3 DEF RecordDone
  <2> QED
    BY <1>1, <1>8, <2>3, <2>4
<1>9. CASE /\ ~IsoContinues(rec) /\ rec.to = "" /\ rec.more /\ reports' = reports
           /\ w' = [next EXCEPT !.pending = <<[path |-> path, extents |-> <<here>>]>>]
  BY <1>1, <1>2, <1>9 DEF RecordDone, IsoContinues, Has
<1>10. CASE /\ ~IsoContinues(rec) /\ rec.to = "" /\ ~rec.more /\ w' = next
            /\ RecoverFile(path, <<here>>)
  BY <1>1, <1>2, <1>5, <1>10 DEF RecordDone, IsoContinues
<1> QED
  BY <1>3, <1>6, <1>7, <1>8, <1>9, <1>10

\* A record continues a file, ends it, or begins one that was not reported.
LEMMA IsoRecordSound ==
  ASSUME Reported, DiscSound, StackSound, ReadingFolder, IsoRecord
  PROVE  Reported' /\ StackSound' /\ w'.step = "read" /\ ReadingFolder'
<1>1. PICK d \in w.visited : \E k \in 1 .. Len(meta.dirs[d]) + 1 :
        Listing(d, k) /\ (PendingAt(d, k) \/ NothingPending(d, k))
  BY DEF ReadingFolder
<1>2. PICK k \in 1 .. Len(meta.dirs[d]) + 1 : Listing(d, k) /\ (PendingAt(d, k) \/ NothingPending(d, k))
  BY <1>1
<1>3. PICK list : list = meta.dirs[d]
  OBVIOUS
<1>4. PICK done \in SUBSET Folders : done = w.visited \ {d}
  BY DEF StackSound
<1>5. /\ d \in Folders /\ IsList(list) /\ Len(list) \in Nat /\ DOMAIN list = 1 .. Len(list)
      /\ k \in 1 .. Len(list) + 1
      /\ w.records = SubSeq(list, k, Len(list))
  <2>1. d \in Folders /\ IsList(list) /\ k \in 1 .. Len(list) + 1 /\ w.records = SubSeq(list, k, Len(list))
    BY <1>2, <1>3 DEF DiscSound, StackSound, Listing
  <2> QED
    BY <2>1, ListIsSequence
<1>6. w.records # <<>>
  BY DEF IsoRecord
<1>7. /\ k \in 1 .. Len(list) /\ k + 1 \in 1 .. Len(list) + 1
      /\ Head(w.records) = list[k] /\ Tail(w.records) = SubSeq(list, k + 1, Len(list))
  BY <1>5, <1>6, RecordsLeft
<1>8. PICK rec : rec = list[k]
  OBVIOUS
<1>9. rec.to # "" => rec.to \in Dirs /\ ~rec.more
  BY <1>3, <1>5, <1>7, <1>8 DEF DiscSound
<1>10. /\ Has(w, {"step", "stack", "visited", "records", "pending"})
       /\ w.pending # <<>> => /\ Has(w.pending[1], {"extents"}) /\ IsList(w.pending[1].extents)
                              /\ w.pending[1].extents # <<>> /\ w.pending = <<w.pending[1]>>
  BY <1>2 DEF ReadingFolder, PendingAt, NothingPending
<1>11. /\ pc = "scan" /\ pc' = pc /\ w.step = "read" /\ meta' = meta
       /\ Has(w', {"step", "stack", "visited", "records", "pending"}) /\ w'.step = w.step
       /\ w'.visited = w.visited /\ w'.records = Tail(w.records)
       /\ \/ w'.stack = w.stack
          \/ rec.to # "" /\ \E path : w'.stack = Append(w.stack, IsoStart(rec.to, path))
       /\ RecordDone(rec)
  BY <1>7, <1>8, <1>9, <1>10, IsoRecordDoes
<1>12. StackSound'
  <2>1. IsList(w.stack) /\ (\A i \in DOMAIN w.stack : w.stack[i].to \in Folders) /\ w.visited \subseteq Folders
    BY DEF StackSound
  <2>2. CASE w'.stack = w.stack
    BY <1>11, <2>1, <2>2 DEF StackSound, Folders
  <2>3. CASE rec.to # "" /\ \E path : w'.stack = Append(w.stack, IsoStart(rec.to, path))
    <3>1. PICK path : w'.stack = Append(w.stack, IsoStart(rec.to, path))
      BY <2>3
    <3>2. PICK start : start = IsoStart(rec.to, path)
      OBVIOUS
    <3>3. start.to \in Folders
      BY <1>9, <2>3, <3>2 DEF IsoStart, Folders
    <3>4. w'.stack = Append(w.stack, start)
      BY <3>1, <3>2
    <3>5. /\ IsList(Append(w.stack, start)) /\ DOMAIN Append(w.stack, start) = 1 .. Len(w.stack) + 1
          /\ Append(w.stack, start)[Len(w.stack) + 1] = start
          /\ \A i \in 1 .. Len(w.stack) : Append(w.stack, start)[i] = w.stack[i]
      BY <2>1, AppendList
    <3>6. DOMAIN w.stack = 1 .. Len(w.stack) /\ Len(w.stack) \in Nat
      BY <2>1, ListIsSequence
    <3>7. \A i \in 1 .. Len(w.stack) + 1 : i = Len(w.stack) + 1 \/ i \in 1 .. Len(w.stack)
      BY <3>6
    <3>8. /\ IsList(w'.stack) /\ DOMAIN w'.stack = 1 .. Len(w.stack) + 1
          /\ w'.stack[Len(w.stack) + 1] = start
          /\ \A i \in 1 .. Len(w.stack) : w'.stack[i] = w.stack[i]
      BY <3>4, <3>5
    <3>9. \A i \in DOMAIN w'.stack : w'.stack[i].to \in Folders
      BY <2>1, <3>3, <3>6, <3>7, <3>8
    <3> QED
      BY <1>11, <2>1, <3>8, <3>9 DEF StackSound, Folders
  <2> QED
    BY <1>11, <2>2, <2>3
<1>13. Listing(d, k + 1)'
  BY <1>3, <1>7, <1>11 DEF Listing
\* It is enough to know where the next record stands.
<1>14. SUFFICES Reported' /\ (PendingAt(d, k + 1)' \/ NothingPending(d, k + 1)')
  <2>1. k + 1 \in 1 .. Len(meta'.dirs[d]) + 1 /\ d \in w'.visited
    BY <1>3, <1>7, <1>11
  <2> QED
    BY <1>11, <1>12, <1>13, <2>1 DEF ReadingFolder
<1>15. k \in Int /\ (k + 1) - 1 = k /\ k + 1 > 1 /\ k < k + 1
  BY <1>5, <1>7
<1>16. ASSUME reports' = reports
       PROVE  Reported' /\ \A p \in Int : ReportedFrom(done, d, p) => ReportedFrom(done, d, p)'
  <2>1. Reported' /\ ReportKeys' = ReportKeys
    BY <1>11, <1>16, ReportedStill
  <2> QED
    BY <1>11, <2>1 DEF ReportedFrom
<1>17. CASE w.pending # <<>>
  <2>1. PendingAt(d, k)
    BY <1>2, <1>17 DEF NothingPending
  <2>2. PICK p \in 1 .. k - 1 : /\ Begins(list, p) /\ list[p].at = w.pending[1].extents[1].at
                                /\ ReportedFrom(done, d, p)
    BY <1>3, <1>4, <2>1 DEF PendingAt
  <2>3. p \in 1 .. (k + 1) - 1 /\ p \in Int /\ p < k + 1
    BY <1>15, <2>2
  <2>4. CASE /\ rec.more /\ reports' = reports
             /\ w'.pending = <<[w.pending[1] EXCEPT
                                  !.extents = Append(@, [at |-> rec.at, n |-> rec.n])]>>
    <3>1. PICK old, here : old = w.pending[1].extents /\ here = [at |-> rec.at, n |-> rec.n]
      OBVIOUS
    <3>2. Append(old, here)[1] = old[1] /\ IsList(Append(old, here)) /\ Append(old, here) # <<>>
      BY <1>10, <1>17, <3>1, FirstStays
    <3>3. w'.pending = <<[w.pending[1] EXCEPT !.extents = Append(old, here)]>>
      BY <2>4, <3>1
    <3>4. /\ w'.pending # <<>> /\ w'.pending = <<w'.pending[1]>> /\ Has(w'.pending[1], {"extents"})
          /\ w'.pending[1].extents = Append(old, here)
      <4>1. PICK longer : longer = Append(old, here)
        OBVIOUS
      <4>2. w'.pending = <<[w.pending[1] EXCEPT !.extents = longer]>>
        BY <3>3, <4>1
      <4> QED
        BY <1>10, <1>17, <4>1, <4>2 DEF Has
    <3>5. IsList(w'.pending[1].extents) /\ w'.pending[1].extents # <<>>
          /\ list[p].at = w'.pending[1].extents[1].at
      BY <2>2, <3>1, <3>2, <3>4
    <3>6. Reported' /\ ReportedFrom(done, d, p)'
      BY <1>16, <2>2, <2>3, <2>4
    <3>7. meta'.dirs[d] = list /\ done = w'.visited \ {d} /\ list[(k + 1) - 1].more
      BY <1>3, <1>4, <1>8, <1>11, <1>15, <2>4
    <3>8. PendingAt(d, k + 1)'
      BY <1>15, <2>2, <2>3, <3>4, <3>5, <3>6, <3>7 DEF PendingAt
    <3> QED
      BY <3>6, <3>8
  <2>5. CASE ~rec.more /\ w'.pending = <<>> /\ Adds(w.pending[1].extents[1].at)
    <3>1. p \in DOMAIN meta.dirs[d] /\ Begins(meta.dirs[d], p) /\ Adds(meta.dirs[d][p].at)
      BY <1>3, <2>2, <2>5 DEF Begins
    <3>2. Reported' /\ ReportedFrom(done, d, k + 1)'
      <4>1. k + 1 \in Int
        BY <1>15
      <4> QED
        BY <1>5, <1>11, <2>2, <2>3, <3>1, <4>1, IsoReports
    <3>3. meta'.dirs[d] = list /\ done = w'.visited \ {d} /\ ~list[(k + 1) - 1].more
      BY <1>3, <1>4, <1>8, <1>11, <1>15, <2>5
    <3>4. NothingPending(d, k + 1)'
      BY <2>5, <3>2, <3>3 DEF NothingPending
    <3> QED
      BY <3>2, <3>4
  <2> QED
    BY <1>11, <1>17, <2>4, <2>5 DEF RecordDone
<1>18. CASE w.pending = <<>>
  <2>1. /\ NothingPending(d, k) /\ ReportedFrom(done, d, k) /\ (k = 1 \/ ~list[k - 1].more)
    BY <1>2, <1>3, <1>4, <1>18 DEF PendingAt, NothingPending
  <2>2. rec.to = "" => Begins(list, k)
    BY <1>5, <1>7, <1>8, <2>1 DEF Begins
  <2>3. meta'.dirs[d] = list /\ done = w'.visited \ {d} /\ rec = list[(k + 1) - 1]
    BY <1>3, <1>4, <1>8, <1>11, <1>15
  <2>4. CASE ~rec.more /\ w'.pending = <<>> /\ reports' = reports
    <3>1. ReportedFrom(done, d, k + 1)
      <4>1. k + 1 \in Int /\ k <= k + 1
        BY <1>15
      <4> QED
        BY <1>5, <1>15, <2>1, <4>1, ReportedLater
    <3>2. Reported' /\ ReportedFrom(done, d, k + 1)'
      <4>1. k + 1 \in Int
        BY <1>15
      <4> QED
        BY <1>16, <2>4, <3>1, <4>1
    <3>3. NothingPending(d, k + 1)'
      BY <2>3, <2>4, <3>2 DEF NothingPending
    <3> QED
      BY <3>2, <3>3
  <2>5. CASE /\ rec.to = "" /\ rec.more /\ reports' = reports
             /\ \E path : w'.pending = <<[path |-> path, extents |-> <<[at |-> rec.at, n |-> rec.n]>>]>>
    <3>1. PICK path : w'.pending = <<[path |-> path, extents |-> <<[at |-> rec.at, n |-> rec.n]>>]>>
      BY <2>5
    <3>2. PICK here : here = [at |-> rec.at, n |-> rec.n]
      OBVIOUS
    <3>3. PICK one : one = <<here>>
      OBVIOUS
    <3>4. IsList(one) /\ one # <<>> /\ one[1].at = rec.at
      BY <3>2, <3>3, OneOrNone
    <3>5. w'.pending = <<[path |-> path, extents |-> one]>>
      BY <3>1, <3>2, <3>3
    <3>6. /\ w'.pending # <<>> /\ w'.pending = <<w'.pending[1]>> /\ Has(w'.pending[1], {"extents"})
          /\ w'.pending[1].extents = one
      BY <3>5 DEF Has
    <3>7. Reported' /\ ReportedFrom(done, d, k)'
      BY <1>15, <1>16, <2>1, <2>5
    <3>8. k \in 1 .. (k + 1) - 1
      BY <1>5, <1>7
    <3>9. PendingAt(d, k + 1)'
      BY <1>8, <1>15, <2>2, <2>3, <2>5, <3>4, <3>6, <3>7, <3>8 DEF PendingAt
    <3> QED
      BY <3>7, <3>9
  <2>6. CASE rec.to = "" /\ ~rec.more /\ w'.pending = <<>> /\ Adds(rec.at)
    <3>1. k \in DOMAIN meta.dirs[d] /\ Begins(meta.dirs[d], k) /\ Adds(meta.dirs[d][k].at)
      BY <1>3, <1>5, <1>7, <1>8, <2>2, <2>6
    <3>2. k + 1 \in Int
      BY <1>15
    <3>3. Reported' /\ ReportedFrom(done, d, k + 1)'
      BY <1>5, <1>11, <1>15, <2>1, <3>1, <3>2, IsoReports
    <3>4. NothingPending(d, k + 1)'
      BY <2>3, <2>6, <3>3 DEF NothingPending
    <3> QED
      BY <3>3, <3>4
  <2> QED
    BY <1>11, <1>18, <2>4, <2>5, <2>6 DEF RecordDone
<1> QED
  BY <1>17, <1>18

\* A disc that is only read stays as it was.
LEMMA DiscStill ==
  ASSUME DiscSound, meta' = meta, UsedBlocks' = UsedBlocks
  PROVE  DiscSound'
<1>1. Has(meta', {"dirs"}) /\ meta'.dirs = [d \in Folders |-> meta'.dirs[d]]
  BY DEF DiscSound
<1>2. \A d \in Folders :
        /\ IsList(meta'.dirs[d])
        /\ \A i \in DOMAIN meta'.dirs[d] :
             /\ meta'.dirs[d][i].to # "" => meta'.dirs[d][i].to \in Dirs /\ ~meta'.dirs[d][i].more
             /\ Begins(meta'.dirs[d], i) => meta'.dirs[d][i].at \in UsedBlocks'
  BY DEF DiscSound
<1>3. \A d, e \in Folders : \A i \in DOMAIN meta'.dirs[d], j \in DOMAIN meta'.dirs[e] :
        Begins(meta'.dirs[d], i) /\ Begins(meta'.dirs[e], j) /\ meta'.dirs[d][i].at = meta'.dirs[e][j].at
          => d = e /\ i = j
  <2> SUFFICES ASSUME NEW d \in Folders, NEW e \in Folders,
                      NEW i \in DOMAIN meta.dirs[d], NEW j \in DOMAIN meta.dirs[e],
                      Begins(meta.dirs[d], i), Begins(meta.dirs[e], j),
                      meta.dirs[d][i].at = meta.dirs[e][j].at
               PROVE  d = e /\ i = j
    OBVIOUS
  <2> QED
    BY DEF DiscSound
<1> QED
  BY <1>1, <1>2, <1>3 DEF DiscSound

\* The walk reports every file at most once.
LEMMA IsoScanSound ==
  ASSUME Sound, IsoRecover \/ IsoStep
  PROVE  Sound'
<1>1. /\ fs = "iso" /\ fs' = fs /\ UNCHANGED volume /\ pc' \in {"scan", "done"} /\ pc \in {"life", "scan"}
  BY DEF IsoRecover, IsoStep, IsoOpen, IsoRecord, IsoClose, IsoEnd, Started, Reading, Walking,
         Stop, volume
<1>2. Lived /\ Reported /\ DiscSound
  BY <1>1 DEF Sound, IsoSound
<1>3. Lived'
  BY <1>1, <1>2, LivedOn DEF volume
<1>4. meta' = meta /\ alive' = alive /\ lives' = lives
  BY <1>1 DEF volume
<1>5. DiscSound'
  <2>1. UsedBlocks' = UsedBlocks
    BY <1>4 DEF UsedBlocks
  <2> QED
    BY <1>2, <1>4, <2>1, DiscStill
<1>6. SUFFICES Reported' /\ (pc' = "scan" => StackSound' /\ IF w'.step = "open" THEN Opening' ELSE ReadingFolder')
  BY <1>1, <1>3, <1>5 DEF Sound, IsoSound
<1>7. ASSUME pc = "scan"
      PROVE  StackSound /\ IF w.step = "open" THEN Opening ELSE ReadingFolder
  BY <1>1, <1>7 DEF Sound, IsoSound
<1>8. CASE IsoRecover
  <2>1. /\ pc = "life" /\ pc' = "scan" /\ reports' = reports
        /\ w' = [step |-> "open", stack |-> <<IsoStart(Root, <<>>)>>, visited |-> {}, entries |-> 0]
    BY <1>8 DEF IsoRecover, Started
  <2>2. Reported' /\ ReportKeys' = {}
    BY <1>2, <2>1, NothingReported
  <2>3. w'.stack = <<IsoStart(Root, <<>>)>> /\ w'.visited = {} /\ w'.step = "open"
        /\ Has(w', {"step", "stack", "visited"})
    BY <2>1 DEF Has
  <2>4. IsoStart(Root, <<>>).to = Root
    BY DEF IsoStart
  <2>5. PICK start : start = IsoStart(Root, <<>>)
    OBVIOUS
  <2>6. w'.stack = <<start>> /\ start.to \in Folders
    BY <2>3, <2>4, <2>5 DEF Folders
  <2>7. IsList(w'.stack) /\ DOMAIN w'.stack = 1 .. 1 /\ w'.stack[1] = start
    BY <2>6 DEF IsList
  <2>8. \A i \in 1 .. 1 : i = 1
    OBVIOUS
  <2>9. StackSound'
    BY <2>3, <2>6, <2>7, <2>8 DEF StackSound, Folders
  <2> QED
    BY <2>2, <2>3, <2>9 DEF Opening
<1>9. CASE IsoOpen
  <2>1. pc = "scan" /\ w.step = "open"
    BY <1>9 DEF IsoOpen, Reading
  <2> QED
    BY <1>2, <1>7, <1>9, <2>1, IsoOpenSound
<1>10. CASE IsoRecord
  <2>1. pc = "scan" /\ w.step = "read"
    BY <1>10 DEF IsoRecord, Reading
  <2>2. Reported' /\ StackSound' /\ w'.step = "read" /\ ReadingFolder'
    BY <1>2, <1>7, <1>10, <2>1, IsoRecordSound
  <2> QED
    BY <2>2
<1>11. CASE IsoClose
  <2>1. pc = "scan" /\ w.step = "read"
    BY <1>11 DEF IsoClose, Reading
  <2>2. Reported' /\ StackSound' /\ w'.step = "open" /\ Opening'
    BY <1>2, <1>7, <1>11, <2>1, IsoCloseSound
  <2> QED
    BY <2>2
<1>12. CASE IsoEnd
  <2>1. pc = "scan" /\ pc' = "done" /\ reports' = reports
    BY <1>12 DEF IsoEnd, Reading, Stop
  <2>2. Reported'
    BY <1>2, <2>1, ReportedStill
  <2> QED
    BY <2>1, <2>2
<1> QED
  BY <1>8, <1>9, <1>10, <1>11, <1>12 DEF IsoStep

(* ------------------------------ The theorem ---------------------------- *)

\* Before the volume is formatted nothing has lived and nothing is reported.
LEMMA InitSound == Init => Sound
<1> SUFFICES ASSUME Init PROVE Sound
  OBVIOUS
<1>1. /\ lives = [x \in Names |-> None] /\ alive = {} /\ ops = 0 /\ pc = "new" /\ reports = <<>>
  BY DEF Init
<1>2. \A x \in Names : lives[x].path = <<>> /\ lives[x] = None
  BY <1>1 DEF None
<1>3. Born = {}
  BY <1>2 DEF Born
<1>4. IsList(<<>>) /\ Has(None, {"key", "path"}) /\ DOMAIN <<>> = {}
  BY OneOrNone DEF None, Has
<1>5. lives = [x \in Names |-> lives[x]]
  BY <1>1
<1>6. Lived
  BY <1>1, <1>2, <1>3, <1>4, <1>5 DEF Lived
<1>7. Reported /\ ReportKeys = {}
  BY <1>1, <1>4 DEF Reported, Distinct, ReportKeys
<1>8. NtfsSound /\ ExtSound
  BY <1>1, <1>7 DEF NtfsSound, ExtSound, AliveApart
<1>9. HfsSound
  BY <1>1, <1>3, <1>7, FS_EmptySet DEF HfsSound, IdsSound
<1>10. IsoSound
  BY <1>1 DEF IsoSound
<1> QED
  BY <1>1, <1>6, <1>7, <1>8, <1>9, <1>10 DEF Sound

\* Nothing is found out about a volume by looking on.
LEMMA SoundStill ==
  ASSUME Sound, UNCHANGED <<fs, meta, lives, alive, ops, pc, w, reports>>
  PROVE  Sound'
<1>1. Born' = Born /\ ReportKeys' = ReportKeys /\ UsedBlocks' = UsedBlocks /\ FileIds' = FileIds /\ LiveIds' = LiveIds
  BY DEF Born, ReportKeys, UsedBlocks, FileIds, LiveIds, FilesOf
<1>2. Lived' /\ Reported'
  BY <1>1 DEF Sound, Lived, Reported, IsList, Distinct, Has
<1>3. fs = "ntfs" => NtfsSound'
  BY <1>1 DEF Sound, NtfsSound, AliveApart, Has
<1>4. fs = "ext" => ExtSound'
  BY <1>1 DEF Sound, ExtSound, AliveApart, Has, FoundSound
<1>5. fs = "hfs" => HfsSound'
  <2> SUFFICES ASSUME fs = "hfs" PROVE HfsSound'
    OBVIOUS
  <2>1. IdsSound'
    BY <1>1 DEF Sound, HfsSound, IdsSound
  <2>2. pc # "new" => CatalogSound'
    BY <1>1 DEF Sound, HfsSound, CatalogSound, Catalogued, FilesKnown, Known, IsList, Has
  <2>3. SlackPass => SlackPass'
    BY <1>1 DEF SlackPass, Stale, FilesOf, Has
  <2>4. JournalPass => JournalPass'
    BY <1>1 DEF JournalPass, Has
  <2> QED
    BY <1>1, <2>1, <2>2, <2>3, <2>4 DEF Sound, HfsSound
<1>6. fs = "iso" => IsoSound'
  <2> SUFFICES ASSUME fs = "iso" PROVE IsoSound'
    OBVIOUS
  <2>1. pc # "new" => DiscSound'
    BY <1>1, DiscStill DEF Sound, IsoSound
  <2>2. StackSound => StackSound'
    BY DEF StackSound, Folders
  <2>3. Opening => Opening'
    BY <1>1 DEF Opening, Has
  <2>4. \A done, d, k : ReportedFrom(done, d, k) => ReportedFrom(done, d, k)'
    BY <1>1 DEF ReportedFrom
  <2>5. ReadingFolder => ReadingFolder'
    <3> SUFFICES ASSUME ReadingFolder PROVE ReadingFolder'
      OBVIOUS
    <3>1. PICK d \in w.visited : \E k \in 1 .. Len(meta.dirs[d]) + 1 :
            Listing(d, k) /\ (PendingAt(d, k) \/ NothingPending(d, k))
      BY DEF ReadingFolder
    <3>2. PICK k \in 1 .. Len(meta.dirs[d]) + 1 :
            Listing(d, k) /\ (PendingAt(d, k) \/ NothingPending(d, k))
      BY <3>1
    <3>3. Listing(d, k)'
      BY <3>2 DEF Listing
    <3>4. PendingAt(d, k)' \/ NothingPending(d, k)'
      BY <1>1, <3>2 DEF PendingAt, NothingPending, ReportedFrom
    <3>5. Has(w, {"step", "stack", "visited", "records", "pending"})'
      BY DEF ReadingFolder, Has
    <3> QED
      BY <3>2, <3>3, <3>4, <3>5 DEF ReadingFolder
  <2> QED
    BY <2>1, <2>2, <2>3, <2>5 DEF Sound, IsoSound
<1> QED
  BY <1>2, <1>3, <1>4, <1>5, <1>6 DEF Sound

\* Every step of a life and of a recovery keeps what is sound.
LEMMA NextSound == Sound /\ [Next]_vars => Sound'
<1> SUFFICES ASSUME Sound, [Next]_vars PROVE Sound'
  OBVIOUS
<1>1. CASE NtfsLife
  BY <1>1, NtfsFormatSound, NtfsCreateSound, NtfsDeleteSound DEF NtfsLife
<1>2. CASE ExtLife
  BY <1>2, ExtFormatSound, ExtCreateSound, ExtDeleteSound DEF ExtLife
<1>3. CASE HfsLife
  BY <1>3, HfsFormatSound, HfsCreateSound, HfsGrowSound, HfsDeleteSound DEF HfsLife
<1>4. CASE IsoLife
  BY <1>4, IsoFormatSound, IsoFileSound, IsoFolderSound DEF IsoLife
<1>5. CASE NtfsRecover \/ NtfsStep
  BY <1>5, NtfsScanSound
<1>6. CASE ExtRecover \/ ExtStep
  BY <1>6, ExtScanSound
<1>7. CASE HfsRecover \/ HfsStep
  BY <1>7, HfsScanSound
<1>8. CASE IsoRecover \/ IsoStep
  BY <1>8, IsoScanSound
<1>9. CASE UNCHANGED vars
  <2>1. /\ UNCHANGED <<fs, meta, lives, alive, ops, pc, w, reports>>
    BY <1>9 DEF vars, volume
  <2> QED
    BY <2>1, SoundStill
<1> QED
  BY <1>1, <1>2, <1>3, <1>4, <1>5, <1>6, <1>7, <1>8, <1>9 DEF Next, Life, Recover, Step, Finished

\* What is sound reports each lost file once and no file that is there: what
\* is reported is not in use, of deleted inodes or of no live catalog record.
LEMMA SoundOnce == Sound => EachLostFileOnce
<1> SUFFICES ASSUME Sound PROVE EachLostFileOnce
  OBVIOUS
<1>1. \A i, j \in DOMAIN reports : reports[j].key = reports[i].key => j = i
  BY DEF Sound, Reported, Distinct
<1>2. ASSUME NEW i \in DOMAIN reports, NEW x \in alive, fs # "iso", lives[x].key = reports[i].key
      PROVE  FALSE
  <2>1. PICK key : key = reports[i].key
    OBVIOUS
  <2>2. key \in ReportKeys /\ lives[x].key = key /\ x \in Born /\ x \in Names
    BY <1>2, <2>1 DEF ReportKeys, Sound, Lived, Born
  <2>3. pc # "new"
    BY <2>2 DEF Sound, Lived
  <2>4. CASE fs = "ntfs"
    BY <1>2, <2>2, <2>4 DEF Sound, NtfsSound
  <2>5. CASE fs = "ext"
    <3>1. meta.table[key].links = 1 /\ meta.table[key].dtime = 0 /\ IsDeleted(meta.table[key])
      BY <1>2, <2>2, <2>5 DEF Sound, ExtSound
    <3> QED
      BY <3>1 DEF IsDeleted
  <2>6. CASE fs = "hfs"
    <3>1. HfsSound /\ IdsSound /\ CatalogSound
      BY <2>3, <2>6 DEF Sound, HfsSound
    <3>2. key \in FileIds /\ key \notin LiveIds
      BY <2>2, <3>1 DEF HfsSound
    <3>3. x \in Files
      <4>1. PICK y \in Files \cap Born : lives[y].key = key
        BY <3>2 DEF FileIds
      <4> QED
        BY <2>2, <3>1, <4>1 DEF IdsSound
    <3>4. x \notin Dirs
      BY <3>3, RunAssumption
    <3>5. PICK i_ \in DOMAIN meta.node.live : meta.node.live[i_].id = key /\ meta.node.live[i_].kind = "file"
      BY <1>2, <2>2, <3>1, <3>4 DEF CatalogSound, Catalogued, KindOf
    <3>6. key \in LiveIds
      BY <3>5 DEF LiveIds, FilesOf
    <3> QED
      BY <3>2, <3>6
  <2>7. CASE fs \notin {"ntfs", "ext", "hfs", "iso"}
    BY <2>3, <2>7 DEF Sound
  <2> QED
    BY <1>2, <2>4, <2>5, <2>6, <2>7
<1> QED
  BY <1>1, <1>2 DEF EachLostFileOnce

\* recover_deleted reports no file twice, by none of the four back ends, and
\* none that is still there unless the volume is a disc, however large the
\* volume and its tables and whatever lived on it (EachLostFileOnce).
THEOREM ReportsEachLostFileOnce == Spec => []EachLostFileOnce
<1>1. Init => Sound
  BY InitSound
<1>2. Sound /\ [Next]_vars => Sound'
  BY NextSound
<1>3. Sound => EachLostFileOnce
  BY SoundOnce
<1> QED
  BY <1>1, <1>2, <1>3, PTL DEF Spec
=============================================================================
