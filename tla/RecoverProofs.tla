---------------------------- MODULE RecoverProofs ----------------------------
(***************************************************************************)
(* A proof that what a run restores and carves stays, each file its own,   *)
(* and that what was in the output directory or is put there by others     *)
(* stays too, for any disks, lost files and things to carve.               *)
(***************************************************************************)
EXTENDS RecoverAll, SetFacts, SequenceTheorems

(* -------------------------------- Paths -------------------------------- *)

\* A sequence of no matter what: the names of paths need no type.
IsSeq(s) == \E S : s \in Seq(S)

LEMMA SeqFacts ==
  ASSUME NEW s, IsSeq(s)
  PROVE  /\ Len(s) \in Nat /\ DOMAIN s = 1 .. Len(s) /\ (s # <<>> => Len(s) >= 1)
         /\ s \in [1 .. Len(s) -> Range(s)]
<1>1. PICK S : s \in Seq(S)
  BY DEF IsSeq
<1>2. Len(s) \in Nat /\ DOMAIN s = 1 .. Len(s) /\ s \in [1 .. Len(s) -> S]
  BY <1>1
<1>3. s # <<>> => Len(s) # 0
  BY <1>1
<1> QED
  BY <1>2, <1>3 DEF Range

\* What a path below a directory has in common with both.
LEMMA Joined ==
  ASSUME NEW out, IsSeq(out), NEW rel, IsSeq(rel)
  PROVE  /\ IsSeq(out \o rel) /\ Len(out \o rel) = Len(out) + Len(rel)
         /\ \A i \in 1 .. Len(out) : (out \o rel)[i] = out[i]
         /\ \A i \in 1 .. Len(rel) : (out \o rel)[Len(out) + i] = rel[i]
<1>1. PICK S : out \in Seq(S)
  BY DEF IsSeq
<1>2. PICK T : rel \in Seq(T)
  BY DEF IsSeq
<1>3. out \in Seq(S \cup T) /\ rel \in Seq(S \cup T)
  BY <1>1, <1>2, SeqMonotonic
<1>4. out \o rel \in Seq(S \cup T)
  BY <1>3
<1> QED
  BY <1>3, <1>4 DEF IsSeq

\* Sequences with the same elements are the same.
LEMMA SameSeq ==
  ASSUME NEW s, IsSeq(s), NEW t, IsSeq(t), Len(s) = Len(t),
         \A i \in 1 .. Len(s) : s[i] = t[i]
  PROVE  s = t
<1>1. PICK S : s \in Seq(S)
  BY DEF IsSeq
<1>2. PICK T : t \in Seq(T)
  BY DEF IsSeq
<1>3. s \in Seq(S \cup T) /\ t \in Seq(S \cup T)
  BY <1>1, <1>2, SeqMonotonic
<1> QED
  BY <1>3, SeqEqual

LEMMA Cut ==
  ASSUME NEW s, IsSeq(s), NEW k \in 0 .. Len(s)
  PROVE  /\ IsSeq(SubSeq(s, 1, k)) /\ Len(SubSeq(s, 1, k)) = k
         /\ \A i \in 1 .. k : SubSeq(s, 1, k)[i] = s[i]
<1>1. PICK S : s \in Seq(S)
  BY DEF IsSeq
<1>2. Len(s) \in Nat
  BY <1>1
<1>3. \A i \in 1 .. k : s[i] \in S
  BY <1>1, <1>2
<1>4. /\ SubSeq(s, 1, k) \in Seq(S)
      /\ Len(SubSeq(s, 1, k)) = IF 1 <= k THEN k - 1 + 1 ELSE 0
      /\ \A i \in 1 .. k - 1 + 1 : SubSeq(s, 1, k)[i] = s[1 + i - 1]
  <2>1. 1 \in Int /\ k \in Int
    BY <1>2
  <2> QED BY <1>3, <2>1, SubSeqProperties
<1>5. Len(SubSeq(s, 1, k)) = k
  BY <1>2, <1>4
<1>6. \A i \in 1 .. k : SubSeq(s, 1, k)[i] = s[i]
  <2> SUFFICES ASSUME NEW i \in 1 .. k PROVE SubSeq(s, 1, k)[i] = s[i]
    OBVIOUS
  <2>1. i \in 1 .. k - 1 + 1 /\ 1 + i - 1 = i
    BY <1>2
  <2> QED BY <1>4, <2>1
<1> QED
  BY <1>4, <1>5, <1>6 DEF IsSeq

\* Two sequences that agree up to k have the same prefix of that length.
LEMMA SameCut ==
  ASSUME NEW s, IsSeq(s), NEW t, IsSeq(t), NEW k \in Nat, k <= Len(s), k <= Len(t),
         \A i \in 1 .. k : s[i] = t[i]
  PROVE  SubSeq(s, 1, k) = SubSeq(t, 1, k)
<1>1. Len(s) \in Nat /\ Len(t) \in Nat
  BY SeqFacts
<1>2. k \in 0 .. Len(s) /\ k \in 0 .. Len(t)
  BY <1>1
<1> QED
  BY <1>2, Cut, SameSeq

\* The name of a numbered path is its own but for the number.
IsName(e) == "no" \in DOMAIN e /\ "ext" \in DOMAIN e /\ e = [x \in DOMAIN e |-> e[x]]
HasNumber(path) == IsSeq(path) /\ path # <<>> /\ IsName(path[Len(path)])
Renamed(path, e) == [path EXCEPT ![Len(path)] = e]
LEMMA LastReplaced ==
  ASSUME NEW path, IsSeq(path), path # <<>>, NEW e, NEW new, new = Renamed(path, e)
  PROVE  /\ IsSeq(new) /\ new # <<>> /\ Len(new) = Len(path) /\ new[Len(path)] = e
         /\ \A i \in 1 .. Len(path) - 1 : new[i] = path[i]
<1>1. PICK S : path \in Seq(S)
  BY DEF IsSeq
<1>2. Len(path) \in 1 .. Len(path) /\ Len(path) \in Nat
  BY <1>1
<1> DEFINE l == Len(path)
<1>3. path \in Seq(S \cup {e}) /\ e \in S \cup {e}
  BY <1>1, SeqMonotonic
<1>4. new \in Seq(S \cup {e}) /\ Len(new) = l /\ \A j \in 1 .. l : new[j] = IF j = l THEN e ELSE path[j]
  BY <1>2, <1>3, ExceptSeq DEF Renamed
<1>5. IsSeq(new) /\ Len(new) = l /\ new[l] = e /\ \A i \in 1 .. l - 1 : new[i] = path[i]
  <2> HIDE DEF l
  <2>1. \A i \in 1 .. l - 1 : i \in 1 .. l /\ i # l
    BY <1>2 DEF l
  <2> QED BY <1>2, <1>4, <2>1 DEF IsSeq, l
<1>6. new # <<>>
  BY <1>2, <1>5
<1> QED
  BY <1>5, <1>6
LEMMA NumberedFacts ==
  ASSUME NEW path, HasNumber(path), NEW n
  PROVE  /\ HasNumber(Numbered(path, n)) /\ Len(Numbered(path, n)) = Len(path)
         /\ Numbered(path, n)[Len(path)] = [path[Len(path)] EXCEPT !.no = n]
         /\ Numbered(path, n)[Len(path)].no = n
         /\ \A i \in 1 .. Len(path) - 1 : Numbered(path, n)[i] = path[i]
<1> DEFINE l == Len(path)
           e == [path[l] EXCEPT !.no = n]
           new == Numbered(path, n)
<1>1. new = Renamed(path, e)
  BY DEF Numbered, Renamed
<1>2. e.no = n /\ IsName(e)
  BY DEF HasNumber, IsName
<1> HIDE DEF e, new
<1>3. /\ IsSeq(new) /\ new # <<>> /\ Len(new) = l /\ new[l] = e
      /\ \A i \in 1 .. l - 1 : new[i] = path[i]
  <2>1. IsSeq(path) /\ path # <<>>
    BY DEF HasNumber
  <2> QED BY <1>1, <2>1, LastReplaced
<1>4. HasNumber(new) /\ new[l].no = n
  BY <1>2, <1>3 DEF HasNumber
<1> QED
  BY <1>3, <1>4 DEF new, e
\* A name whose number is 0 has none.
LEMMA NumberZero ==
  ASSUME NEW path, HasNumber(path), path[Len(path)].no = 0
  PROVE  Numbered(path, 0) = path
<1> DEFINE l == Len(path)
           e == path[l]
           new == Numbered(path, 0)
<1>1. [e EXCEPT !.no = 0] = e
  BY DEF HasNumber, IsName
<1>2. /\ IsSeq(new) /\ Len(new) = l /\ new[l] = e /\ \A i \in 1 .. l - 1 : new[i] = path[i]
  BY <1>1, NumberedFacts DEF HasNumber
<1>3. IsSeq(path) /\ l \in Nat
  BY SeqFacts DEF HasNumber
<1> HIDE DEF new
<1>4. \A i \in 1 .. Len(new) : new[i] = path[i]
  BY <1>2, <1>3
<1>5. new = path
  BY <1>2, <1>3, <1>4, SameSeq
<1> QED
  BY <1>5 DEF new
\* rename_by_content: another extension.
Retyped(path, ext) == [path EXCEPT ![Len(path)].ext = ext]
LEMMA ExtensionFacts ==
  ASSUME NEW path, HasNumber(path), NEW ext
  PROVE  /\ HasNumber(Retyped(path, ext)) /\ Len(Retyped(path, ext)) = Len(path)
         /\ Retyped(path, ext)[Len(path)] = [path[Len(path)] EXCEPT !.ext = ext]
         /\ \A i \in 1 .. Len(path) - 1 : Retyped(path, ext)[i] = path[i]
<1> DEFINE l == Len(path)
           e == [path[l] EXCEPT !.ext = ext]
           new == Retyped(path, ext)
<1>1. new = Renamed(path, e)
  BY DEF Retyped, Renamed
<1>2. IsName(e)
  BY DEF HasNumber, IsName
<1> HIDE DEF e, new
<1>3. /\ IsSeq(new) /\ new # <<>> /\ Len(new) = l /\ new[l] = e
      /\ \A i \in 1 .. l - 1 : new[i] = path[i]
  <2>1. IsSeq(path) /\ path # <<>>
    BY DEF HasNumber
  <2> QED BY <1>1, <2>1, LastReplaced
<1>4. HasNumber(new)
  BY <1>2, <1>3 DEF HasNumber
<1> QED
  BY <1>3, <1>4 DEF new, e

\* The number goes to the name at the end, wherever the path is from.
LEMMA NumberedBelow ==
  ASSUME NEW out, IsSeq(out), NEW rel, HasNumber(rel), NEW n
  PROVE  /\ HasNumber(out \o rel)
         /\ Numbered(out \o rel, n) = out \o Numbered(rel, n)
<1> DEFINE want == out \o rel
           l == Len(out)
           m == Len(rel)
<1>1. /\ IsSeq(rel) /\ l \in Nat /\ m \in Nat /\ m >= 1
  BY SeqFacts DEF HasNumber
<1>2. /\ IsSeq(want) /\ Len(want) = l + m
      /\ \A i \in 1 .. l : want[i] = out[i]
      /\ \A i \in 1 .. m : want[l + i] = rel[i]
  BY <1>1, Joined
<1>3. want # <<>> /\ want[Len(want)] = rel[m]
  <2>1. m \in 1 .. m /\ l + m # 0
    BY <1>1
  <2> QED BY <1>2, <2>1
<1>4. HasNumber(want)
  BY <1>2, <1>3 DEF HasNumber
<1> DEFINE a == Numbered(want, n)
           r == Numbered(rel, n)
           b == out \o r
<1>5. /\ IsSeq(a) /\ Len(a) = l + m /\ a[l + m] = [want[l + m] EXCEPT !.no = n]
      /\ \A i \in 1 .. l + m - 1 : a[i] = want[i]
  <2>1. /\ HasNumber(a) /\ Len(a) = Len(want)
        /\ a[Len(want)] = [want[Len(want)] EXCEPT !.no = n]
        /\ \A i \in 1 .. Len(want) - 1 : a[i] = want[i]
    <3> HIDE DEF want
    <3> QED BY <1>4, NumberedFacts
  <2> HIDE DEF want, a, l, m
  <2>2. Len(want) = l + m /\ Len(want) - 1 = l + m - 1
    BY <1>1, <1>2
  <2>3. IsSeq(a)
    BY <2>1 DEF HasNumber
  <2> QED BY <2>1, <2>2, <2>3, Zenon
<1>6. /\ IsSeq(r) /\ Len(r) = m /\ r[m] = [rel[m] EXCEPT !.no = n]
      /\ \A i \in 1 .. m - 1 : r[i] = rel[i]
  BY NumberedFacts DEF HasNumber
<1> HIDE DEF want, a, r
<1>7. /\ IsSeq(b) /\ Len(b) = l + m
      /\ \A i \in 1 .. l : b[i] = out[i]
      /\ \A i \in 1 .. m : b[l + i] = r[i]
  <2>0. IsSeq(r)
    BY <1>6
  <2>1. /\ IsSeq(b) /\ Len(b) = Len(out) + Len(r)
        /\ \A i \in 1 .. Len(out) : b[i] = out[i]
        /\ \A i \in 1 .. Len(r) : b[Len(out) + i] = r[i]
    BY <2>0, Joined
  <2> HIDE DEF b
  <2> QED BY <1>6, <2>1
<1> HIDE DEF b, l, m
<1>8. \A i \in 1 .. l + m : a[i] = b[i]
  <2> SUFFICES ASSUME NEW i \in 1 .. l + m PROVE a[i] = b[i]
    OBVIOUS
  <2>1. CASE i <= l
    <3>1. i \in 1 .. l /\ i \in 1 .. l + m - 1
      BY <1>1, <2>1
    <3> QED BY <1>2, <1>5, <1>7, <3>1
  <2>2. CASE i > l /\ i < l + m
    <3> DEFINE k == i - l
    <3>1. k \in 1 .. m /\ k \in 1 .. m - 1 /\ i = l + k /\ i \in 1 .. l + m - 1
      BY <1>1, <2>2
    <3> HIDE DEF k
    <3> QED BY <1>2, <1>5, <1>6, <1>7, <3>1
  <2>3. CASE i = l + m
    <3>1. m \in 1 .. m
      BY <1>1
    <3>2. want[l + m] = rel[m] /\ b[l + m] = r[m]
      BY <1>2, <1>7, <3>1
    <3> QED BY <1>5, <1>6, <2>3, <3>2
  <2> QED BY <1>1, <2>1, <2>2, <2>3
<1>9. a = b
  BY <1>5, <1>7, <1>8, SameSeq
<1> QED
  BY <1>4, <1>9 DEF want, a, b, r

\* Different numbers make different paths.
LEMMA NumbersTell ==
  ASSUME NEW path, HasNumber(path), NEW n, NEW k, Numbered(path, n) = Numbered(path, k)
  PROVE  n = k
<1>1. Numbered(path, n)[Len(path)].no = n
  BY NumberedFacts
<1>2. Numbered(path, k)[Len(path)].no = k
  BY NumberedFacts
<1> QED
  BY <1>1, <1>2

\* unique_path finds a free path, with the least number there is.
LEMMA UniquePathFacts ==
  ASSUME NEW t, IsFiniteSet(DOMAIN t), NEW path, HasNumber(path)
  PROVE  \E n \in Nat :
           /\ UniquePath(t, path) = Numbered(path, n)
           /\ Numbered(path, n) \notin DOMAIN t
           /\ n # 0 => Numbered(path, 0) \in DOMAIN t
<1> DEFINE N == Cardinality(DOMAIN t)
           Free_(n) == ~Occupied(t, Numbered(path, n))
           S == {n \in 0 .. N : Free_(n)}
<1>1. N \in Nat
  BY FS_CardinalityType
<1>2. \E n \in 0 .. N : Free_(n)
  <2> DEFINE f == [n \in 0 .. N |-> Numbered(path, n)]
  <2>1. IsFiniteSet(0 .. N) /\ Cardinality(0 .. N) = N + 1
    <3> HIDE DEF N
    <3> QED BY <1>1, FS_Interval
  <2>2. SUFFICES ASSUME \A n \in 0 .. N : ~ Free_(n) PROVE FALSE
    OBVIOUS
  <2>3. f \in [0 .. N -> DOMAIN t]
    BY <2>2 DEF Occupied
  <2>4. \A j, k \in 0 .. N : f[j] = f[k] => j = k
    <3> HIDE DEF N
    <3> QED BY NumbersTell
  <2>5. f \in Injection(0 .. N, DOMAIN t)
    <3> HIDE DEF f, N
    <3> QED BY <2>3, <2>4 DEF Injection, IsInjective
  <2>6. N + 1 <= N
    <3> HIDE DEF f
    <3> QED BY <2>1, <2>5, FS_Injection
  <2> QED
    BY <1>1, <2>6
<1>3. PICK least \in S : \A k \in S : least <= k
  <2>1. S \in SUBSET Nat
    BY <1>1
  <2>2. S # {}
    BY <1>2
  <2> HIDE DEF S
  <2> QED BY <2>1, <2>2, LeastNatural
<1> DEFINE Chosen(n) == Free_(n) /\ \A k \in 0 .. n - 1 : ~Free_(k)
           m == CHOOSE n \in 0 .. N : Chosen(n)
<1>4. Chosen(least) /\ least \in 0 .. N
  <2>1. \A k \in 0 .. least - 1 : k \in 0 .. N /\ ~ (least <= k)
    BY <1>1, <1>3
  <2> QED BY <1>3, <2>1
<1>5. m \in 0 .. N /\ Chosen(m)
  <2> HIDE DEF Chosen
  <2> QED BY <1>4
<1>6. UniquePath(t, path) = Numbered(path, m)
  BY DEF UniquePath
<1> HIDE DEF m
<1>7. m # 0 => 0 \in 0 .. m - 1
  BY <1>1, <1>5
<1> QED
  BY <1>1, <1>5, <1>6, <1>7 DEF Occupied

(* ------------------------------ The invariant -------------------------- *)

IsDir(t, path) == path \in DOMAIN t /\ t[path].kind = "dir"
ParentsAreDirs(t, path) == \A k \in 1 .. Len(path) - 1 : IsDir(t, SubSeq(path, 1, k))
\* Nothing is in the way of the directory `out`.
Room(t, out) == \A path \in Prefixes(out) : path \in DOMAIN t => IsDir(t, path)

\* What the property says of the files made, and of what others made.
MadeStays(t, m) ==
  \A i \in DOMAIN m :
    /\ m[i].file \in DOMAIN t /\ t[m[i].file] = Node("file", m[i].content)
    /\ \A k \in DOMAIN m : m[k].file = m[i].file => k = i
    /\ ParentsAreDirs(t, m[i].file)
OthersStay(t, o) ==
  \A path \in DOMAIN o :
    Folder("_unnamed") \notin ToSet(path) => path \in DOMAIN t /\ t[path] = o[path]
Stays ==
  IsFiniteSet(DOMAIN tree) /\ IsSeq(made) /\ MadeStays(tree, made) /\ OthersStay(tree, others)

\* Before the undelete nothing is made or asked for.
Begun ==
  /\ pc # "new" => job \in Jobs
  /\ pc \in {"new", "detect"} => made = <<>> /\ turn = 0
  /\ pc \in {"new", "detect", "regions"} => cur = NoFile /\ todo = <<>>

\* Every directory the output needs can be made.
Rooms ==
  /\ pc = "detect" => \A path \in DOMAIN tree : IsOutputDir(path) => IsDir(tree, path)
  /\ pc = "undelete" => \A v \in Nat : Room(tree, VolumeDir(v))
  /\ pc \in {"undelete", "regions", "carve"} => Room(tree, CarvedDir)

\* What is asked for is of the lost files; if a file kept is where a nameless
\* one is to be, rename_by_content leaves it there.
AskedFor(t) ==
  \A i \in DOMAIN t : \E f \in LostFiles(job), v \in Nat :
    t[i].out = VolumeDir(v) /\ t[i].rel = f.rel /\ t[i].nameless = f.nameless
Rests(m, path) ==
  \A i \in DOMAIN m : m[i].file = path => Identified[m[i].content] = "" /\ NameOk(Last(path))
NamelessRest(m) ==
  \A v \in Nat, f \in LostFiles(job) : f.nameless => Rests(m, VolumeDir(v) \o f.rel)
Restoring == turn \in Nat /\ IsSeq(todo) /\ AskedFor(todo) /\ NamelessRest(made)

\* The file being made.
Wanted == cur.out \o cur.rel
Descending ==
  /\ cur.depth \in 1 .. Len(cur.rel) /\ (cur.step = "mkdir" => cur.depth < Len(cur.rel))
  /\ \A k \in 1 .. Len(cur.out) + cur.depth - 1 : IsDir(tree, SubSeq(Wanted, 1, k))
Opened ==
  /\ \E n \in Nat : cur.file = Numbered(Wanted, n)
  /\ ParentsAreDirs(tree, Wanted) /\ Wanted \in DOMAIN tree /\ cur.file \in DOMAIN tree
  /\ tree[cur.file] = Node("file", IF cur.step = "write" THEN "" ELSE cur.content)
  /\ \A i \in DOMAIN made : made[i].file # cur.file
  /\ cur.file \in DOMAIN others => Folder("_unnamed") \in ToSet(cur.file)
CurFields == {"step", "out", "rel", "depth", "tries", "content", "file"}
Sound ==
  /\ DOMAIN cur = CurFields /\ cur.step \in {"look", "mkdir", "write", "written", "failed"}
  /\ IsSeq(cur.out) /\ HasNumber(cur.rel) /\ cur.rel[Len(cur.rel)].no = 0
Making ==
  /\ Sound /\ todo # <<>>
  /\ pc \in {"undelete", "carve"} => Len(cur.out) >= Len(CarvedDir)
  /\ pc = "undelete" => cur.out = Head(todo).out /\ cur.rel = Head(todo).rel
  /\ cur.step \in {"look", "mkdir"} => Descending
  /\ cur.step \in {"write", "written"} => Opened

\* Only named files are reported before the carve begins, which knows them.
Reporting ==
  /\ IsSeq(rows)
  /\ pc \in {"new", "detect", "undelete", "regions"} => \A i \in DOMAIN rows : rows[i].kind = "named"
  /\ job.command = "recover" =>
       /\ pc = "carve" /\ todo # <<>> => NamedDigests \subseteq seen
       /\ \A i \in DOMAIN rows : rows[i].kind = "carved" => rows[i].digest \notin NamedDigests

IInv ==
  /\ Stays /\ Begun /\ Rooms /\ Reporting
  /\ pc = "undelete" => Restoring
  /\ cur # NoFile => Making

(* --------------------------- Where files are asked --------------------- *)

LEMMA PrefixIsShort ==
  ASSUME NEW out, IsSeq(out), NEW path \in Prefixes(out)
  PROVE  Len(path) \in Nat /\ Len(path) <= Len(out)
<1>1. PICK k \in 0 .. Len(out) : path = SubSeq(out, 1, k)
  BY DEF Prefixes
<1>2. Len(out) \in Nat
  BY SeqFacts
<1>3. Len(path) = k
  BY <1>1, Cut
<1> QED
  BY <1>2, <1>3

\* The directory the carver is given.
LEMMA CarvedDirFacts ==
  /\ IsSeq(CarvedDir) /\ Len(CarvedDir) \in {0, 1}
  /\ \A path \in Prefixes(CarvedDir) : IsOutputDir(path)
<1>1. CASE job.command = "recover"
  <2>1. CarvedDir = << Folder("carved") >>
    BY <1>1 DEF CarvedDir
  <2>2. CarvedDir \in Seq({Folder("carved")}) /\ Len(CarvedDir) = 1
    BY <2>1
  <2>3. \A k \in 0 .. 1 : SubSeq(CarvedDir, 1, k) \in {<<>>, << Folder("carved") >>}
    <3> SUFFICES ASSUME NEW k \in 0 .. 1
                 PROVE  SubSeq(CarvedDir, 1, k) \in {<<>>, << Folder("carved") >>}
      OBVIOUS
    <3>1. CASE k = 0
      BY <3>1, SubSeqEmpty
    <3>2. CASE k = 1
      BY <2>1, <2>2, <3>2, SubSeqFull
    <3> QED BY <3>1, <3>2
  <2>4. \A path \in Prefixes(CarvedDir) : IsOutputDir(path)
    BY <2>2, <2>3 DEF Prefixes, IsOutputDir
  <2> QED BY <2>2, <2>4 DEF IsSeq
<1>2. CASE job.command # "recover"
  <2>1. CarvedDir = <<>>
    BY <1>2 DEF CarvedDir
  <2>2. CarvedDir \in Seq({}) /\ Len(CarvedDir) = 0
    BY <2>1
  <2>3. SubSeq(CarvedDir, 1, 0) = <<>>
    BY <2>1, SubSeqEmpty
  <2>4. \A path \in Prefixes(CarvedDir) : IsOutputDir(path)
    BY <2>2, <2>3 DEF Prefixes, IsOutputDir
  <2> QED BY <2>2, <2>4 DEF IsSeq
<1> QED
  BY <1>1, <1>2

\* A sequence of two names, or of fewer, and its prefixes.
LEMMA ShortPrefixes ==
  ASSUME NEW a, NEW b
  PROVE  /\ IsSeq(<<>>) /\ IsSeq(<< a >>) /\ IsSeq(<< a, b >>)
         /\ Prefixes(<<>>) \subseteq {<<>>}
         /\ Prefixes(<< a >>) \subseteq {<<>>, << a >>}
         /\ Prefixes(<< a, b >>) \subseteq {<<>>, << a >>, << a, b >>}
<1>1. /\ <<>> \in Seq({a, b}) /\ << a >> \in Seq({a, b}) /\ << a, b >> \in Seq({a, b})
      /\ Len(<<>>) = 0 /\ Len(<< a >>) = 1 /\ Len(<< a, b >>) = 2
  OBVIOUS
<1>2. IsSeq(<<>>) /\ IsSeq(<< a >>) /\ IsSeq(<< a, b >>)
  BY <1>1 DEF IsSeq
<1>3. \A s : SubSeq(s, 1, 0) = <<>>
  BY SubSeqEmpty
<1>4. SubSeq(<< a >>, 1, 1) = << a >> /\ SubSeq(<< a, b >>, 1, 2) = << a, b >>
  BY <1>1, SubSeqFull
<1>5. SubSeq(<< a, b >>, 1, 1) = << a >>
  <2>1. 1 \in 0 .. Len(<< a, b >>)
    OBVIOUS
  <2>2. /\ IsSeq(SubSeq(<< a, b >>, 1, 1)) /\ Len(SubSeq(<< a, b >>, 1, 1)) = 1
        /\ \A i \in 1 .. 1 : SubSeq(<< a, b >>, 1, 1)[i] = << a, b >>[i]
    BY <1>2, <2>1, Cut
  <2> DEFINE c == SubSeq(<< a, b >>, 1, 1)
  <2>3. c[1] = a /\ Len(c) = 1 /\ IsSeq(c)
    BY <2>2
  <2> HIDE DEF c
  <2>4. \A i \in 1 .. 1 : c[i] = << a >>[i]
    BY <2>3
  <2>5. c = << a >>
    BY <1>1, <1>2, <2>3, <2>4, SameSeq
  <2> QED BY <2>5 DEF c
<1>6. 0 .. 0 = {0} /\ 0 .. 1 = {0, 1} /\ 0 .. 2 = {0, 1, 2}
  OBVIOUS
<1> QED
  BY <1>1, <1>2, <1>3, <1>4, <1>5, <1>6 DEF Prefixes

LEMMA TwoNames == \A a, b : << a >> \o << b >> = << a, b >>
<1> SUFFICES ASSUME NEW a, NEW b PROVE << a >> \o << b >> = << a, b >>
  OBVIOUS
<1>1. << a >> \in Seq({a, b}) /\ << b >> \in Seq({a, b}) /\ << a, b >> \in Seq({a, b})
  OBVIOUS
<1> DEFINE j == << a >> \o << b >>
<1>2. j \in Seq({a, b}) /\ Len(j) = 2 /\ j[1] = a /\ j[2] = b
  BY <1>1, ConcatProperties
<1> HIDE DEF j
<1>3. \A i \in 1 .. 2 : j[i] = << a, b >>[i]
  BY <1>2
<1>4. j = << a, b >>
  BY <1>1, <1>2, <1>3, SeqEqual
<1> QED
  BY <1>4 DEF j
LEMMA OneName == \A b : <<>> \o << b >> = << b >>
<1> SUFFICES ASSUME NEW b PROVE <<>> \o << b >> = << b >>
  OBVIOUS
<1>1. << b >> \in Seq({b})
  OBVIOUS
<1> QED
  BY <1>1, ConcatEmptySeq

\* Its prefixes are directories of the output.
Good(s) == IsSeq(s) /\ \A path \in Prefixes(s) : IsOutputDir(path)
LEMMA ShortDirs ==
  ASSUME NEW a, NEW b, IsOutputDir(<<>>)
  PROVE  /\ Good(<<>>) /\ (IsOutputDir(<< a >>) => Good(<< a >>))
         /\ IsOutputDir(<< a >>) /\ IsOutputDir(<< a, b >>) => Good(<< a, b >>)
<1>1. Good(<<>>)
  BY ShortPrefixes DEF Good
<1>2. IsOutputDir(<< a >>) => Good(<< a >>)
  BY ShortPrefixes DEF Good
<1>3. IsOutputDir(<< a >>) /\ IsOutputDir(<< a, b >>) => Good(<< a, b >>)
  BY ShortPrefixes DEF Good
<1> QED
  BY <1>1, <1>2, <1>3

\* The directories of the volumes, all at one depth.
LEMMA VolumeDirFacts ==
  ASSUME NEW v \in Nat
  PROVE  /\ IsSeq(VolumeDir(v)) /\ Len(VolumeDir(v)) \in Nat /\ Len(VolumeDir(v)) = Len(VolumeDir(0))
         /\ Len(VolumeDir(v)) >= Len(CarvedDir)
         /\ \A path \in Prefixes(VolumeDir(v)) : IsOutputDir(path)
<1> DEFINE d(u) == Name("volume", u - 1, "")
           f == Folder("named")
<1>1. \A u \in Nat : IsOutputDir(<< d(u) >>) /\ IsOutputDir(<< f, d(u) >>)
  BY DEF IsOutputDir, Name
<1>2. IsOutputDir(<<>>) /\ IsOutputDir(<< f >>)
  BY DEF IsOutputDir
<1>3. CASE job.command = "recover"
  <2>1. NamedDir = << f >> /\ CarvedDir = << Folder("carved") >>
    BY <1>3 DEF NamedDir, CarvedDir
  <2>2. \A u \in Nat : VolumeDir(u) = IF Len(volumes) > 1 THEN << f, d(u) >> ELSE << f >>
    BY <2>1, TwoNames DEF VolumeDir
  <2>3. \A u \in Nat : Good(<< f, d(u) >>) /\ Good(<< f >>)
    BY <1>1, <1>2, ShortDirs
  <2>4. Len(CarvedDir) = 1 /\ Len(<< f >>) = 1 /\ \A u \in Nat : Len(<< f, d(u) >>) = 2
    BY <2>1
  <2> HIDE DEF f, d
  <2>5. CASE Len(volumes) > 1
    <3>1. \A u \in Nat : VolumeDir(u) = << f, d(u) >>
      BY <2>2, <2>5
    <3> QED BY <2>3, <2>4, <3>1 DEF Good
  <2>6. CASE ~ (Len(volumes) > 1)
    <3>1. VolumeDir(v) = << f >> /\ VolumeDir(0) = << f >>
      BY <2>2, <2>6
    <3>2. Good(<< f >>) /\ Len(<< f >>) = 1 /\ Len(CarvedDir) = 1
      BY <2>3, <2>4
    <3> QED BY <3>1, <3>2 DEF Good
  <2> QED BY <2>5, <2>6
<1>4. CASE job.command # "recover"
  <2>1. NamedDir = <<>> /\ CarvedDir = <<>>
    BY <1>4 DEF NamedDir, CarvedDir
  <2>2. \A u \in Nat : VolumeDir(u) = IF Len(volumes) > 1 THEN << d(u) >> ELSE <<>>
    BY <2>1, OneName DEF VolumeDir
  <2>3. \A u \in Nat : Good(<< d(u) >>) /\ Good(<<>>)
    BY <1>1, <1>2, ShortDirs
  <2>4. Len(CarvedDir) = 0 /\ Len(<<>>) = 0 /\ \A u \in Nat : Len(<< d(u) >>) = 1
    BY <2>1
  <2> HIDE DEF f, d
  <2>5. CASE Len(volumes) > 1
    <3>1. \A u \in Nat : VolumeDir(u) = << d(u) >>
      BY <2>2, <2>5
    <3> QED BY <2>3, <2>4, <3>1 DEF Good
  <2>6. CASE ~ (Len(volumes) > 1)
    <3>1. VolumeDir(v) = <<>> /\ VolumeDir(0) = <<>>
      BY <2>2, <2>6
    <3>2. Good(<<>>) /\ Len(<<>>) = 0 /\ Len(CarvedDir) = 0
      BY <2>3, <2>4
    <3> QED BY <3>1, <3>2 DEF Good
  <2> QED BY <2>5, <2>6
<1> QED
  BY <1>3, <1>4

\* What a lost file asks for.
LEMMA LostFileFacts ==
  ASSUME JobsAssumption, job \in Jobs, NEW f \in LostFiles(job)
  PROVE  /\ DOMAIN f = {"out", "rel", "content", "nameless"}
         /\ HasNumber(f.rel) /\ f.rel[Len(f.rel)].no = 0
         /\ f.nameless => /\ Folder("_unnamed") \in ToSet(f.rel)
                          /\ "ext" \in DOMAIN f.rel[Len(f.rel)] /\ f.rel[Len(f.rel)].ext = "bin"
         /\ \A g \in LostFiles(job) : f.nameless /\ ~g.nameless => f.rel # g.rel
<1>1. LostFile(f) /\ \A g \in LostFiles(job) : f.nameless /\ ~g.nameless => f.rel # g.rel
  BY DEF JobsAssumption
<1> DEFINE last == f.rel[Len(f.rel)]
<1>2. last = Name(last.stem, last.at, last.ext)
  BY <1>1 DEF LostFile, Last
<1> DEFINE name == Name(last.stem, last.at, last.ext)
<1>3. name.no = 0 /\ DOMAIN name = {"stem", "at", "no", "ext"} /\ IsName(name)
  BY DEF Name, IsName
<1> HIDE DEF name
<1>4. last.no = 0 /\ DOMAIN last = {"stem", "at", "no", "ext"} /\ IsName(last)
  BY <1>2, <1>3 DEF name
<1> QED
  BY <1>1, <1>4 DEF LostFile, Last, HasNumber, IsSeq
(* ---------------------------- Steps of the tree ------------------------ *)

Extends(t, u) == \A path \in DOMAIN t : path \in DOMAIN u /\ u[path] = t[path]
DirsStay(t, u) == \A path \in DOMAIN t : IsDir(t, path) => IsDir(u, path)

LEMMA ExtendedTree ==
  ASSUME NEW t, NEW u, Extends(t, u)
  PROVE  DirsStay(t, u)
BY DEF Extends, DirsStay, IsDir

LEMMA ParentsStayDirs ==
  ASSUME NEW t, NEW u, DirsStay(t, u), NEW path, ParentsAreDirs(t, path)
  PROVE  ParentsAreDirs(u, path)
BY DEF ParentsAreDirs, DirsStay, IsDir

\* What is made and kept stays when its nodes and all directories do.
LEMMA MadeKept ==
  ASSUME NEW t, NEW u, DirsStay(t, u), NEW m, MadeStays(t, m),
         \A i \in DOMAIN m : m[i].file \in DOMAIN u /\ u[m[i].file] = t[m[i].file]
  PROVE  MadeStays(u, m)
<1> SUFFICES ASSUME NEW i \in DOMAIN m
             PROVE  /\ m[i].file \in DOMAIN u /\ u[m[i].file] = Node("file", m[i].content)
                    /\ \A k \in DOMAIN m : m[k].file = m[i].file => k = i
                    /\ ParentsAreDirs(u, m[i].file)
  BY DEF MadeStays
<1>1. ParentsAreDirs(t, m[i].file)
  BY DEF MadeStays
<1>2. ParentsAreDirs(u, m[i].file)
  BY <1>1, ParentsStayDirs
<1> QED
  BY <1>2 DEF MadeStays
LEMMA AllKept ==
  ASSUME NEW t, NEW u, Extends(t, u), NEW m, MadeStays(t, m), NEW o, OthersStay(t, o)
  PROVE  MadeStays(u, m) /\ OthersStay(u, o)
<1>1. DirsStay(t, u)
  BY ExtendedTree
<1>2. \A i \in DOMAIN m : m[i].file \in DOMAIN u /\ u[m[i].file] = t[m[i].file]
  BY DEF MadeStays, Extends
<1>3. MadeStays(u, m)
  BY <1>1, <1>2, MadeKept
<1> QED
  BY <1>3 DEF OthersStay, Extends

LEMMA NodeFacts ==
  ASSUME NEW kind, NEW holds, NEW bytes
  PROVE  /\ Node(kind, holds).kind = kind /\ Node(kind, holds).holds = holds
         /\ [Node(kind, holds) EXCEPT !.holds = bytes] = Node(kind, bytes)
BY DEF Node
LEMMA WithFacts ==
  ASSUME NEW t, NEW path, NEW node, NEW u, u = With(t, path, node)
  PROVE  /\ DOMAIN u = DOMAIN t \cup {path} /\ u[path] = node
         /\ \A p \in DOMAIN t : p # path => u[p] = t[p]
         /\ path \notin DOMAIN t => Extends(t, u)
         /\ IsFiniteSet(DOMAIN t) => IsFiniteSet(DOMAIN u)
<1>1. IsFiniteSet(DOMAIN t) => IsFiniteSet(DOMAIN t \cup {path})
  BY FS_AddElement
<1> QED
  BY <1>1 DEF With, Extends

\* create_dir_all makes directories, and nothing that is there goes.
LEMMA MakeOutFacts ==
  ASSUME NEW t, NEW out, IsSeq(out)
  PROVE  /\ Extends(t, MakeOut(t, out))
         /\ \A path \in DOMAIN MakeOut(t, out) : path \in DOMAIN t \/ IsDir(MakeOut(t, out), path)
         /\ Room(t, out) => \A path \in Prefixes(out) : IsDir(MakeOut(t, out), path)
         /\ IsFiniteSet(DOMAIN t) => IsFiniteSet(DOMAIN MakeOut(t, out))
<1> DEFINE missing == {p \in Prefixes(out) : p \notin DOMAIN t}
           u == MakeOut(t, out)
<1>1. /\ DOMAIN u = DOMAIN t \cup missing
      /\ \A p \in missing : u[p] = Directory
      /\ \A p \in DOMAIN t : u[p] = t[p]
  BY DEF MakeOut
<1>2. Directory.kind = "dir"
  BY DEF Directory, Node
<1>3. IsFiniteSet(DOMAIN t) => IsFiniteSet(DOMAIN u)
  <2>1. Len(out) \in Nat
    BY SeqFacts
  <2>2. IsFiniteSet(0 .. Len(out))
    BY <2>1, FS_Interval
  <2> DEFINE f == [k \in 0 .. Len(out) |-> SubSeq(out, 1, k)]
  <2>3. IsFiniteSet({f[k] : k \in 0 .. Len(out)})
    <3> HIDE DEF f
    <3> QED BY <2>2, RangeSize
  <2>4. Prefixes(out) = {f[k] : k \in 0 .. Len(out)}
    BY DEF Prefixes
  <2>5. IsFiniteSet(Prefixes(out))
    BY <2>3, <2>4
  <2>6. missing \subseteq Prefixes(out)
    OBVIOUS
  <2> HIDE DEF missing, f
  <2>7. IsFiniteSet(missing)
    BY <2>5, <2>6, FS_Subset
  <2> QED BY <1>1, <2>7, FS_Union
<1> HIDE DEF u
<1>4. \A p \in missing : IsDir(u, p)
  BY <1>1, <1>2 DEF IsDir
<1>5. Extends(t, u)
  BY <1>1 DEF Extends
<1>6. Room(t, out) => \A path \in Prefixes(out) : IsDir(u, path)
  BY <1>1, <1>4 DEF Room, IsDir
<1>7. \A path \in DOMAIN u : path \in DOMAIN t \/ IsDir(u, path)
  BY <1>1, <1>4
<1> QED
  BY <1>3, <1>5, <1>6, <1>7 DEF u

(* ------------------------------- Sequences ----------------------------- *)

LEMMA AppendFacts ==
  ASSUME NEW s, IsSeq(s), NEW e
  PROVE  /\ IsSeq(Append(s, e)) /\ DOMAIN Append(s, e) = DOMAIN s \cup {Len(s) + 1}
         /\ Append(s, e)[Len(s) + 1] = e /\ Len(s) + 1 \notin DOMAIN s
         /\ \A i \in DOMAIN s : Append(s, e)[i] = s[i]
<1>1. PICK S : s \in Seq(S)
  BY DEF IsSeq
<1>2. s \in Seq(S \cup {e}) /\ e \in S \cup {e}
  BY <1>1, SeqMonotonic
<1> DEFINE a == Append(s, e)
<1>3. /\ a \in Seq(S \cup {e}) /\ Len(a) = Len(s) + 1 /\ a[Len(s) + 1] = e
      /\ \A i \in 1 .. Len(s) : a[i] = s[i]
  BY <1>2, AppendProperties
<1> HIDE DEF a
<1>4. DOMAIN a = 1 .. Len(s) + 1 /\ DOMAIN s = 1 .. Len(s) /\ Len(s) \in Nat
  BY <1>1, <1>3
<1>5. DOMAIN a = DOMAIN s \cup {Len(s) + 1} /\ Len(s) + 1 \notin DOMAIN s
  BY <1>4
<1> QED
  BY <1>3, <1>4, <1>5 DEF a, IsSeq
LEMMA TailFacts ==
  ASSUME NEW s, IsSeq(s), s # <<>>
  PROVE  /\ IsSeq(Tail(s)) /\ \A i \in DOMAIN Tail(s) : i + 1 \in DOMAIN s /\ Tail(s)[i] = s[i + 1]
         /\ Head(s) = s[1] /\ 1 \in DOMAIN s
<1>1. PICK S : s \in Seq(S)
  BY DEF IsSeq
<1> DEFINE a == Tail(s)
<1>2. /\ a \in Seq(S) /\ Len(a) = Len(s) - 1 /\ Head(s) = s[1]
      /\ \A i \in 1 .. Len(a) : a[i] = s[i + 1]
  BY <1>1, HeadTailProperties
<1> HIDE DEF a
<1>3. DOMAIN a = 1 .. Len(a) /\ DOMAIN s = 1 .. Len(s) /\ Len(s) \in Nat /\ Len(s) >= 1
  BY <1>1, <1>2, SeqFacts
<1>4. \A i \in DOMAIN a : i + 1 \in DOMAIN s /\ a[i] = s[i + 1]
  BY <1>2, <1>3
<1> QED
  BY <1>2, <1>3, <1>4 DEF a, IsSeq

(* ------------------------- The file being made ------------------------- *)

\* What is wanted, and the paths like it but for the number.
LEMMA WantedFacts ==
  ASSUME NEW out, IsSeq(out), NEW rel, HasNumber(rel), rel[Len(rel)].no = 0
  PROVE  /\ HasNumber(out \o rel) /\ Len(out \o rel) = Len(out) + Len(rel)
         /\ Len(out) \in Nat /\ Len(rel) \in Nat /\ Len(rel) >= 1
         /\ (out \o rel)[Len(out \o rel)] = rel[Len(rel)]
         /\ Numbered(out \o rel, 0) = out \o rel
<1> DEFINE path == out \o rel
           l == Len(out)
           m == Len(rel)
<1>1. IsSeq(rel) /\ l \in Nat /\ m \in Nat /\ m >= 1
  BY SeqFacts DEF HasNumber
<1>2. HasNumber(path)
  BY NumberedBelow
<1>3. Len(path) = l + m /\ \A i \in 1 .. m : path[l + i] = rel[i]
  BY <1>1, Joined
<1> HIDE DEF path, l, m
<1>4. m \in 1 .. m
  BY <1>1
<1>5. path[Len(path)] = rel[m]
  BY <1>3, <1>4
<1>6. path[Len(path)].no = 0
  BY <1>5 DEF m
<1>7. Numbered(path, 0) = path
  BY <1>2, <1>6, NumberZero
<1> QED
  BY <1>1, <1>2, <1>3, <1>5, <1>7 DEF path, l, m

\* The prefixes of the numbered path are those of the path.
LEMMA SameParents ==
  ASSUME NEW path, IsSeq(path), NEW new, IsSeq(new), Len(new) = Len(path),
         \A i \in 1 .. Len(path) - 1 : new[i] = path[i],
         NEW t, ParentsAreDirs(t, path)
  PROVE  ParentsAreDirs(t, new)
<1> SUFFICES ASSUME NEW k \in 1 .. Len(new) - 1 PROVE IsDir(t, SubSeq(new, 1, k))
  BY DEF ParentsAreDirs
<1>1. Len(path) \in Nat
  BY SeqFacts
<1>2. k \in Nat /\ k <= Len(new) /\ k <= Len(path) /\ k \in 1 .. Len(path) - 1
  BY <1>1
<1>3. \A i \in 1 .. k : new[i] = path[i]
  <2>1. \A i \in 1 .. k : i \in 1 .. Len(path) - 1
    BY <1>1, <1>2
  <2> QED BY <2>1
<1>4. SubSeq(new, 1, k) = SubSeq(path, 1, k)
  BY <1>2, <1>3, SameCut
<1> QED
  BY <1>2, <1>4 DEF ParentsAreDirs

LEMMA NumberedParents ==
  ASSUME NEW path, HasNumber(path), NEW n, NEW t, ParentsAreDirs(t, path)
  PROVE  ParentsAreDirs(t, Numbered(path, n))
<1> DEFINE e == [path[Len(path)] EXCEPT !.no = n]
           new == Numbered(path, n)
<1>1. new = Renamed(path, e)
  BY DEF Numbered, Renamed
<1> HIDE DEF e, new
<1>2. IsSeq(path) /\ path # <<>>
  BY DEF HasNumber
<1>3. IsSeq(new) /\ Len(new) = Len(path) /\ \A i \in 1 .. Len(path) - 1 : new[i] = path[i]
  BY <1>1, <1>2, LastReplaced
<1>4. ParentsAreDirs(t, new)
  BY <1>2, <1>3, SameParents
<1> QED
  BY <1>4 DEF new

\* What is longer than a directory of the output is not above one.
NotInTheWay(path) ==
  /\ pc = "undelete" => \A v \in Nat : path \notin Prefixes(VolumeDir(v))
  /\ pc \in {"undelete", "regions", "carve"} => path \notin Prefixes(CarvedDir)
LEMMA OthersKeepAway ==
  ASSUME NEW path, ~IsOutputDir(path)
  PROVE  NotInTheWay(path)
BY VolumeDirFacts, CarvedDirFacts DEF NotInTheWay
LEMMA BelowKeepsAway ==
  ASSUME IInv, cur # NoFile, pc \in {"undelete", "carve"}, NEW path, IsSeq(path), Len(path) = Len(Wanted)
  PROVE  NotInTheWay(path)
<1>1. IsSeq(cur.out) /\ HasNumber(cur.rel) /\ cur.rel[Len(cur.rel)].no = 0
      /\ Len(cur.out) >= Len(CarvedDir) /\ (pc = "undelete" => cur.out = Head(todo).out)
  BY DEF IInv, Making, Sound
<1>2. Len(Wanted) = Len(cur.out) + Len(cur.rel) /\ Len(cur.out) \in Nat /\ Len(cur.rel) \in Nat
      /\ Len(cur.rel) >= 1
  BY <1>1, WantedFacts DEF Wanted
<1>3. IsSeq(CarvedDir) /\ Len(CarvedDir) \in Nat
  BY CarvedDirFacts
<1> DEFINE lp == Len(path)
           lo == Len(cur.out)
           lr == Len(cur.rel)
           lc == Len(CarvedDir)
<1>6. lp = lo + lr /\ lo \in Nat /\ lr \in Nat /\ lr >= 1 /\ lc \in Nat /\ lo >= lc
  BY <1>1, <1>2, <1>3
<1>7. ~ (lp <= lo) /\ ~ (lp <= lc)
  <2> HIDE DEF lp, lo, lr, lc
  <2> QED BY <1>6
<1>4. path \notin Prefixes(CarvedDir)
  <2> SUFFICES ASSUME path \in Prefixes(CarvedDir) PROVE FALSE
    OBVIOUS
  <2>1. Len(path) <= Len(CarvedDir)
    BY <1>3, PrefixIsShort
  <2> QED BY <1>7, <2>1
<1>5. ASSUME pc = "undelete", NEW v \in Nat, path \in Prefixes(VolumeDir(v)) PROVE FALSE
  <2>1. Restoring /\ todo # <<>> /\ cur.out = Head(todo).out
    BY <1>1, <1>5 DEF IInv, Making
  <2>2. Head(todo) = todo[1] /\ 1 \in DOMAIN todo
    BY <2>1, TailFacts DEF Restoring
  <2>3. PICK w \in Nat : cur.out = VolumeDir(w)
    BY <2>1, <2>2 DEF Restoring, AskedFor
  <2>4. /\ IsSeq(VolumeDir(v)) /\ Len(VolumeDir(v)) \in Nat
        /\ Len(VolumeDir(v)) = Len(VolumeDir(0)) /\ Len(VolumeDir(w)) = Len(VolumeDir(0))
    BY VolumeDirFacts
  <2>5. Len(path) <= Len(VolumeDir(v))
    BY <1>5, <2>4, PrefixIsShort
  <2>6. Len(path) <= Len(cur.out)
    BY <2>3, <2>4, <2>5
  <2> QED BY <1>7, <2>6
<1> QED
  BY <1>4, <1>5 DEF NotInTheWay

\* Room stays when directories do and nothing comes in the way.
LEMMA RoomStep ==
  ASSUME NEW t, NEW u, DirsStay(t, u), NEW out, Room(t, out),
         \A path \in Prefixes(out) : path \in DOMAIN u => path \in DOMAIN t \/ IsDir(u, path)
  PROVE  Room(u, out)
BY DEF Room, DirsStay, IsDir
LEMMA SameDirs ==
  ASSUME UNCHANGED <<job, volumes>>
  PROVE  /\ CarvedDir' = CarvedDir /\ NamedDir' = NamedDir
         /\ \A v : VolumeDir(v)' = VolumeDir(v)
BY DEF CarvedDir, NamedDir, VolumeDir
LEMMA RoomsStep ==
  ASSUME Rooms, UNCHANGED <<pc, job, volumes>>, pc # "detect", DirsStay(tree, tree'),
         \A path \in DOMAIN tree' :
           path \in DOMAIN tree \/ IsDir(tree', path) \/ NotInTheWay(path)
  PROVE  Rooms'
<1>1. CarvedDir' = CarvedDir /\ \A v : VolumeDir(v)' = VolumeDir(v)
  BY SameDirs
<1>2. ASSUME pc = "undelete", NEW v \in Nat PROVE Room(tree', VolumeDir(v))
  <2>1. Room(tree, VolumeDir(v))
    BY <1>2 DEF Rooms
  <2>2. \A path \in Prefixes(VolumeDir(v)) :
          path \in DOMAIN tree' => path \in DOMAIN tree \/ IsDir(tree', path)
    BY <1>2 DEF NotInTheWay
  <2> QED BY <2>1, <2>2, RoomStep
<1>3. ASSUME pc \in {"undelete", "regions", "carve"} PROVE Room(tree', CarvedDir)
  <2>1. Room(tree, CarvedDir)
    BY <1>3 DEF Rooms
  <2>2. \A path \in Prefixes(CarvedDir) :
          path \in DOMAIN tree' => path \in DOMAIN tree \/ IsDir(tree', path)
    BY <1>3 DEF NotInTheWay
  <2> QED BY <2>1, <2>2, RoomStep
<1>4. pc' = "undelete" => \A v \in Nat : Room(tree', VolumeDir(v)')
  BY <1>1, <1>2
<1>5. pc' \in {"undelete", "regions", "carve"} => Room(tree', CarvedDir')
  BY <1>1, <1>3
<1> QED
  BY <1>4, <1>5 DEF Rooms, Room, IsDir

\* A step that moves nothing in the tree.
LEMMA RoomsStand ==
  ASSUME Rooms, UNCHANGED <<pc, job, volumes, tree>>
  PROVE  Rooms'
<1>1. CarvedDir' = CarvedDir /\ \A v : VolumeDir(v)' = VolumeDir(v)
  BY SameDirs
<1> QED
  BY <1>1 DEF Rooms, Room, IsDir
LEMMA RestoringStands ==
  ASSUME Restoring, UNCHANGED <<job, volumes, turn, todo, made>>
  PROVE  Restoring'
<1>1. \A v : VolumeDir(v)' = VolumeDir(v)
  BY SameDirs
<1> QED
  BY <1>1 DEF Restoring, AskedFor, NamelessRest, Rests, NameOk

LEMMA Busy ==
  ASSUME IInv, cur.step \in {"look", "mkdir", "write", "written", "failed"}
  PROVE  cur # NoFile /\ Making
<1>1. NoFile.step = "none"
  BY DEF NoFile
<1>2. cur # NoFile
  BY <1>1
<1> QED
  BY <1>2 DEF IInv
LEMMA ParentIsPrefix ==
  ASSUME Sound, cur.depth \in 1 .. Len(cur.rel)
  PROVE  Parent = SubSeq(Wanted, 1, Len(cur.out) + cur.depth)
<1> DEFINE out == cur.out
           rel == cur.rel
           l == Len(out)
           d == cur.depth
           r == SubSeq(rel, 1, d)
           a == out \o r
           b == SubSeq(out \o rel, 1, l + d)
<1>1. IsSeq(out) /\ IsSeq(rel) /\ l \in Nat /\ Len(rel) \in Nat
  BY SeqFacts DEF Sound, HasNumber
<1> HIDE DEF out, rel, d
<1>2. d \in 1 .. Len(rel) /\ d \in 0 .. Len(rel)
  BY <1>1 DEF d, rel
<1>3. IsSeq(r) /\ Len(r) = d /\ \A i \in 1 .. d : r[i] = rel[i]
  BY <1>1, <1>2, Cut
<1> HIDE DEF r
<1>4. /\ IsSeq(a) /\ Len(a) = l + d /\ \A i \in 1 .. l : a[i] = out[i]
      /\ \A i \in 1 .. d : a[l + i] = r[i]
  <2>1. /\ IsSeq(out \o r) /\ Len(out \o r) = Len(out) + Len(r)
        /\ \A i \in 1 .. Len(out) : (out \o r)[i] = out[i]
        /\ \A i \in 1 .. Len(r) : (out \o r)[Len(out) + i] = r[i]
    <3>1. IsSeq(out) /\ IsSeq(r)
      BY <1>1, <1>3
    <3> HIDE DEF a, b, l
    <3>2. IsSeq(out \o r)
      BY <3>1, Joined
    <3>3. Len(out \o r) = Len(out) + Len(r)
      BY <3>1, Joined
    <3>4. \A i \in 1 .. Len(out) : (out \o r)[i] = out[i]
      BY <3>1, Joined
    <3>5. \A i \in 1 .. Len(r) : (out \o r)[Len(out) + i] = r[i]
      BY <3>1, Joined
    <3> QED BY <3>2, <3>3, <3>4, <3>5
  <2> QED BY <1>3, <2>1
<1>5. /\ IsSeq(out \o rel) /\ Len(out \o rel) = l + Len(rel)
      /\ \A i \in 1 .. l : (out \o rel)[i] = out[i]
      /\ \A i \in 1 .. Len(rel) : (out \o rel)[l + i] = rel[i]
  BY <1>1, Joined
<1>6. l + d \in 0 .. Len(out \o rel)
  BY <1>1, <1>2, <1>5
<1>7. IsSeq(b) /\ Len(b) = l + d /\ \A i \in 1 .. l + d : b[i] = (out \o rel)[i]
  BY <1>5, <1>6, Cut
<1> HIDE DEF a, b, l
<1>8. \A i \in 1 .. l + d : a[i] = b[i]
  <2> SUFFICES ASSUME NEW i \in 1 .. l + d PROVE a[i] = b[i]
    OBVIOUS
  <2>1. CASE i <= l
    <3>1. i \in 1 .. l
      BY <1>1, <1>2, <2>1
    <3> QED BY <1>4, <1>5, <1>7, <3>1
  <2>2. CASE i > l
    <3> DEFINE k == i - l
    <3>1. k \in 1 .. d /\ k \in 1 .. Len(rel) /\ i = l + k
      BY <1>1, <1>2, <2>2
    <3> HIDE DEF k
    <3> QED BY <1>3, <1>4, <1>5, <1>7, <3>1
  <2> QED BY <1>1, <1>2, <2>1, <2>2
<1>9. a = b
  BY <1>4, <1>7, <1>8, SameSeq
<1> QED
  BY <1>9 DEF a, b, l, d, r, out, rel, Parent, Wanted

(* --------------------------- Steps of the file ------------------------- *)

\* The driver waits for the file.
LEMMA DriverWaits ==
  ASSUME IInv, UNCHANGED <<pc, job, volumes, turn, todo, seen, rows, made>>,
         pc \notin {"new", "detect", "regions"}
  PROVE  Begun' /\ Reporting' /\ (pc' = "undelete" => Restoring')
<1>1. Begun'
  BY DEF IInv, Begun
<1>2. Reporting'
  <2>1. NamedDigests' = NamedDigests
    BY DEF NamedDigests
  <2> QED BY <2>1 DEF IInv, Reporting
<1>3. ASSUME pc' = "undelete" PROVE Restoring'
  BY <1>3, RestoringStands DEF IInv
<1> QED
  BY <1>1, <1>2, <1>3
LEMMA TreeWaits ==
  ASSUME IInv, UNCHANGED <<pc, job, volumes, tree, others, made>>
  PROVE  Stays' /\ Rooms'
<1>1. Stays'
  BY DEF IInv, Stays
<1>2. Rooms'
  BY RoomsStand DEF IInv
<1> QED
  BY <1>1, <1>2

LEMMA LookStep ==
  ASSUME IInv, pc \in {"undelete", "carve"}, LookAtParent, UNCHANGED driver
  PROVE  IInv'
<1>1. cur.step = "look" /\ cur.depth < Len(cur.rel) /\ UNCHANGED <<tree, others, made>>
  BY DEF LookAtParent
<1>2. Making
  BY <1>1, Busy
<1>3. Stays' /\ Rooms' /\ Begun' /\ Reporting' /\ (pc' = "undelete" => Restoring')
  BY <1>1, DriverWaits, TreeWaits DEF driver
<1>4. Sound /\ Descending /\ DOMAIN cur = CurFields
  BY <1>1, <1>2 DEF Making, Sound
<1>5. Len(cur.out) \in Nat /\ Len(cur.rel) \in Nat /\ cur.depth \in 1 .. Len(cur.rel)
  BY <1>4, WantedFacts DEF Sound, Descending
<1>6. CASE cur' = Deeper /\ IsDir(tree, Parent)
  <2>1. Parent = SubSeq(Wanted, 1, Len(cur.out) + cur.depth)
    BY <1>4, <1>5, ParentIsPrefix
  <2>2. /\ cur'.step = "look" /\ cur'.out = cur.out /\ cur'.rel = cur.rel /\ DOMAIN cur' = CurFields
        /\ cur'.depth = cur.depth + 1
    BY <1>1, <1>4, <1>6 DEF Deeper, CurFields
  <2>3. cur'.depth \in 1 .. Len(cur'.rel)
    BY <1>1, <1>5, <2>2
  <2>4. \A k \in 1 .. Len(cur.out) + cur.depth : IsDir(tree, SubSeq(Wanted, 1, k))
    <3> SUFFICES ASSUME NEW k \in 1 .. Len(cur.out) + cur.depth PROVE IsDir(tree, SubSeq(Wanted, 1, k))
      OBVIOUS
    <3>1. k = Len(cur.out) + cur.depth \/ k \in 1 .. Len(cur.out) + cur.depth - 1
      BY <1>5
    <3> QED BY <1>4, <1>6, <2>1, <3>1 DEF Descending
  <2>5. 1 .. Len(cur'.out) + cur'.depth - 1 = 1 .. Len(cur.out) + cur.depth
    BY <1>5, <2>2
  <2>6. Descending'
    BY <1>1, <2>2, <2>3, <2>4, <2>5 DEF Descending, Wanted, IsDir
  <2>7. Making'
    BY <1>2, <2>2, <2>6, SameDirs DEF Making, Sound, driver
  <2> QED BY <1>3, <2>7 DEF IInv
<1>7. CASE cur' = [cur EXCEPT !.step = "mkdir"]
  <2>1. /\ cur'.step = "mkdir" /\ cur'.out = cur.out /\ cur'.rel = cur.rel /\ DOMAIN cur' = CurFields
        /\ cur'.depth = cur.depth
    BY <1>4, <1>7 DEF CurFields
  <2>2. Descending'
    BY <1>1, <1>4, <2>1 DEF Descending, Wanted, IsDir
  <2>3. Making'
    BY <1>2, <2>1, <2>2, SameDirs DEF Making, Sound, driver
  <2> QED BY <1>3, <2>3 DEF IInv
<1>8. CASE cur' = Failed
  <2>1. cur'.step = "failed" /\ cur'.out = cur.out /\ cur'.rel = cur.rel /\ DOMAIN cur' = CurFields
    BY <1>4, <1>8 DEF Failed, CurFields
  <2>2. Making'
    BY <1>2, <2>1, SameDirs DEF Making, Sound, driver
  <2> QED BY <1>3, <2>2 DEF IInv
<1> QED
  BY <1>6, <1>7, <1>8 DEF LookAtParent, IsDir, Occupied

LEMMA ParentStep ==
  ASSUME IInv, pc \in {"undelete", "carve"}, MakeParent, UNCHANGED driver
  PROVE  IInv'
<1>1. cur.step = "mkdir" /\ UNCHANGED <<others, made>>
  BY DEF MakeParent
<1>2. Making
  BY <1>1, Busy
<1>3. Begun' /\ Reporting' /\ (pc' = "undelete" => Restoring')
  BY <1>1, DriverWaits DEF driver
<1>4. Sound /\ Descending /\ DOMAIN cur = CurFields
  BY <1>1, <1>2 DEF Making, Sound
<1>5. Len(cur.out) \in Nat /\ Len(cur.rel) \in Nat /\ cur.depth \in 1 .. Len(cur.rel)
      /\ cur.depth < Len(cur.rel)
  BY <1>1, <1>4, WantedFacts DEF Sound, Descending
<1>6. CASE Occupied(tree, Parent)
  <2>1. UNCHANGED tree /\ cur' \in {[cur EXCEPT !.step = "look", !.tries = 1], Failed}
    BY <1>6 DEF MakeParent
  <2>2. Stays' /\ Rooms'
    BY <1>1, <2>1, TreeWaits DEF driver
  <2>3. /\ cur'.step \in {"look", "failed"} /\ cur'.out = cur.out /\ cur'.rel = cur.rel
        /\ DOMAIN cur' = CurFields /\ cur'.depth = cur.depth
    BY <1>4, <2>1 DEF Failed, CurFields
  <2>4. Descending'
    BY <1>1, <1>4, <2>1, <2>3 DEF Descending, Wanted, IsDir
  <2>5. Making'
    BY <1>2, <2>3, <2>4, SameDirs DEF Making, Sound, driver
  <2> QED BY <1>3, <2>2, <2>5 DEF IInv
<1>7. CASE ~Occupied(tree, Parent)
  <2>1. tree' = With(tree, Parent, Directory) /\ cur' = [Deeper EXCEPT !.step = "look"]
    BY <1>7 DEF MakeParent
  <2>2. /\ DOMAIN tree' = DOMAIN tree \cup {Parent} /\ tree'[Parent] = Directory
        /\ Extends(tree, tree') /\ (IsFiniteSet(DOMAIN tree) => IsFiniteSet(DOMAIN tree'))
    <3>1. tree' = With(tree, Parent, Directory) /\ Parent \notin DOMAIN tree
      BY <1>7, <2>1 DEF Occupied
    <3>2. DOMAIN tree' = DOMAIN tree \cup {Parent}
      BY <3>1, WithFacts, Zenon
    <3>3. tree'[Parent] = Directory
      BY <3>1 DEF With
    <3>4. Extends(tree, tree')
      BY <3>1, WithFacts, Zenon
    <3>5. IsFiniteSet(DOMAIN tree) => IsFiniteSet(DOMAIN tree')
      BY <3>1, WithFacts, Zenon
    <3> QED BY <3>2, <3>3, <3>4, <3>5
  <2>3. IsDir(tree', Parent)
    <3>1. Directory.kind = "dir"
      BY DEF Directory, Node
    <3> QED BY <2>2, <3>1 DEF IsDir
  <2>4. DirsStay(tree, tree')
    BY <2>2, ExtendedTree
  <2>5. Stays'
    BY <1>1, <2>2, AllKept DEF IInv, Stays
  <2>6. Rooms'
    BY <2>2, <2>3, <2>4, RoomsStep DEF IInv, driver
  <2>7. Parent = SubSeq(Wanted, 1, Len(cur.out) + cur.depth)
    BY <1>4, <1>5, ParentIsPrefix
  <2>8. /\ cur'.step = "look" /\ cur'.out = cur.out /\ cur'.rel = cur.rel /\ DOMAIN cur' = CurFields
        /\ cur'.depth = cur.depth + 1
    BY <1>4, <2>1 DEF Deeper, CurFields
  <2>9. cur'.depth \in 1 .. Len(cur'.rel)
    BY <1>5, <2>8
  <2>10. \A k \in 1 .. Len(cur.out) + cur.depth : IsDir(tree', SubSeq(Wanted, 1, k))
    <3> SUFFICES ASSUME NEW k \in 1 .. Len(cur.out) + cur.depth PROVE IsDir(tree', SubSeq(Wanted, 1, k))
      OBVIOUS
    <3>1. CASE k = Len(cur.out) + cur.depth
      BY <2>3, <2>7, <3>1
    <3>2. CASE k \in 1 .. Len(cur.out) + cur.depth - 1
      <4>1. IsDir(tree, SubSeq(Wanted, 1, k))
        BY <1>4, <3>2 DEF Descending
      <4> QED BY <2>4, <4>1 DEF DirsStay, IsDir
    <3> QED BY <1>5, <3>1, <3>2
  <2>11. 1 .. Len(cur'.out) + cur'.depth - 1 = 1 .. Len(cur.out) + cur.depth
    BY <1>5, <2>8
  <2>12. Descending'
    BY <2>8, <2>9, <2>10, <2>11 DEF Descending, Wanted, IsDir
  <2>13. Making'
    BY <1>2, <2>8, <2>12, SameDirs DEF Making, Sound, driver
  <2> QED BY <1>3, <2>5, <2>6, <2>13 DEF IInv
<1> QED
  BY <1>6, <1>7

\* The file gets a path where nothing was.
LEMMA CreateStep ==
  ASSUME IInv, pc \in {"undelete", "carve"}, CreateNew, UNCHANGED driver
  PROVE  IInv'
<1>1. cur.step = "look" /\ cur.depth = Len(cur.rel)
  BY DEF CreateNew, ParentsStand
<1>2. Making /\ cur # NoFile
  BY <1>1, Busy
<1>3. Sound /\ Descending /\ DOMAIN cur = CurFields
  BY <1>1, <1>2 DEF Making, Sound
<1>4. IsSeq(cur.out) /\ HasNumber(cur.rel) /\ cur.rel[Len(cur.rel)].no = 0
  BY <1>3 DEF Sound
<1>5. /\ HasNumber(Wanted) /\ Len(Wanted) = Len(cur.out) + Len(cur.rel)
      /\ Numbered(Wanted, 0) = Wanted /\ Len(cur.out) \in Nat /\ Len(cur.rel) \in Nat
  BY <1>4, WantedFacts DEF Wanted
<1>6. IsFiniteSet(DOMAIN tree) /\ MadeStays(tree, made) /\ OthersStay(tree, others) /\ IsSeq(made)
  BY DEF IInv, Stays
<1>7. PICK n \in Nat : /\ UniquePath(tree, Wanted) = Numbered(Wanted, n)
                       /\ Numbered(Wanted, n) \notin DOMAIN tree
                       /\ n # 0 => Numbered(Wanted, 0) \in DOMAIN tree
  BY <1>5, <1>6, UniquePathFacts
<1> DEFINE path == Numbered(Wanted, n)
<1>8. HasNumber(path) /\ Len(path) = Len(Wanted) /\ path[Len(path)].no = n
  <2>1. HasNumber(path) /\ Len(path) = Len(Wanted) /\ path[Len(Wanted)].no = n
    BY <1>5, NumberedFacts, Zenon
  <2> HIDE DEF path
  <2> QED BY <2>1
<1>9. path = cur.out \o Numbered(cur.rel, n)
  <2> DEFINE out == cur.out
             rel == cur.rel
  <2>1. IsSeq(out) /\ HasNumber(rel) /\ Wanted = out \o rel
    BY <1>4 DEF Wanted
  <2> HIDE DEF out, rel
  <2>2. Numbered(out \o rel, n) = out \o Numbered(rel, n)
    BY <2>1, NumberedBelow
  <2> QED BY <2>1, <2>2 DEF out, rel
<1>10. CreateNew_at(n)
  <2>1. CreateNew_at(UniquePath(tree, Wanted)[Len(UniquePath(tree, Wanted))].no)
    BY DEF CreateNew, Wanted
  <2> QED BY <1>7, <1>8, <2>1
<1>11. /\ tree' = With(tree, path, Node("file", ""))
       /\ cur' = [cur EXCEPT !.step = "write", !.file = path] /\ UNCHANGED <<others, made>>
  BY <1>9, <1>10 DEF CreateNew_at
<1> HIDE DEF path
<1>12. /\ DOMAIN tree' = DOMAIN tree \cup {path} /\ tree'[path] = Node("file", "")
       /\ Extends(tree, tree') /\ IsFiniteSet(DOMAIN tree')
  <2>1. path \notin DOMAIN tree /\ tree' = With(tree, path, Node("file", ""))
    BY <1>7, <1>11 DEF path
  <2>2. DOMAIN tree' = DOMAIN tree \cup {path}
    BY <2>1, WithFacts, Zenon
  <2>3. tree'[path] = Node("file", "")
    BY <2>1 DEF With
  <2>4. Extends(tree, tree')
    BY <2>1, WithFacts, Zenon
  <2>5. IsFiniteSet(DOMAIN tree')
    BY <1>6, <2>1, WithFacts, Zenon
  <2> QED BY <2>2, <2>3, <2>4, <2>5
<1>13. DirsStay(tree, tree')
  BY <1>12, ExtendedTree
<1>14. Stays'
  BY <1>6, <1>11, <1>12, AllKept DEF Stays
<1>15. NotInTheWay(path)
  BY <1>2, <1>8, BelowKeepsAway DEF HasNumber
<1>16. Rooms'
  BY <1>12, <1>13, <1>15, RoomsStep DEF IInv, driver
<1>17. Begun' /\ Reporting' /\ (pc' = "undelete" => Restoring')
  BY <1>11, DriverWaits DEF driver
<1>18. /\ cur'.step = "write" /\ cur'.out = cur.out /\ cur'.rel = cur.rel /\ DOMAIN cur' = CurFields
       /\ cur'.file = path
  BY <1>3, <1>11 DEF CurFields
<1>19. Wanted' = Wanted
  BY <1>18 DEF Wanted
<1>20. ParentsAreDirs(tree', Wanted)
  <2>1. Len(cur.out) + cur.depth - 1 = Len(Wanted) - 1
    BY <1>1, <1>5
  <2>2. ParentsAreDirs(tree, Wanted)
    BY <1>3, <2>1 DEF Descending, ParentsAreDirs
  <2> QED BY <1>13, <2>2, ParentsStayDirs
<1>21. Wanted \in DOMAIN tree'
  BY <1>5, <1>7, <1>12 DEF path
<1>22. \A i \in DOMAIN made : made[i].file # path
  BY <1>6, <1>7 DEF MadeStays, path
<1>23. path \in DOMAIN others => Folder("_unnamed") \in ToSet(path)
  BY <1>6, <1>7 DEF OthersStay, path
<1>24. Opened'
  BY <1>7, <1>11, <1>12, <1>18, <1>19, <1>20, <1>21, <1>22, <1>23
     DEF Opened, path, ParentsAreDirs, IsDir
<1>25. Making'
  BY <1>2, <1>18, <1>24, SameDirs DEF Making, Sound, driver
<1> QED
  BY <1>14, <1>16, <1>17, <1>25 DEF IInv

LEMMA WriteStep ==
  ASSUME IInv, pc \in {"undelete", "carve"}, WriteFile, UNCHANGED driver
  PROVE  IInv'
<1>1. /\ cur.step = "write" /\ tree' = [tree EXCEPT ![cur.file].holds = cur.content]
      /\ cur' = [cur EXCEPT !.step = "written"] /\ UNCHANGED <<others, made>>
  BY DEF WriteFile
<1>2. Making
  BY <1>1, Busy
<1>3. Begun' /\ Reporting' /\ (pc' = "undelete" => Restoring')
  BY <1>1, DriverWaits DEF driver
<1>4. Sound /\ Opened /\ DOMAIN cur = CurFields
  BY <1>1, <1>2 DEF Making, Sound
<1>5. cur.file \in DOMAIN tree /\ tree[cur.file] = Node("file", "")
  BY <1>1, <1>4 DEF Opened
<1>6. DOMAIN tree' = DOMAIN tree
  BY <1>1
<1>7. \A path \in DOMAIN tree : path # cur.file => tree'[path] = tree[path]
  BY <1>1
<1>8. tree'[cur.file] = Node("file", cur.content)
  <2>1. tree'[cur.file] = [tree[cur.file] EXCEPT !.holds = cur.content]
    BY <1>1, <1>5
  <2> DEFINE e == tree[cur.file]
  <2>2. e = Node("file", "") /\ tree'[cur.file] = [e EXCEPT !.holds = cur.content]
    BY <1>5, <2>1
  <2> HIDE DEF e
  <2>3. [e EXCEPT !.holds = cur.content] = Node("file", cur.content)
    BY <2>2 DEF Node
  <2> QED BY <2>2, <2>3
<1>9. DirsStay(tree, tree')
  <2>1. tree[cur.file].kind # "dir"
    <3>1. Node("file", "").kind = "file" /\ "file" # "dir"
      BY NodeFacts
    <3> QED BY <1>5, <3>1
  <2> QED BY <1>6, <1>7, <2>1 DEF DirsStay, IsDir
<1>10. MadeStays(tree, made) /\ OthersStay(tree, others) /\ IsFiniteSet(DOMAIN tree) /\ IsSeq(made)
  BY DEF IInv, Stays
<1>11. MadeStays(tree', made)
  <2>1. \A i \in DOMAIN made : made[i].file \in DOMAIN tree' /\ tree'[made[i].file] = tree[made[i].file]
    BY <1>4, <1>6, <1>7, <1>10 DEF Opened, MadeStays
  <2> QED BY <1>9, <1>10, <2>1, MadeKept
<1>12. OthersStay(tree', others)
  BY <1>4, <1>6, <1>7, <1>10 DEF Opened, OthersStay
<1>13. Stays'
  BY <1>1, <1>6, <1>10, <1>11, <1>12 DEF Stays
<1>14. Rooms'
  BY <1>6, <1>9, RoomsStep DEF IInv, driver
<1>15. /\ cur'.step = "written" /\ cur'.out = cur.out /\ cur'.rel = cur.rel /\ DOMAIN cur' = CurFields
       /\ cur'.file = cur.file /\ cur'.content = cur.content
  BY <1>1, <1>4 DEF CurFields
<1>16. Wanted' = Wanted
  BY <1>15 DEF Wanted
<1>17. ParentsAreDirs(tree', Wanted)
  BY <1>4, <1>9, ParentsStayDirs DEF Opened
<1>18. Opened'
  BY <1>1, <1>4, <1>6, <1>8, <1>15, <1>16, <1>17 DEF Opened, ParentsAreDirs, IsDir
<1>19. Making'
  BY <1>2, <1>15, <1>18, SameDirs DEF Making, Sound, driver
<1> QED
  BY <1>3, <1>13, <1>14, <1>19 DEF IInv

LEMMA WriteFailsStep ==
  ASSUME IInv, pc \in {"undelete", "carve"}, WriteFails,
         UNCHANGED <<pc, job, volumes, turn, todo, left, regions, seen, rows>>
  PROVE  IInv'
<1>1. cur.step = "write" /\ cur' = Failed /\ UNCHANGED <<tree, others, made>>
  BY DEF WriteFails
<1>2. Making
  BY <1>1, Busy
<1>3. Stays' /\ Rooms' /\ Begun' /\ Reporting' /\ (pc' = "undelete" => Restoring')
  BY <1>1, DriverWaits, TreeWaits
<1>4. cur'.step = "failed" /\ cur'.out = cur.out /\ cur'.rel = cur.rel /\ DOMAIN cur' = CurFields
  BY <1>1, <1>2 DEF Failed, CurFields, Making, Sound
<1>5. Making'
  BY <1>2, <1>4, SameDirs DEF Making, Sound
<1> QED
  BY <1>3, <1>5 DEF IInv

\* Another program makes something: never where the file being made goes.
LEMMA MeddleStep ==
  ASSUME JobsAssumption, IInv, Meddle
  PROVE  IInv'
<1>1. PICK p \in PlantAt, k \in PlantKinds : Plant(p, k)
  BY DEF Meddle
<1>2. cur # NoFile /\ UNCHANGED driver /\ UNCHANGED <<cur, made>>
  BY <1>1 DEF Meddle, Plant
<1>3. Making /\ pc \notin {"new", "detect", "regions"}
  BY <1>2 DEF IInv, Begun
<1> DEFINE node == Node(k, "theirs")
<1>4. p \notin DOMAIN tree /\ tree' = With(tree, p, node) /\ others' = With(others, p, node)
  BY <1>1 DEF Plant, Occupied
<1> HIDE DEF node
<1>5. /\ DOMAIN tree' = DOMAIN tree \cup {p} /\ Extends(tree, tree')
      /\ (IsFiniteSet(DOMAIN tree) => IsFiniteSet(DOMAIN tree'))
  <2>1. DOMAIN tree' = DOMAIN tree \cup {p}
    BY <1>4 DEF With
  <2>2. Extends(tree, tree')
    BY <1>4, WithFacts, Zenon
  <2>3. IsFiniteSet(DOMAIN tree) => IsFiniteSet(DOMAIN tree')
    BY <1>4, WithFacts, Zenon
  <2> QED BY <2>1, <2>2, <2>3
<1>6. tree'[p] = node /\ others'[p] = node /\ DOMAIN others' = DOMAIN others \cup {p}
      /\ \A q \in DOMAIN others : q # p => others'[q] = others[q]
  BY <1>4 DEF With
<1>7. MadeStays(tree, made) /\ OthersStay(tree, others) /\ IsFiniteSet(DOMAIN tree) /\ IsSeq(made)
  BY DEF IInv, Stays
<1>8. MadeStays(tree', made) /\ OthersStay(tree', others)
  BY <1>5, <1>7, AllKept
<1>9. OthersStay(tree', others')
  BY <1>5, <1>6, <1>8 DEF OthersStay
<1>10. Stays'
  BY <1>2, <1>5, <1>7, <1>8, <1>9 DEF Stays
<1>11. DirsStay(tree, tree')
  BY <1>5, ExtendedTree
<1>12. NotInTheWay(p)
  BY OthersKeepAway DEF JobsAssumption
<1>13. Rooms'
  BY <1>2, <1>3, <1>5, <1>11, <1>12, RoomsStep DEF IInv, driver
<1>14. Begun' /\ Reporting' /\ (pc' = "undelete" => Restoring')
  BY <1>2, <1>3, DriverWaits DEF driver
<1>15. Wanted' = Wanted
  BY <1>2 DEF Wanted
<1>16. Descending => Descending'
  BY <1>2, <1>11, <1>15 DEF Descending, DirsStay, IsDir
<1>17. Opened => Opened'
  <2> SUFFICES ASSUME Opened PROVE Opened'
    OBVIOUS
  <2>1. ParentsAreDirs(tree', Wanted)
    BY <1>11, ParentsStayDirs DEF Opened
  <2>2. cur.file \in DOMAIN tree' /\ tree'[cur.file] = tree[cur.file] /\ Wanted \in DOMAIN tree'
    BY <1>5 DEF Opened, Extends
  <2>3. cur.file \in DOMAIN others' => Folder("_unnamed") \in ToSet(cur.file)
    BY <1>4, <1>6 DEF Opened
  <2> QED BY <1>2, <1>15, <2>1, <2>2, <2>3 DEF Opened, ParentsAreDirs, IsDir
<1>18. Making'
  BY <1>2, <1>3, <1>16, <1>17, SameDirs DEF Making, Sound, driver
<1> QED
  BY <1>10, <1>13, <1>14, <1>18 DEF IInv

\* A file is begun: its directory is there, or is made.
LEMMA BeginStep ==
  ASSUME IInv, pc \in {"undelete", "carve"}, todo # <<>>,
         NEW out, IsSeq(out), NEW rel, HasNumber(rel), rel[Len(rel)].no = 0,
         Len(out) >= Len(CarvedDir), Room(tree, out),
         pc = "undelete" => out = Head(todo).out /\ rel = Head(todo).rel,
         NEW content, BeginFile(out, rel, content), UNCHANGED <<driver, others, made>>
  PROVE  IInv'
<1>1. /\ tree' = MakeOut(tree, out)
      /\ cur' = [step |-> "look", out |-> out, rel |-> rel, depth |-> 1, tries |-> 0,
                 content |-> content, file |-> <<>>]
  BY DEF BeginFile
<1>2. /\ Extends(tree, tree') /\ \A path \in DOMAIN tree' : path \in DOMAIN tree \/ IsDir(tree', path)
      /\ \A path \in Prefixes(out) : IsDir(tree', path)
      /\ IsFiniteSet(DOMAIN tree) => IsFiniteSet(DOMAIN tree')
  BY <1>1, MakeOutFacts
<1>3. DirsStay(tree, tree')
  BY <1>2, ExtendedTree
<1>4. Stays'
  BY <1>2, AllKept DEF IInv, Stays
<1>5. Rooms'
  BY <1>2, <1>3, RoomsStep DEF IInv, driver
<1>6. Begun' /\ Reporting' /\ (pc' = "undelete" => Restoring')
  BY DriverWaits DEF driver
<1>7. /\ cur'.step = "look" /\ cur'.out = out /\ cur'.rel = rel /\ DOMAIN cur' = CurFields
      /\ cur'.depth = 1
  BY <1>1 DEF CurFields
<1>8. /\ IsSeq(out \o rel) /\ Len(out \o rel) = Len(out) + Len(rel)
      /\ Len(out) \in Nat /\ Len(rel) \in Nat /\ Len(rel) >= 1
      /\ \A i \in 1 .. Len(out) : (out \o rel)[i] = out[i]
  <2>1. HasNumber(out \o rel) /\ Len(out) \in Nat /\ Len(rel) \in Nat /\ Len(rel) >= 1
    BY WantedFacts
  <2>2. IsSeq(rel)
    BY DEF HasNumber
  <2> QED BY <2>1, <2>2, Joined
<1>9. \A k \in 1 .. Len(out) : IsDir(tree', SubSeq(out \o rel, 1, k))
  <2> SUFFICES ASSUME NEW k \in 1 .. Len(out) PROVE IsDir(tree', SubSeq(out \o rel, 1, k))
    OBVIOUS
  <2> DEFINE w == out \o rel
  <2>1. IsSeq(w) /\ Len(w) = Len(out) + Len(rel) /\ \A i \in 1 .. Len(out) : w[i] = out[i]
    BY <1>8
  <2> HIDE DEF w
  <2>2. k \in Nat /\ k <= Len(w) /\ k <= Len(out) /\ k \in 0 .. Len(out)
    BY <1>8, <2>1
  <2>3. \A i \in 1 .. k : w[i] = out[i]
    <3>1. \A i \in 1 .. k : i \in 1 .. Len(out)
      BY <1>8, <2>2
    <3> QED BY <2>1, <3>1
  <2>4. SubSeq(w, 1, k) = SubSeq(out, 1, k)
    BY <2>1, <2>2, <2>3, SameCut
  <2>5. SubSeq(out, 1, k) \in Prefixes(out)
    BY <2>2 DEF Prefixes
  <2> QED BY <1>2, <2>4, <2>5 DEF w
<1>10. Wanted' = out \o rel
  BY <1>7 DEF Wanted
<1>11. 1 .. Len(out) + 1 - 1 = 1 .. Len(out) /\ 1 \in 1 .. Len(rel)
  BY <1>8
<1>12. Descending'
  BY <1>7, <1>9, <1>10, <1>11 DEF Descending, IsDir
<1>13. Making'
  BY <1>7, <1>12, SameDirs DEF Making, Sound, driver
<1> QED
  BY <1>4, <1>5, <1>6, <1>13 DEF IInv

LEMMA MakeFileStep ==
  ASSUME IInv, MakeFile
  PROVE  IInv'
<1>1. pc \in {"undelete", "carve"}
  BY DEF MakeFile
<1>2. CASE LookAtParent /\ UNCHANGED driver
  BY <1>1, <1>2, LookStep
<1>3. CASE MakeParent /\ UNCHANGED driver
  BY <1>1, <1>3, ParentStep
<1>4. CASE CreateNew /\ UNCHANGED driver
  BY <1>1, <1>4, CreateStep
<1>5. CASE WriteFile /\ UNCHANGED driver
  BY <1>1, <1>5, WriteStep
<1>6. CASE WriteFails /\ UNCHANGED <<pc, job, volumes, turn, todo, left, regions, seen, rows>>
  BY <1>1, <1>6, WriteFailsStep
<1> QED
  BY <1>2, <1>3, <1>4, <1>5, <1>6 DEF MakeFile

(* -------------------------- Steps of the driver ------------------------ *)

\* One more file made and kept.
LEMMA OneMore ==
  ASSUME NEW t, NEW m, IsSeq(m), MadeStays(t, m), NEW file, NEW content,
         file \in DOMAIN t, t[file] = Node("file", content),
         \A i \in DOMAIN m : m[i].file # file, ParentsAreDirs(t, file)
  PROVE  LET more == Append(m, [file |-> file, content |-> content]) IN
           IsSeq(more) /\ MadeStays(t, more)
<1> DEFINE one == [file |-> file, content |-> content]
           more == Append(m, one)
           l == Len(m) + 1
<1>1. one.file = file /\ one.content = content
  OBVIOUS
<1> HIDE DEF one
<1>2. /\ IsSeq(more) /\ DOMAIN more = DOMAIN m \cup {l} /\ more[l] = one /\ l \notin DOMAIN m
      /\ \A i \in DOMAIN m : more[i] = m[i]
  BY AppendFacts
<1> HIDE DEF more, l
<1>3. ASSUME NEW i \in DOMAIN more
      PROVE  /\ more[i].file \in DOMAIN t /\ t[more[i].file] = Node("file", more[i].content)
             /\ \A k \in DOMAIN more : more[k].file = more[i].file => k = i
             /\ ParentsAreDirs(t, more[i].file)
  <2>1. CASE i \in DOMAIN m
    BY <1>1, <1>2, <2>1 DEF MadeStays
  <2>2. CASE i = l
    BY <1>1, <1>2, <2>2
  <2> QED BY <1>2, <2>1, <2>2
<1>4. MadeStays(t, more)
  BY <1>3 DEF MadeStays
<1> QED
  BY <1>2, <1>4 DEF more, one
LEMMA RestsMore ==
  ASSUME NEW m, IsSeq(m), NEW path, Rests(m, path), NEW file, NEW content,
         file = path => Identified[content] = "" /\ NameOk(Last(path))
  PROVE  Rests(Append(m, [file |-> file, content |-> content]), path)
<1> DEFINE one == [file |-> file, content |-> content]
           more == Append(m, one)
<1>1. one.file = file /\ one.content = content
  OBVIOUS
<1> HIDE DEF one
<1>2. /\ DOMAIN more = DOMAIN m \cup {Len(m) + 1} /\ more[Len(m) + 1] = one
      /\ \A i \in DOMAIN m : more[i] = m[i]
  BY AppendFacts
<1> HIDE DEF more
<1>3. Rests(more, path)
  BY <1>1, <1>2 DEF Rests
<1> QED
  BY <1>3 DEF more, one

\* Below directories of one depth, the same path is that of the same file.
LEMMA SameTail ==
  ASSUME NEW a, IsSeq(a), NEW b, IsSeq(b), NEW s, IsSeq(s), NEW t, IsSeq(t)
  PROVE  Len(a) = Len(b) /\ a \o s = b \o t => s = t
<1>1. Len(a) \in Nat /\ Len(b) \in Nat /\ Len(s) \in Nat /\ Len(t) \in Nat
  BY SeqFacts
<1> DEFINE p == a \o s
           q == b \o t
<1>2. Len(p) = Len(a) + Len(s) /\ \A i \in 1 .. Len(s) : p[Len(a) + i] = s[i]
  BY Joined
<1>3. Len(q) = Len(b) + Len(t) /\ \A i \in 1 .. Len(t) : q[Len(b) + i] = t[i]
  BY Joined
<1> HIDE DEF p, q
<1>4. ASSUME Len(a) = Len(b), p = q PROVE s = t
  <2>1. Len(s) = Len(t)
    BY <1>1, <1>2, <1>3, <1>4
  <2>2. \A i \in 1 .. Len(s) : s[i] = t[i]
    BY <1>2, <1>3, <1>4, <2>1
  <2> QED BY <2>1, <2>2, SameSeq
<1> QED
  BY <1>4 DEF p, q

\* No numbering of a path under b makes it one under a, but for the same path.
Apart(a, s, b, t) == \A n : Numbered(b \o t, n) = a \o s => n = 0 /\ s = t
LEMMA SamePath ==
  ASSUME NEW a, IsSeq(a), NEW b, IsSeq(b), Len(a) = Len(b),
         NEW s, HasNumber(s), s[Len(s)].no = 0, NEW t, HasNumber(t), t[Len(t)].no = 0
  PROVE  Apart(a, s, b, t)
<1> SUFFICES ASSUME NEW n PROVE Numbered(b \o t, n) = a \o s => n = 0 /\ s = t
  BY DEF Apart
<1> DEFINE p == a \o s
           q == b \o t
           r == Numbered(q, n)
<1>1. HasNumber(p) /\ p[Len(p)] = s[Len(s)]
  BY WantedFacts
<1>2. HasNumber(q) /\ Numbered(q, 0) = q
  BY WantedFacts
<1> HIDE DEF p, q
<1>3. Len(r) = Len(q) /\ r[Len(q)].no = n
  BY <1>2, NumberedFacts
<1> HIDE DEF r
<1>4. ASSUME r = p PROVE n = 0 /\ s = t
  <2>1. n = 0
    BY <1>1, <1>3, <1>4
  <2>2. a \o s = b \o t
    BY <1>2, <1>4, <2>1 DEF p, q, r
  <2>3. IsSeq(s) /\ IsSeq(t)
    BY DEF HasNumber
  <2> QED BY <2>1, <2>2, <2>3, SameTail
<1> QED
  BY <1>4 DEF p, q, r

\* Two lost files ask for the same path only if they had the same one.
LEMMA SamePlace ==
  ASSUME JobsAssumption, job \in Jobs, NEW f \in LostFiles(job), NEW g \in LostFiles(job),
         NEW v \in Nat, NEW w \in Nat
  PROVE  Apart(VolumeDir(v), f.rel, VolumeDir(w), g.rel)
<1> DEFINE a == VolumeDir(v)
           b == VolumeDir(w)
           s == f.rel
           t == g.rel
<1>1. IsSeq(a) /\ IsSeq(b) /\ Len(a) = Len(b)
  BY VolumeDirFacts
<1>2. HasNumber(s) /\ s[Len(s)].no = 0 /\ HasNumber(t) /\ t[Len(t)].no = 0
  BY LostFileFacts
<1> HIDE DEF a, b, s, t
<1>3. Apart(a, s, b, t)
  BY <1>1, <1>2, SamePath
<1> QED
  BY <1>3 DEF a, b, s, t

\* The file done with: what is asked for next, and the report of it.
LEMMA AskedNext ==
  ASSUME Restoring, todo # <<>>, todo' = Tail(todo), UNCHANGED <<job, volumes, turn>>,
         NamelessRest(made')
  PROVE  Restoring'
<1>1. \A v : VolumeDir(v)' = VolumeDir(v)
  BY SameDirs
<1>2. IsSeq(todo') /\ \A i \in DOMAIN todo' : i + 1 \in DOMAIN todo /\ todo'[i] = todo[i + 1]
  BY TailFacts DEF Restoring
<1>3. AskedFor(todo)
  BY DEF Restoring
<1>4. AskedFor(todo')
  BY <1>2, <1>3 DEF AskedFor
<1>5. AskedFor(todo)'
  BY <1>1, <1>4 DEF AskedFor
<1>6. NamelessRest(made)'
  BY <1>1 DEF NamelessRest, Rests, NameOk
<1> QED
  BY <1>2, <1>5, <1>6 DEF Restoring
LEMMA RowNamed ==
  ASSUME Reporting, pc = "undelete", UNCHANGED <<pc, job>>, NEW path, NEW digest,
         rows' = Append(rows, Row("named", path, digest))
  PROVE  Reporting'
<1> DEFINE row == Row("named", path, digest)
<1>1. row.kind = "named"
  BY DEF Row
<1> HIDE DEF row
<1>2. /\ IsSeq(rows') /\ DOMAIN rows' = DOMAIN rows \cup {Len(rows) + 1}
      /\ rows'[Len(rows) + 1] = row /\ \A i \in DOMAIN rows : rows'[i] = rows[i]
  BY AppendFacts DEF Reporting, row
<1>3. \A i \in DOMAIN rows' : rows'[i].kind = "named"
  BY <1>1, <1>2 DEF Reporting
<1> QED
  BY <1>2, <1>3 DEF Reporting
LEMMA RowsStand ==
  ASSUME Reporting, UNCHANGED <<job, rows, seen>>,
         pc' = "carve" /\ todo' # <<>> => pc = "carve" /\ todo # <<>>,
         pc' \in {"new", "detect", "undelete", "regions"} => pc \in {"new", "detect", "undelete", "regions"}
  PROVE  Reporting'
<1>1. NamedDigests' = NamedDigests
  BY DEF NamedDigests
<1> QED
  BY <1>1 DEF Reporting

LEMMA UndeleteNext ==
  ASSUME IInv, pc = "undelete", todo # <<>>, Stays', Rooms', NamelessRest(made'),
         Drop \/ \E path, digest : NextFile(path, digest)
  PROVE  IInv'
<1>1. todo' = Tail(todo) /\ cur' = NoFile /\ UNCHANGED <<pc, job, volumes, turn>>
  BY DEF Drop, NextFile
<1>2. Restoring'
  BY <1>1, AskedNext DEF IInv
<1>3. Begun'
  BY <1>1 DEF IInv, Begun
<1>4. Reporting'
  <2>1. CASE Drop
    <3>1. UNCHANGED <<rows, seen>>
      BY <2>1 DEF Drop
    <3> QED BY <1>1, <3>1, RowsStand DEF IInv
  <2>2. CASE \E path, digest : NextFile(path, digest)
    <3>1. PICK path, digest : NextFile(path, digest)
      BY <2>2
    <3>2. rows' = Append(rows, Row("named", path, digest))
      BY <3>1 DEF NextFile
    <3> QED BY <1>1, <3>2, RowNamed DEF IInv
  <2> QED BY <2>1, <2>2
<1> QED
  BY <1>1, <1>2, <1>3, <1>4 DEF IInv

\* What is first to do is of a lost file.
LEMMA AskedIsLost ==
  ASSUME JobsAssumption, IInv, pc = "undelete", todo # <<>>
  PROVE  \E f \in LostFiles(job), v \in Nat :
           /\ Head(todo).out = VolumeDir(v) /\ Head(todo).rel = f.rel /\ Head(todo).nameless = f.nameless
           /\ IsSeq(VolumeDir(v)) /\ Len(VolumeDir(v)) >= Len(CarvedDir)
           /\ HasNumber(f.rel) /\ f.rel[Len(f.rel)].no = 0 /\ job \in Jobs
<1>1. Head(todo) = todo[1] /\ 1 \in DOMAIN todo
  BY TailFacts DEF IInv, Restoring
<1>2. PICK f \in LostFiles(job), v \in Nat :
        todo[1].out = VolumeDir(v) /\ todo[1].rel = f.rel /\ todo[1].nameless = f.nameless
  BY <1>1 DEF IInv, Restoring, AskedFor
<1>3. IsSeq(VolumeDir(v)) /\ Len(VolumeDir(v)) >= Len(CarvedDir)
  BY VolumeDirFacts
<1>4. job \in Jobs
  BY DEF IInv, Begun
<1>5. HasNumber(f.rel) /\ f.rel[Len(f.rel)].no = 0
  BY <1>4, LostFileFacts
<1> QED
  BY <1>1, <1>2, <1>3, <1>4, <1>5

LEMMA RestoreStep ==
  ASSUME JobsAssumption, IInv, Restore
  PROVE  IInv'
<1>1. pc = "undelete" /\ cur = NoFile /\ todo # <<>>
  BY DEF Restore
<1>2. CASE (Drop \/ NextFile(Asked, "")) /\ UNCHANGED <<tree, others, made>>
  <2>1. UNCHANGED <<pc, job, volumes>>
    BY <1>2 DEF Drop, NextFile
  <2>2. Stays' /\ Rooms'
    BY <1>2, <2>1, TreeWaits
  <2>3. NamelessRest(made')
    BY <1>1, <1>2 DEF IInv, Restoring
  <2> QED BY <1>1, <1>2, <2>2, <2>3, UndeleteNext
<1>3. CASE /\ BeginFile(Head(todo).out, Head(todo).rel, Head(todo).content)
           /\ UNCHANGED <<driver, others, made>>
  <2>1. PICK f \in LostFiles(job), v \in Nat :
           /\ Head(todo).out = VolumeDir(v) /\ Head(todo).rel = f.rel /\ Head(todo).nameless = f.nameless
           /\ IsSeq(VolumeDir(v)) /\ Len(VolumeDir(v)) >= Len(CarvedDir)
           /\ HasNumber(f.rel) /\ f.rel[Len(f.rel)].no = 0 /\ job \in Jobs
    BY <1>1, AskedIsLost
  <2>2. Room(tree, VolumeDir(v))
    BY <1>1 DEF IInv, Rooms
  <2> DEFINE out == Head(todo).out
             rel == Head(todo).rel
             content == Head(todo).content
  <2>3. /\ IsSeq(out) /\ HasNumber(rel) /\ rel[Len(rel)].no = 0 /\ Len(out) >= Len(CarvedDir)
        /\ Room(tree, out) /\ BeginFile(out, rel, content)
        /\ (pc = "undelete" => out = Head(todo).out /\ rel = Head(todo).rel)
    BY <1>3, <2>1, <2>2
  <2> HIDE DEF out, rel, content
  <2> QED BY <1>1, <1>3, <2>3, BeginStep
<1> QED
  BY <1>2, <1>3 DEF Restore

LEMMA SkipStep ==
  ASSUME IInv, Skip
  PROVE  IInv'
<1>1. pc = "undelete" /\ cur.step = "failed" /\ NextFile(Asked, "") /\ UNCHANGED <<tree, others, made>>
  BY DEF Skip
<1>2. todo # <<>>
  BY <1>1, Busy DEF Making
<1>3. UNCHANGED <<pc, job, volumes>>
  BY <1>1 DEF NextFile
<1>4. Stays' /\ Rooms'
  BY <1>1, <1>3, TreeWaits
<1>5. NamelessRest(made')
  BY <1>1 DEF IInv, Restoring
<1> QED
  BY <1>1, <1>2, <1>4, <1>5, UndeleteNext

\* A file with a name is nowhere a nameless one is asked for.
LEMMA RestoredStep ==
  ASSUME JobsAssumption, IInv, Restored
  PROVE  IInv'
<1>1. /\ pc = "undelete" /\ cur.step = "written" /\ ~Head(todo).nameless
      /\ made' = Append(made, [file |-> cur.file, content |-> cur.content])
      /\ NextFile(Asked, cur.content) /\ UNCHANGED <<tree, others>>
  BY DEF Restored
<1>2. todo # <<>> /\ Opened /\ Sound /\ cur.out = Head(todo).out /\ cur.rel = Head(todo).rel
  BY <1>1, Busy DEF Making
<1>3. UNCHANGED <<pc, job, volumes>>
  BY <1>1 DEF NextFile
<1>4. PICK f \in LostFiles(job), v \in Nat :
         /\ Head(todo).out = VolumeDir(v) /\ Head(todo).rel = f.rel /\ Head(todo).nameless = f.nameless
         /\ IsSeq(VolumeDir(v)) /\ Len(VolumeDir(v)) >= Len(CarvedDir)
         /\ HasNumber(f.rel) /\ f.rel[Len(f.rel)].no = 0 /\ job \in Jobs
  BY <1>1, <1>2, AskedIsLost
<1>5. PICK n \in Nat : cur.file = Numbered(Wanted, n)
  BY <1>2 DEF Opened
<1>6. HasNumber(Wanted) /\ Wanted = VolumeDir(v) \o f.rel
  BY <1>2, <1>4, WantedFacts DEF Wanted
<1>7. IsSeq(made) /\ MadeStays(tree, made)
  BY DEF IInv, Stays
<1>8. ParentsAreDirs(tree, cur.file)
  <2>1. ParentsAreDirs(tree, Wanted)
    BY <1>2 DEF Opened
  <2> QED BY <1>5, <1>6, <2>1, NumberedParents
<1>9. IsSeq(made') /\ MadeStays(tree, made')
  <2>1. cur.file \in DOMAIN tree /\ tree[cur.file] = Node("file", cur.content)
        /\ \A i \in DOMAIN made : made[i].file # cur.file
    BY <1>1, <1>2 DEF Opened
  <2> QED BY <1>1, <1>7, <1>8, <2>1, OneMore
<1>10. Stays'
  BY <1>1, <1>9 DEF IInv, Stays
<1>11. Rooms'
  BY <1>1, <1>3, RoomsStand DEF IInv
<1>12. NamelessRest(made')
  <2> SUFFICES ASSUME NEW w \in Nat, NEW g \in LostFiles(job), g.nameless
               PROVE  Rests(made', VolumeDir(w) \o g.rel)
    BY DEF NamelessRest
  <2> DEFINE path == VolumeDir(w) \o g.rel
  <2>1. Rests(made, path)
    BY <1>1 DEF IInv, Restoring, NamelessRest
  <2>2. cur.file # path
    <3>1. ~f.nameless
      BY <1>1, <1>4
    <3>2. g.rel # f.rel
      BY <1>4, <3>1, LostFileFacts
    <3>3. Numbered(VolumeDir(v) \o f.rel, n) = VolumeDir(w) \o g.rel => n = 0 /\ g.rel = f.rel
      <4>1. job \in Jobs
        BY <1>4
      <4>2. Apart(VolumeDir(w), g.rel, VolumeDir(v), f.rel)
        BY <4>1, SamePlace
      <4> QED BY <4>2 DEF Apart
    <3> QED BY <1>5, <1>6, <3>2, <3>3
  <2> HIDE DEF path
  <2>3. Rests(made', path)
    BY <1>1, <1>7, <2>1, <2>2, RestsMore
  <2> QED BY <2>3 DEF path
<1> QED
  BY <1>1, <1>2, <1>10, <1>11, <1>12, UndeleteNext

\* The path that rename_by_content takes: free, beside the other, and none
\* that a nameless file is asked for at.
LEMMA RetypedSame ==
  ASSUME NEW path, HasNumber(path)
  PROVE  Retyped(path, path[Len(path)].ext) = path
<1> DEFINE l == Len(path)
           e == path[l]
           new == Retyped(path, e.ext)
<1>1. [e EXCEPT !.ext = e.ext] = e
  BY DEF HasNumber, IsName
<1>2. new = Renamed(path, e)
  <2>1. new = Renamed(path, [e EXCEPT !.ext = e.ext])
    BY DEF Retyped, Renamed
  <2> QED BY <1>1, <2>1
<1>3. IsSeq(path) /\ path # <<>> /\ l \in Nat
  BY SeqFacts DEF HasNumber
<1> HIDE DEF new, e
<1>4. /\ IsSeq(new) /\ Len(new) = l /\ new[l] = e /\ \A i \in 1 .. l - 1 : new[i] = path[i]
  BY <1>2, <1>3, LastReplaced
<1>5. \A i \in 1 .. Len(new) : new[i] = path[i]
  BY <1>3, <1>4 DEF e
<1>6. new = path
  BY <1>3, <1>4, <1>5, SameSeq
<1> QED
  BY <1>6 DEF new, e
LEMMA RetypedPath ==
  ASSUME NEW t, IsFiniteSet(DOMAIN t), NEW path, HasNumber(path), path[Len(path)].no = 0,
         path \in DOMAIN t, NEW ext, NEW target, target = UniquePath(t, Retyped(path, ext))
  PROVE  /\ target \notin DOMAIN t /\ IsSeq(target) /\ Len(target) = Len(path)
         /\ \A u : ParentsAreDirs(u, path) => ParentsAreDirs(u, target)
         /\ ~ (target[Len(target)].no = 0 /\ target[Len(target)].ext = path[Len(path)].ext)
<1> DEFINE r == Retyped(path, ext)
           l == Len(path)
           e == [path[l] EXCEPT !.ext = ext]
<1>1. r = Renamed(path, e)
  BY DEF Retyped, Renamed
<1>2. e.ext = ext /\ IsName(e) /\ "ext" \in DOMAIN e
  BY DEF HasNumber, IsName
<1>3. IsSeq(path) /\ path # <<>>
  BY DEF HasNumber
<1> HIDE DEF e
<1>4. /\ IsSeq(r) /\ r # <<>> /\ Len(r) = l /\ r[l] = e /\ \A i \in 1 .. l - 1 : r[i] = path[i]
  BY <1>1, <1>3, LastReplaced
<1> HIDE DEF r
<1>5. HasNumber(r)
  BY <1>2, <1>4 DEF HasNumber
<1>6. PICK n \in Nat : UniquePath(t, r) = Numbered(r, n) /\ Numbered(r, n) \notin DOMAIN t
  BY <1>5, UniquePathFacts
<1>7. target = Numbered(r, n) /\ target \notin DOMAIN t
  BY <1>6 DEF r
<1> DEFINE d == [e EXCEPT !.no = n]
<1>8. target = Renamed(r, d)
  BY <1>4, <1>7 DEF Numbered, Renamed
<1>9. d.no = n /\ d.ext = ext
  BY <1>2 DEF IsName
<1> HIDE DEF d
<1>10. /\ IsSeq(target) /\ Len(target) = l /\ target[l] = d /\ \A i \in 1 .. l - 1 : target[i] = r[i]
  BY <1>4, <1>8, LastReplaced
<1>11. \A u : ParentsAreDirs(u, path) => ParentsAreDirs(u, target)
  <2>1. \A i \in 1 .. Len(path) - 1 : target[i] = path[i]
    BY <1>4, <1>10
  <2> QED BY <1>3, <1>10, <2>1, SameParents
<1>12. ~ (target[l].no = 0 /\ target[l].ext = path[l].ext)
  <2> SUFFICES ASSUME target[l].no = 0, target[l].ext = path[l].ext PROVE FALSE
    OBVIOUS
  <2>1. n = 0 /\ ext = path[Len(path)].ext
    BY <1>9, <1>10
  <2>2. r = path
    BY <2>1, RetypedSame DEF r
  <2>3. target = path
    BY <1>7, <2>1, <2>2, NumberZero
  <2> QED BY <1>7, <2>3
<1> QED
  BY <1>7, <1>10, <1>11, <1>12

\* The tree with the nameless file moved or taken away: the path asked for is
\* given up, one path may be new, and a file kept that is there stays.
MovedOn(t, u, asked, new) ==
  /\ DirsStay(t, u) /\ (IsFiniteSet(DOMAIN t) => IsFiniteSet(DOMAIN u))
  /\ \A path \in DOMAIN t : path # asked => path \in DOMAIN u /\ u[path] = t[path]
  /\ \A path \in DOMAIN u : path \in DOMAIN t \/ path = new
LEMMA MovedKept ==
  ASSUME NEW t, NEW u, NEW asked, NEW new, MovedOn(t, u, asked, new),
         NEW m, MadeStays(t, m), NEW o, OthersStay(t, o), Folder("_unnamed") \in ToSet(asked),
         (\E i \in DOMAIN m : m[i].file = asked) => u = t
  PROVE  MadeStays(u, m) /\ OthersStay(u, o)
<1>1. \A i \in DOMAIN m : m[i].file \in DOMAIN u /\ u[m[i].file] = t[m[i].file]
  <2> SUFFICES ASSUME NEW i \in DOMAIN m
               PROVE  m[i].file \in DOMAIN u /\ u[m[i].file] = t[m[i].file]
    OBVIOUS
  <2>1. m[i].file \in DOMAIN t
    BY DEF MadeStays
  <2>2. CASE m[i].file = asked
    BY <2>1, <2>2
  <2>3. CASE m[i].file # asked
    BY <2>1, <2>3 DEF MovedOn
  <2> QED BY <2>2, <2>3
<1>2. MadeStays(u, m)
  BY <1>1, MadeKept DEF MovedOn
<1>3. OthersStay(u, o)
  <2> SUFFICES ASSUME NEW path \in DOMAIN o, Folder("_unnamed") \notin ToSet(path)
               PROVE  path \in DOMAIN u /\ u[path] = o[path]
    BY DEF OthersStay
  <2>1. path \in DOMAIN t /\ t[path] = o[path] /\ path # asked
    BY DEF OthersStay
  <2> QED BY <2>1 DEF MovedOn
<1> QED
  BY <1>2, <1>3
\* What rename_by_content does with the tree t: the path asked for is given
\* up for another that is free, or the file there is taken away.
LEMMA MovedTree ==
  ASSUME NEW t, NEW asked, asked \in DOMAIN t, t[asked].kind # "dir", NEW new, new \notin DOMAIN t,
         NEW u, u = With(Without(t, {asked}), new, t[asked])
  PROVE  /\ MovedOn(t, u, asked, new) /\ new \in DOMAIN u /\ u[new] = t[asked]
         /\ MovedOn(t, Without(u, {new}), asked, new)
<1>1. /\ DOMAIN u = (DOMAIN t \ {asked}) \cup {new} /\ u[new] = t[asked]
      /\ \A path \in DOMAIN t : path # asked => u[path] = t[path]
  BY DEF With, Without
<1> DEFINE w == Without(u, {new})
<1>2. DOMAIN w = DOMAIN t \ {asked} /\ \A path \in DOMAIN w : w[path] = t[path]
  BY <1>1 DEF Without
<1>3. IsFiniteSet(DOMAIN t) => IsFiniteSet(DOMAIN u) /\ IsFiniteSet(DOMAIN w)
  <2> SUFFICES ASSUME IsFiniteSet(DOMAIN t) PROVE IsFiniteSet(DOMAIN u) /\ IsFiniteSet(DOMAIN w)
    OBVIOUS
  <2>1. IsFiniteSet(DOMAIN t \ {asked})
    BY FS_RemoveElement
  <2>2. IsFiniteSet((DOMAIN t \ {asked}) \cup {new})
    BY <2>1, FS_AddElement
  <2> QED BY <1>1, <1>2, <2>1, <2>2
<1> HIDE DEF w
<1>4. DirsStay(t, u) /\ DirsStay(t, w)
  BY <1>1, <1>2 DEF DirsStay, IsDir
<1>5. MovedOn(t, u, asked, new)
  BY <1>1, <1>3, <1>4 DEF MovedOn
<1>6. MovedOn(t, w, asked, new)
  BY <1>2, <1>3, <1>4 DEF MovedOn
<1> QED
  BY <1>1, <1>5, <1>6 DEF w
LEMMA RemovedTree ==
  ASSUME NEW t, NEW asked, asked \in DOMAIN t,
         NEW u, u = (IF t[asked].kind = "dir" THEN t ELSE Without(t, {asked}))
  PROVE  MovedOn(t, u, asked, asked)
<1>1. CASE t[asked].kind = "dir"
  BY <1>1 DEF MovedOn, DirsStay
<1>2. CASE t[asked].kind # "dir"
  <2>1. DOMAIN u = DOMAIN t \ {asked} /\ \A path \in DOMAIN u : u[path] = t[path]
    BY <1>2 DEF Without
  <2>2. IsFiniteSet(DOMAIN t) => IsFiniteSet(DOMAIN u)
    BY <2>1, FS_RemoveElement
  <2>3. DirsStay(t, u)
    BY <1>2, <2>1 DEF DirsStay, IsDir
  <2> QED BY <2>1, <2>2, <2>3 DEF MovedOn
<1> QED
  BY <1>1, <1>2

\* A path a nameless file is asked for at.
Unnamed(path) ==
  /\ HasNumber(path) /\ path[Len(path)].no = 0 /\ path[Len(path)].ext = "bin"
  /\ Folder("_unnamed") \in ToSet(path)
LEMMA NamelessPath ==
  ASSUME JobsAssumption, job \in Jobs, NEW f \in LostFiles(job), f.nameless, NEW v \in Nat
  PROVE  Unnamed(VolumeDir(v) \o f.rel)
<1> DEFINE a == VolumeDir(v)
           s == f.rel
           path == a \o s
<1>1. IsSeq(a)
  BY VolumeDirFacts
<1>2. HasNumber(s) /\ s[Len(s)].no = 0 /\ s[Len(s)].ext = "bin" /\ Folder("_unnamed") \in ToSet(s)
  BY LostFileFacts
<1> HIDE DEF a, s
<1>3. HasNumber(path) /\ path[Len(path)] = s[Len(s)]
  BY <1>1, <1>2, WantedFacts
<1>4. IsSeq(s) /\ Len(a) \in Nat /\ Len(s) \in Nat /\ DOMAIN s = 1 .. Len(s)
  BY <1>1, <1>2, SeqFacts DEF HasNumber
<1>5. /\ IsSeq(path) /\ Len(path) = Len(a) + Len(s)
      /\ \A i \in 1 .. Len(s) : path[Len(a) + i] = s[i]
  BY <1>1, <1>4, Joined
<1> HIDE DEF path
<1>6. DOMAIN path = 1 .. Len(path)
  BY <1>5, SeqFacts
<1>7. Folder("_unnamed") \in ToSet(path)
  <2>1. PICK i \in DOMAIN s : s[i] = Folder("_unnamed")
    BY <1>2 DEF ToSet
  <2>2. Len(a) + i \in DOMAIN path /\ path[Len(a) + i] = s[i]
    BY <1>4, <1>5, <1>6
  <2> QED BY <2>1, <2>2 DEF ToSet
<1>8. Unnamed(path)
  BY <1>2, <1>3, <1>7 DEF Unnamed
<1> QED
  BY <1>8 DEF path, a, s

LEMMA NamelessStep ==
  ASSUME JobsAssumption, IInv, RestoredNameless
  PROVE  IInv'
<1> DEFINE asked == Asked
           ext == IF tree[asked].kind = "file" THEN Identified[tree[asked].holds] ELSE ""
           target == IF ext = "" THEN asked ELSE UniquePath(tree, Retyped(asked, ext))
           moved == IF target = asked THEN tree
                    ELSE With(Without(tree, {asked}), target, tree[asked])
           file == IF cur.file = asked THEN target ELSE cur.file
           one == [file |-> file, content |-> cur.content]
<1>1. pc = "undelete" /\ cur.step = "written" /\ Head(todo).nameless
  BY DEF RestoredNameless
<1>2. \/ /\ NameOk(Last(target)) /\ tree' = moved /\ made' = Append(made, one)
         /\ NextFile(target, cur.content) /\ UNCHANGED others
      \/ /\ ~NameOk(Last(target))
         /\ tree' = IF moved[target].kind = "dir" THEN moved ELSE Without(moved, {target})
         /\ Drop /\ UNCHANGED <<others, made>>
  BY DEF RestoredNameless, Retyped
<1>3. todo # <<>> /\ Opened /\ Sound /\ cur.out = Head(todo).out /\ cur.rel = Head(todo).rel
      /\ cur # NoFile
  BY <1>1, Busy DEF Making
<1>4. PICK f \in LostFiles(job), v \in Nat :
         /\ Head(todo).out = VolumeDir(v) /\ Head(todo).rel = f.rel /\ Head(todo).nameless = f.nameless
         /\ IsSeq(VolumeDir(v)) /\ Len(VolumeDir(v)) >= Len(CarvedDir)
         /\ HasNumber(f.rel) /\ f.rel[Len(f.rel)].no = 0 /\ job \in Jobs
  BY <1>1, <1>3, AskedIsLost
<1>5. asked = VolumeDir(v) \o f.rel /\ asked = Wanted
  BY <1>3, <1>4 DEF Asked, Wanted
<1>6. /\ HasNumber(asked) /\ asked[Len(asked)].no = 0 /\ asked[Len(asked)].ext = "bin"
      /\ Folder("_unnamed") \in ToSet(asked)
  <2>1. f.nameless /\ job \in Jobs
    BY <1>1, <1>4
  <2>2. Unnamed(VolumeDir(v) \o f.rel)
    BY <2>1, NamelessPath
  <2> QED BY <1>5, <2>2 DEF Unnamed
<1> HIDE DEF asked
<1>7. /\ asked \in DOMAIN tree /\ cur.file \in DOMAIN tree
      /\ tree[cur.file] = Node("file", cur.content)
      /\ \A i \in DOMAIN made : made[i].file # cur.file
      /\ ParentsAreDirs(tree, asked)
  BY <1>1, <1>3, <1>5 DEF Opened
<1>8. PICK n \in Nat : cur.file = Numbered(asked, n)
  BY <1>3, <1>5 DEF Opened
<1>9. ParentsAreDirs(tree, cur.file)
  BY <1>6, <1>7, <1>8, NumberedParents
<1>10. IsSeq(made) /\ MadeStays(tree, made) /\ OthersStay(tree, others) /\ IsFiniteSet(DOMAIN tree)
  BY DEF IInv, Stays
<1>11. NamelessRest(made)
  BY <1>1 DEF IInv, Restoring
\* A file kept is not moved, nor is it taken away.
<1>12. ASSUME NEW i \in DOMAIN made, made[i].file = asked PROVE ext = "" /\ NameOk(Last(asked))
  <2>1. Rests(made, asked)
    BY <1>1, <1>4, <1>5, <1>11 DEF NamelessRest
  <2>2. Identified[made[i].content] = "" /\ NameOk(Last(asked))
    BY <1>12, <2>1 DEF Rests
  <2>3. tree[asked] = Node("file", made[i].content)
    BY <1>10, <1>12 DEF MadeStays
  <2>4. tree[asked].holds = made[i].content
    BY <2>3 DEF Node
  <2> QED BY <2>2, <2>4
<1>13. /\ IsSeq(target) /\ Len(target) = Len(asked) /\ ParentsAreDirs(tree, target)
       /\ ext # "" => /\ target \notin DOMAIN tree
                      /\ ~ (target[Len(target)].no = 0 /\ target[Len(target)].ext = "bin")
  <2>1. CASE ext = ""
    <3>1. target = asked
      BY <2>1
    <3> QED BY <1>6, <1>7, <2>1, <3>1 DEF HasNumber
  <2>2. CASE ext # ""
    <3> DEFINE other == UniquePath(tree, Retyped(asked, ext))
    <3>1. target = other
      BY <2>2
    <3> HIDE DEF ext, target
    <3>2. /\ other \notin DOMAIN tree /\ IsSeq(other) /\ Len(other) = Len(asked)
          /\ \A u : ParentsAreDirs(u, asked) => ParentsAreDirs(u, other)
          /\ ~ (other[Len(other)].no = 0 /\ other[Len(other)].ext = asked[Len(asked)].ext)
      BY <1>6, <1>7, <1>10, RetypedPath
    <3> HIDE DEF other
    <3> QED BY <1>6, <1>7, <3>1, <3>2
  <2> QED BY <2>1, <2>2
<1>14. ext = "" => target = asked /\ moved = tree
  OBVIOUS
<1>15. ext # "" => /\ target # asked /\ moved = With(Without(tree, {asked}), target, tree[asked])
                   /\ tree[asked].kind = "file"
  BY <1>7, <1>13
<1>16. cur.file = asked => tree[asked].kind = "file" /\ ext = Identified[cur.content]
  BY <1>7 DEF Node
<1>17. file = IF cur.file = asked THEN target ELSE cur.file
  OBVIOUS
<1> HIDE DEF ext, target, moved, file
\* The tree.
<1>18. MovedOn(tree, tree', asked, target)
       /\ (NameOk(Last(target)) => tree' = moved)
       /\ ((\E i \in DOMAIN made : made[i].file = asked) => tree' = tree)
       /\ (NameOk(Last(target)) /\ ext # "" => target \in DOMAIN tree' /\ tree'[target] = tree[asked])
  <2>1. CASE ext = ""
    <3>1. target = asked /\ moved = tree
      BY <1>14, <2>1
    <3>2. CASE NameOk(Last(target))
      <4>1. tree' = tree
        BY <1>2, <3>1, <3>2
      <4>2. MovedOn(tree, tree', asked, target)
        BY <4>1 DEF MovedOn, DirsStay
      <4> QED BY <2>1, <3>1, <4>1, <4>2
    <3>3. CASE ~NameOk(Last(target))
      <4>1. tree' = IF tree[asked].kind = "dir" THEN tree ELSE Without(tree, {asked})
        BY <1>2, <3>1, <3>3
      <4>2. MovedOn(tree, tree', asked, asked)
        BY <1>7, <4>1, RemovedTree
      <4> QED BY <1>12, <2>1, <3>1, <3>3, <4>2
    <3> QED BY <3>2, <3>3
  <2>2. CASE ext # ""
    <3>1. /\ target \notin DOMAIN tree /\ moved = With(Without(tree, {asked}), target, tree[asked])
          /\ tree[asked].kind = "file" /\ ~ \E i \in DOMAIN made : made[i].file = asked
      BY <1>12, <1>13, <1>15, <2>2
    <3>2. /\ MovedOn(tree, moved, asked, target) /\ target \in DOMAIN moved
          /\ moved[target] = tree[asked] /\ MovedOn(tree, Without(moved, {target}), asked, target)
      <4>1. tree[asked].kind # "dir" /\ asked \in DOMAIN tree /\ target \notin DOMAIN tree
        BY <1>7, <3>1
      <4>2. moved = With(Without(tree, {asked}), target, tree[asked])
        BY <3>1
      <4>3. MovedOn(tree, moved, asked, target)
        BY <4>1, <4>2, MovedTree
      <4>4. MovedOn(tree, Without(moved, {target}), asked, target)
        BY <4>1, <4>2, MovedTree
      <4>5. target \in DOMAIN moved /\ moved[target] = tree[asked]
        BY <4>2 DEF With
      <4> QED BY <4>3, <4>4, <4>5
    <3>3. CASE NameOk(Last(target))
      BY <1>2, <3>1, <3>2, <3>3
    <3>4. CASE ~NameOk(Last(target))
      <4>1. tree' = Without(moved, {target})
        BY <1>2, <3>1, <3>2, <3>4
      <4> QED BY <3>1, <3>2, <3>4, <4>1
    <3> QED BY <3>3, <3>4
  <2> QED BY <2>1, <2>2
<1>19. MadeStays(tree', made) /\ OthersStay(tree', others)
  <2>1. MovedOn(tree, tree', asked, target) /\ ((\E i \in DOMAIN made : made[i].file = asked) => tree' = tree)
    BY <1>18
  <2>2. MadeStays(tree, made) /\ OthersStay(tree, others) /\ Folder("_unnamed") \in ToSet(asked)
    BY <1>6, <1>10
  <2> QED BY <2>1, <2>2, MovedKept, Zenon
<1>20. UNCHANGED <<pc, job, volumes, others>>
  BY <1>2 DEF NextFile, Drop
<1>21. Rooms'
  <2>1. NotInTheWay(target)
    BY <1>1, <1>3, <1>5, <1>13, BelowKeepsAway
  <2>2. DirsStay(tree, tree')
        /\ \A path \in DOMAIN tree' : path \in DOMAIN tree \/ IsDir(tree', path) \/ NotInTheWay(path)
    BY <1>18, <2>1 DEF MovedOn
  <2> QED BY <1>1, <1>20, <2>2, RoomsStep DEF IInv
<1>22. IsFiniteSet(DOMAIN tree')
  BY <1>10, <1>18 DEF MovedOn
<1>23. CASE ~NameOk(Last(target))
  <2>1. Drop /\ made' = made
    BY <1>2, <1>23
  <2>2. Stays'
    BY <1>10, <1>19, <1>20, <1>22, <2>1 DEF Stays
  <2> QED BY <1>1, <1>3, <1>11, <1>21, <2>1, <2>2, UndeleteNext
<1>24. CASE NameOk(Last(target))
  <2>1. NextFile(target, cur.content) /\ made' = Append(made, one)
    BY <1>2, <1>24
  <2>2. file \in DOMAIN tree' /\ tree'[file] = Node("file", cur.content)
    <3>1. CASE cur.file # asked
      BY <1>7, <1>17, <1>18, <3>1 DEF MovedOn
    <3>2. CASE cur.file = asked /\ ext = ""
      BY <1>7, <1>14, <1>17, <1>18, <1>24, <3>2
    <3>3. CASE cur.file = asked /\ ext # ""
      BY <1>7, <1>17, <1>18, <1>24, <3>3
    <3> QED BY <3>1, <3>2, <3>3
  <2>3. \A i \in DOMAIN made : made[i].file # file
    <3>1. CASE cur.file # asked
      BY <1>7, <1>17, <3>1
    <3>2. CASE cur.file = asked /\ ext = ""
      BY <1>7, <1>14, <1>17, <3>2
    <3>3. CASE cur.file = asked /\ ext # ""
      BY <1>10, <1>13, <1>17, <3>3 DEF MadeStays
    <3> QED BY <3>1, <3>2, <3>3
  <2>4. ParentsAreDirs(tree', file)
    <3>1. ParentsAreDirs(tree, file)
      BY <1>9, <1>13, <1>17
    <3> QED BY <1>18, <3>1, ParentsStayDirs DEF MovedOn
  <2>5. IsSeq(made') /\ MadeStays(tree', made')
    BY <1>10, <1>19, <2>1, <2>2, <2>3, <2>4, OneMore
  <2>6. Stays'
    BY <1>19, <1>20, <1>22, <2>5 DEF Stays
  <2>7. NamelessRest(made')
    <3> SUFFICES ASSUME NEW w \in Nat, NEW g \in LostFiles(job), g.nameless
                 PROVE  Rests(made', VolumeDir(w) \o g.rel)
      BY DEF NamelessRest
    <3> DEFINE path == VolumeDir(w) \o g.rel
    <3>1. Rests(made, path)
      BY <1>11 DEF NamelessRest
    <3>2. HasNumber(path) /\ path[Len(path)].no = 0 /\ path[Len(path)].ext = "bin"
      <4>1. job \in Jobs
        BY <1>4
      <4>2. Unnamed(VolumeDir(w) \o g.rel)
        BY <4>1, NamelessPath
      <4> QED BY <4>2 DEF Unnamed
    <3>3. Numbered(asked, n) = path => n = 0
      <4>1. job \in Jobs
        BY <1>4
      <4>2. Apart(VolumeDir(w), g.rel, VolumeDir(v), f.rel)
        BY <4>1, SamePlace
      <4> QED BY <1>5, <4>2 DEF Apart
    <3> HIDE DEF path
    <3>4. ASSUME file = path PROVE Identified[cur.content] = "" /\ NameOk(Last(path))
      <4>1. CASE cur.file # asked
        <5>1. Numbered(asked, n) = path
          BY <1>8, <1>17, <3>4, <4>1
        <5>2. n = 0 /\ Numbered(asked, 0) = asked
          BY <1>6, <3>3, <5>1, NumberZero
        <5> QED BY <1>8, <4>1, <5>2
      <4>2. CASE cur.file = asked /\ ext = ""
        BY <1>14, <1>16, <1>17, <1>24, <3>4, <4>2
      <4>3. CASE cur.file = asked /\ ext # ""
        BY <1>13, <1>17, <3>2, <3>4, <4>3
      <4> QED BY <4>1, <4>2, <4>3
    <3>5. Rests(made', path)
      BY <1>10, <2>1, <3>1, <3>4, RestsMore
    <3> QED BY <3>5 DEF path
  <2> QED BY <1>1, <1>3, <1>21, <2>1, <2>6, <2>7, UndeleteNext
<1> QED
  BY <1>23, <1>24

(* --------------------------- Steps of the carve ------------------------ *)

LEMMA CarvedPathFacts ==
  ASSUME NEW c
  PROVE  HasNumber(CarvedPath(c)) /\ CarvedPath(c)[Len(CarvedPath(c))].no = 0
<1> DEFINE name == CarvedName(c)
           folder == Folder(c.ext)
<1>1. IsName(name) /\ name.no = 0
  BY DEF CarvedName, Name, IsName
<1>2. CarvedPath(c) \in {<< folder, name >>, << name >>}
  BY DEF CarvedPath
<1> HIDE DEF name, folder
<1>3. IsSeq(<< folder, name >>) /\ IsSeq(<< name >>)
  BY ShortPrefixes
<1>4. /\ Len(<< folder, name >>) = 2 /\ << folder, name >>[2] = name /\ << folder, name >> # <<>>
      /\ Len(<< name >>) = 1 /\ << name >>[1] = name /\ << name >> # <<>>
  OBVIOUS
<1>5. CASE CarvedPath(c) = << folder, name >>
  BY <1>1, <1>3, <1>4, <1>5 DEF HasNumber
<1>6. CASE CarvedPath(c) = << name >>
  BY <1>1, <1>3, <1>4, <1>6 DEF HasNumber
<1> QED
  BY <1>2, <1>5, <1>6

\* recover deduplicates: what it reports as carved is no named file's copy.
LEMMA RowCarved ==
  ASSUME Reporting, pc = "carve", todo # <<>>, UNCHANGED <<pc, job>>, job.command = "recover" => job.dedup,
         NEW path, NEW digest, ~Duplicate(digest), Keep(path, digest)
  PROVE  Reporting'
<1> DEFINE row == Row("carved", path, digest)
           l == Len(rows) + 1
<1>1. row.kind = "carved" /\ row.digest = digest
  BY DEF Row
<1>2. rows' = Append(rows, row) /\ seen' = IF job.dedup THEN seen \cup {digest} ELSE seen
  BY DEF Keep
<1> HIDE DEF row
<1>3. /\ IsSeq(rows') /\ DOMAIN rows' = DOMAIN rows \cup {l}
      /\ rows'[l] = row /\ l \notin DOMAIN rows /\ \A i \in DOMAIN rows : rows'[i] = rows[i]
  BY <1>2, AppendFacts DEF Reporting
<1> HIDE DEF l
<1>4. NamedDigests' = NamedDigests
  <2> DEFINE now == {k \in DOMAIN rows : rows[k].kind = "named"}
             then == {k \in DOMAIN rows' : rows'[k].kind = "named"}
  <2>1. then = now
    BY <1>1, <1>3
  <2>2. \A i \in now : rows'[i] = rows[i]
    BY <1>3
  <2> HIDE DEF now, then
  <2>3. {rows'[i].digest : i \in then} = {rows[i].digest : i \in now}
    BY <2>1, <2>2
  <2> QED BY <2>3 DEF NamedDigests, now, then
<1>5. ASSUME job.command = "recover"
      PROVE  /\ NamedDigests \subseteq seen' /\ digest \notin NamedDigests
             /\ \A i \in DOMAIN rows : rows[i].kind = "carved" => rows[i].digest \notin NamedDigests
  BY <1>2, <1>5 DEF Reporting, Duplicate
<1>6. ASSUME job.command = "recover", NEW i \in DOMAIN rows', rows'[i].kind = "carved"
      PROVE  rows'[i].digest \notin NamedDigests
  BY <1>1, <1>3, <1>5, <1>6
<1> QED
  BY <1>3, <1>4, <1>5, <1>6 DEF Reporting
LEMMA CarveNext ==
  ASSUME JobsAssumption, IInv, pc = "carve", todo # <<>>, Stays', Rooms',
         Drop \/ \E path, digest : Keep(path, digest) /\ ~Duplicate(digest)
  PROVE  IInv'
<1>1. cur' = NoFile /\ UNCHANGED <<pc, job>>
  BY DEF Drop, Keep
<1>2. Begun'
  BY <1>1 DEF IInv, Begun
<1>3. Reporting'
  <2>1. CASE Drop
    <3>1. UNCHANGED <<rows, seen>>
      BY <2>1 DEF Drop
    <3> QED BY <1>1, <3>1, RowsStand DEF IInv
  <2>2. CASE \E path, digest : Keep(path, digest) /\ ~Duplicate(digest)
    <3>1. PICK path, digest : Keep(path, digest) /\ ~Duplicate(digest)
      BY <2>2
    <3>2. job.command = "recover" => job.dedup
      BY DEF IInv, Begun, JobsAssumption
    <3> QED BY <1>1, <3>1, <3>2, RowCarved DEF IInv
  <2> QED BY <2>1, <2>2
<1> QED
  BY <1>1, <1>2, <1>3 DEF IInv

LEMMA CarveStep ==
  ASSUME JobsAssumption, IInv, Carve
  PROVE  IInv'
<1>1. pc = "carve" /\ cur = NoFile /\ todo # <<>>
  BY DEF Carve
<1> DEFINE c == Head(todo)
<1>2. CASE /\ todo' = <<>>
           /\ UNCHANGED <<pc, job, volumes, turn, left, regions, seen, rows, faults, treeVars>>
  <2>1. UNCHANGED <<pc, job, volumes, tree, others, made, cur, rows, seen>> /\ todo' = <<>>
    BY <1>2 DEF treeVars
  <2>2. Stays' /\ Rooms'
    BY <2>1, TreeWaits
  <2>3. Begun'
    BY <1>1, <2>1 DEF IInv, Begun
  <2>4. Reporting'
    BY <1>1, <2>1, RowsStand DEF IInv
  <2> QED BY <1>1, <2>1, <2>2, <2>3, <2>4 DEF IInv
<1>3. CASE BeginFile(CarvedDir, CarvedPath(c), c.content) /\ UNCHANGED <<driver, others, made>>
  <2>1. HasNumber(CarvedPath(c)) /\ CarvedPath(c)[Len(CarvedPath(c))].no = 0
    BY CarvedPathFacts
  <2>2. IsSeq(CarvedDir) /\ Len(CarvedDir) >= Len(CarvedDir)
    BY CarvedDirFacts
  <2>3. Room(tree, CarvedDir)
    BY <1>1 DEF IInv, Rooms
  <2> DEFINE out == CarvedDir
             rel == CarvedPath(c)
             content == c.content
  <2>4. /\ IsSeq(out) /\ HasNumber(rel) /\ rel[Len(rel)].no = 0 /\ Len(out) >= Len(CarvedDir)
        /\ Room(tree, out) /\ BeginFile(out, rel, content)
        /\ (pc = "undelete" => out = Head(todo).out /\ rel = Head(todo).rel)
    BY <1>1, <1>3, <2>1, <2>2, <2>3
  <2> HIDE DEF out, rel, content, c
  <2> QED BY <1>1, <1>3, <2>4, BeginStep
<1>4. CASE /\ Drop \/ (Keep(CarvedDir \o CarvedPath(c), c.content) /\ ~Duplicate(c.content))
           /\ UNCHANGED <<tree, others, made>>
  <2>1. UNCHANGED <<pc, job, volumes>>
    BY <1>4 DEF Drop, Keep
  <2>2. Stays' /\ Rooms'
    BY <1>4, <2>1, TreeWaits
  <2> QED BY <1>1, <1>4, <2>2, CarveNext
<1> QED
  BY <1>2, <1>3, <1>4 DEF Carve

LEMMA CarvedStep ==
  ASSUME JobsAssumption, IInv, Carved
  PROVE  IInv'
<1>1. pc = "carve" /\ cur.step = "written"
  BY DEF Carved
<1>2. todo # <<>> /\ Opened /\ Sound
  BY <1>1, Busy DEF Making
<1>3. /\ cur.file \in DOMAIN tree /\ tree[cur.file] = Node("file", cur.content)
      /\ \A i \in DOMAIN made : made[i].file # cur.file
      /\ (cur.file \in DOMAIN others => Folder("_unnamed") \in ToSet(cur.file))
  BY <1>1, <1>2 DEF Opened
<1>4. IsSeq(made) /\ MadeStays(tree, made) /\ OthersStay(tree, others) /\ IsFiniteSet(DOMAIN tree)
  BY DEF IInv, Stays
<1>5. CASE /\ Duplicate(cur.content) /\ tree' = Without(tree, {cur.file}) /\ Drop
           /\ UNCHANGED <<others, made>>
  <2>1. tree[cur.file].kind # "dir"
    BY <1>3 DEF Node
  <2>2. tree' = IF tree[cur.file].kind = "dir" THEN tree ELSE Without(tree, {cur.file})
    BY <1>5, <2>1
  <2>3. MovedOn(tree, tree', cur.file, cur.file)
    BY <1>3, <2>2, RemovedTree
  <2>4. MadeStays(tree', made)
    <3>1. \A i \in DOMAIN made : made[i].file \in DOMAIN tree' /\ tree'[made[i].file] = tree[made[i].file]
      BY <1>3, <1>4, <2>3 DEF MovedOn, MadeStays
    <3>2. DirsStay(tree, tree')
      BY <2>3 DEF MovedOn
    <3> QED BY <1>4, <3>1, <3>2, MadeKept
  <2>5. OthersStay(tree', others)
    BY <1>3, <1>4, <2>3 DEF MovedOn, OthersStay
  <2>6. Stays'
    BY <1>4, <1>5, <2>3, <2>4, <2>5 DEF Stays, MovedOn
  <2>7. UNCHANGED <<pc, job, volumes>>
    BY <1>5 DEF Drop
  <2>8. Rooms'
    <3>1. DirsStay(tree, tree') /\ \A path \in DOMAIN tree' : path \in DOMAIN tree
      BY <1>3, <2>3 DEF MovedOn
    <3> QED BY <1>1, <2>7, <3>1, RoomsStep DEF IInv
  <2> QED BY <1>1, <1>2, <1>5, <2>6, <2>8, CarveNext
<1>6. CASE /\ ~Duplicate(cur.content)
           /\ made' = Append(made, [file |-> cur.file, content |-> cur.content])
           /\ Keep(cur.file, cur.content) /\ UNCHANGED <<tree, others>>
  <2>1. ParentsAreDirs(tree, cur.file)
    <3>1. PICK n \in Nat : cur.file = Numbered(Wanted, n)
      BY <1>2 DEF Opened
    <3>2. HasNumber(Wanted)
      BY <1>2, WantedFacts DEF Sound, Wanted
    <3> QED BY <1>2, <3>1, <3>2, NumberedParents DEF Opened
  <2>2. IsSeq(made') /\ MadeStays(tree, made')
    BY <1>3, <1>4, <1>6, <2>1, OneMore
  <2>3. Stays'
    BY <1>4, <1>6, <2>2 DEF Stays
  <2>4. UNCHANGED <<pc, job, volumes, tree>>
    BY <1>6 DEF Keep
  <2>5. Rooms'
    BY <2>4, RoomsStand DEF IInv
  <2> QED BY <1>1, <1>2, <1>6, <2>3, <2>5, CarveNext
<1> QED
  BY <1>5, <1>6 DEF Carved

(* ----------------------------- The other steps ------------------------- *)

LEMMA NoneYet == IsSeq(<<>>) /\ DOMAIN <<>> = {} /\ IsFiniteSet({})
<1>1. <<>> \in Seq({})
  OBVIOUS
<1>2. DOMAIN <<>> = {}
  OBVIOUS
<1>3. IsFiniteSet({})
  BY FS_EmptySet
<1> QED
  BY <1>1, <1>2, <1>3 DEF IsSeq
LEMMA InitHolds == Init => IInv
<1> SUFFICES ASSUME Init PROVE IInv
  OBVIOUS
<1> USE DEF Init
<1>1. IsSeq(<<>>) /\ DOMAIN <<>> = {} /\ IsFiniteSet({})
  BY NoneYet
<1>2. Stays
  BY <1>1 DEF Stays, MadeStays, OthersStay
<1>3. Begun /\ Rooms
  BY DEF Begun, Rooms
<1>4. Reporting
  <2>1. job.command # "recover"
    OBVIOUS
  <2> QED BY <1>1, <2>1 DEF Reporting
<1> QED
  BY <1>2, <1>3, <1>4 DEF IInv

LEMMA StartStep ==
  ASSUME JobsAssumption, IInv, Start
  PROVE  IInv'
<1>1. PICK j \in Jobs : /\ job' = j /\ tree' = j.earlier /\ others' = j.earlier
                        /\ pc' = CASE j.output_on_source -> "refused" [] ~j.output_on_source -> "detect"
  BY DEF Start
<1>2. pc = "new" /\ UNCHANGED <<turn, todo, rows, cur, made>> /\ pc' \in {"refused", "detect"}
  BY <1>1 DEF Start
<1>3. made = <<>> /\ turn = 0 /\ cur = NoFile /\ todo = <<>>
  BY <1>2 DEF IInv, Begun
<1>4. IsSeq(<<>>) /\ DOMAIN <<>> = {}
  BY NoneYet
<1>5. IsFiniteSet(DOMAIN tree') /\ \A path \in DOMAIN tree' : IsOutputDir(path) => IsDir(tree', path)
  BY <1>1 DEF JobsAssumption, IsDir
<1>6. Stays'
  BY <1>1, <1>2, <1>3, <1>4, <1>5 DEF Stays, MadeStays, OthersStay
<1>7. Begun'
  BY <1>1, <1>2, <1>3 DEF Begun
<1>8. Rooms'
  BY <1>2, <1>5 DEF Rooms, IsDir
<1>9. Reporting'
  <2>1. IsSeq(rows) /\ \A i \in DOMAIN rows : rows[i].kind = "named"
    BY <1>2 DEF IInv, Reporting
  <2> QED BY <1>2, <2>1 DEF Reporting
<1> QED
  BY <1>2, <1>3, <1>6, <1>7, <1>8, <1>9 DEF IInv

\* The directories are made where nothing but directories are.
LEMMA RoomForOutput ==
  ASSUME NEW t, \A path \in DOMAIN t : IsOutputDir(path) => IsDir(t, path)
  PROVE  Room(t, CarvedDir) /\ \A v \in Nat : Room(t, VolumeDir(v))
BY CarvedDirFacts, VolumeDirFacts DEF Room
OutputDirs == \A v \in Nat : \A path \in Prefixes(VolumeDir(v)) : IsOutputDir(path)
LEMMA OutputDirsThen == OutputDirs'
<1>1. OutputDirs
  BY VolumeDirFacts DEF OutputDirs
<1> QED
  BY <1>1, PTL
LEMMA FindStep ==
  ASSUME IInv, FindVolumes
  PROVE  IInv'
<1>1. /\ pc = "detect" /\ pc' \in {"failed", "undelete", "regions"}
      /\ UNCHANGED <<job, turn, todo, rows, seen, tree, others, made, cur>>
  BY DEF FindVolumes, treeVars
<1>2. job \in Jobs /\ made = <<>> /\ turn = 0 /\ cur = NoFile /\ todo = <<>>
  BY <1>1 DEF IInv, Begun
<1>3. \A path \in DOMAIN tree : IsOutputDir(path) => IsDir(tree, path)
  BY <1>1 DEF IInv, Rooms
<1>4. IsSeq(<<>>) /\ DOMAIN <<>> = {}
  BY NoneYet
<1>5. Stays'
  BY <1>1 DEF IInv, Stays
<1>6. Begun'
  BY <1>1, <1>2 DEF Begun
<1>7. Rooms'
  <2>1. CarvedDir' = CarvedDir
    BY <1>1 DEF CarvedDir
  <2>2. Room(tree', CarvedDir')
    BY <1>1, <1>3, <2>1, RoomForOutput
  <2>3. \A v \in Nat : Room(tree', VolumeDir(v)')
    BY <1>1, <1>3, OutputDirsThen DEF OutputDirs, Room
  <2> QED BY <1>1, <2>2, <2>3 DEF Rooms, Room, IsDir
<1>8. Restoring'
  BY <1>1, <1>2, <1>4 DEF Restoring, AskedFor, NamelessRest, Rests
<1>9. Reporting'
  BY <1>1, <1>2, RowsStand DEF IInv
<1> QED
  BY <1>1, <1>2, <1>5, <1>6, <1>7, <1>8, <1>9 DEF IInv

LEMMA VolumeStep ==
  ASSUME JobsAssumption, IInv, NextVolume
  PROVE  IInv'
<1>1. /\ pc = "undelete" /\ cur = NoFile /\ turn' = turn + 1
      /\ UNCHANGED <<pc, job, volumes, rows, seen, tree, others, made, cur>>
  BY DEF NextVolume, treeVars
<1> DEFINE lost == Lost(volumes[turn + 1])
<1>2. todo' = [i \in DOMAIN lost |-> [lost[i] EXCEPT !.out = VolumeDir(turn + 1)]]
  BY DEF NextVolume
<1>3. job \in Jobs /\ turn \in Nat /\ NamelessRest(made)
  BY <1>1 DEF IInv, Begun, Restoring
<1>4. IsSeq(lost) /\ \A i \in DOMAIN lost : lost[i] \in LostFiles(job)
  <2>1. CASE lost = <<>>
    BY <2>1, NoneYet
  <2>2. CASE \E at \in DOMAIN job.lost : lost = job.lost[at]
    <3>1. PICK at \in DOMAIN job.lost : lost = job.lost[at]
      BY <2>2
    <3>2. lost \in Seq(ToSet(lost))
      BY <1>3, <3>1 DEF JobsAssumption
    <3>3. \A i \in DOMAIN lost : lost[i] \in ToSet(lost)
      BY DEF ToSet
    <3>4. ToSet(lost) \subseteq LostFiles(job)
      BY <3>1 DEF LostFiles
    <3> QED BY <3>2, <3>3, <3>4 DEF IsSeq
  <2> QED BY <2>1, <2>2 DEF Lost
<1> HIDE DEF lost
<1>5. DOMAIN lost = 1 .. Len(lost) /\ Len(lost) \in Nat /\ DOMAIN todo' = DOMAIN lost
  BY <1>2, <1>4, SeqFacts
<1>6. IsSeq(todo')
  <2> DEFINE S == {todo'[i] : i \in 1 .. Len(lost)}
  <2>1. todo' \in [1 .. Len(lost) -> S]
    BY <1>2, <1>5
  <2>2. todo' \in Seq(S)
    BY <1>5, <2>1
  <2> QED BY <2>2 DEF IsSeq
<1>7. AskedFor(todo')
  <2> SUFFICES ASSUME NEW i \in DOMAIN todo'
               PROVE  \E f \in LostFiles(job), v \in Nat :
                        todo'[i].out = VolumeDir(v) /\ todo'[i].rel = f.rel /\ todo'[i].nameless = f.nameless
    BY DEF AskedFor
  <2> DEFINE f == lost[i]
             u == VolumeDir(turn + 1)
  <2>1. f \in LostFiles(job) /\ todo'[i] = [f EXCEPT !.out = u]
    BY <1>2, <1>4, <1>5
  <2>2. turn + 1 \in Nat
    BY <1>3
  <2> HIDE DEF f
  <2>3. DOMAIN f = {"out", "rel", "content", "nameless"}
    BY <1>3, <2>1, LostFileFacts
  <2>4. todo'[i].out = u /\ todo'[i].rel = f.rel /\ todo'[i].nameless = f.nameless
    BY <2>1, <2>3
  <2> QED BY <2>1, <2>2, <2>4
<1>8. Restoring'
  <2>1. \A v : VolumeDir(v)' = VolumeDir(v)
    BY <1>1, SameDirs
  <2>2. AskedFor(todo)'
    BY <1>1, <1>7, <2>1 DEF AskedFor
  <2>3. NamelessRest(made)'
    BY <1>1, <1>3, <2>1 DEF NamelessRest, Rests, NameOk
  <2>4. turn' \in Nat
    BY <1>1, <1>3
  <2> QED BY <1>6, <2>2, <2>3, <2>4 DEF Restoring
<1>9. Begun'
  BY <1>1, <1>3 DEF IInv, Begun
<1>10. Stays' /\ Rooms'
  BY <1>1, TreeWaits
<1>11. Reporting'
  BY <1>1, RowsStand DEF IInv
<1> QED
  BY <1>1, <1>8, <1>9, <1>10, <1>11 DEF IInv

\* From the undelete to the carve, or to the report.
LEMMA UndeleteDoneStep ==
  ASSUME IInv, UndeleteDone
  PROVE  IInv'
<1>1. /\ pc = "undelete" /\ cur = NoFile /\ todo = <<>> /\ pc' \in {"regions", "report"}
      /\ UNCHANGED <<job, volumes, turn, todo, rows, seen, tree, others, made, cur>>
  BY DEF UndeleteDone, treeVars
<1>2. Stays'
  BY <1>1 DEF IInv, Stays
<1>3. Begun'
  BY <1>1 DEF IInv, Begun
<1>4. Rooms'
  <2>1. Room(tree, CarvedDir)
    BY <1>1 DEF IInv, Rooms
  <2>2. CarvedDir' = CarvedDir
    BY <1>1, SameDirs
  <2>3. Room(tree', CarvedDir')
    BY <1>1, <2>1, <2>2
  <2> QED BY <1>1, <2>3 DEF Rooms, Room, IsDir
<1>5. Reporting'
  BY <1>1, RowsStand DEF IInv
<1> QED
  BY <1>1, <1>2, <1>3, <1>4, <1>5 DEF IInv
LEMMA ChooseStep ==
  ASSUME IInv, ChooseRegions
  PROVE  IInv'
<1>1. /\ pc = "regions" /\ pc' = "carve"
      /\ UNCHANGED <<job, volumes, turn, todo, rows, seen, tree, others, made, cur>>
  BY DEF ChooseRegions, treeVars
<1>2. cur = NoFile /\ todo = <<>>
  BY <1>1 DEF IInv, Begun
<1>3. Stays'
  BY <1>1 DEF IInv, Stays
<1>4. Begun'
  BY <1>1 DEF IInv, Begun
<1>5. Rooms'
  <2>1. Room(tree, CarvedDir)
    BY <1>1 DEF IInv, Rooms
  <2>2. CarvedDir' = CarvedDir
    BY <1>1, SameDirs
  <2>3. Room(tree', CarvedDir')
    BY <1>1, <2>1, <2>2
  <2> QED BY <1>1, <2>3 DEF Rooms, Room, IsDir
<1>6. Reporting'
  BY <1>1, <1>2, RowsStand DEF IInv
<1> QED
  BY <1>1, <1>2, <1>3, <1>4, <1>5, <1>6 DEF IInv
\* recover starts every region with the digests of the named files.
LEMMA RegionStep ==
  ASSUME IInv, NextRegion
  PROVE  IInv'
<1>1. /\ pc = "carve" /\ cur = NoFile
      /\ UNCHANGED <<pc, job, volumes, turn, rows, tree, others, made, cur>>
      /\ job.command = "recover" => seen' = NamedDigests
  BY DEF NextRegion, treeVars
<1>2. Stays' /\ Rooms'
  BY <1>1, TreeWaits
<1>3. Begun'
  BY <1>1 DEF IInv, Begun
<1>4. Reporting'
  <2>1. NamedDigests' = NamedDigests
    BY <1>1 DEF NamedDigests
  <2>2. job.command = "recover" => NamedDigests' \subseteq seen'
    BY <1>1, <2>1
  <2> QED BY <1>1, <2>1, <2>2 DEF IInv, Reporting
<1> QED
  BY <1>1, <1>2, <1>3, <1>4 DEF IInv
\* The command ends, well or not.
LEMMA EndStep ==
  ASSUME IInv, CarveFails \/ CarveDone \/ Report
  PROVE  IInv'
<1>1. /\ pc \in {"carve", "report"} /\ pc' \in {"failed", "report", "done"}
      /\ UNCHANGED <<job, volumes, turn, todo, rows, seen, tree, others, made, cur>>
  BY DEF CarveFails, CarveDone, Report, treeVars
<1>2. Stays'
  BY <1>1 DEF IInv, Stays
<1>3. Begun' /\ Rooms'
  BY <1>1 DEF IInv, Begun, Rooms
<1>4. Reporting'
  BY <1>1, RowsStand DEF IInv
<1>5. ASSUME cur' # NoFile PROVE Making'
  <2>1. Making
    BY <1>1, <1>5 DEF IInv
  <2>2. Sound' /\ todo' # <<>>
    BY <1>1, <2>1 DEF Making, Sound
  <2>3. cur.step \in {"look", "mkdir"} => Descending'
    BY <1>1, <2>1 DEF Making, Descending, Wanted
  <2>4. cur.step \in {"write", "written"} => Opened'
    BY <1>1, <2>1 DEF Making, Opened, Wanted
  <2> QED BY <1>1, <2>2, <2>3, <2>4 DEF Making
<1> QED
  BY <1>1, <1>2, <1>3, <1>4, <1>5 DEF IInv
LEMMA StutterStep ==
  ASSUME IInv, UNCHANGED vars
  PROVE  IInv'
<1>1. UNCHANGED <<pc, job, volumes, turn, todo, rows, seen, tree, others, made, cur>>
  BY DEF vars, driver, treeVars
<1>2. Stays' /\ Rooms'
  BY <1>1, TreeWaits
<1>3. Begun'
  BY <1>1 DEF IInv, Begun
<1>4. Reporting'
  BY <1>1, RowsStand DEF IInv
<1>5. pc' = "undelete" => Restoring'
  BY <1>1, RestoringStands DEF IInv
<1>6. ASSUME cur' # NoFile PROVE Making'
  <2>1. Making
    BY <1>1, <1>6 DEF IInv
  <2>2. Sound' /\ todo' # <<>>
    BY <1>1, <2>1 DEF Making, Sound
  <2>3. pc \in {"undelete", "carve"} => Len(cur'.out) >= Len(CarvedDir')
    <3>1. CarvedDir' = CarvedDir
      BY <1>1, SameDirs
    <3> QED BY <1>1, <2>1, <3>1 DEF Making
  <2>4. cur.step \in {"look", "mkdir"} => Descending'
    BY <1>1, <2>1 DEF Making, Descending, Wanted
  <2>5. cur.step \in {"write", "written"} => Opened'
    BY <1>1, <2>1 DEF Making, Opened, Wanted
  <2> QED BY <1>1, <2>1, <2>2, <2>3, <2>4, <2>5 DEF Making
<1> QED
  BY <1>1, <1>2, <1>3, <1>4, <1>5, <1>6 DEF IInv

(* ------------------------------ The theorems --------------------------- *)

LEMMA InvariantStep ==
  ASSUME IInv, [Next]_vars
  PROVE  IInv'
<1>0. JobsAssumption
  BY JobsAssumption
<1>1. CASE Start
  BY <1>0, <1>1, StartStep
<1>2. CASE FindVolumes
  BY <1>2, FindStep
<1>3. CASE NextVolume
  BY <1>0, <1>3, VolumeStep
<1>4. CASE Restore
  BY <1>0, <1>4, RestoreStep
<1>5. CASE Restored
  BY <1>0, <1>5, RestoredStep
<1>6. CASE RestoredNameless
  BY <1>0, <1>6, NamelessStep
<1>7. CASE Skip
  BY <1>0, <1>7, SkipStep
<1>8. CASE UndeleteDone
  BY <1>8, UndeleteDoneStep
<1>9. CASE ChooseRegions
  BY <1>9, ChooseStep
<1>10. CASE NextRegion
  BY <1>10, RegionStep
<1>11. CASE Carve
  BY <1>0, <1>11, CarveStep
<1>12. CASE Carved
  BY <1>0, <1>12, CarvedStep
<1>13. CASE CarveFails \/ CarveDone \/ Report
  BY <1>13, EndStep
<1>14. CASE MakeFile
  BY <1>14, MakeFileStep
<1>15. CASE Meddle
  BY <1>0, <1>15, MeddleStep
<1>16. CASE Finished \/ UNCHANGED vars
  <2>1. UNCHANGED vars
    BY <1>16 DEF Finished
  <2> QED BY <2>1, StutterStep
<1> QED
  BY <1>1, <1>2, <1>3, <1>4, <1>5, <1>6, <1>7, <1>8, <1>9, <1>10, <1>11, <1>12, <1>13, <1>14,
     <1>15, <1>16 DEF Next
LEMMA InvariantGives == IInv => RestoredAndKept
<1> SUFFICES ASSUME IInv PROVE RestoredAndKept
  OBVIOUS
<1>1. MadeStays(tree, made) /\ OthersStay(tree, others) /\ Reporting
  BY DEF IInv, Stays
<1>2. \A i \in DOMAIN made :
        /\ Occupied(tree, made[i].file) /\ tree[made[i].file] = Node("file", made[i].content)
        /\ \A k \in DOMAIN made : made[k].file = made[i].file => k = i
        /\ \A n \in 1 .. Len(made[i].file) - 1 : tree[SubSeq(made[i].file, 1, n)].kind = "dir"
  BY <1>1 DEF MadeStays, Occupied, ParentsAreDirs, IsDir
<1>3. \A p \in DOMAIN others :
        Folder("_unnamed") \notin ToSet(p) => Occupied(tree, p) /\ tree[p] = others[p]
  BY <1>1 DEF OthersStay, Occupied
<1>4. job.command = "recover" =>
        \A i \in DOMAIN rows : rows[i].kind = "carved" => rows[i].digest \notin NamedDigests
  BY <1>1 DEF Reporting
<1> QED
  BY <1>2, <1>3, <1>4 DEF RestoredAndKept

\* What a run has restored or carved stays where it is and as it was written,
\* each file its own, below directories only, and no carved file of `recover`
\* is a copy of a named one; what an earlier run left or other programs put
\* there meanwhile stays too, but for the folder of the nameless, whatever
\* the disks and their lost files, and whatever fails to be written
\* (create_output_file, rename_by_content, write_file of the carver).  Jobs are
\* those of JobsAssumption.
THEOREM RestoredFilesStay == Spec => []RestoredAndKept
<1>1. Init => IInv
  BY InitHolds
<1>2. IInv /\ [Next]_vars => IInv'
  BY InvariantStep
<1>3. IInv => RestoredAndKept
  BY InvariantGives
<1> QED
  BY <1>1, <1>2, <1>3, PTL DEF Spec

=============================================================================
