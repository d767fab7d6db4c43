----------------------------- MODULE IsoExtract -----------------------------
(***************************************************************************)
(* recover_deleted of src/src/iso9660.rs: every file of a disc is copied   *)
(* out, by a walk over the directory records that a damaged disc can make  *)
(* run in circles or break off.                                            *)
(***************************************************************************)
EXTENDS UndeleteRun

CONSTANTS MaxDepth, MaxEntries, MaxCeFollow   \* MAX_DEPTH, MAX_ENTRIES, MAX_CE_FOLLOW
ASSUME IsoAssumption == "" \notin Dirs   \* "" is where the record of a file leads

(* ------------------------ How the disc was written --------------------- *)

\* Directories are known by their place; a name may go on in an area of its
\* own, which a damaged disc can chain to itself.
Areas == [text |-> [frag |-> TRUE, complete |-> TRUE, next |-> "none"],
          loop |-> [frag |-> FALSE, complete |-> FALSE, next |-> "loop"],
          none |-> [frag |-> FALSE, complete |-> TRUE, next |-> "none"]]
IsoFormat ==
  /\ pc = "new" /\ fs = "iso" /\ pc' = "life"
  /\ \E joliet \in BOOLEAN : meta' = [joliet |-> joliet, dirs |-> [d \in Dirs \cup {Root} |-> <<>>]]
  /\ UNCHANGED <<fs, disk, lives, alive, ops, options, w, reports, faults>>
Entry(name, to, at, n, more, area) ==
  [name |-> name, to |-> to, at |-> at, n |-> n, more |-> more, area |-> area]
Broken(records) == records # <<>> /\ Last(records).more
Add(d, records) == meta' = [meta EXCEPT !.dirs[d] = @ \o records]

\* A file in one extent, or two records of one file, the second of which may
\* never have been written.
IsoFile ==
  /\ Doing("iso")
  /\ \E x \in Files \ Born, d \in LiveDirs, hand \in Hands,
        area \in IF meta.joliet THEN {"none"} ELSE {"text", "loop"},
        parts \in {"one", "two", "cut"} :
       LET ahead == {b \in Free : b >= hand}
           first == Min(ahead)
           bl    == [k \in 1 .. Size[x] |-> first + k - 1]
           n     == IF parts = "one" THEN Size[x] ELSE 1
           rest  == Size[x] - n
       IN  /\ ahead # {} /\ Size[x] > 0 /\ ToSet(bl) \subseteq Free /\ ~Broken(meta.dirs[d])
           /\ parts = "one" \/ rest > 0
           /\ Add(d, <<Entry(x, "", first, n, parts # "one", area)>> \o
                     IF parts = "two" THEN <<Entry(x, "", first + n, rest, FALSE, area)>> ELSE <<>>)
           /\ lives' = [lives EXCEPT ![x] = [key |-> first, since |-> Now, path |-> Append(PathOf(d), x),
                          blocks |-> IF parts = "cut" THEN <<first>> ELSE bl]]
           /\ disk' = Filled(x, bl)
           /\ alive' = alive \cup {x}
  /\ LifeOnly
\* A folder, or the record of one that lies above it.
IsoFolder ==
  /\ Doing("iso")
  /\ \E x \in Dirs, d \in LiveDirs :
       /\ IF x \in alive THEN x \in ToSet(PathOf(d)) /\ UNCHANGED <<lives, alive>>
          ELSE /\ lives' = [lives EXCEPT ![x] = [None EXCEPT !.path = Append(PathOf(d), x)]]
               /\ alive' = alive \cup {x}
       /\ Add(d, <<Entry(x, x, 0, 0, FALSE, IF meta.joliet THEN "none" ELSE "text")>>)
  /\ UNCHANGED disk /\ LifeOnly

(* ------------------------------ The walk ------------------------------- *)

\* rock_ridge_name: the fragments of the areas it runs through, as many as
\* are followed.
ScanArea(acc, n) ==
  IF acc.done THEN acc
  ELSE LET a == Areas[acc.at]
       IN  [name |-> acc.name \/ a.frag, at |-> a.next, done |-> a.complete]
HasRockRidgeName(rec) ==
  FoldLeft(ScanArea, [name |-> FALSE, at |-> rec.area, done |-> FALSE],
           [n \in 1 .. MaxCeFollow + 1 |-> n]).name
\* Joliet and Rock Ridge have the whole name, the ISO identifier a short one.
Short == "SHORT.;1"
NameOf(rec) == IF meta.joliet \/ HasRockRidgeName(rec) THEN rec.name ELSE Short

IsoStart(d, path) == [to |-> d, path |-> path]
IsoRecover ==
  Started("iso", [step |-> "open", stack |-> <<IsoStart(Root, <<>>)>>, visited |-> {}, entries |-> 0])

\* A directory is popped: walked before, one too many, or read.
WasVisited(d) == d \in w.visited
IsoOpen ==
  /\ Reading("iso", "open") /\ w.stack # <<>>
  /\ LET dir  == Last(w.stack)
         next == [w EXCEPT !.stack = Front(@), !.visited = @ \cup {dir.to}]
     IN  IF WasVisited(dir.to) \/ w.entries >= MaxEntries THEN Walking(next)
         ELSE Walking([step |-> "read", stack |-> next.stack, visited |-> next.visited,
                       entries |-> w.entries, path |-> dir.path, records |-> meta.dirs[dir.to],
                       pending |-> <<>>])

\* recover_file: every extent must lie inside the volume before one is read.
Inside(extents) == \A i \in DOMAIN extents : extents[i].at + extents[i].n - 1 <= SourceEnd
Total(extents) == FoldFunction(+, 0, [i \in DOMAIN extents |-> extents[i].n])
Concatenated(extents) == FlattenSeq([i \in DOMAIN extents |-> ReadRun(extents[i].at, extents[i].n)])
RecoverFile(path, extents) ==
  IF Last(path) \notin wanted \cup {Short} THEN UNCHANGED <<reports, faults>>
  ELSE IF ~Inside(extents) THEN Skip(extents[1].at, path, Total(extents))
  ELSE Deliver(extents[1].at, path, Total(extents), Concatenated(extents), TRUE)
Flush(pending) == RecoverFile(pending[1].path, pending[1].extents)

\* The next record of the directory.
IsoContinues(rec) == w.pending # <<>> /\ rec.to = ""
IsoRecord ==
  /\ Reading("iso", "read") /\ w.records # <<>>
  /\ LET rec  == Head(w.records)
         here == [at |-> rec.at, n |-> rec.n]
         path == Append(w.path, NameOf(rec))
         next == [w EXCEPT !.records = Tail(@), !.entries = @ + 1]
     IN  IF IsoContinues(rec)
           THEN LET more == <<[w.pending[1] EXCEPT !.extents = Append(@, here)]>>
                IN  IF rec.more THEN w' = [next EXCEPT !.pending = more] /\ UNCHANGED <<reports, faults>>
                    ELSE w' = [next EXCEPT !.pending = <<>>] /\ Flush(more)
         ELSE IF rec.to # ""
           THEN /\ w' = [next EXCEPT !.pending = <<>>,
                           !.stack = IF Len(w.path) + 1 < MaxDepth THEN Append(@, IsoStart(rec.to, path))
                                     ELSE @]
                /\ IF w.pending # <<>> THEN Flush(w.pending) ELSE UNCHANGED <<reports, faults>>
         ELSE IF rec.more
           THEN /\ w' = [next EXCEPT !.pending = <<[path |-> path, extents |-> <<here>>]>>]
                /\ UNCHANGED <<reports, faults>>
         ELSE w' = next /\ RecoverFile(path, <<here>>)
  /\ UNCHANGED <<volume, pc, options>>

\* The end of the directory, with a file whose last record never came.
IsoClose ==
  /\ Reading("iso", "read") /\ w.records = <<>>
  /\ w' = [step |-> "open", stack |-> w.stack, visited |-> w.visited, entries |-> w.entries]
  /\ IF w.pending # <<>> THEN Flush(w.pending) ELSE UNCHANGED <<reports, faults>>
  /\ UNCHANGED <<volume, pc, options>>

IsoEnd == Reading("iso", "open") /\ w.stack = <<>> /\ Stop

IsoLife == IsoFormat \/ IsoFile \/ IsoFolder
IsoStep == IsoOpen \/ IsoRecord \/ IsoClose \/ IsoEnd

(* ------------------------------ Correctness ---------------------------- *)

\* Every file of a disc is there to be extracted, if its folder is not too deep.
IsoSurvives(x) == Len(lives[x].path) <= MaxDepth
IsoPathSurvives(x) ==
  meta.joliet \/ \E d \in DOMAIN meta.dirs : \E i \in DOMAIN meta.dirs[d] :
    meta.dirs[d][i].name = x /\ meta.dirs[d][i].area = "text"
=============================================================================
