---------------------------- MODULE HfsUndelete ----------------------------
(***************************************************************************)
(* recover_deleted of src/src/hfsplus.rs: stale file records in the free   *)
(* space of the catalog's leaf nodes, then those of the leaf nodes that    *)
(* the journal still holds, and each file's extents with the ones that     *)
(* overflowed.                                                             *)
(*                                                                         *)
(* One leaf node, whose records all have one length: the passes over the   *)
(* nodes do the same for each.                                             *)
(***************************************************************************)
EXTENDS UndeleteRun

CONSTANTS
  InlineExtents,   \* 8: the extents a catalog record holds
  MaxFolders,      \* 256: resolve_path's guard
  Copies           \* the copies of the node the journal holds
ASSUME HfsAssumption == Copies \in Nat
RootFolder == 2
FolderId(d) == IF d = Root THEN RootFolder ELSE lives[d].key
NextId == RootFolder + Cardinality(Born) + 1
EmptyNode == [live |-> <<>>, slack |-> <<>>]

(* ----------------------- What the driver does to it -------------------- *)

HfsFormat ==
  /\ pc = "new" /\ fs = "hfs" /\ pc' = "life"
  /\ meta' = [node |-> EmptyNode, journal |-> [s \in 1 .. Copies |-> EmptyNode], head |-> 1,
              overflow |-> {}]
  /\ UNCHANGED <<fs, disk, lives, alive, ops, options, w, reports, faults>>

\* The node as it becomes goes to the journal first, a ring of copies.
Journaled(node, overflow) ==
  meta' = [node |-> node, overflow |-> overflow,
           journal |-> [meta.journal EXCEPT ![meta.head] = node], head |-> (meta.head % Copies) + 1]
FileRecordOf(x, blocks) ==
  LET runs == RunsOf(blocks)
  IN  [kind |-> "file", id |-> lives'[x].key, name |-> x, size |-> Len(blocks), mod_date |-> Now,
       parent |-> IF Len(lives'[x].path) = 1 THEN RootFolder
                  ELSE lives[lives'[x].path[Len(lives'[x].path) - 1]].key,
       extents |-> SubSeq(runs, 1, Min({InlineExtents, Len(runs)}))]
\* The extents that do not fit, each under the block of the file it begins at.
OverflowOf(x, blocks) ==
  LET runs == RunsOf(blocks)
      start(i) == FoldFunctionOnSet(+, 0, [j \in DOMAIN runs |-> runs[j].n], 1 .. i - 1)
  IN  {[id |-> lives'[x].key, key |-> start(i), runs |-> <<runs[i]>>] :
         i \in InlineExtents + 1 .. Len(runs)}

\* A record is put in, moving the later ones over the oldest stale bytes.
HfsCreate ==
  /\ Doing("hfs")
  /\ \E x \in Names \ Born, d \in LiveDirs, hand \in Hands, inFront \in BOOLEAN :
       LET n   == IF x \in Dirs THEN 0 ELSE Max({1, Size[x] - 1})
           bl  == Allocate(hand, n)
           rec == IF x \in Dirs
                    THEN [kind |-> "folder", id |-> NextId, name |-> x, parent |-> FolderId(d)]
                  ELSE FileRecordOf(x, bl)
       IN  /\ x \in Dirs => hand = Min(Hands)
           /\ x \notin Dirs => bl # <<>>
           /\ lives' = [lives EXCEPT ![x] = [key |-> NextId, path |-> Append(PathOf(d), x),
                                             blocks |-> bl, since |-> Now]]
           /\ Journaled([live |-> IF inFront THEN <<rec>> \o meta.node.live
                                  ELSE Append(meta.node.live, rec),
                         slack |-> IF meta.node.slack = <<>> THEN <<>> ELSE Tail(meta.node.slack)],
                        meta.overflow \cup IF x \in Dirs THEN {} ELSE OverflowOf(x, bl))
           /\ disk' = Filled(x, bl)
           /\ alive' = alive \cup {x}
  /\ LifeOnly

\* A file grows by a block.
HfsGrow ==
  /\ Doing("hfs")
  /\ \E x \in alive \cap Files, first \in Free :
       LET bl == Append(lives[x].blocks, first)
       IN  /\ Len(lives[x].blocks) < Size[x]
           /\ lives' = [lives EXCEPT ![x].blocks = bl]
           /\ Journaled([meta.node EXCEPT
                           !.live = [i \in DOMAIN @ |-> IF @[i].id = lives[x].key
                                                          THEN FileRecordOf(x, bl) ELSE @[i]]],
                        {o \in meta.overflow : o.id # lives[x].key} \cup OverflowOf(x, bl))
           /\ disk' = Filled(x, bl)
  /\ UNCHANGED alive /\ LifeOnly

\* A record is taken out: the later ones move down, and the bytes of the last
\* stay behind.  Power lost on the way leaves overflow extents behind, or some.
HfsDelete ==
  /\ Doing("hfs")
  /\ \E x \in alive : \E kept \in SUBSET {o \in meta.overflow : o.id = lives[x].key} :
     \E i \in DOMAIN meta.node.live :
       /\ \A y \in alive : x \notin ToSet(Front(lives[y].path))
       /\ meta.node.live[i].id = lives[x].key
       /\ Journaled([live  |-> RemoveAt(meta.node.live, i),
                     slack |-> <<Last(meta.node.live)>> \o meta.node.slack],
                    {o \in meta.overflow : o.id # lives[x].key} \cup kept)
       /\ alive' = alive \ {x}
  /\ UNCHANGED <<disk, lives>> /\ LifeOnly

(* ------------------------------- The passes ---------------------------- *)

FoldersIn(records) == SelectSeq(records, LAMBDA r : r.kind = "folder")
Ids(records)       == {records[i].id : i \in DOMAIN records}
FilesOf(records)   == {i \in DOMAIN records : records[i].kind = "file"}

\* Pass 1: the files still there.
LiveIds == {meta.node.live[i].id : i \in FilesOf(meta.node.live)}
\* Pass 2: the first stale record of each file that is not.
Stale(i) ==
  LET slack == meta.node.slack
  IN  /\ i \in FilesOf(slack) /\ slack[i].id \notin LiveIds
      /\ \A j \in FilesOf(slack) : j < i => slack[j].id # slack[i].id
FreeSpaceIds == {meta.node.slack[i].id : i \in {i \in FilesOf(meta.node.slack) : Stale(i)}}
\* Pass 3: the newest journaled record of each file in neither; of two of one
\* age the one read later.  A place in the journal is a copy and a record of it.
JournalFiles == UNION {{s} \X FilesOf(meta.journal[s].live) : s \in 1 .. Copies}
InJournal(p) == meta.journal[p[1]].live[p[2]]
ReadBefore(p, q) == p[1] < q[1] \/ (p[1] = q[1] /\ p[2] <= q[2])
Newest(p) == \A q \in JournalFiles :
  InJournal(q).id = InJournal(p).id =>
    \/ InJournal(q).mod_date < InJournal(p).mod_date
    \/ InJournal(q).mod_date = InJournal(p).mod_date /\ ReadBefore(q, p)
FromJournal_live ==
  {InJournal(p) : p \in {p \in JournalFiles : InJournal(p).id \notin FreeSpaceIds /\ Newest(p)}}
FromJournal ==
  {InJournal(p) : p \in {p \in JournalFiles :
                           InJournal(p).id \notin LiveIds \cup FreeSpaceIds /\ Newest(p)}}

\* The folders: the live ones, then the first copy of a deleted one.
FolderRecords ==
  FoldersIn(meta.node.live) \o FlattenSeq([s \in 1 .. Copies |-> FoldersIn(meta.journal[s].live)])
HfsRecover == Started("hfs", [step |-> "slack", at |-> 1])

\* resolve_path: up to the root, an unknown folder, or the guard.
Up_unreversed(acc, n) ==
  LET here == SelectSeq(FolderRecords, LAMBDA r : r.id = acc.at)
  IN  IF acc.at = RootFolder \/ here = <<>> THEN acc
      ELSE [at |-> here[1].parent, path |-> Append(acc.path, here[1].name)]
Up(acc, n) ==
  LET here == SelectSeq(FolderRecords, LAMBDA r : r.id = acc.at)
  IN  IF acc.at = RootFolder \/ here = <<>> THEN acc
      ELSE [at |-> here[1].parent, path |-> <<here[1].name>> \o acc.path]
FolderPath(id) == FoldLeft(Up, [at |-> id, path |-> <<>>], [n \in 1 .. MaxFolders |-> n]).path

\* An overflow record continues the file only where the extents so far end.
AddOverflow(acc, o) ==
  IF acc.stopped \/ o.key # acc.covered THEN [acc EXCEPT !.stopped = TRUE]
  ELSE [acc EXCEPT !.covered = @ + o.runs[1].n, !.runs = @ \o o.runs]
AllExtents(rec) ==
  LET extra == SortSeq(SetToSeq({o \in meta.overflow : o.id = rec.id}), LAMBDA a, b : a.key < b.key)
  IN  FoldLeft(AddOverflow,
               [covered |-> FoldFunction(+, 0, [i \in DOMAIN rec.extents |-> rec.extents[i].n]),
                runs |-> rec.extents, stopped |-> FALSE], extra).runs
\* read_file_data: nothing, unless the extents hold the whole file.
ReadExtent(acc, run) ==
  LET take == Min({run.n, acc.left})
      got  == ReadRun(run.at, take)
  IN  IF acc.stopped \/ acc.left = 0 THEN acc
      ELSE [out |-> acc.out \o got, left |-> acc.left - Len(got), stopped |-> Len(got) < take]
HfsData(rec) ==
  FoldLeft(ReadExtent, [out |-> <<>>, left |-> rec.size, stopped |-> FALSE], AllExtents(rec))

Restore(rec) ==
  LET data == HfsData(rec)
  IN  IF rec.name \notin wanted THEN UNCHANGED <<reports, faults>>
      ELSE Deliver(rec.id, Append(FolderPath(rec.parent), rec.name), rec.size, data.out, data.left = 0)

\* The candidates, those of the free space in the order they lie in, then
\* those of the journal by CNID.
HfsSlack ==
  /\ Reading("hfs", "slack") /\ w.at \in DOMAIN meta.node.slack
  /\ w' = [w EXCEPT !.at = @ + 1]
  /\ IF Stale(w.at) THEN Restore(meta.node.slack[w.at]) ELSE UNCHANGED <<reports, faults>>
  /\ UNCHANGED <<volume, pc, options>>
HfsJournal ==
  /\ Reading("hfs", "slack") /\ w.at \notin DOMAIN meta.node.slack
  /\ Walking([step |-> "journal", todo |-> FromJournal])
HfsFile ==
  /\ Reading("hfs", "journal")
  /\ \E rec \in w.todo :
       /\ \A other \in w.todo : rec.id <= other.id
       /\ w' = [w EXCEPT !.todo = @ \ {rec}]
       /\ Restore(rec)
  /\ UNCHANGED <<volume, pc, options>>

HfsEnd == Reading("hfs", "journal") /\ w.todo = {} /\ Stop

HfsLife == HfsFormat \/ HfsCreate \/ HfsGrow \/ HfsDelete
HfsStep == HfsSlack \/ HfsJournal \/ HfsFile \/ HfsEnd

(* ------------------------------ Correctness ---------------------------- *)

\* A record of x as it last was is left, none older is found before it, and
\* its overflow extents are all there.
Whole(x, r) == r.id = lives[x].key /\ r.size = Len(lives[x].blocks)
HfsSurvives(x) ==
  LET stale == {i \in FilesOf(meta.node.slack) : meta.node.slack[i].id = lives[x].key}
      runs  == RunsOf(lives[x].blocks)
  IN  /\ IF stale # {} THEN Whole(x, meta.node.slack[Min(stale)])
         ELSE \E p \in JournalFiles : Whole(x, InJournal(p))
      /\ Cardinality({o \in meta.overflow : o.id = lives[x].key})
           = Max({0, Len(runs) - InlineExtents})
\* Its folders are there, or in the journal.
HfsPathSurvives(x) == \A d \in ToSet(Front(lives[x].path)) : lives[d].key \in Ids(FolderRecords)
=============================================================================
