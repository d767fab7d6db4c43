----------------------------- MODULE ExtUndelete -----------------------------
(***************************************************************************)
(* recover_deleted of src/src/ext4.rs: the walk over the directories, live *)
(* and deleted, that finds the names of deleted inodes, and the choice of  *)
(* the block map to recover each inode from: its own, or one of the copies *)
(* the journal still holds.                                                *)
(*                                                                         *)
(* One block holds the inode table and each directory has one block, so a  *)
(* journal entry is a copy of a metadata block; the journal is a ring of   *)
(* transactions, read in the order they lie in.                            *)
(***************************************************************************)
EXTENDS UndeleteRun

CONSTANTS
  Inodes, JournalSlots,     \* inode 0 is the root's here; files have 1 .. Inodes
  Direct, PerBlock,         \* direct pointers of an inode, pointers in a block
  MaxDirDepth,              \* MAX_DIR_DEPTH
  SparseIndirect            \* whether a whole indirect block of a file may be a hole
ASSUME ExtAssumption == Inodes \in Nat

Ino == 0 .. Inodes
NoMap == [kind |-> "none"]
Unused == [mode |-> "none", links |-> 0, dtime |-> 0, ctime |-> 0, size |-> 0,
           extents |-> FALSE, map |-> NoMap]
\* The table, and each directory's block.
TableBlock == -1
NoTransaction == [tags |-> {}, table |-> <<>>, dirs |-> <<>>]
InodeOf(d) == IF d = Root THEN 0 ELSE lives[d].key

(* ------------------------ What the kernel does to it ------------------- *)

ExtFormat ==
  /\ pc = "new" /\ fs = "ext" /\ pc' = "life"
  /\ meta' = [table |-> [i \in Ino |-> IF i = 0 THEN [Unused EXCEPT !.mode = "dir", !.links = 1, !.map = [kind |-> "dir"]]
                                       ELSE Unused],
              dirs |-> [i \in Ino |-> <<>>],        \* by the inode of the directory
              journal |-> [s \in 1 .. JournalSlots |-> NoTransaction],
              head |-> 1]
  /\ UNCHANGED <<fs, disk, lives, alive, ops, options, w, reports, faults>>

\* The metadata blocks a change writes go to the journal first, over the
\* oldest transaction once the ring is full.
Commit(table, dirs, changed) ==
  meta' = [table |-> table, dirs |-> dirs,
           journal |-> [meta.journal EXCEPT ![meta.head] =
                          [tags |-> changed, table |-> table, dirs |-> dirs]],
           head |-> (meta.head % JournalSlots) + 1]

\* The pointers of an ext2/3 inode: direct ones, then those of one single and
\* one double indirect block; a block that would hold only holes is not there.
Piece(all, lo, n) == SubSeq(all, lo + 1, Min({lo + n, Len(all)}))
Indirect(piece) == IF \A k \in DOMAIN piece : piece[k] = 0 THEN <<>> ELSE piece
Pointers(all) ==
  [kind |-> "pointers", direct |-> Piece(all, 0, Direct),
   single |-> Indirect(Piece(all, Direct, PerBlock)),
   double |-> Indirect(Piece(all, Direct + PerBlock, PerBlock))]
HasIndirectHole(all) ==
  \/ Len(all) > Direct /\ Indirect(Piece(all, Direct, PerBlock)) = <<>>
  \/ Len(all) > Direct + PerBlock /\ Indirect(Piece(all, Direct + PerBlock, PerBlock)) = <<>>
\* An extent for each run with a place.
Extents(all) ==
  LET runs  == RunsOf(all)
      start(i) == FoldFunctionOnSet(+, 0, [j \in DOMAIN runs |-> runs[j].n], 1 .. i - 1)
  IN  [kind |-> "extents",
       of |-> {[logical |-> start(i), at |-> runs[i].at, n |-> runs[i].n] :
                 i \in {j \in DOMAIN runs : runs[j].at # 0}}]
FreeInode == Min({i \in Ino : meta.table[i].links = 0})

ExtCreate ==
  /\ Doing("ext") /\ \E i \in Ino : meta.table[i].links = 0
  /\ \E x \in Names \ Born, d \in LiveDirs, hand \in Hands, extents \in BOOLEAN :
       LET n   == BlocksIn(x)
           bl  == Allocate(hand, n)
           all == IF x \in Dirs \/ bl = <<>> THEN <<>> ELSE Layout(x, bl)
           i   == FreeInode
           new == [mode |-> IF x \in Dirs THEN "dir" ELSE "reg", links |-> 1, dtime |-> 0,
                   ctime |-> Now, size |-> IF x \in Dirs THEN 1 ELSE Size[x],
                   extents |-> extents,
                   map |-> IF x \in Dirs THEN [kind |-> "dir"]
                           ELSE IF extents THEN Extents(all) ELSE Pointers(all)]
           into == meta.dirs[InodeOf(d)]
       IN  /\ x \in Dirs => extents /\ hand = Min(Hands)
           /\ x \notin Dirs => bl # <<>>
           /\ SparseIndirect \/ extents \/ ~HasIndirectHole(all)
           /\ Commit([meta.table EXCEPT ![i] = new],
                     [meta.dirs EXCEPT ![InodeOf(d)] = Append(into, [ino |-> i, name |-> x]),
                                       ![i] = IF x \in Dirs THEN <<>> ELSE @],
                     {TableBlock, InodeOf(d)} \cup IF x \in Dirs THEN {i} ELSE {})
           /\ lives' = [lives EXCEPT ![x] = [key |-> i, path |-> Append(PathOf(d), x),
                                              blocks |-> all, since |-> Now]]
           /\ alive' = alive \cup {x}
           /\ disk' = Filled(x, all)
  /\ LifeOnly

\* Deleting an inode empties its map (not on ext2); newer kernels zero the
\* entry, older ones leave it in the slack of the one before it.
ExtDelete ==
  /\ Doing("ext")
  /\ \E x \in alive, keepMap, zeroEntry \in BOOLEAN :
       LET i == lives[x].key
           d == IF Len(lives[x].path) = 1 THEN 0 ELSE lives[lives[x].path[Len(lives[x].path) - 1]].key
       IN  /\ \A y \in alive : x \notin ToSet(Front(lives[y].path))
           /\ keepMap => x \in Files /\ ~meta.table[i].extents
           /\ Commit([meta.table EXCEPT ![i].links = 0, ![i].dtime = Now, ![i].ctime = Now,
                                        ![i].map = IF keepMap THEN @ ELSE NoMap],
                     [meta.dirs EXCEPT ![d] = SelectSeq(@, LAMBDA e :
                                                ~(zeroEntry /\ e.ino = i /\ e.name = x))],
                     {TableBlock, d})
           /\ alive' = alive \ {x}
  /\ UNCHANGED <<disk, lives>> /\ LifeOnly

(* ------------------------------ The journal ---------------------------- *)

HasBlockMap(inode) == inode.map.kind # "none"
\* journaled_copies: of a metadata block, in the order of the journal.
JournaledCopies(block) ==
  SelectSeq([s \in 1 .. JournalSlots |-> meta.journal[s]], LAMBDA t : block \in t.tags)

\* journaled_inode: the copy with a map and the latest change time.
Later_any(best, inode) == IF HasBlockMap(inode) THEN <<inode>> ELSE best
Later(best, inode) ==
  IF HasBlockMap(inode) /\ (best = <<>> \/ inode.ctime >= best[1].ctime) THEN <<inode>> ELSE best
JournaledInode(i) ==
  LET copies == JournaledCopies(TableBlock)
  IN  FoldLeft(Later, <<>>, [k \in DOMAIN copies |-> copies[k].table[i]])
ChooseInode(i) == IF HasBlockMap(meta.table[i]) THEN <<meta.table[i]>> ELSE JournaledInode(i)

(* ----------------------------- Its block map --------------------------- *)

\* map_indirect: the pointers in order, as far as the file needs them; an
\* indirect block that is not there adds none.
MapIndirect(map, n) ==
  LET all == map.direct \o map.single \o map.double
  IN  SubSeq(all, 1, Min({n, Len(all)}))
MapExtents(map, n) ==
  [l \in 1 .. n |->
     LET over == {e \in map.of : e.logical < l /\ l <= e.logical + e.n}
     IN  IF over = {} THEN 0
         ELSE LET e == CHOOSE e \in over : TRUE IN e.at + l - 1 - e.logical]
MapBlocks(inode, n) ==
  IF inode.extents THEN MapExtents(inode.map, n) ELSE MapIndirect(inode.map, n)

\* read_file_data: block by block to the first the source does not have.
ReadFileData(inode) ==
  LET blocks == MapBlocks(inode, inode.size)
      good   == {k \in 0 .. Len(blocks) : \A j \in 1 .. k : blocks[j] <= SourceEnd}
  IN  [k \in 1 .. Max(good) |-> IF blocks[k] = 0 THEN Zero ELSE disk[blocks[k]]]

(* ------------------------------- The walk ------------------------------ *)

Folder(i, path) == [ino |-> i, path |-> path]
ExtRecover ==
  Started("ext", [step |-> "walk", stack |-> <<Folder(0, <<>>)>>, visited |-> {}, found |-> {}])

\* A directory is read through its own inode, or through the journaled one if
\* it was deleted.
DirInode(i) ==
  IF meta.table[i].mode = "dir" /\ HasBlockMap(meta.table[i]) THEN <<meta.table[i]>>
  ELSE SelectSeq(JournaledInode(i), LAMBDA inode : inode.mode = "dir")

\* Its entries, with those of the journaled copies, the last of them first;
\* an entry seen twice counts once.
Entries(i) ==
  LET copies == JournaledCopies(i)
      all    == meta.dirs[i] \o FlattenSeq(Reverse([k \in DOMAIN copies |-> copies[k].dirs[i]]))
  IN  SelectSeq([k \in DOMAIN all |-> [e |-> all[k], new |-> \A j \in 1 .. k - 1 : all[j] # all[k]]],
                LAMBDA x : x.new)
IsDeleted(inode) == inode.links = 0 \/ inode.dtime # 0

\* One directory of walk: child directories are pushed, deleted files are
\* found under the first name seen for their inode.
NewlyFound(found, below) ==
  LET inos == {below[k].ino : k \in DOMAIN below}
      lost == {i \in inos : meta.table[i].mode = "reg" /\ IsDeleted(meta.table[i])}
      first(i) == Min({k \in DOMAIN below : below[k].ino = i})
  IN  {Folder(i, below[first(i)].path) : i \in lost \ {f.ino : f \in found}}
ExtDirectory ==
  /\ Reading("ext", "walk") /\ w.stack # <<>>
  /\ LET dir  == Last(w.stack)
         rest == Front(w.stack)
         entries == IF dir.ino \in w.visited \/ DirInode(dir.ino) = <<>> THEN <<>>
                    ELSE Entries(dir.ino)
         below == [k \in DOMAIN entries |-> Folder(entries[k].e.ino, Append(dir.path, entries[k].e.name))]
     IN  Walking([w EXCEPT
           !.visited = @ \cup {dir.ino},
           !.stack = rest \o SelectSeq(below, LAMBDA f : /\ meta.table[f.ino].mode = "dir"
                                                         /\ Len(dir.path) < MaxDirDepth),
           !.found = @ \cup NewlyFound(@, below)])

\* What was found is recovered in the order of the inode numbers.
ExtFound ==
  /\ Reading("ext", "walk") /\ w.stack = <<>>
  /\ Walking([step |-> "file", found |-> w.found])

ExtFile ==
  /\ Reading("ext", "file")
  /\ \E f \in w.found :
       LET inode == ChooseInode(f.ino)
           size  == inode[1].size
           out   == ReadFileData(inode[1])
       IN  /\ \A other \in w.found : f.ino <= other.ino
           /\ w' = [w EXCEPT !.found = @ \ {f}]
           /\ IF inode = <<>> THEN Skip(f.ino, f.path, 0)
              ELSE IF Last(f.path) \notin wanted THEN UNCHANGED <<reports, faults>>
              ELSE Deliver(f.ino, f.path, size, out, out # <<>>)
  /\ UNCHANGED <<volume, pc, options>>

ExtEnd == Reading("ext", "file") /\ w.found = {} /\ Stop

ExtLife == ExtFormat \/ ExtCreate \/ ExtDelete
ExtStep == ExtDirectory \/ ExtFound \/ ExtFile \/ ExtEnd

(* ------------------------------ Correctness ---------------------------- *)

\* Where a name was: the blocks of the directories, and their copies.
NamedIn(d) == meta.dirs[d] \o FlattenSeq([s \in 1 .. JournalSlots |->
                IF d \in meta.journal[s].tags THEN meta.journal[s].dirs[d] ELSE <<>>])
NamesOf(i) == UNION {{e.name : e \in {e \in ToSet(NamedIn(d)) : e.ino = i}} : d \in Ino}
\* No other file ever had x's inode, and no other name goes with it.
Alone(x) ==
  /\ \A y \in Born \ {x} : lives[y].key # lives[x].key
  /\ NamesOf(lives[x].key) = {x}
\* x was the last to have its inode, and a map of its blocks is left.
MapSurvives(x) ==
  LET i == lives[x].key
  IN  /\ \A y \in Born : lives[y].key = i => lives[y].since <= lives[x].since
      /\ \/ HasBlockMap(meta.table[i])
         \/ \E s \in 1 .. JournalSlots : /\ TableBlock \in meta.journal[s].tags
                                         /\ HasBlockMap(meta.journal[s].table[i])
                                         /\ meta.journal[s].table[i].ctime = lives[x].since
ParentOf(x) == LET path == lives[x].path IN IF Len(path) = 1 THEN 0 ELSE lives[path[Len(path) - 1]].key
ListedIn(x) == \E k \in DOMAIN NamedIn(ParentOf(x)) :
                 NamedIn(ParentOf(x))[k] = [ino |-> lives[x].key, name |-> x]
\* The folders down to x are all there to be read.
FoldersSurvive(x) ==
  \A d \in ToSet(Front(lives[x].path)) : Alone(d) /\ MapSurvives(d) /\ ListedIn(d)
ExtSurvives(x) == MapSurvives(x) /\ ListedIn(x) /\ FoldersSurvive(x)
                  /\ NamesOf(lives[x].key) \subseteq wanted
ExtPathSurvives(x) == Alone(x)
=============================================================================
