----------------------------- MODULE UndeleteRun -----------------------------
(***************************************************************************)
(* What the undelete back ends share: a volume that lived and lost files,  *)
(* the options of a recovery, and the report it makes.  NtfsUndelete,      *)
(* ExtUndelete, HfsUndelete and IsoExtract add the metadata each file      *)
(* system keeps and the walk that reads it.                                *)
(*                                                                         *)
(* Sizes are counted in blocks (clusters); the bytes of a block are the    *)
(* file they belong to and their place in it.  A source may be an          *)
(* incomplete image: its last blocks are missing.                          *)
(***************************************************************************)
EXTENDS Integers, FiniteSets, Sequences, SequencesExt, FiniteSetsExt

CONSTANTS
  FileSystems,     \* the file systems a run looks at
  MaxBlock,        \* the volume's data blocks are 1 .. MaxBlock
  SourceEnd,       \* the last of them the source holds
  Files, Dirs, Root,
  Size,            \* file -> its length in blocks
  Holes,           \* file -> the places in it that were never written
  Hands,           \* where the allocator may begin to look
  MaxOps,          \* bound: what is done to the volume before it is recovered
  Wanted,          \* the sets of file names that pass the filters
  MaxFaults        \* bound: output files that cannot be written

Block == 1 .. MaxBlock
Names == Files \cup Dirs
ASSUME RunAssumption ==
  /\ MaxBlock \in Nat /\ SourceEnd \in 0 .. MaxBlock /\ MaxOps \in Nat /\ MaxFaults \in Nat
  /\ Hands \subseteq Block /\ Root \notin Names /\ Files \cap Dirs = {}
  /\ Size \in [Files -> Nat] /\ \A x \in Files : Holes[x] \subseteq 1 .. Size[x]
  /\ Wanted \subseteq SUBSET Files

VARIABLES
  fs,        \* the volume's file system
  disk,      \* block -> what it holds
  meta,      \* the file system's own records
  lives,     \* name -> where it was: a history the code never sees
  alive,     \* the files and folders not deleted
  ops,
  pc,
  wanted, dry_run,
  w,         \* what the recovery has in hand
  reports,   \* RecoverStats: one record per file
  faults
volume == <<fs, disk, meta, lives, alive, ops>>
options == <<wanted, dry_run>>
vars == <<volume, pc, options, w, reports, faults>>

None == [key |-> 0, path |-> <<>>, blocks |-> <<>>, since |-> 0]
Zero == [of |-> Root, part |-> 0]
Idle == [step |-> "idle"]

Init ==
  /\ fs \in FileSystems
  /\ disk = [b \in Block |-> Zero] /\ meta = <<>>
  /\ lives = [x \in Names |-> None] /\ alive = {} /\ ops = 0
  /\ pc = "new" /\ wanted = {} /\ dry_run = FALSE /\ w = Idle /\ reports = <<>> /\ faults = 0

(* ------------------------------- The volume ---------------------------- *)

Born == {x \in Names : lives[x].path # <<>>}
PathOf(d) == IF d = Root THEN <<>> ELSE lives[d].path
LiveDirs == (alive \cap Dirs) \cup {Root}
Free == Block \ UNION {ToSet(lives[x].blocks) : x \in alive}

BlocksIn(x) == IF x \in Dirs THEN 0 ELSE Size[x] - Cardinality(Holes[x])
\* The nearest n free blocks from the hand on.
Allocate(hand, n) ==
  LET from == SetToSortSeq({b \in Free : b >= hand}, <)
  IN  IF n <= Len(from) THEN SubSeq(from, 1, n) ELSE <<>>
\* The blocks of x in its own order, 0 where it has a hole.
Layout(x, blocks) ==
  [k \in 1 .. Size[x] |->
     IF k \in Holes[x] THEN 0 ELSE blocks[k - Cardinality({h \in Holes[x] : h < k})]]
Content(x) == [k \in 1 .. Size[x] |-> IF k \in Holes[x] THEN Zero ELSE [of |-> x, part |-> k]]
Filled(x, blocks) ==
  [b \in Block |-> IF b \in ToSet(blocks)
                     THEN [of |-> x, part |-> CHOOSE k \in DOMAIN blocks : blocks[k] = b]
                   ELSE disk[b]]
Now == ops + 1
Doing(system) == pc = "life" /\ fs = system /\ ops < MaxOps /\ ops' = ops + 1
LifeOnly == UNCHANGED <<fs, pc, options, w, reports, faults>>

\* Consecutive blocks as runs; a run of holes has no place.
AddToRuns(runs, b) ==
  IF runs # <<>> /\ (IF b = 0 THEN Last(runs).at = 0
                     ELSE Last(runs).at # 0 /\ Last(runs).at + Last(runs).n = b)
    THEN [runs EXCEPT ![Len(runs)].n = @ + 1]
  ELSE Append(runs, [at |-> b, n |-> 1])
RunsOf(blocks) == FoldLeft(AddToRuns, <<>>, blocks)

(* ------------------------------ The recovery --------------------------- *)

\* A recovery starts on a volume where something was deleted.
Started(system, first) ==
  /\ pc = "life" /\ fs = system /\ pc' = "scan"
  /\ wanted' \in Wanted /\ dry_run' \in BOOLEAN
  /\ w' = first
  /\ UNCHANGED <<volume, reports, faults>>
Reading(system, step) == pc = "scan" /\ fs = system /\ w.step = step
Walking(next) == w' = next /\ UNCHANGED <<volume, pc, options, reports, faults>>
Stop == pc' = "done" /\ w' = Idle /\ UNCHANGED <<volume, options, reports, faults>>

\* How many of n blocks from at on the source has: a read ends with it.
Readable(at, n) == IF at > SourceEnd THEN 0 ELSE Min({n, SourceEnd - at + 1})
ReadRun(at, n) ==
  IF at = 0 THEN [k \in 1 .. n |-> Zero]
  ELSE [k \in 1 .. Readable(at, n) |-> disk[at + k - 1]]

\* record_recovered and record_skipped.
Record(key, path, recovered, size, out) ==
  reports' = Append(reports, [key |-> key, path |-> path, recovered |-> recovered,
                              size |-> size, out |-> out])
Skip(key, path, size) == Record(key, path, FALSE, size, <<>>) /\ UNCHANGED faults

\* A file that passed every check: reported only, or written.  The output
\* cannot always be created.
Deliver(key, path, size, out, enough) ==
  \/ dry_run /\ Record(key, path, TRUE, size, <<>>) /\ UNCHANGED faults
  \/ /\ ~dry_run /\ UNCHANGED faults
     /\ IF enough THEN Record(key, path, TRUE, Len(out), out)
        ELSE Record(key, path, FALSE, size, <<>>)
  \/ /\ ~dry_run /\ faults < MaxFaults /\ faults' = faults + 1
     /\ Record(key, path, FALSE, size, <<>>)
=============================================================================
