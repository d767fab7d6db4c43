------------------------------ MODULE ImageCopy ------------------------------
(***************************************************************************)
(* src/src/image.rs: the bad-sector-tolerant, resumable copy of a source   *)
(* to an image file, with its map (checkpoint) file.                       *)
(*                                                                         *)
(* The unit is the retry sector (opts.sector_size): the source is the      *)
(* cells 0 .. N-1, one read asks for at most Chunk of them (IMAGE_CHUNK),  *)
(* and the map is flushed every FlushEvery cells (MAP_FLUSH_INTERVAL).     *)
(* The image cell k holds either Zero or the number of the source cell     *)
(* whose bytes were written there, so misplaced data is visible.           *)
(*                                                                         *)
(* The environment chooses which reads of a flaky cell fail, when a user   *)
(* starts a run and with which options, when a cancel arrives, and when    *)
(* the process is killed.  Every modelled run has a map file (opts.map is  *)
(* Some), as every MCP image job has.                                      *)
(***************************************************************************)
EXTENDS Integers, FiniteSets

CONSTANTS
  N,              \* declared size of the source, in cells (Source::size)
  PhysEnd,        \* cells that can be read: a read at or past it returns 0
  ZeroCells,      \* cells of the source whose bytes are all zero
  FlakyCells,     \* cells a read of which may fail, each time anew
  Starts, Ends,   \* values of opts.start and opts.end a user passes
  Retries,        \* values of opts.retries a user passes
  Chunk,          \* IMAGE_CHUNK
  SparseBlock,    \* SPARSE_BLOCK
  FlushEvery,     \* MAP_FLUSH_INTERVAL
  MaxRuns,        \* bound: runs started in one behaviour
  RestartOverMap, \* may a user start over (no --resume) beside an old map?
  TornMapWrites   \* may a kill land inside fs::write of the map?

ASSUME SizeAssumption ==
  /\ N \in Nat /\ PhysEnd \in 0 .. N
  /\ ZeroCells \subseteq 0 .. N - 1 /\ FlakyCells \subseteq 0 .. N - 1
ASSUME OptionAssumption ==
  /\ Starts \subseteq 0 .. N /\ Ends \subseteq 0 .. N
  /\ \A s \in Starts, e \in Ends : s <= e
  /\ Retries \subseteq Nat /\ 0 \in Retries   \* the default
ASSUME GrainAssumption ==
  /\ Chunk \in Nat \ {0} /\ SparseBlock \in Nat \ {0} /\ FlushEvery \in Nat
  /\ MaxRuns \in Nat
  /\ RestartOverMap \in BOOLEAN /\ TornMapWrites \in BOOLEAN

VARIABLES
  img,       \* the image file: cell -> Zero or a source cell
  size,      \* its length in cells, 0 when it does not exist
  map,       \* the map file: NoMap or [total, pos, bad]
  pc,        \* where image() stands; "idle" between runs
  opts,      \* the options of the current or last run
  abs,       \* cells below this have been dealt with by the main copy
  last_flush,
  pos,       \* position of the sector-granular loop
  block_end, \* end of the block that loop covers
  bad,       \* unreadable cells recorded so far
  todo,      \* cells the current retry pass has still to read
  recovered_any,
  stats,     \* the ImageStats counters
  cancel,    \* a cancel request is pending (ProgressSink::cancelled)
  outcome,   \* how the last run ended
  runs       \* runs started, for MaxRuns

file == <<img, size, map>>
loop == <<abs, last_flush, pos, block_end>>
retry == <<todo, recovered_any>>
user == <<opts, cancel, runs>>
vars == <<file, loop, retry, user, pc, bad, stats, outcome>>

-----------------------------------------------------------------------------
Zero == -1
NoTotal == -1
NoMap == [total |-> NoTotal, pos |-> -1, bad |-> {}]
Cells == 0 .. N - 1

\* What a correct image holds for source cell c.  Past the physical end the
\* source has no bytes, and the image's hole reads back as zero.
Content(c) == IF c \in ZeroCells \/ c >= PhysEnd THEN Zero ELSE c

Min2(a, b) == IF a <= b THEN a ELSE b
Total(o) == o.end - o.start
Span(from, n) == from .. from + n - 1

\* The read of n cells at from (Source::read_at) returns an error only if
\* it touches a flaky cell, and is short only at the physical end.
MayFail(from, n) == Span(from, n) \cap FlakyCells # {}
ReadLen(from, n) == IF from >= PhysEnd THEN 0 ELSE Min2(n, PhysEnd - from)

-----------------------------------------------------------------------------
\* write_region: in a sparse run an all-zero block is not written.  Blocks
\* are counted from the start of the span that was read.
BlockOf(from, n, c) ==
  {d \in Span(from, n) : (d - from) \div SparseBlock = (c - from) \div SparseBlock}
Skipped(from, n) ==
  IF opts.sparse THEN {c \in Span(from, n) : BlockOf(from, n, c) \subseteq ZeroCells}
                 ELSE {}
WrittenImage_at_source_offset(from, n) ==
  [k \in Cells |-> IF k \in Span(from, n) \ Skipped(from, n) THEN Content(k) ELSE img[k]]
WrittenImage(from, n) ==
  [k \in Cells |-> IF k + opts.start \in Span(from, n) \ Skipped(from, n)
                   THEN Content(k + opts.start) ELSE img[k]]
WriteRegion(from, n) ==
  /\ img' = WrittenImage(from, n)
  /\ UNCHANGED <<size, map>>
CountWrite_holes_twice(s, from, n) ==
  [s EXCEPT !.sparse = @ + Cardinality(Skipped(from, n)), !.copied = @ + n]
CountWrite(s, from, n) ==
  LET z == Cardinality(Skipped(from, n))
  IN [s EXCEPT !.sparse = @ + z, !.copied = @ + n - z]

\* File::set_len: a shrunk file loses its tail, a grown one reads as zero.
SetLen(f, n) == [k \in Cells |-> IF k < n THEN f[k] ELSE Zero]

WriteMap(p, regions) == map' = [total |-> opts.end, pos |-> p, bad |-> regions]

\* What parse_map makes of a map whose fs::write was cut short: a missing or
\* cut `total`, a cut `pos`, or the first of the `bad` lines only.
TornMaps(m) ==
  {[total |-> t, pos |-> 0, bad |-> {}] : t \in {NoTotal} \cup 0 .. m.total}
  \cup {[total |-> m.total, pos |-> p, bad |-> {}] : p \in 0 .. m.pos}
  \cup {[m EXCEPT !.bad = {c \in m.bad : c < k}] : k \in 0 .. N}

-----------------------------------------------------------------------------
\* validate_map: what a resume makes of the map it finds.  A map without a
\* total is no map of ours; one that fits neither the range nor the length of
\* the image is refused.
MapVerdict_no_length_check(m, o) ==
  IF ~ o.resume \/ m = NoMap \/ m.total = NoTotal THEN "fresh"
  ELSE IF m.total = o.end /\ m.pos >= o.start /\ m.pos <= o.end THEN "resume" ELSE "refuse"
MapVerdict(m, o) ==
  IF ~ o.resume \/ m = NoMap \/ m.total = NoTotal THEN "fresh"
  ELSE IF /\ m.total = o.end
          /\ m.pos >= o.start /\ m.pos <= o.end
          /\ \A c \in m.bad : o.start <= c /\ c < o.end
          /\ size >= m.pos - o.start
       THEN "resume" ELSE "refuse"

Options == [start : Starts, end : Ends, sparse : BOOLEAN, retries : Retries,
            resume : BOOLEAN]
NoStats == [copied |-> 0, sparse |-> 0, zeroed |-> 0, salvaged |-> 0, passes |-> 0]

ResumeStats_from_zero(carried) == NoStats
ResumeStats(carried) == [NoStats EXCEPT !.zeroed = Cardinality(carried)]

Init ==
  /\ img = [k \in Cells |-> Zero] /\ size = 0 /\ map = NoMap
  /\ pc = "idle" /\ outcome = "none" /\ runs = 0 /\ cancel = FALSE
  /\ opts \in [start : Starts, end : Ends, sparse : {TRUE}, retries : {0},
               resume : {FALSE}]
  /\ abs = 0 /\ last_flush = 0 /\ pos = 0 /\ block_end = 0
  /\ bad = {} /\ todo = {} /\ recovered_any = FALSE /\ stats = NoStats

\* image(), up to its loop.  Without a map to resume from the image is
\* created anew; the old map stays on disk until the first flush.
Start(o) ==
  /\ pc = "idle" /\ runs < MaxRuns
  /\ o.resume \/ map = NoMap \/ RestartOverMap
  /\ runs' = runs + 1 /\ opts' = o /\ cancel' = FALSE
  /\ LET resuming == MapVerdict(map, o) = "resume"
         from == IF resuming THEN map.pos ELSE o.start
         carried == IF resuming THEN map.bad ELSE {}
     IN IF MapVerdict(map, o) = "refuse"
        THEN /\ outcome' = "refused"
             /\ UNCHANGED <<file, loop, retry, pc, bad, stats>>
        ELSE /\ img' = IF resuming THEN SetLen(img, Total(o)) ELSE [k \in Cells |-> Zero]
             /\ size' = Total(o)
             /\ abs' = from /\ last_flush' = from /\ pos' = from /\ block_end' = from
             /\ bad' = carried
             /\ stats' = ResumeStats(carried)
             /\ todo' = {} /\ recovered_any' = FALSE
             /\ outcome' = "none" /\ pc' = "copy"
             /\ UNCHANGED map

-----------------------------------------------------------------------------
\* The main loop.
Want_past_end == Chunk
Want == Min2(opts.end - abs, Chunk)
AtLoopHead == pc = "copy" /\ abs < opts.end
AfterBlock(to) == pc' = IF to - last_flush >= FlushEvery THEN "flush" ELSE "copy"
\* Leaving the main loop, towards the retry passes or the final map.
LeaveLoop(cancelled) == pc' = IF ~ cancelled /\ opts.retries > 0 /\ bad # {}
                              THEN "pass" ELSE "final"

CopyEnd ==
  /\ pc = "copy" /\ abs >= opts.end
  /\ LeaveLoop(FALSE)
  /\ UNCHANGED <<file, loop, retry, user, bad, stats, outcome>>

CopyCancelled ==
  /\ AtLoopHead /\ cancel
  /\ LeaveLoop(TRUE) /\ outcome' = "cancelled"
  /\ UNCHANGED <<file, loop, retry, user, bad, stats>>

\* Ok(0) => break
CopyEof_keeps_trying ==
  /\ AtLoopHead /\ ~ cancel /\ ReadLen(abs, Want) = 0
  /\ UNCHANGED vars
CopyEof ==
  /\ AtLoopHead /\ ~ cancel /\ ReadLen(abs, Want) = 0
  /\ LeaveLoop(FALSE)
  /\ UNCHANGED <<file, loop, retry, user, bad, stats, outcome>>

CopyChunk ==
  LET n == ReadLen(abs, Want)
  IN /\ AtLoopHead /\ ~ cancel /\ n > 0
     /\ WriteRegion(abs, n)
     /\ stats' = CountWrite(stats, abs, n)
     /\ abs' = abs + n
     /\ AfterBlock(abs + n)
     /\ UNCHANGED <<last_flush, pos, block_end, retry, user, bad, outcome>>

CopyError ==
  /\ AtLoopHead /\ ~ cancel /\ MayFail(abs, Want)
  /\ pc' = "sector" /\ pos' = abs /\ block_end' = abs + Want
  /\ UNCHANGED <<file, abs, last_flush, retry, user, bad, stats, outcome>>

SectorGood ==
  /\ pc = "sector" /\ pos < block_end /\ ReadLen(pos, 1) = 1
  /\ WriteRegion(pos, 1)
  /\ stats' = CountWrite(stats, pos, 1)
  /\ pos' = pos + 1
  /\ UNCHANGED <<abs, last_flush, block_end, retry, user, pc, bad, outcome>>

SectorBad ==
  /\ pc = "sector" /\ pos < block_end
  /\ MayFail(pos, 1) \/ ReadLen(pos, 1) = 0
  /\ bad' = bad \cup {pos}
  /\ stats' = [stats EXCEPT !.zeroed = @ + 1]
  /\ pos' = pos + 1
  /\ UNCHANGED <<file, abs, last_flush, block_end, retry, user, pc, outcome>>

SectorEnd ==
  /\ pc = "sector" /\ pos = block_end
  /\ abs' = block_end
  /\ AfterBlock(block_end)
  /\ UNCHANGED <<file, last_flush, pos, block_end, retry, user, bad, stats, outcome>>

\* The periodic checkpoint of the main loop.
FlushMap_ahead_of_copy ==
  /\ pc = "flush" /\ pc' = "copy"
  /\ WriteMap(Min2(abs + Chunk, opts.end), bad)
  /\ last_flush' = abs
  /\ UNCHANGED <<img, size, abs, pos, block_end, retry, user, bad, stats, outcome>>
FlushMap ==
  /\ pc = "flush" /\ pc' = "copy"
  /\ WriteMap(abs, bad)
  /\ last_flush' = abs
  /\ UNCHANGED <<img, size, abs, pos, block_end, retry, user, bad, stats, outcome>>

-----------------------------------------------------------------------------
\* retry_bad_regions: opts.retries passes, while something is bad and the
\* last pass salvaged something.
PassBegin ==
  /\ pc = "pass"
  /\ stats.passes < opts.retries /\ bad # {}
  /\ todo' = bad /\ bad' = {} /\ recovered_any' = FALSE /\ pc' = "retry"
  /\ UNCHANGED <<file, loop, user, stats, outcome>>

PassesOver ==
  /\ pc = "pass"
  /\ stats.passes >= opts.retries \/ bad = {}
  /\ pc' = "final"
  /\ UNCHANGED <<file, loop, retry, user, bad, stats, outcome>>

\* The regions are read in source order.
Nearest == {c \in todo : \A d \in todo : c <= d}

RetryGood ==
  \E c \in Nearest :
    /\ pc = "retry" /\ ~ cancel /\ ReadLen(c, 1) = 1
    /\ WriteRegion(c, 1)
    /\ stats' = LET s == CountWrite(stats, c, 1)
                IN [s EXCEPT !.zeroed = IF @ > 0 THEN @ - 1 ELSE 0, !.salvaged = @ + 1]
    /\ recovered_any' = TRUE
    /\ todo' = todo \ {c}
    /\ UNCHANGED <<loop, user, pc, bad, outcome>>

RetryBad_not_recorded ==
  \E c \in Nearest :
    /\ pc = "retry" /\ ~ cancel
    /\ MayFail(c, 1) \/ ReadLen(c, 1) = 0
    /\ todo' = todo \ {c}
    /\ UNCHANGED <<file, loop, user, pc, bad, recovered_any, stats, outcome>>
RetryBad ==
  \E c \in Nearest :
    /\ pc = "retry" /\ ~ cancel
    /\ MayFail(c, 1) \/ ReadLen(c, 1) = 0
    /\ bad' = bad \cup {c}
    /\ todo' = todo \ {c}
    /\ UNCHANGED <<file, loop, user, pc, recovered_any, stats, outcome>>

\* The remainder of this region and every later one stay recorded.
RetryCancelled_rest_forgotten ==
  /\ pc = "retry" /\ todo # {} /\ cancel
  /\ todo' = {} /\ outcome' = "cancelled" /\ pc' = "final"
  /\ UNCHANGED <<file, loop, user, bad, recovered_any, stats>>
RetryCancelled ==
  /\ pc = "retry" /\ todo # {} /\ cancel
  /\ bad' = bad \cup todo /\ todo' = {}
  /\ outcome' = "cancelled" /\ pc' = "final"
  /\ UNCHANGED <<file, loop, user, recovered_any, stats>>

\* End of a pass: the map records the smaller set, with `end` as position.
PassEnd ==
  /\ pc = "retry" /\ todo = {}
  /\ stats' = [stats EXCEPT !.passes = @ + 1]
  /\ WriteMap(opts.end, bad)
  /\ pc' = IF recovered_any THEN "pass" ELSE "final"
  /\ UNCHANGED <<img, size, loop, retry, user, bad, outcome>>

\* The map every run leaves behind, and its result.
Finish ==
  /\ pc = "final" /\ pc' = "idle"
  /\ WriteMap(abs, bad)
  /\ outcome' = IF outcome = "cancelled" THEN "cancelled" ELSE "done"
  /\ UNCHANGED <<img, size, loop, retry, user, bad, stats>>

-----------------------------------------------------------------------------
\* The environment.
RequestCancel ==
  /\ pc # "idle" /\ ~ cancel
  /\ cancel' = TRUE
  /\ UNCHANGED <<file, loop, retry, opts, runs, pc, bad, stats, outcome>>

\* The map about to be written, where image() is about to write one.
PendingMap ==
  CASE pc = "flush" -> {[total |-> opts.end, pos |-> abs, bad |-> bad]}
    [] pc = "retry" /\ todo = {} -> {[total |-> opts.end, pos |-> opts.end, bad |-> bad]}
    [] pc = "final" -> {[total |-> opts.end, pos |-> abs, bad |-> bad]}
    [] OTHER -> {}

\* The process is killed, or an output error makes image() return early:
\* part of the block being written may have reached the file.
Killed ==
  /\ pc # "idle" /\ pc' = "idle" /\ outcome' = "killed"
  /\ \E n \in 0 .. Chunk :
       IF AtLoopHead /\ n <= ReadLen(abs, Want) THEN img' = WrittenImage(abs, n)
                                                ELSE img' = img
  /\ \/ UNCHANGED map
     \/ TornMapWrites /\ \E m \in PendingMap : map' \in TornMaps(m)
  /\ UNCHANGED <<size, loop, retry, user, bad, stats>>

\* The user removes the map of a copy that is to start over.
DeleteMap ==
  /\ pc = "idle" /\ map # NoMap
  /\ map' = NoMap
  /\ UNCHANGED <<img, size, loop, retry, user, pc, bad, stats, outcome>>

\* The image is removed, or truncated by something else, between runs.
LoseImage ==
  /\ pc = "idle"
  /\ \E n \in 0 .. size - 1 : img' = SetLen(img, n) /\ size' = n
  /\ outcome' = "none"
  /\ UNCHANGED <<map, loop, retry, user, pc, bad, stats>>

Work ==
  \/ CopyEnd \/ CopyCancelled \/ CopyEof \/ CopyChunk \/ CopyError
  \/ SectorGood \/ SectorBad \/ SectorEnd \/ FlushMap
  \/ PassBegin \/ PassesOver \/ RetryGood \/ RetryBad \/ RetryCancelled \/ PassEnd
  \/ Finish

Next ==
  \/ \E o \in Options : Start(o)
  \/ Work
  \/ RequestCancel \/ Killed \/ DeleteMap \/ LoseImage

Spec == Init /\ [][Next]_vars
\* The worker thread keeps being scheduled; nothing is assumed of the user.
FairSpec == Spec /\ WF_vars(Work)
-----------------------------------------------------------------------------
(* Properties.  Correct(c): the image holds what it should for cell c.     *)

InRange(c) == opts.start <= c /\ c < opts.end
Correct(c) == img[c - opts.start] = Content(c)
\* Everything below this has been read or given up.
Front == IF pc = "sector" THEN pos ELSE abs

\* Types, and the order of the positions.
PCs == {"idle", "copy", "sector", "flush", "pass", "retry", "final"}
Maps == [total : {NoTotal} \cup 0 .. N, pos : -1 .. N, bad : SUBSET Cells]
TypeOK ==
  /\ img \in [Cells -> {Zero} \cup Cells] /\ size \in 0 .. N
  /\ map \in Maps
  /\ pc \in PCs /\ outcome \in {"none", "done", "cancelled", "killed", "refused"}
  /\ opts \in Options /\ cancel \in BOOLEAN /\ runs \in 0 .. MaxRuns
  /\ abs \in 0 .. N /\ last_flush \in 0 .. N
  /\ pos \in 0 .. N /\ block_end \in 0 .. N
  /\ pc # "idle" => abs <= opts.end /\ pos <= opts.end
  /\ bad \subseteq Cells /\ todo \subseteq Cells /\ recovered_any \in BOOLEAN
  /\ stats \in [copied : Nat, sparse : Nat, zeroed : Nat, salvaged : Nat, passes : Nat]

\* No image cell holds the bytes of another source cell.
NothingMisplaced ==
  \A k \in Cells : k + opts.start \in Cells => img[k] \in {Zero, Content(k + opts.start)}

\* What a resume relies on (validate_map accepts the map): every cell below
\* the map's position is in the image, or is recorded as unreadable - across
\* kills, cancels, retry passes and a lost image.
MapSound ==
  (map # NoMap /\ size >= map.pos - opts.start) =>
    \A c \in opts.start .. map.pos - 1 : Correct(c) \/ c \in map.bad

\* What the result of a run promises (ImageStats.bad_regions): a copy reported
\* as done holds every cell of the range it does not list as unreadable.
FaithfulImage ==
  outcome = "done" => \A c \in Cells : InRange(c) => Correct(c) \/ c \in bad

\* While a run is under way the same holds of everything it has passed, and
\* a cell a retry pass has not reached yet is not forgotten.
PrefixFaithful ==
  pc # "idle" => \A c \in opts.start .. Front - 1 : Correct(c) \/ c \in bad \cup todo

\* bytes_zeroed is exactly the unreadable part, through resumes (which carry
\* it over), retry passes and a cancel inside one; saturating_sub never bites.
ZeroedMatchesBad == pc # "idle" => stats.zeroed = Cardinality(bad \cup todo)

\* The counters of a run that starts over cover what it has passed, each cell
\* once: copied, left as a hole for its zeros, or zeroed.
CountersCoverCopy ==
  (pc # "idle" /\ ~ opts.resume) =>
    stats.copied + stats.sparse + stats.zeroed = Front - opts.start

\* The image and its map implement a durable copy: the map claims the cells
\* below its position it does not list as unreadable, as long as validate_map
\* would accept it for this image.  No step of a run, kill or cancel withdraws a
\* claim or loses a held cell, and no claim goes beyond what the image holds.
Readable == {c \in Cells : c >= opts.start /\ c < PhysEnd}
Claimed ==
  IF map # NoMap /\ size >= map.pos - opts.start
  THEN {c \in Readable : c < map.pos} \ map.bad ELSE {}
Durable == INSTANCE DurableCopy
             WITH Wanted <- Cells, held <- {c \in Readable : Correct(c)},
                  claimed <- Claimed
ImplementsDurable == Durable!Spec

\* validate_map's comment: a destination that lacks the prefix its map says was
\* copied, or a map of a different range, is refused.  So a resume that starts
\* copying finds every cell it skips in the image, or recorded as unreadable.
ResumeOnlyOwnCopy ==
  [][(pc = "idle" /\ pc' = "copy") =>
       \A c \in opts'.start .. abs' - 1 :
          img'[c - opts'.start] = Content(c) \/ c \in bad']_vars

\* A run ends, whatever its reads do: the main loop and the retry passes make
\* progress on every step.
Terminates == pc # "idle" ~> pc = "idle"
=============================================================================
