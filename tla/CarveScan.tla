------------------------------ MODULE CarveScan ------------------------------
(***************************************************************************)
(* src/src/carver.rs: carve_seeded, the chunked signature scan, with the   *)
(* files it writes, its checkpoint and its resume.                         *)
(*                                                                         *)
(* The source is offsets 0 .. Size-1.  What its bytes say is abstracted to  *)
(* Candidates: the places where SignatureIndex::match_at would find a      *)
(* magic, each with what file_length, the validator and the content hash   *)
(* make of the file there.  Positions without a candidate change nothing   *)
(* and are not stepped through.                                            *)
(*                                                                         *)
(* The user starts, resumes and cancels runs of one command line (resuming *)
(* "requires the same output directory and options"); a run may be killed, *)
(* or end early on a read or write error, at any step.  Every modelled run *)
(* has a checkpoint file, as every MCP scan job has.                       *)
(*                                                                         *)
(* A definition D_how is D with a plausible slip; no action uses it, and   *)
(* the property it breaks is named in PROJECT.json.                        *)
(***************************************************************************)
EXTENDS Integers, Sequences, FiniteSets

CONSTANTS
  Size,            \* declared size of the source
  PhysEnd,         \* reads stop here when it is shorter than declared
  Candidates,      \* records [at, off, reach, len, ext, volume, validity, capped, digest]
  KnownExts,       \* the extensions of signatures::SIGNATURES
  Ends, Aligns, MinSizes, MaxSizes, MaxFiles,  \* option values a user passes
  NoLimit,         \* None, for max_size and max_files
  ScanChunk,       \* SCAN_CHUNK
  Overlap,         \* max_lookahead + max_magic_offset
  CheckpointEvery, \* CHECKPOINT_INTERVAL
  MaxRuns          \* bound: runs started in one behaviour

Validities == {"valid", "invalid", "unknown"}
Grades == {"verified", "plausible", "truncated"}

ASSUME SourceAssumption ==
  /\ Size \in Nat /\ PhysEnd \in 0 .. Size /\ Ends \subseteq 0 .. Size
  /\ \A c \in Candidates :
       /\ c.at \in 0 .. Size - 1 /\ c.off \in Nat /\ c.reach \in Nat \ {0} /\ c.len \in Nat
       /\ c.volume \in BOOLEAN /\ c.capped \in BOOLEAN /\ c.validity \in Validities
  \* match_at returns one signature per position.
  /\ \A c, d \in Candidates : c.at = d.at => c = d
ASSUME ScanAssumption ==
  /\ ScanChunk \in Nat \ {0} /\ CheckpointEvery \in Nat /\ MaxRuns \in Nat
  /\ Overlap \in Nat /\ \A c \in Candidates : c.reach + c.off <= Overlap

VARIABLES
  disk,       \* the output directory: name -> [digest, whole]
  ckpt,       \* the checkpoint file: NoCheckpoint or what it records
  opts,       \* the command line's options, the same for every run
  pc,         \* where carve_seeded stands; "idle" between runs
  abs, n,     \* the chunk being scanned: n bytes read at abs
  at,         \* the scan loop's position in it (abs + i)
  skip_until, last_checkpoint, seen, stats,
  writing,    \* the name of the file write_file has open, or NoName
  cancel,     \* a cancel request is pending (ProgressSink::cancelled)
  outcome,    \* how the last run ended
  runs        \* runs started, for MaxRuns

files == <<disk, ckpt>>
place == <<abs, n, last_checkpoint>>
tally == <<skip_until, seen, stats>>
user == <<opts, cancel, runs>>
vars == <<files, place, tally, user, pc, at, writing, outcome>>

-----------------------------------------------------------------------------
NoCheckpoint == [pos |-> -1]
NoName == <<>>
NoStats == [files |-> <<>>, recovered |-> 0, duplicates |-> 0, rejected |-> 0,
            large |-> 0, grades |-> [g \in Grades |-> 0]]

Min2(a, b) == IF a <= b THEN a ELSE b
Begin(c) == c.at - c.off                       \* file_start
Written(c) == IF Begin(c) >= PhysEnd THEN 0 ELSE Min2(c.len, PhysEnd - Begin(c))

\* write_file names a file after the running count and its offset; a taken
\* name gets a counter (create_output_file).
Named(index, c, k) == <<index, Begin(c), c.ext, k>>
NewName_truncating(index, c) == Named(index, c, 0)
NewName(index, c) ==
  LET Free(k) == Named(index, c, k) \notin DOMAIN disk
  IN Named(index, c, CHOOSE k \in 0 .. Cardinality(DOMAIN disk) :
                       Free(k) /\ \A j \in 0 .. k - 1 : ~ Free(j))

\* confidence_of, and write_file's downgrade of a short read.
Grade(c) ==
  CASE c.capped \/ Written(c) < c.len -> "truncated"
    [] c.validity = "valid" -> "verified"
    [] OTHER -> "plausible"

-----------------------------------------------------------------------------
\* What the scan makes of a candidate it reaches with this skip boundary.
Considered(c, skip) ==
  /\ c.at >= c.off
  /\ Begin(c) % opts.align = 0
  /\ opts.allow_nested \/ Begin(c) >= skip
  \* file_length: a file that does not end before the scan does is not one.
  /\ c.len > 0 /\ Begin(c) + c.len <= opts.end
  /\ c.len >= opts.min_size
TooLarge(c) == opts.max_size # NoLimit /\ c.len > opts.max_size
Rejected(c) == opts.validate /\ c.validity = "invalid"
\* A recognised file hides what lies inside it; a filesystem image does not.
Hidden(c, skip) ==
  IF opts.allow_nested \/ c.volume THEN skip ELSE Begin(c) + c.len

\* The chunk: its last Overlap bytes are left to the next one, unless it is
\* the last.  A magic is seen when its bytes were all read.
Want == Min2(opts.end - abs, ScanChunk + Overlap)
ScanLimit_past_end == abs + ScanChunk
ScanLimit_no_overlap == abs + n
ScanLimit == IF n = Want /\ abs + n < opts.end THEN abs + n - Overlap ELSE abs + n
Ahead == {c \in Candidates : c.at >= at /\ c.at < ScanLimit /\ c.at + c.reach <= abs + n}
Nearest == CHOOSE c \in Ahead : \A d \in Ahead : c.at <= d.at

-----------------------------------------------------------------------------
\* write_checkpoint: temp file and rename, so one step.  The digests are saved
\* only when deduplicating; skipped_large is not saved at all.
Checkpoint_no_boundary(pos) ==
  [pos |-> pos, skip |-> 0, stats |-> stats, seen |-> IF opts.dedup THEN seen ELSE {}]
Checkpoint_no_digests(pos) ==
  [pos |-> pos, skip |-> skip_until, stats |-> stats, seen |-> {}]
Checkpoint(pos) ==
  [pos |-> pos, skip |-> skip_until, stats |-> stats,
   seen |-> IF opts.dedup THEN seen ELSE {}]
\* read_checkpoint: a row whose extension is not in the signature table is lost
\* (intern_ext).
KnownRows(rows) ==
  LET kept[i \in 0 .. Len(rows)] ==
        IF i = 0 THEN <<>>
        ELSE IF rows[i].ext \in KnownExts THEN Append(kept[i - 1], rows[i])
        ELSE kept[i - 1]
  IN kept[Len(rows)]
\* skipped_large starts from zero.
Restored_rows_only(ck) == [NoStats EXCEPT !.files = ck.stats.files]
Restored(ck) ==
  [ck.stats EXCEPT !.files = KnownRows(@), !.large = 0]

Options ==
  [end : Ends, align : Aligns, min_size : MinSizes, max_size : MaxSizes, max_files : MaxFiles,
   allow_nested : BOOLEAN, validate : BOOLEAN, dedup : BOOLEAN, dry_run : BOOLEAN]

Init ==
  /\ disk = <<>> /\ ckpt = NoCheckpoint
  /\ opts \in Options
  /\ pc = "idle" /\ outcome = "none" /\ runs = 0 /\ cancel = FALSE
  /\ abs = 0 /\ n = 0 /\ at = 0 /\ last_checkpoint = 0
  /\ skip_until = 0 /\ seen = {} /\ stats = NoStats /\ writing = NoName

\* carve_seeded, up to its loop.
Start(resume) ==
  /\ pc = "idle" /\ runs < MaxRuns
  /\ runs' = runs + 1 /\ cancel' = FALSE /\ outcome' = "none" /\ pc' = "loop"
  /\ LET resuming == resume /\ ckpt # NoCheckpoint
         from == IF resuming THEN Min2(ckpt.pos, opts.end) ELSE 0
     IN /\ abs' = from /\ at' = from /\ last_checkpoint' = from
        /\ skip_until' = IF resuming THEN ckpt.skip ELSE 0
        /\ seen' = IF resuming THEN ckpt.seen ELSE {}
        /\ stats' = IF resuming THEN Restored(ckpt) ELSE NoStats
  /\ n' = 0 /\ writing' = NoName
  /\ UNCHANGED <<files, opts>>

ScanOver ==
  /\ pc = "loop" /\ abs >= opts.end
  /\ pc' = "final"
  /\ UNCHANGED <<files, place, tally, user, at, writing, outcome>>

ScanCancelled ==
  /\ pc = "loop" /\ abs < opts.end /\ cancel
  /\ pc' = "final" /\ outcome' = "cancelled"
  /\ UNCHANGED <<files, place, tally, user, at, writing>>

SourceEnded_keeps_trying ==
  /\ pc = "loop" /\ abs < opts.end /\ ~ cancel /\ abs >= PhysEnd
  /\ UNCHANGED vars
SourceEnded ==
  /\ pc = "loop" /\ abs < opts.end /\ ~ cancel /\ abs >= PhysEnd
  /\ pc' = "final"
  /\ UNCHANGED <<files, place, tally, user, at, writing, outcome>>

ReadChunk ==
  /\ pc = "loop" /\ abs < opts.end /\ ~ cancel /\ abs < PhysEnd
  /\ n' = Min2(Want, PhysEnd - abs) /\ at' = abs
  /\ pc' = "scan"
  /\ UNCHANGED <<files, abs, last_checkpoint, tally, user, writing, outcome>>

-----------------------------------------------------------------------------
\* One position of the scan loop: the nearest candidate ahead.
Pass == at' = Nearest.at + 1 /\ UNCHANGED <<place, user, writing, outcome>>
Reached == pc = "scan" /\ Ahead # {}

SkipCandidate ==
  /\ Reached /\ ~ Considered(Nearest, skip_until)
  /\ Pass /\ UNCHANGED <<files, tally, pc>>

SkipLarge ==
  /\ Reached /\ Considered(Nearest, skip_until) /\ TooLarge(Nearest)
  /\ stats' = [stats EXCEPT !.large = @ + 1]
  /\ skip_until' = Hidden(Nearest, skip_until)
  /\ Pass /\ UNCHANGED <<files, seen, pc>>

Reject ==
  /\ Reached /\ Considered(Nearest, skip_until) /\ ~ TooLarge(Nearest) /\ Rejected(Nearest)
  /\ stats' = [stats EXCEPT !.rejected = @ + 1]
  /\ Pass /\ UNCHANGED <<files, skip_until, seen, pc>>

\* write_file: the output file is created (not in a dry run), then filled.
OpenOutput ==
  /\ Reached /\ Considered(Nearest, skip_until) /\ ~ TooLarge(Nearest) /\ ~ Rejected(Nearest)
  /\ writing' = IF opts.dry_run THEN Named(stats.recovered, Nearest, 0)
                                ELSE NewName(stats.recovered, Nearest)
  /\ disk' = IF opts.dry_run THEN disk
             ELSE [f \in DOMAIN disk \cup {writing'} |->
                     IF f = writing' THEN [digest |-> Nearest.digest, whole |-> FALSE]
                                     ELSE disk[f]]
  /\ pc' = "write"
  /\ UNCHANGED <<ckpt, place, tally, user, at, outcome>>

Row_requested_name(c) ==
  [name |-> Named(stats.recovered, c, 0), start |-> Begin(c), size |-> Written(c),
   ext |-> c.ext, digest |-> c.digest, grade |-> Grade(c)]
Row(c) == [name |-> writing, start |-> Begin(c), size |-> Written(c), ext |-> c.ext,
           digest |-> c.digest, grade |-> Grade(c)]
Without(f) == [g \in DOMAIN disk \ {f} |-> disk[g]]

\* A copy whose content was already recovered is removed again.
WriteDuplicate ==
  /\ pc = "write" /\ opts.dedup /\ Nearest.digest \in seen
  /\ disk' = IF opts.dry_run THEN disk ELSE Without(writing)
  /\ stats' = [stats EXCEPT !.duplicates = @ + 1]

WriteNew ==
  /\ pc = "write" /\ ~ (opts.dedup /\ Nearest.digest \in seen)
  /\ disk' = IF opts.dry_run THEN disk ELSE [disk EXCEPT ![writing].whole = TRUE]
  /\ stats' = [stats EXCEPT !.recovered = @ + 1, !.grades[Grade(Nearest)] = @ + 1,
                            !.files = Append(@, Row(Nearest))]

FinishWrite ==
  /\ WriteDuplicate \/ WriteNew
  /\ seen' = IF opts.dedup THEN seen \cup {Nearest.digest} ELSE seen
  /\ skip_until' = Hidden(Nearest, skip_until)
  /\ writing' = NoName /\ at' = Nearest.at + 1
  /\ pc' = IF opts.max_files # NoLimit /\ stats'.recovered >= opts.max_files
           THEN "stop" ELSE "scan"
  /\ UNCHANGED <<ckpt, place, user, outcome>>

\* max_files is reached: the checkpoint names the start of the chunk.
StopAtMax ==
  /\ pc = "stop" /\ pc' = "idle" /\ outcome' = "stopped"
  /\ ckpt' = Checkpoint(abs)
  /\ UNCHANGED <<disk, place, tally, user, at, writing>>

ChunkEnd ==
  /\ pc = "scan" /\ Ahead = {}
  /\ abs' = ScanLimit /\ at' = ScanLimit
  /\ pc' = IF ScanLimit - last_checkpoint >= CheckpointEvery THEN "flush" ELSE "loop"
  /\ UNCHANGED <<files, n, last_checkpoint, tally, user, writing, outcome>>

PeriodicCheckpoint ==
  /\ pc = "flush" /\ pc' = "loop"
  /\ ckpt' = Checkpoint(abs) /\ last_checkpoint' = abs
  /\ UNCHANGED <<disk, abs, n, tally, user, at, writing, outcome>>

\* The checkpoint every run leaves behind, and its result.
Finish ==
  /\ pc = "final" /\ pc' = "idle"
  /\ ckpt' = Checkpoint(abs)
  /\ outcome' = IF outcome = "cancelled" THEN "cancelled" ELSE "complete"
  /\ UNCHANGED <<disk, place, tally, user, at, writing>>

-----------------------------------------------------------------------------
\* The environment.
RequestCancel ==
  /\ pc # "idle" /\ ~ cancel
  /\ cancel' = TRUE
  /\ UNCHANGED <<files, place, tally, opts, runs, pc, at, writing, outcome>>

\* The process is killed, or a read of the source or a write fails.
Killed ==
  /\ pc # "idle" /\ pc' = "idle" /\ outcome' = "killed"
  /\ UNCHANGED <<files, place, tally, user, at, writing>>

Work ==
  \/ ScanOver \/ ScanCancelled \/ SourceEnded \/ ReadChunk
  \/ SkipCandidate \/ SkipLarge \/ Reject \/ OpenOutput \/ FinishWrite
  \/ StopAtMax \/ ChunkEnd \/ PeriodicCheckpoint \/ Finish

Next ==
  \/ \E resume \in BOOLEAN : Start(resume)
  \/ Work
  \/ RequestCancel \/ Killed

Spec == Init /\ [][Next]_vars
\* The worker keeps being scheduled; nothing is assumed of the user.
FairSpec == Spec /\ WF_vars(Work)
=============================================================================
