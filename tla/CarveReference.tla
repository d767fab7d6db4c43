--------------------------- MODULE CarveReference ---------------------------
(***************************************************************************)
(* What a scan should recover, defined without chunks, checkpoints, kills  *)
(* or resumes: the candidates taken in the order their magic lies on the   *)
(* disk.  CarveScan's runs are checked against it.                         *)
(***************************************************************************)
EXTENDS CarveScan

Find(c) == [start |-> Begin(c), size |-> Written(c), ext |-> c.ext,
            digest |-> c.digest, grade |-> Grade(c)]

\* One candidate, given what the scan has found so far.
Judge(s, c) ==
  LET past == [s EXCEPT !.skip = Hidden(c, s.skip)]
  IN IF ~ Considered(c, s.skip) THEN s
     ELSE IF TooLarge(c) THEN past
     ELSE IF Rejected(c) THEN [s EXCEPT !.rejected = @ + 1]
     ELSE IF opts.dedup /\ c.digest \in s.seen THEN [past EXCEPT !.duplicates = @ + 1]
     ELSE [past EXCEPT !.finds = Append(@, Find(c)), !.seen = @ \cup {c.digest}]

\* Everything from offset pos on, given what was found before it.
Visible(p) == {c \in Candidates : c.at = p /\ c.at + c.reach <= Min2(PhysEnd, opts.end)}
Continue(pos, s) ==
  LET upto[p \in pos .. opts.end] ==
        IF p = pos THEN s
        ELSE IF Visible(p - 1) = {} THEN upto[p - 1]
        ELSE Judge(upto[p - 1], CHOOSE c \in Visible(p - 1) : TRUE)
  IN upto[opts.end]

\* A whole scan in one go, and the rest of a scan from a checkpoint.
Uninterrupted ==
  Continue(0, [skip |-> 0, seen |-> {}, finds |-> <<>>, rejected |-> 0, duplicates |-> 0])

FindOf(row) == [start |-> row.start, size |-> row.size, ext |-> row.ext,
                digest |-> row.digest, grade |-> row.grade]
FindsOf(rows) == [i \in DOMAIN rows |-> FindOf(rows[i])]
FromCheckpoint(ck) ==
  Continue(ck.pos, [skip |-> ck.skip, seen |-> ck.seen, finds |-> FindsOf(Restored(ck).files),
                    rejected |-> ck.stats.rejected, duplicates |-> ck.stats.duplicates])
Outcome(s) == [finds |-> s.finds, rejected |-> s.rejected, duplicates |-> s.duplicates]

-----------------------------------------------------------------------------
\* Types.
Names == DOMAIN disk
StatsOK(s) ==
  /\ {s.recovered, s.duplicates, s.rejected, s.large} \subseteq Nat
  /\ s.grades \in [Grades -> Nat]
TypeOK ==
  /\ pc \in {"idle", "loop", "scan", "write", "flush", "stop", "final"}
  /\ outcome \in {"none", "complete", "cancelled", "stopped", "killed"}
  /\ opts \in Options /\ cancel \in BOOLEAN /\ runs \in 0 .. MaxRuns
  /\ 0 <= last_checkpoint /\ last_checkpoint <= abs /\ abs <= opts.end
  /\ n \in 0 .. ScanChunk + Overlap
  /\ pc = "scan" => (abs <= at /\ at <= ScanLimit)
  /\ skip_until \in 0 .. opts.end
  /\ StatsOK(stats)
  /\ ckpt # NoCheckpoint => StatsOK(ckpt.stats)
  /\ (writing # NoName /\ ~ opts.dry_run) => writing \in Names

\* The test of read_checkpoint says what resuming is for: "a resumed run's
\* manifest must be the uninterrupted run's".  However often the scan was killed,
\* cancelled and resumed, the finished manifest and tally are those of one
\* uninterrupted scan.  (A run cut off by --max-files is not meant to be one.)
ResumeEqualsUninterrupted ==
  (outcome = "complete" /\ opts.max_files = NoLimit) =>
    Outcome(Uninterrupted) =
      [finds |-> FindsOf(stats.files), rejected |-> stats.rejected,
       duplicates |-> stats.duplicates]

\* Every checkpoint on disk is one from which the rest of the scan can be done:
\* nothing before its position is lost, counted twice or found again.
CheckpointSound ==
  (ckpt # NoCheckpoint /\ opts.max_files = NoLimit) =>
    Outcome(FromCheckpoint(ckpt)) = Outcome(Uninterrupted)

\* Every manifest row, of this run and of the checkpoint a resume will start
\* from, names its own file, which is on disk, whole and has the row's content:
\* kills, reruns over the same directory and the removal of duplicates
\* included (a dry run writes none).
Backed(rows) ==
  /\ \A i, j \in DOMAIN rows : rows[i].name = rows[j].name => i = j
  /\ opts.dry_run \/ \A i \in DOMAIN rows :
       /\ rows[i].name \in Names
       /\ disk[rows[i].name] = [digest |-> rows[i].digest, whole |-> TRUE]
ManifestBacked ==
  /\ Backed(stats.files)
  /\ ckpt # NoCheckpoint => Backed(ckpt.stats.files)

\* The confidence counts and the file count stay those of the manifest's rows,
\* through every resume (the tally and the rows are restored separately).
CountsMatchManifest ==
  /\ stats.recovered = Len(stats.files)
  /\ \A g \in Grades :
       stats.grades[g] = Cardinality({i \in DOMAIN stats.files : stats.files[i].grade = g})

\* Without --allow-nested no manifest row lies inside an earlier one that is
\* not a filesystem image, across chunk boundaries and resumes, --max-files too.
VolumeExts == {c.ext : c \in {d \in Candidates : d.volume}}
NothingNested ==
  ~ opts.allow_nested =>
    \A j \in DOMAIN stats.files : \A i \in 1 .. j - 1 :
      stats.files[i].ext \notin VolumeExts =>
        stats.files[i].start + stats.files[i].size <= stats.files[j].start

\* A file that was written whole is never touched again, by whichever run.
NeverClobbers ==
  [][\A f \in Names : disk[f].whole => f \in DOMAIN disk' /\ disk'[f] = disk[f]]_vars

\* A run ends, cancelled or not, whatever it finds.
Terminates == pc # "idle" ~> pc = "idle"
=============================================================================
