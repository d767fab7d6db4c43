----------------------------- MODULE RecoverAll -----------------------------
(***************************************************************************)
(* `recover`, `undelete` and `scan --unallocated` of src/src/main.rs, from *)
(* the source to the report: find the volumes, restore what their metadata *)
(* remembers, choose the regions to carve, carve them, write the manifest. *)
(*                                                                         *)
(* What a volume's metadata yields, and what the carver finds in a region, *)
(* are given with the job: NtfsUndelete and its like, and CarveScan, say   *)
(* how they are found.  The digest of a file is its content; "" is none.   *)
(***************************************************************************)
EXTENDS FreeMaps, OutputTree

CONSTANTS
  Jobs,        \* the commands a run may be given, each with its source
  Identified,  \* content -> the extension identify gives it, or ""
  PlantAt,     \* what other programs may make: paths ...
  PlantKinds,  \* ... and kinds of node
  MaxFaults    \* bound: files that cannot be written
ASSUME RecoverAssumption == MaxFaults \in Nat

\* Where the directories of the output go.
IsOutputDir(path) ==
  \/ path \in { <<>>, << Folder("named") >>, << Folder("carved") >> }
  \/ /\ Len(path) = 1 \/ (Len(path) = 2 /\ path[1] = Folder("named"))
     /\ path[Len(path)] = Name("volume", path[Len(path)].at, "")
\* A lost file has a name, without a number of this run's; one that has none
\* on the volume gets one that no other lost file has.
LostFile(f) ==
  /\ DOMAIN f = {"out", "rel", "content", "nameless"}
  /\ f.rel \in Seq(ToSet(f.rel)) /\ f.rel # <<>>
  /\ Last(f.rel) = Name(Last(f.rel).stem, Last(f.rel).at, Last(f.rel).ext)
  /\ f.nameless => (Folder("_unnamed") \in ToSet(f.rel) /\ Last(f.rel).ext = "bin")
LostFiles(j) == UNION { ToSet(j.lost[v]) : v \in DOMAIN j.lost }
\* Nothing but a directory is where the output's directories go (there
\* create_dir_all would end the command), no file with a name was where one
\* without is put, and recover always deduplicates.
ASSUME JobsAssumption ==
  /\ \A path \in PlantAt : ~IsOutputDir(path)
  /\ \A j \in Jobs :
       /\ IsFiniteSet(DOMAIN j.earlier)
       /\ \A path \in DOMAIN j.earlier : IsOutputDir(path) => j.earlier[path].kind = "dir"
       /\ \A v \in DOMAIN j.lost : j.lost[v] \in Seq(ToSet(j.lost[v]))
       /\ \A f \in LostFiles(j) : LostFile(f)
       /\ \A f, g \in LostFiles(j) : (f.nameless /\ ~g.nameless) => f.rel # g.rel
       /\ j.command = "recover" => j.dedup

VARIABLES
  pc, job, volumes,
  turn,        \* the volumes whose lost files were asked for
  todo,        \* the files still to be made: of a volume, or of a region
  left,        \* the regions still to be carved
  regions,     \* the regions chosen: a history
  seen,        \* digests that are not carved again
  rows,        \* the report
  faults
driver == <<pc, job, volumes, turn, todo, left, regions, seen, rows, faults>>
vars == <<driver, treeVars>>

Init ==
  /\ pc = "new" /\ job = [command |-> "none"]
  /\ volumes = <<>> /\ turn = 0 /\ todo = <<>> /\ left = <<>> /\ regions = <<>> /\ seen = {} /\ rows = <<>>
  /\ faults = 0 /\ tree = <<>> /\ cur = NoFile /\ others = <<>> /\ made = <<>>

Carving == job.command \in {"recover", "scan"}
Undeleting == job.command \in {"recover", "undelete"}
NamedDir == IF job.command = "recover" THEN << Folder("named") >> ELSE <<>>
CarvedDir == IF job.command = "recover" THEN << Folder("carved") >> ELSE <<>>
NameOk(name) == job.exts = {} \/ name.ext \in job.exts
Row(kind, path, digest) == [kind |-> kind, path |-> path, digest |-> digest]

(* ------------------------------ The volumes ---------------------------- *)
\* refuse_output_on_source, before the source is opened.
Start ==
  /\ pc = "new"
  /\ \E j \in Jobs :
       /\ job' = j
       /\ tree' = j.earlier /\ others' = j.earlier
       /\ pc' = CASE j.output_on_source -> "refused" [] ~j.output_on_source -> "detect"
  /\ UNCHANGED <<volumes, turn, todo, left, regions, seen, rows, faults, cur, made>>

NoneFound == << NoVolume >>
SelectVolume(disk, n) ==
  LET found == Detect(disk) IN IF n < Len(found) THEN << found[n + 1] >> ELSE NoneFound
\* Only recover goes on, to carve, when nothing is detected.
VolumesOf(j) ==
  CASE j.mode = "scan"   -> ScanLost(j.disk, j.step)
    [] j.mode = "offset" -> << ParseAt(AreaAt(j.disk, j.at), j.at, j.disk.size - j.at) >>
    [] j.mode = "volume" -> SelectVolume(j.disk, j.at)
    [] j.mode = "detect" ->
         LET found == Detect(j.disk) IN
           IF found = <<>> /\ j.command = "undelete" THEN NoneFound ELSE found

Undeletable == {"fat", "exfat", "ntfs", "ext", "hfs+", "iso"}
Lost(v) == IF v.fs \in Undeletable /\ v.at \in DOMAIN job.lost THEN job.lost[v.at] ELSE <<>>
FindVolumes ==
  /\ pc = "detect"
  /\ \E found \in {VolumesOf(job)} :
       \/ found = NoneFound /\ volumes' = <<>> /\ pc' = "failed"
       \/ found # NoneFound /\ volumes' = found /\ pc' = IF Undeleting THEN "undelete" ELSE "regions"
  /\ UNCHANGED <<job, turn, todo, left, regions, seen, rows, faults, treeVars>>

(* ------------------------------ The undelete --------------------------- *)
\* Several volumes have a directory each.
VolumeDir(i) == IF Len(volumes) > 1 THEN NamedDir \o << Name("volume", i - 1, "") >> ELSE NamedDir
NextVolume ==
  /\ pc = "undelete" /\ cur = NoFile /\ todo = <<>> /\ turn < Len(volumes)
  /\ turn' = turn + 1
  /\ LET lost == Lost(volumes[turn + 1]) IN
       todo' = [i \in DOMAIN lost |-> [lost[i] EXCEPT !.out = VolumeDir(turn + 1)]]
  /\ UNCHANGED <<pc, job, volumes, left, regions, seen, rows, faults, treeVars>>
NextFile(path, digest) ==
  /\ rows' = Append(rows, Row("named", path, digest))
  /\ seen' = IF digest = "" THEN seen ELSE seen \cup {digest}
  /\ todo' = Tail(todo) /\ cur' = NoFile
  /\ UNCHANGED <<pc, job, volumes, turn, left, regions, faults>>
Drop ==
  /\ todo' = Tail(todo) /\ cur' = NoFile
  /\ UNCHANGED <<pc, job, volumes, turn, left, regions, seen, rows, faults>>
Asked == Head(todo).out \o Head(todo).rel

\* A dry run gives a row without a digest.
Restore ==
  /\ pc = "undelete" /\ cur = NoFile /\ todo # <<>>
  /\ CASE ~Head(todo).nameless /\ ~NameOk(Last(Asked)) -> Drop /\ UNCHANGED <<tree, others, made>>
       [] (Head(todo).nameless \/ NameOk(Last(Asked))) /\ job.dry_run ->
            NextFile(Asked, "") /\ UNCHANGED <<tree, others, made>>
       [] (Head(todo).nameless \/ NameOk(Last(Asked))) /\ ~job.dry_run ->
            BeginFile(Head(todo).out, Head(todo).rel, Head(todo).content)
            /\ UNCHANGED <<driver, others, made>>

\* The path the report names is the one that was asked for.
Restored ==
  /\ pc = "undelete" /\ cur.step = "written" /\ ~Head(todo).nameless
  /\ made' = Append(made, [file |-> cur.file, content |-> cur.content])
  /\ NextFile(Asked, cur.content) /\ UNCHANGED <<tree, others>>

\* A file an NTFS record has no name for gets the extension of its content
\* (rename_by_content), and goes again if that is not wanted.  Both look at
\* the path that was asked for, whatever file is there.
RestoredNameless ==
  /\ pc = "undelete" /\ cur.step = "written" /\ Head(todo).nameless
  /\ LET ext == IF tree[Asked].kind = "file" THEN Identified[tree[Asked].holds] ELSE ""
         target == IF ext = "" THEN Asked
                   ELSE UniquePath(tree, [Asked EXCEPT ![Len(Asked)].ext = ext])
         moved == IF target = Asked THEN tree ELSE With(Without(tree, {Asked}), target, tree[Asked])
         file == IF cur.file = Asked THEN target ELSE cur.file
     IN IF NameOk(Last(target))
        THEN /\ tree' = moved
             /\ made' = Append(made, [file |-> file, content |-> cur.content])
             /\ NextFile(target, cur.content) /\ UNCHANGED others
        ELSE /\ tree' = IF moved[target].kind = "dir" THEN moved ELSE Without(moved, {target})
             /\ Drop /\ UNCHANGED <<others, made>>

\* A file that cannot be made or written is skipped; the row has no digest.
Skip ==
  /\ pc = "undelete" /\ cur.step = "failed"
  /\ NextFile(Asked, "") /\ UNCHANGED <<tree, others, made>>
UndeleteDone ==
  /\ pc = "undelete" /\ cur = NoFile /\ todo = <<>> /\ turn = Len(volumes)
  /\ pc' = IF Carving THEN "regions" ELSE "report"
  /\ UNCHANGED <<job, volumes, turn, todo, left, regions, seen, rows, faults, treeVars>>

(* ------------------------------- The carve ----------------------------- *)
ChooseRegions ==
  /\ pc = "regions"
  /\ regions' = IF job.unallocated THEN FreeSpaceRegions(job.disk, volumes) ELSE WholeSource(job.disk)
  /\ left' = regions' /\ pc' = "carve"
  /\ UNCHANGED <<job, volumes, turn, todo, seen, rows, faults, treeVars>>

CarvedRows == SelectSeq(rows, LAMBDA r : r.kind = "carved")
Enough == Len(CarvedRows) >= job.max_files
Within(region, c) == c.at \in region.at .. region.at + region.size - 1
NamedDigests == { rows[i].digest : i \in { k \in DOMAIN rows : rows[k].kind = "named" } } \ {""}
\* recover carves every region with the digests of the named files only;
\* scan carries on with those of the regions before.
NextRegion ==
  /\ pc = "carve" /\ cur = NoFile /\ todo = <<>> /\ left # <<>>
  /\ todo' = IF Enough THEN <<>> ELSE SelectSeq(job.carvable, LAMBDA c : Within(Head(left), c))
  /\ left' = IF Enough THEN <<>> ELSE Tail(left)
  /\ seen' = IF job.command = "recover" THEN NamedDigests ELSE seen
  /\ UNCHANGED <<pc, job, volumes, turn, regions, rows, faults, treeVars>>

Keep(path, digest) ==
  /\ rows' = Append(rows, Row("carved", path, digest))
  /\ seen' = IF job.dedup THEN seen \cup {digest} ELSE seen
  /\ todo' = Tail(todo) /\ cur' = NoFile
  /\ UNCHANGED <<pc, job, volumes, turn, left, regions, faults>>
Duplicate(digest) == job.dedup /\ digest \in seen
CarvedName(c) == Name("carved", c.at, c.ext)
CarvedPath(c) == IF job.organize THEN << Folder(c.ext), CarvedName(c) >> ELSE << CarvedName(c) >>
Carve ==
  /\ pc = "carve" /\ cur = NoFile /\ todo # <<>>
  /\ LET c == Head(todo) IN
       CASE Enough -> /\ todo' = <<>>
                      /\ UNCHANGED <<pc, job, volumes, turn, left, regions, seen, rows, faults, treeVars>>
         [] ~Enough /\ ~job.dry_run ->
              BeginFile(CarvedDir, CarvedPath(c), c.content) /\ UNCHANGED <<driver, others, made>>
         [] ~Enough /\ job.dry_run /\ Duplicate(c.content) -> Drop /\ UNCHANGED <<tree, others, made>>
         [] ~Enough /\ job.dry_run /\ ~Duplicate(c.content) ->
              Keep(CarvedDir \o CarvedPath(c), c.content) /\ UNCHANGED <<tree, others, made>>
\* write_file of the carver: a copy of what is known is taken away again.
Carved ==
  /\ pc = "carve" /\ cur.step = "written"
  /\ IF Duplicate(cur.content)
     THEN /\ tree' = Without(tree, {cur.file}) /\ Drop /\ UNCHANGED <<others, made>>
     ELSE /\ made' = Append(made, [file |-> cur.file, content |-> cur.content])
          /\ Keep(cur.file, cur.content) /\ UNCHANGED <<tree, others>>
\* A file that cannot be made ends the command: no report is written.
CarveFails ==
  /\ pc = "carve" /\ cur.step = "failed"
  /\ pc' = "failed"
  /\ UNCHANGED <<job, volumes, turn, todo, left, regions, seen, rows, faults, treeVars>>
CarveDone ==
  /\ pc = "carve" /\ cur = NoFile /\ todo = <<>> /\ left = <<>>
  /\ pc' = "report"
  /\ UNCHANGED <<job, volumes, turn, todo, left, regions, seen, rows, faults, treeVars>>

\* undelete says it failed when every volume was one it can only recognise.
Report ==
  /\ pc = "report"
  /\ pc' = IF job.command = "undelete" /\ volumes # <<>>
              /\ \A i \in DOMAIN volumes : volumes[i].fs \notin Undeletable
           THEN "failed" ELSE "done"
  /\ UNCHANGED <<job, volumes, turn, todo, left, regions, seen, rows, faults, treeVars>>

(* ------------------------------- The steps ----------------------------- *)
MakeFile ==
  /\ pc \in {"undelete", "carve"}
  /\ \/ (LookAtParent \/ MakeParent \/ CreateNew \/ WriteFile) /\ UNCHANGED driver
     \/ /\ WriteFails /\ faults < MaxFaults /\ faults' = faults + 1
        /\ UNCHANGED <<pc, job, volumes, turn, todo, left, regions, seen, rows>>
Meddle ==
  /\ cur # NoFile
  /\ \E p \in PlantAt, k \in PlantKinds : Plant(p, k)
  /\ UNCHANGED driver
Finished == pc \in {"done", "refused", "failed"} /\ UNCHANGED vars
Next ==
  \/ Start \/ FindVolumes \/ NextVolume \/ Restore \/ Restored \/ RestoredNameless \/ Skip
  \/ UndeleteDone \/ ChooseRegions \/ NextRegion \/ Carve \/ Carved \/ CarveFails \/ CarveDone \/ Report
  \/ MakeFile \/ Meddle \/ Finished
Spec == Init /\ [][Next]_vars

(* ------------------------------ Correctness ---------------------------- *)

\* A run that looks for volumes lists each one laid out on the disk once, at
\* its place and as what it is, and nothing else: from the backup of a
\* damaged GUID table, along a chain of extended boot records that comes back
\* on itself, through entries that repeat, past the boot sector of the file
\* system that was there before, inside an HFS wrapper, and with no table at
\* all (detect, detect_gpt, scan_lost_volumes, try_parse_volume, push_unique).
\* A table that `info` reads names them too (partition::read).
EachVolumeFoundOnceAsItself ==
  pc \notin {"new", "refused", "detect"} /\ job.mode \in {"detect", "scan"} =>
    /\ { [fs |-> volumes[i].fs, at |-> volumes[i].at] : i \in DOMAIN volumes } = job.laid_out
    /\ \A i, k \in DOMAIN volumes : volumes[i].at = volumes[k].at => i = k
    /\ ReadTable(job.disk).scheme # "none" =>
         job.table \subseteq { e.at : e \in ToSet(ReadTable(job.disk).entries) }

Sectors(r) == r.at .. r.at + r.size - 1
Carved_ == UNION { Sectors(regions[i]) : i \in DOMAIN regions }
\* With --unallocated nothing a live file holds is carved; what is free is
\* carved once and in one piece from each run of free clusters, across bytes
\* and block groups, as far as the map can be read; and the whole source when
\* a volume keeps a map nobody reads (free_extents, free_space_regions).
UnallocatedIsExactlyFree ==
  pc \in {"carve", "report", "done"} /\ Carving /\ job.unallocated =>
    IF HaveMaps(volumes)
    THEN /\ Carved_ \subseteq job.free
         /\ job.intact => Carved_ = job.free
         /\ \A i, k \in DOMAIN regions :
              i # k => Sectors(regions[i]) \cap Sectors(regions[k]) = {}
                       /\ regions[i].at + regions[i].size # regions[k].at
    ELSE regions = WholeSource(job.disk)

\* What a run has restored stays: every file it made and kept holds what was
\* written, no two in one file, none below a link, none a second copy of a
\* named one carved.  And what it did not make stays as it was, the files of
\* an earlier run and those another program puts in its way; only the folder
\* of the nameless is left out, where rename_by_content may take another's
\* file for its own (create_output_file, write_file of the carver).
RestoredAndKept ==
  /\ \A i \in DOMAIN made :
       /\ Occupied(tree, made[i].file) /\ tree[made[i].file] = Node("file", made[i].content)
       /\ \A k \in DOMAIN made : made[k].file = made[i].file => k = i
       /\ \A n \in 1 .. Len(made[i].file) - 1 : tree[SubSeq(made[i].file, 1, n)].kind = "dir"
  /\ \A p \in DOMAIN others :
       Folder("_unnamed") \notin ToSet(p) => Occupied(tree, p) /\ tree[p] = others[p]
  /\ job.command = "recover" =>
       \A i \in DOMAIN rows : rows[i].kind = "carved" => rows[i].digest \notin NamedDigests

\* The manifest of `recover --report` is directly verifiable (README.md:735):
\* when the command is done, the file each row names holds what the row says.
ManifestVerifies ==
  pc = "done" /\ job.command = "recover" /\ ~job.dry_run =>
    \A i \in DOMAIN rows :
      rows[i].digest # "" =>
        Occupied(tree, rows[i].path) /\ tree[rows[i].path].holds = rows[i].digest
=============================================================================
