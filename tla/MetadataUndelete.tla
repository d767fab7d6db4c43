-------------------------- MODULE MetadataUndelete --------------------------
(***************************************************************************)
(* Volume::recover_deleted of src/src/recover.rs for the file systems that *)
(* keep a file's place in metadata of its own: one volume lives, and one   *)
(* recovery reads what is left of it.                                      *)
(***************************************************************************)
EXTENDS NtfsUndelete, ExtUndelete, HfsUndelete, IsoExtract

Life == NtfsLife \/ ExtLife \/ HfsLife \/ IsoLife
Recover == NtfsRecover \/ ExtRecover \/ HfsRecover \/ IsoRecover
Step == NtfsStep \/ ExtStep \/ HfsStep \/ IsoStep
Finished == pc = "done" /\ UNCHANGED vars
Next == Life \/ Recover \/ Step \/ Finished
Spec == Init /\ [][Next]_vars

(* ------------------------------ Correctness ---------------------------- *)

\* What x was, and what its blocks hold now.
Whole_(x) ==
  IF lives[x].blocks = <<>> THEN Content(x)
  ELSE [k \in DOMAIN lives[x].blocks |->
          IF lives[x].blocks[k] = 0 THEN Zero ELSE [of |-> x, part |-> k]]
Image(x) ==
  IF lives[x].blocks = <<>> THEN Content(x)
  ELSE [k \in DOMAIN lives[x].blocks |->
          IF lives[x].blocks[k] = 0 THEN Zero ELSE disk[lives[x].blocks[k]]]
Present(x) == Image(x) = Whole_(x) /\ \A b \in ToSet(lives[x].blocks) : b <= SourceEnd
MetadataSurvives(x) ==
  CASE fs = "ntfs" -> NtfsSurvives(x) [] fs = "ext" -> ExtSurvives(x)
    [] fs = "hfs"  -> HfsSurvives(x)  [] fs = "iso" -> IsoSurvives(x)
PathSurvives(x) ==
  CASE fs = "ntfs" -> NtfsPathSurvives(x) [] fs = "ext" -> ExtPathSurvives(x)
    [] fs = "hfs"  -> HfsPathSurvives(x)  [] fs = "iso" -> IsoPathSurvives(x)

\* A file whose metadata and blocks are left comes back whole, and under its
\* own path when that is left too: through the newest journaled inode of a
\* reused number, through stale catalog records, through overflow extents,
\* through nested folders deleted with it, and across several records of one
\* file (recover_deleted of ntfs.rs, ext4.rs, hfsplus.rs and iso9660.rs).
SurvivorsComeBack ==
  pc = "done" /\ ~dry_run /\ faults = 0 =>
    \A x \in wanted \cap Born :
      /\ fs = "iso" \/ x \notin alive
      /\ MetadataSurvives(x) /\ Present(x)
      /\ PathSurvives(x) \/ wanted = Files
      =>
        \E i \in DOMAIN reports :
          /\ reports[i].recovered /\ reports[i].out = Whole_(x)
          /\ PathSurvives(x) => reports[i].path = lives[x].path

\* Whatever is written is the blocks of one file in their order, from its
\* first: never those of two files that had one record or inode, never with
\* one left out or taken from a torn record or a stray overflow extent; it
\* may end early, and the report says how long it is.
BlocksOfOneFile ==
  \A i \in DOMAIN reports :
    reports[i].out # <<>> =>
      /\ reports[i].size = Len(reports[i].out)
      /\ \E x \in Born : lives[x].key = reports[i].key /\ IsPrefix(reports[i].out, Image(x))

\* No file is reported twice, and none that is still there: not by a stale
\* copy of its catalog record, an old directory entry or a folder reached by
\* two paths.
EachLostFileOnce ==
  \A i \in DOMAIN reports :
    /\ \A j \in DOMAIN reports : reports[j].key = reports[i].key => j = i
    /\ fs # "iso" => \A x \in alive : lives[x].key # reports[i].key

\* No other file or folder ever had the record, inode or catalog number.
Unshared(x) == \A y \in Born \ {x} : lives[y].key # lives[x].key
\* A recovered file goes by its own name, in the folders it was in as far as
\* they are still known: a lost folder, or one deleted with the file, never
\* puts it under another.  A record reused, of the file or of a folder,
\* takes this away (resolve_path of ntfs.rs and hfsplus.rs, walk of ext4.rs).
NamedAsItWas ==
  \A i \in DOMAIN reports : \A x \in Born \cap Files :
    /\ reports[i].key = lives[x].key
    /\ fs # "iso" => \A y \in ToSet(lives[x].path) : Unshared(y)
    =>
      \/ IsSuffix(reports[i].path, lives[x].path)
      \/ fs = "ntfs" /\ reports[i].path[1] = "_unnamed"
      \/ fs = "iso" /\ \E k \in DOMAIN reports[i].path : reports[i].path[k] = Short
=============================================================================
