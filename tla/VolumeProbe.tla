----------------------------- MODULE VolumeProbe -----------------------------
(***************************************************************************)
(* How a volume is recognised (try_parse_volume and parse_at of            *)
(* src/src/recover.rs, and the probe of every file system).                *)
(*                                                                         *)
(* A probe reads a few fixed places of the area that begins at an offset.  *)
(* What stands at a place is a stamp: the magics found there, whether the  *)
(* fields around them pass the tests of that file system's parse ("sane"), *)
(* the size they record and, in an HFS wrapper, how far the volume inside  *)
(* lies.  Places are named for their distance in KiB, sectors for theirs.  *)
(* "plain" at the boot sector is a sane BIOS parameter block without the   *)
(* jump that opens one.  Sizes and offsets are counted in sectors.         *)
(***************************************************************************)
EXTENDS Integers, Sequences, SequencesExt

Blank == [magics |-> {}, sane |-> FALSE, size |-> 0, shift |-> 0]
Stamped(area, place) == IF place \in DOMAIN area THEN area[place] ELSE Blank
Bears(area, place, magic) == magic \in Stamped(area, place).magics

\* What a probe answers.  A size past the end of the source is not believed
\* by the file systems that fall back to what is left of it.
Volume(fs, at, size) == [fs |-> fs, at |-> at, size |-> size]
NoVolume == Volume("none", 0, 0)
Believed(size, span) == IF size \in 1 .. span THEN size ELSE span

\* The first of the places that bears the magic.
FirstPlace(area, places, magic) ==
  LET i == SelectInSeq(places, LAMBDA p : Bears(area, p, magic)) IN IF i = 0 THEN "none" ELSE places[i]

\* Three ways to answer for a magic at a place: the size as recorded, the
\* size if it can be believed, and all that is left of the source.
AsRecorded(area, place, magic, fs, at) ==
  LET s == Stamped(area, place) IN
    IF magic \in s.magics /\ s.sane THEN Volume(fs, at, s.size) ELSE NoVolume
IfSane(area, place, magic, fs, at) ==
  IF Stamped(area, place).size > 0 THEN AsRecorded(area, place, magic, fs, at) ELSE NoVolume
AsBelieved(area, place, magic, fs, at, span) ==
  LET s == Stamped(area, place) IN
    IF magic \in s.magics /\ s.sane THEN Volume(fs, at, Believed(s.size, span)) ELSE NoVolume
AllThatIsLeft(area, place, magic, fs, at, span) ==
  IF Bears(area, place, magic) THEN Volume(fs, at, span) ELSE NoVolume

(* ------------------------------ The probes ----------------------------- *)
Encrypted(area, at, span) ==
  IF {"luks", "bitlocker"} \cap Stamped(area, "boot").magics # {}
  THEN Volume("encrypted", at, span) ELSE NoVolume
Exfat(area, at, span) == AsRecorded(area, "boot", "exfat", "exfat", at)
Ntfs(area, at, span) == AsRecorded(area, "boot", "ntfs", "ntfs", at)
Refs(area, at, span) ==
  LET s == Stamped(area, "boot") IN
    IF "refs" \notin s.magics THEN NoVolume
    ELSE Volume("refs", at, IF s.sane /\ s.size > 0 THEN s.size ELSE span)
Ext(area, at, span) == AsRecorded(area, "k1", "ext", "ext", at)
\* The volume in an HFS wrapper is looked for at the place the wrapper's own
\* fields give.
HfsPlusPlace(area) ==
  CASE Bears(area, "k1", "hfs+") -> "k1"
    [] ~Bears(area, "k1", "hfs+") /\ {"hfs", "embed"} \subseteq Stamped(area, "k1").magics
       /\ Bears(area, "embedded", "hfs+") -> "embedded"
    [] OTHER -> "none"
HfsPlus(area, at, span) ==
  LET p == HfsPlusPlace(area) IN
    IfSane(area, p, "hfs+", "hfs+", IF p = "embedded" THEN at + Stamped(area, "k1").shift ELSE at)
HfsStandard(area, at, span) ==
  IF Bears(area, "k1", "embed") THEN NoVolume ELSE IfSane(area, "k1", "hfs", "hfs", at)
Apfs(area, at, span) == IfSane(area, "boot", "apfs", "apfs", at)
Btrfs(area, at, span) == IfSane(area, "k64", "btrfs", "btrfs", at)
Xfs(area, at, span) == IfSane(area, "boot", "xfs", "xfs", at)
F2fs(area, at, span) == IfSane(area, "k1", "f2fs", "f2fs", at)
\* No second place is tried when the first with the magic is implausible.
Reiserfs(area, at, span) ==
  LET p == FirstPlace(area, <<"k64", "k8">>, "reiserfs") IN
    IF Stamped(area, p).size = 0 THEN NoVolume
    ELSE AsBelieved(area, p, "reiserfs", "reiserfs", at, span)
Jfs(area, at, span) ==
  IF Stamped(area, "k32").size = 0 THEN NoVolume
  ELSE AsBelieved(area, "k32", "jfs", "jfs", at, span)
Nilfs2(area, at, span) ==
  IF Bears(area, "k1", "nilfs2") THEN Volume("nilfs2", at, Believed(Stamped(area, "k1").size, span))
  ELSE NoVolume
Gfs2(area, at, span) == AllThatIsLeft(area, "k64", "gfs2", "gfs2", at, span)
Ocfs2(area, at, span) ==
  LET p == FirstPlace(area, <<"k1", "k2", "k4", "k8">>, "ocfs2") IN
    IF Stamped(area, p).size = 0 THEN NoVolume
    ELSE AsBelieved(area, p, "ocfs2", "ocfs2", at, span)
Minix(area, at, span) == AsBelieved(area, "k1", "minix", "minix", at, span)
Bcachefs(area, at, span) == AllThatIsLeft(area, "k4", "bcachefs", "bcachefs", at, span)
Befs(area, at, span) == AsBelieved(area, "s1", "befs", "befs", at, span)
Ufs(area, at, span) ==
  AsBelieved(area, FirstPlace(area, <<"k8", "k64">>, "ufs"), "ufs", "ufs", at, span)
Erofs(area, at, span) == AsBelieved(area, "k1", "erofs", "erofs", at, span)
Cramfs(area, at, span) == AsBelieved(area, "boot", "cramfs", "cramfs", at, span)
Romfs(area, at, span) == AsBelieved(area, "boot", "romfs", "romfs", at, span)
\* find_label looks in the first four sectors.
Lvm(area, at, span) ==
  LET p == FirstPlace(area, <<"boot", "s1", "k1", "s3">>, "lvm") IN
    IF p = "none" THEN NoVolume ELSE Volume("lvm", at, Believed(Stamped(area, p).size, span))
Mdraid(area, at, span) ==
  LET p == FirstPlace(area, <<"boot", "k4">>, "md") IN
    IF p = "none" THEN NoVolume ELSE Volume("md", at, Believed(Stamped(area, p).size, span))
Swap(area, at, span) ==
  LET s == Stamped(area, "page") IN
    IF "swap" \in s.magics /\ s.sane /\ s.size > 0
    THEN Volume("swap", at, IF s.size > span THEN span ELSE s.size) ELSE NoVolume
Fat(area, at, span) == AsRecorded(area, "boot", "fat", "fat", at)
\* fat::Volume::parse alone asks for no jump and no power of two.
FatByForce(area, at, span) ==
  IF Bears(area, "boot", "plain") THEN AsRecorded(area, "boot", "plain", "fat", at)
  ELSE Fat(area, at, span)
Udf(area, at, span) == AllThatIsLeft(area, "k32", "nsr", "udf", at, span)
Iso(area, at, span) ==
  LET s == Stamped(area, "k32") IN
    IF {"cd001", "primary"} \subseteq s.magics
    THEN Volume("iso", at, IF s.size = 0 THEN span ELSE s.size) ELSE NoVolume

(* ---------------------------- The order of them ------------------------ *)
FirstVolume(answers) ==
  LET i == SelectInSeq(answers, LAMBDA v : v # NoVolume) IN IF i = 0 THEN NoVolume ELSE answers[i]

\* Superblocks well inside the area come before the boot sector of FAT, and
\* the recognition area of a disc, which may be the tail of either, last.
Inner(area, at, span) ==
  << Ext(area, at, span), HfsPlus(area, at, span), HfsStandard(area, at, span),
     Apfs(area, at, span), Btrfs(area, at, span), Xfs(area, at, span), F2fs(area, at, span),
     Reiserfs(area, at, span), Jfs(area, at, span), Nilfs2(area, at, span), Gfs2(area, at, span),
     Ocfs2(area, at, span), Minix(area, at, span), Bcachefs(area, at, span), Befs(area, at, span),
     Ufs(area, at, span), Erofs(area, at, span), Cramfs(area, at, span), Romfs(area, at, span),
     Lvm(area, at, span), Mdraid(area, at, span), Swap(area, at, span) >>
Headed(area, at, span) ==
  << Encrypted(area, at, span), Exfat(area, at, span), Ntfs(area, at, span), Refs(area, at, span) >>

TryParseVolume(area, at, span) ==
  IF span < 1 THEN NoVolume
  ELSE FirstVolume(Headed(area, at, span) \o Inner(area, at, span)
                   \o << Fat(area, at, span), Udf(area, at, span), Iso(area, at, span) >>)

\* parse_at believes a caller who names an offset: no disc is looked for, and
\* a BIOS parameter block is enough for FAT.
ParseAt(area, at, span) ==
  FirstVolume(Headed(area, at, span) \o Inner(area, at, span) \o << FatByForce(area, at, span) >>)
=============================================================================
