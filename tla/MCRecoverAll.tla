---------------------------- MODULE MCRecoverAll ----------------------------
(***************************************************************************)
(* RecoverAll on small disks of three kinds: disks laid out in every way a *)
(* volume may be found, volumes with every pattern of free units, and      *)
(* volumes whose lost files want the same names.                           *)
(***************************************************************************)
EXTENDS RecoverAll

(* ------------------------------- The disks ----------------------------- *)
Stamp(magics, size) == [magics |-> magics, sane |-> TRUE, size |-> size, shift |-> 0]
\* Where mkfs puts the superblock.
Home == [ encrypted |-> "boot", exfat |-> "boot", ntfs |-> "boot", refs |-> "boot",
          apfs |-> "boot", xfs |-> "boot", cramfs |-> "boot", romfs |-> "boot", fat |-> "boot",
          befs |-> "s1", lvm |-> "s1", ext |-> "k1", hfs |-> "k1", f2fs |-> "k1",
          nilfs2 |-> "k1", minix |-> "k1", erofs |-> "k1", ocfs2 |-> "k2", bcachefs |-> "k4",
          md |-> "k4", ufs |-> "k8", jfs |-> "k32", udf |-> "k32", iso |-> "k32",
          reiserfs |-> "k64", btrfs |-> "k64", gfs2 |-> "k64", swap |-> "page" ]
       @@ [ x \in {"hfs+"} |-> "k1" ]
FileSystems == DOMAIN Home
Magics(fs) ==
  CASE fs = "encrypted" -> {"bitlocker", "fat"} [] fs = "udf" -> {"nsr", "cd001", "primary"}
    [] fs = "iso" -> {"cd001", "primary"}       [] OTHER -> {fs}
Formatted(fs, size) == Home[fs] :> Stamp(Magics(fs), size)
\* A FAT volume was here before; its boot sector outlived it.
OverFat(fs, size) == Formatted(fs, size) @@ "boot" :> Stamp({"fat"}, size)
\* An HFS wrapper, the HFS+ volume two sectors in.
Wrapped(size) == "k1" :> [Stamp({"hfs", "embed"}, size) EXCEPT !.shift = 2]
              @@ "embedded" :> Stamp({"hfs+"}, size - 2)

Bare == [size |-> 0, areas |-> <<>>, gpt |-> <<>>, signed |-> FALSE, mbr |-> <<>>, ebr |-> <<>>,
         apm |-> <<>>, bsd |-> <<>>, maps |-> <<>>]
One == 8
Two == 16
Three == 24
End == 36
Listed(kind) ==
  << Entry(kind, One, 6), Entry("empty", 0, 0), Entry(kind, Two, 6), Entry(kind, Three, 6) >>
Large == << Entry("linux", 1, 1), Entry("linux", 2, 1), Entry("linux", 3, 1) >>
Gpt(place, entries) == place :> [usable |-> TRUE, entries |-> entries]
Record(kind, next) ==
  [signed |-> TRUE, logical |-> Entry("linux", 1, 6), next |-> Entry(kind, next, 0)]
Marked(e) == [kind |-> e.kind, at |-> e.at, size |-> e.size, count |-> 4]
Schemes == {"gpt", "gpt4k", "backup", "mbr", "twice", "chain", "loop", "apm"}
\* The last record of a chain names none, or itself.
Tabled(disk, scheme) ==
  CASE scheme = "gpt"    -> [disk EXCEPT !.gpt = Gpt("p512", Listed("linux")) @@ Gpt("b512", <<>>)]
    [] scheme = "backup" -> [disk EXCEPT !.gpt = Gpt("b512", Listed("linux"))]
    [] scheme = "gpt4k"  -> [disk EXCEPT !.gpt = Gpt("p4k", Large)]
    [] scheme = "mbr"    -> [disk EXCEPT !.signed = TRUE, !.mbr = Listed("linux")]
    [] scheme = "twice"  -> [disk EXCEPT !.signed = TRUE,
                               !.mbr = [Listed("linux") EXCEPT ![2] = Entry("fat", Three, 6)]]
    [] scheme = "chain"  -> [disk EXCEPT !.signed = TRUE, !.mbr = << Entry(Extended, One - 1, 24) >>,
                               !.ebr = One - 1 :> Record(Extended, 8) @@ Two - 1 :> Record(Extended, 16)
                                       @@ Three - 1 :> Record("empty", 0)]
    [] scheme = "loop"   -> [disk EXCEPT !.signed = TRUE,
                               !.mbr = << Entry("linux", One, 6), Entry(Extended, Two - 1, 16) >>,
                               !.ebr = Two - 1 :> Record(Extended, 8)
                                       @@ Three - 1 :> Record(Extended, 8)]
    [] scheme = "apm"    -> [disk EXCEPT !.apm = [i \in 1 .. 4 |-> Marked(Listed("linux")[i])]]
    [] scheme = "none"   -> disk

(* -------------------------------- The jobs ----------------------------- *)
Job(command, disk) ==
  [command |-> command, mode |-> "detect", at |-> 0, step |-> 8, output_on_source |-> FALSE,
   unallocated |-> FALSE, dry_run |-> FALSE, organize |-> FALSE, dedup |-> TRUE, max_files |-> 9,
   exts |-> {}, disk |-> disk, lost |-> <<>>, carvable |-> <<>>, earlier |-> << >>,
   laid_out |-> {}, table |-> {}, free |-> {}, intact |-> TRUE]
At(fs, at) == [fs |-> fs, at |-> at]

\* A volume between two others; with no table the disk is scanned.
ListJob(fs, area, shift, scheme) ==
  LET disk == [Bare EXCEPT !.size = End,
                 !.areas = One :> Formatted("ntfs", 6) @@ Two :> area @@ Three :> Formatted("ext", 6)]
  IN [Job("recover", Tabled(disk, scheme)) EXCEPT !.mode = IF scheme = "none" THEN "scan" ELSE "detect", !.dry_run = TRUE,
        !.laid_out = {At("ntfs", One), At(fs, Two + shift), At("ext", Three)},
        !.table = IF scheme = "none" THEN {} ELSE {One, Two, Three}]
BareJob(fs, area, shift) ==
  [Job("undelete", [Bare EXCEPT !.size = 6, !.areas = 0 :> area]) EXCEPT
     !.laid_out = {At(fs, shift)}]
\* A volume whose size is all that is left of the source ends a scan.
Endless == {"encrypted", "gfs2", "bcachefs", "udf"}
Old == { fs \in FileSystems : Home[fs] # "boot" /\ fs \notin {"udf", "iso"} }
ListJobs ==
  { ListJob(fs, Formatted(fs, 6), 0, s) : fs \in FileSystems, s \in Schemes }
  \cup { ListJob(fs, Formatted(fs, 6), 0, "none") : fs \in FileSystems \ Endless }
  \cup { ListJob(fs, OverFat(fs, 6), 0, s) : fs \in Old, s \in {"gpt", "loop"} }
  \cup { ListJob("hfs+", Wrapped(6), 2, s) : s \in Schemes }
  \cup { BareJob(fs, Formatted(fs, 6), 0) : fs \in FileSystems }
  \cup { BareJob(fs, OverFat(fs, 6), 0) : fs \in Old }
OtherJobs ==
  { [Job("undelete", [Bare EXCEPT !.size = End, !.areas = One :> Formatted("xfs", 6) @@
                                                          Two :> ("boot" :> Stamp({"plain"}, 6))]) EXCEPT
       !.mode = m, !.at = a] : m \in {"offset", "volume", "detect"}, a \in {0, One, Two} }
  \cup { [Job(c, Bare) EXCEPT !.output_on_source = TRUE] : c \in {"recover", "scan"} }
  \cup { [Job("recover", [Bare EXCEPT !.size = 4,
                            !.bsd = << Entry("empty", 0, 4), Entry("4.2BSD", 2, 2) >>]) EXCEPT
            !.table = {2}] }

(* --------------------------- Maps of free space ------------------------ *)
Units == 0 .. 4
Base(fs) == CASE fs \in {"fat", "exfat"} -> 4 [] fs = "ext" -> 1 [] OTHER -> 0
\* The bitmap of the units taken, W of them from the first.
Low(taken, from, n) ==
  [b \in 1 .. (n + ByteBits - 1) \div ByteBits |->
     [k \in 0 .. ByteBits - 1 |-> from + (b - 1) * ByteBits + k \in taken]]
High(taken, n) ==
  [b \in 1 .. (n + ByteBits - 1) \div ByteBits |->
     [k \in 0 .. ByteBits - 1 |-> (b - 1) * ByteBits + ByteBits - 1 - k \in taken]]
MapOf(fs, free, damage) ==
  LET taken == Units \ free
      whole == CASE fs = "ext"  -> << Low(taken, 1, 3), Low(taken, 4, 1) >>
                 [] fs = "hfs+" -> << High(taken, 5) >>
                 [] OTHER       -> << Low(taken, 0, 5) >>
      Cut(s) == SubSeq(s, 1, Len(s) - 1)
  IN [readable |-> damage # "lost", first |-> Base(fs), unit |-> 2, count |-> 5, per |-> 3,
      table |-> LET fat == << 9, 9 >> \o [u \in 1 .. 5 |-> IF u - 1 \in free THEN 0 ELSE 9]
                IN IF damage = "whole" THEN fat ELSE Cut(fat),
      bits |-> IF damage = "whole" THEN whole
               ELSE IF fs = "ext" THEN Cut(whole) ELSE << Cut(whole[1]) >>]
\* The boot block of an ext volume is before its first data block.
UnitAt(fs, at, u) == IF fs \in {"fat", "exfat"} THEN Base(fs) + u * 2 ELSE at + u * 2
FreeSectors(fs, at, free) ==
  UNION { UnitAt(fs, at, u) .. UnitAt(fs, at, u) + 1 : u \in free }
FreeJob(command, fs, free, damage) ==
  [Job(command, [Bare EXCEPT !.size = 14, !.areas = 0 :> Formatted(fs, 14),
                   !.maps = 0 :> MapOf(fs, free, damage)]) EXCEPT
     !.unallocated = TRUE, !.dry_run = TRUE, !.laid_out = {At(fs, 0)},
     !.free = FreeSectors(fs, 0, free), !.intact = damage = "whole"]
\* A second volume, with a map or with one nobody reads.
PairJob(fs, free) ==
  LET disk == [Bare EXCEPT !.size = End,
                 !.areas = One :> Formatted("ntfs", 8) @@ Two :> Formatted(fs, 10),
                 !.maps = One :> [MapOf("ntfs", {1, 3}, "whole") EXCEPT !.count = 4]
                          @@ Two :> MapOf(fs, free, "whole")]
  IN [Job("recover", [disk EXCEPT !.signed = TRUE, !.mbr = SubSeq(Listed("linux"), 1, 3)]) EXCEPT
        !.unallocated = TRUE, !.dry_run = TRUE, !.laid_out = {At("ntfs", One), At(fs, Two)},
        !.table = {One, Two},
        !.free = FreeSectors("ntfs", One, {1, 3}) \cup FreeSectors(fs, Two, free)]
Patterns(fs) == { free \in SUBSET Units : fs = "ext" => 0 \notin free }
FreeJobs ==
  UNION { { FreeJob(c, fs, free, d) : free \in Patterns(fs), d \in {"whole", "cut", "lost"},
              c \in {"recover", "scan"} } : fs \in Mapped }
  \cup { PairJob(fs, free) : fs \in {"ext", "hfs+", "xfs"}, free \in Patterns("ext") }

(* ------------------------- Files that want a name ---------------------- *)
Top == << Folder("named") >>
File(path, content) == [out |-> <<>>, rel |-> path, content |-> content, nameless |-> FALSE]
Nameless(n, content) ==
  [out |-> <<>>, rel |-> << Folder("_unnamed"), Name("mft", n, "bin") >>, content |-> content,
   nameless |-> TRUE]
A == Name("a", 0, "jpg")
Dir == Folder("d")
Found(at, content) == [at |-> at, content |-> content, ext |-> "jpg"]
Ran(path, content) ==
  [p \in {<<>>, Top} |-> Directory] @@
  [p \in { Top \o SubSeq(path, 1, n) : n \in 1 .. Len(path) - 1 } |-> Directory] @@
  (Top \o path) :> Node("file", content)
NoRun == <<>> :> Directory

SaveDisk == [Bare EXCEPT !.size = 14, !.areas = 0 :> Formatted("ntfs", 14),
               !.maps = 0 :> MapOf("ntfs", {1, 3}, "whole")]
SaveJob(lost, earlier, exts) ==
  [Job("recover", SaveDisk) EXCEPT !.unallocated = TRUE, !.laid_out = {At("ntfs", 0)},
     !.free = FreeSectors("ntfs", 0, {1, 3}), !.lost = 0 :> lost, !.earlier = earlier, !.exts = exts,
     !.carvable = << Found(2, "x"), Found(3, "z"), Found(4, "live"), Found(6, "z") >>]
SaveJobs ==
  { SaveJob(lost, earlier, {}) :
      lost \in { << File(<<Dir, A>>, "x"), File(<<Dir, A>>, "y") >>,
                 << File(<<A>>, "x"), File(<<A, Dir>>, "y") >>,
                 << Nameless(7, "y"), File(<<Dir, A>>, "x") >>,
                 << Nameless(7, "?"), Nameless(8, "y") >> },
      earlier \in { NoRun, Ran(<<Dir, A>>, "old"), Ran(<<Folder("_unnamed"), Name("mft", 7, "bin")>>, "old") } }
  \cup { SaveJob(<< Nameless(7, "?"), File(<<A>>, "x"), File(<<Dir>>, "y") >>, e, {"jpg"}) :
           e \in { NoRun, Ran(<<Folder("_unnamed"), Name("mft", 7, "bin")>>, "old") } }
  \cup { [SaveJob(<<>>, NoRun, {}) EXCEPT !.command = "scan", !.dedup = d, !.max_files = m, !.organize = o] :
           d \in BOOLEAN, m \in {1, 9}, o \in BOOLEAN }
  \cup { [SaveJob(<< File(<<A>>, "x") >>, NoRun, {}) EXCEPT !.unallocated = FALSE, !.dry_run = d] :
           d \in BOOLEAN }

AllJobs == ListJobs \cup OtherJobs \cup FreeJobs \cup SaveJobs
Kinds == [c \in {"x", "y", "z", "old", "theirs", "live", "?", ""} |-> IF c = "y" THEN "png" ELSE ""]
InTheWay == { Top \o <<Dir>>, Top \o <<Dir, A>>, << Folder("carved"), Name("carved", 3, "jpg") >> }
=============================================================================
