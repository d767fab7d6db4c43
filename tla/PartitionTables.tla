--------------------------- MODULE PartitionTables ---------------------------
(***************************************************************************)
(* Where a disk says its volumes are (src/src/partition.rs), and how       *)
(* src/src/recover.rs finds them with the table or without it.             *)
(*                                                                         *)
(* A disk is [size, areas, gpt, signed, mbr, ebr, apm, bsd]: the areas by  *)
(* their offset, the GUID table headers by place ("p512", "b512", "p4k",   *)
(* "b4k": primary and backup, for either sector size), whether sector 0 is *)
(* signed, its four entries, the extended boot records by sector, and the  *)
(* entries of an Apple map and a BSD label.  Sectors are 512 bytes, and an *)
(* entry is [kind, at, size], its place counted from where its table says. *)
(***************************************************************************)
EXTENDS VolumeProbe

CONSTANTS
  MaxLogical,    \* records an extended partition's chain may have (256)
  MaxEntries,    \* entries of a GUID table that are read (1024)
  MaxMapBlocks,  \* blocks an Apple map may claim (1024)
  MaxProbes      \* places a scan for lost volumes looks at (16 million)
ASSUME TableAssumption ==
  {MaxLogical, MaxEntries, MaxMapBlocks, MaxProbes} \subseteq Nat \ {0}

Extended == "extended"
Entry(kind, at, size) == [kind |-> kind, at |-> at, size |-> size]
NoRecord == [signed |-> FALSE, logical |-> Entry("empty", 0, 0), next |-> Entry("empty", 0, 0)]
NoHeader == [usable |-> FALSE, entries |-> <<>>]

AreaAt(disk, at) == IF at \in DOMAIN disk.areas THEN disk.areas[at] ELSE <<>>
Probed(disk, at) == TryParseVolume(AreaAt(disk, at), at, disk.size - at)

(* ------------------------- The tables as they stand -------------------- *)
\* The next record is counted from the record that names it.
NextRecord_fromHere(base, at, r) == at + r.next.at
NextRecord(base, at, r) == base + r.next.at
\* walk_ebr_chain: a record's partition is counted from the record, the next
\* record from the start of the extended partition.  The chain ends at a
\* record already seen, one without a signature, or one that names no other.
LogicalsOf(disk, base) ==
  LET Follow(w, i) ==
        LET r == IF w.at \in DOMAIN disk.ebr THEN disk.ebr[w.at] ELSE NoRecord IN
          IF w.done \/ w.at \in w.visited \/ ~r.signed THEN [w EXCEPT !.done = TRUE]
          ELSE [at      |-> NextRecord(base, w.at, r),
                visited |-> w.visited \cup {w.at},
                out     |-> IF r.logical.kind = "empty" \/ r.logical.size = 0 THEN w.out
                            ELSE Append(w.out, [r.logical EXCEPT !.at = w.at + @]),
                done    |-> r.next.kind # Extended \/ r.next.at = 0]
      start == [at |-> base, visited |-> {}, out |-> <<>>, done |-> FALSE]
  IN FoldLeft(Follow, start, [i \in 1 .. MaxLogical |-> i]).out

Upto(s, n) == SubSeq(s, 1, IF Len(s) < n THEN Len(s) ELSE n)
Used(entries) == SelectSeq(entries, LAMBDA e : e.kind # "empty")
Scaled(entries, k) == [i \in DOMAIN entries |-> [entries[i] EXCEPT !.at = @ * k, !.size = @ * k]]

\* Primary before backup, small sectors before large: the first header that
\* is usable decides, whatever its entries say (read_gpt, parse_gpt_at).
Places == << "p512", "b512", "p4k", "b4k" >>
Header(disk, place) == IF place \in DOMAIN disk.gpt THEN disk.gpt[place] ELSE NoHeader
GptPlace(disk) == LET i == SelectInSeq(Places, LAMBDA p : Header(disk, p).usable) IN
  IF i = 0 THEN "none" ELSE Places[i]
GptEntries(disk) ==
  LET p == GptPlace(disk) IN
    Scaled(Used(Upto(Header(disk, p).entries, MaxEntries)), IF p \in {"p4k", "b4k"} THEN 8 ELSE 1)

\* An empty entry is skipped, an extended one listed with what is inside it.
MbrEntries(disk) ==
  LET List(out, e) ==
        CASE e.kind = "empty" \/ e.at = 0 -> out
          [] e.kind = Extended /\ e.at # 0 -> Append(out, e) \o LogicalsOf(disk, e.at)
          [] OTHER -> Append(out, e)
  IN IF disk.signed THEN FoldLeft(List, <<>>, disk.mbr) ELSE <<>>

\* An entry of no blocks is skipped, and one without the signature ends the
\* map, whatever length the first one claims.
ApmEntries(disk) ==
  LET end == SelectInSeq(disk.apm, LAMBDA e : e.kind = "unsigned")
      run == IF end = 0 THEN disk.apm ELSE SubSeq(disk.apm, 1, end - 1)
  IN IF run = <<>> \/ run[1].count \notin 1 .. MaxMapBlocks THEN <<>>
     ELSE LET listed == SelectSeq(Upto(run, run[1].count), LAMBDA e : e.size # 0)
          IN [i \in DOMAIN listed |-> Entry(listed[i].kind, listed[i].at, listed[i].size)]

BsdEntries(disk) == SelectSeq(disk.bsd, LAMBDA e : e.kind # "empty" /\ e.size # 0)

\* partition::read, what `info` lists.
ReadTable(disk) ==
  CASE GptPlace(disk) # "none" -> [scheme |-> "gpt", entries |-> GptEntries(disk),
                                   from_backup |-> GptPlace(disk) \in {"b512", "b4k"}]
    [] GptPlace(disk) = "none" /\ MbrEntries(disk) # <<>> ->
         [scheme |-> "mbr", entries |-> MbrEntries(disk), from_backup |-> FALSE]
    [] GptPlace(disk) = "none" /\ MbrEntries(disk) = <<>> ->
         LET list == IF ApmEntries(disk) # <<>> THEN ApmEntries(disk) ELSE BsdEntries(disk) IN
           [scheme |-> CASE list = <<>> -> "none" [] ApmEntries(disk) # <<>> -> "apm"
                         [] OTHER -> "bsd",
            entries |-> list, from_backup |-> FALSE]

(* ------------------------- The volumes they name ----------------------- *)
\* push_unique: two entries that name one start describe one volume.  What
\* counts is where the volume is, which a wrapper moves.
PushUnique(volumes, v) ==
  IF v = NoVolume \/ \E i \in DOMAIN volumes : volumes[i].at = v.at THEN volumes
  ELSE Append(volumes, v)
ProbedIn(disk, entries) ==
  FoldLeft(LAMBDA out, e : PushUnique(out, Probed(disk, e.at)), <<>>, entries)

\* detect_gpt does not look at sector 0, which is no partition.
DetectGpt(disk) == ProbedIn(disk, SelectSeq(GptEntries(disk), LAMBDA e : e.at # 0))

\* detect looks at every entry with a start, whatever its kind says, and
\* inside an extended one only at what its chain names.
DetectMbr(disk) ==
  LET Inside(e) == CASE e.at = 0 -> <<>>
                     [] e.at # 0 /\ e.kind = Extended -> LogicalsOf(disk, e.at)
                     [] OTHER -> <<e>>
  IN IF disk.signed THEN ProbedIn(disk, FlattenSeq([i \in DOMAIN disk.mbr |-> Inside(disk.mbr[i])]))
     ELSE <<>>

\* A table that names no volume it can read is as good as none.
Detect(disk) ==
  LET bare == Probed(disk, 0)
      gpt  == DetectGpt(disk)
      mbr  == DetectMbr(disk)
  IN CASE bare # NoVolume -> <<bare>>
       [] bare = NoVolume /\ gpt # <<>> -> gpt
       [] bare = NoVolume /\ gpt = <<>> /\ mbr # <<>> -> mbr
       [] OTHER -> ProbedIn(disk, ApmEntries(disk))

\* scan_lost_volumes steps over the body of what it finds, to the next step.
ScanLost(disk, step) ==
  LET Probe(w, i) ==
        LET v == Probed(disk, w.at)
            body == IF v.size < step THEN step ELSE v.size IN
          CASE w.at >= disk.size -> w
            [] w.at < disk.size /\ v = NoVolume -> [w EXCEPT !.at = @ + step]
            [] w.at < disk.size /\ v # NoVolume ->
                 [at |-> ((w.at + body + step - 1) \div step) * step, found |-> Append(w.found, v)]
  IN FoldLeft(Probe, [at |-> 0, found |-> <<>>], [i \in 1 .. MaxProbes |-> i]).found
=============================================================================
