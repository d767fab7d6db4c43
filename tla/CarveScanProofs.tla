-------------------------- MODULE CarveScanProofs --------------------------
(***************************************************************************)
(* What a scan promises, for every source, option set, chunk size, and     *)
(* every sequence of runs, kills, cancels and resumes:                     *)
(*   - positions, counters and the checkpoint stay typed (TypeOK);         *)
(*   - a file written whole is never touched again (NeverClobbers);        *)
(*   - every manifest row names its own whole file (ManifestBacked);       *)
(*   - no row lies inside an earlier one (NothingNested);                  *)
(*   - the counts are the manifest's (CountsMatchManifest), a scan that is *)
(*     killed, cancelled and resumed, however often, finds what one        *)
(*     uninterrupted scan finds (ResumeEqualsUninterrupted), and from each *)
(*     checkpoint on the way the rest can be done (CheckpointSound),       *)
(*     provided the signature table names every extension a file can be    *)
(*     given.                                                              *)
(*                                                                         *)
(* For the resumes the reference, Continue, is followed position by        *)
(* position: a function f with Traces(f, pos, s) holds what has been found *)
(* before each position.  The invariant says that the run's tally is that  *)
(* of f at the run's position, and the checkpoint's that of f at the       *)
(* checkpoint's.                                                           *)
(***************************************************************************)
EXTENDS CarveReference, SetFacts

-----------------------------------------------------------------------------
(* The types. *)

Exts == {c.ext : c \in Candidates}
Digests == {c.digest : c \in Candidates}
FileNames == Nat \X Nat \X Exts \X Nat
Rows == [name : FileNames, start : Nat, size : Nat, ext : Exts, digest : Digests,
         grade : Grades]
Tallies == [files : Seq(Rows), recovered : Nat, duplicates : Nat, rejected : Nat,
            large : Nat, grades : [Grades -> Nat]]
Saved(limit) == [pos : 0 .. limit, skip : 0 .. limit, stats : Tallies, seen : SUBSET Digests]

\* The checkpoint file is missing or holds a state of the tally.
Typed ==
  /\ pc \in {"idle", "loop", "scan", "write", "flush", "stop", "final"}
  /\ outcome \in {"none", "complete", "cancelled", "stopped", "killed"}
  /\ opts \in Options /\ cancel \in BOOLEAN /\ runs \in 0 .. MaxRuns
  /\ abs \in Nat /\ at \in Nat /\ last_checkpoint \in Nat /\ n \in 0 .. ScanChunk + Overlap
  /\ last_checkpoint <= abs /\ abs <= opts.end
  /\ skip_until \in 0 .. opts.end /\ seen \in SUBSET Digests /\ stats \in Tallies
  /\ ckpt # NoCheckpoint => ckpt \in Saved(opts.end)
  /\ IsFiniteSet(DOMAIN disk)

\* The scan loop stays inside the chunk that was read.
Placed ==
  pc \in {"scan", "write"} => n <= Want /\ abs <= at /\ at <= ScanLimit

\* While a file is being written the scan stands at its candidate, and its name
\* is that of the next row; the file is on disk, not yet whole (a dry run
\* writes none).  The name outlives the run that is killed there.
Opened ==
  /\ pc = "write" =>
       /\ Ahead # {} /\ Considered(Nearest, skip_until)
       /\ \E k \in Nat : writing = Named(stats.recovered, Nearest, k)
       /\ ~ opts.dry_run =>
            /\ writing \in DOMAIN disk
            /\ disk[writing] = [digest |-> Nearest.digest, whole |-> FALSE]
  /\ writing # NoName /\ ~ opts.dry_run => writing \in DOMAIN disk

-----------------------------------------------------------------------------
(* The constants. *)

LEMMA CandidateFacts ==
  ASSUME NEW c \in Candidates
  PROVE  /\ c.at \in Nat /\ c.off \in Nat /\ c.reach \in Nat /\ c.len \in Nat /\ c.reach > 0
         /\ c.reach + c.off <= Overlap /\ c.at < Size
         /\ c.ext \in Exts /\ c.digest \in Digests
BY SourceAssumption, ScanAssumption DEF Exts, Digests

LEMMA OptionFacts ==
  ASSUME opts \in Options
  PROVE  /\ opts.end \in Nat /\ opts.end <= Size
         /\ opts.allow_nested \in BOOLEAN /\ opts.validate \in BOOLEAN
         /\ opts.dedup \in BOOLEAN /\ opts.dry_run \in BOOLEAN
<1>1. opts.end \in Ends /\ Ends \subseteq 0 .. Size /\ Size \in Nat
  BY SourceAssumption DEF Options
<1>2. opts.end \in 0 .. Size
  BY <1>1
<1>3. opts.end \in Nat /\ opts.end <= Size
  BY <1>1, <1>2
<1> QED
  BY <1>3 DEF Options

-----------------------------------------------------------------------------
(* The rows that read_checkpoint keeps. *)

\* part is what is left of the first m rows of the whole when some are dropped:
\* each row of it is one of the whole, in the same order.
Embeds(e, part, whole, m) ==
  /\ e \in [DOMAIN part -> 1 .. m]
  /\ \A i \in DOMAIN part : part[i] = whole[e[i]]
  /\ \A i, j \in DOMAIN part : i < j => e[i] < e[j]

LEMMA EmbedKeep ==
  ASSUME NEW T, NEW whole \in Seq(T), NEW m \in Nat, m + 1 \in DOMAIN whole,
         NEW part \in Seq(T), NEW e, Embeds(e, part, whole, m)
  PROVE  \E d : Embeds(d, Append(part, whole[m + 1]), whole, m + 1)
<1> DEFINE L == Len(part)
           new == Append(part, whole[m + 1])
           d == [i \in 1 .. L + 1 |-> IF i = L + 1 THEN m + 1 ELSE e[i]]
<1>1. /\ L \in Nat /\ DOMAIN part = 1 .. L /\ DOMAIN new = 1 .. L + 1
      /\ new[L + 1] = whole[m + 1] /\ \A i \in 1 .. L : new[i] = part[i]
  OBVIOUS
<1> HIDE DEF L, new
<1>2. \A i \in 1 .. L : e[i] \in 1 .. m
  BY <1>1 DEF Embeds
<1>3. \A i \in 1 .. L + 1 : i # L + 1 => i \in 1 .. L
  BY <1>1
<1>4. d \in [1 .. L + 1 -> 1 .. m + 1]
  BY <1>2, <1>3
<1>5. \A i \in 1 .. L + 1 : new[i] = whole[d[i]]
  <2> TAKE i \in 1 .. L + 1
  <2>1. i # L + 1 => part[i] = whole[e[i]]
    BY <1>1, <1>3 DEF Embeds
  <2> QED
    BY <1>1, <1>3, <2>1
<1>6. \A i, j \in 1 .. L + 1 : i < j => d[i] < d[j]
  <2> TAKE i, j \in 1 .. L + 1
  <2> HAVE i < j
  <2>1. i \in 1 .. L /\ d[i] = e[i]
    BY <1>1
  <2>2. CASE j = L + 1
    BY <1>2, <2>1, <2>2
  <2>3. CASE j # L + 1
    <3>1. j \in 1 .. L /\ d[j] = e[j]
      BY <1>3, <2>3
    <3>2. e[i] < e[j]
      BY <1>1, <2>1, <3>1 DEF Embeds
    <3> QED
      BY <2>1, <3>1, <3>2
  <2> QED
    BY <2>2, <2>3
<1> HIDE DEF d
<1>7. Embeds(d, new, whole, m + 1)
  BY <1>1, <1>4, <1>5, <1>6 DEF Embeds
<1> QED
  BY <1>7 DEF new

LEMMA EmbedDrop ==
  ASSUME NEW whole, NEW m \in Nat, NEW part, NEW e, Embeds(e, part, whole, m)
  PROVE  Embeds(e, part, whole, m + 1)
BY DEF Embeds

\* The recursion that KnownRows is defined by.
LEMMA KnownRowsRecursion ==
  ASSUME NEW T, NEW rows \in Seq(T)
  PROVE  \E f \in [0 .. Len(rows) -> Seq(T)] :
           /\ KnownRows(rows) = f[Len(rows)]
           /\ \A i \in 0 .. Len(rows) :
                f[i] = IF i = 0 THEN <<>>
                       ELSE IF rows[i].ext \in KnownExts THEN Append(f[i - 1], rows[i])
                       ELSE f[i - 1]
<1> DEFINE L == Len(rows)
           Body(f) == [i \in 0 .. Len(rows) |->
                         IF i = 0 THEN <<>>
                         ELSE IF rows[i].ext \in KnownExts THEN Append(f[i - 1], rows[i])
                         ELSE f[i - 1]]
           step == [i \in 0 + 1 .. L |-> [s \in Seq(T) |->
                      IF rows[i].ext \in KnownExts THEN Append(s, rows[i]) ELSE s]]
           kept == CHOOSE f : f = Body(f)
<1>1. L \in Nat /\ \A i \in 1 .. L : rows[i] \in T
  OBVIOUS
<1>2. step \in [0 + 1 .. L -> [Seq(T) -> Seq(T)]]
  BY <1>1
<1>3. PICK f \in [0 .. L -> Seq(T)] :
        \A i \in 0 .. L : f[i] = IF i = 0 THEN <<>> ELSE step[i][f[i - 1]]
  <2>1. Recursive(0, L, Seq(T), <<>>, step)
    BY <1>1, <1>2 DEF Recursive
  <2>2. \E f : Follows(f, 0, L, Seq(T), <<>>, step)
    <3> HIDE DEF L, step
    <3> QED BY <2>1, RecursionHolds
  <2> HIDE DEF L, step
  <2> QED
    BY <2>2 DEF Follows
<1>4. f = Body(f)
  <2>1. \A i \in 0 .. L : i # 0 => i \in 0 + 1 .. L /\ i - 1 \in 0 .. L /\ f[i - 1] \in Seq(T)
    BY <1>1, <1>3
  <2>2. \A i \in 0 .. L : f[i] = Body(f)[i]
    BY <1>3, <2>1
  <2> QED
    BY <1>3, <2>2
<1>5. kept = Body(kept)
  <2> HIDE DEF Body
  <2> QED BY <1>4
<1>6. KnownRows(rows) = kept[L]
  BY DEF KnownRows
<1> DEFINE Same == {i \in Nat : i <= L => kept[i] = f[i]}
<1>7. \A i \in Nat : i \in Same
  <2>1. \A i \in 0 .. L :
          kept[i] = IF i = 0 THEN <<>>
                    ELSE IF rows[i].ext \in KnownExts THEN Append(kept[i - 1], rows[i])
                    ELSE kept[i - 1]
    <3> HIDE DEF kept
    <3> QED BY <1>5
  <2>2. \A i \in 0 .. L :
          f[i] = IF i = 0 THEN <<>>
                 ELSE IF rows[i].ext \in KnownExts THEN Append(f[i - 1], rows[i])
                 ELSE f[i - 1]
    BY <1>4
  <2> HIDE DEF kept
  <2>3. 0 \in Same
    BY <1>1, <2>1, <2>2
  <2>4. \A i \in Nat : i \in Same => i + 1 \in Same
    <3> SUFFICES ASSUME NEW i \in Nat, i \in Same, i + 1 <= L
                 PROVE  kept[i + 1] = f[i + 1]
      OBVIOUS
    <3>1. PICK j \in 0 .. L : j = i + 1 /\ j # 0 /\ j - 1 = i
      BY <1>1
    <3>2. kept[i] = f[i]
      BY <1>1
    <3>3. kept[j] = f[j]
      BY <2>1, <2>2, <3>1, <3>2
    <3> QED
      BY <3>1, <3>3
  <2> HIDE DEF Same
  <2> QED
    BY <2>3, <2>4, InductionOnSet
<1>8. kept[L] = f[L]
  <2> HIDE DEF kept
  <2>1. L \in Same /\ L \in Nat
    <3> HIDE DEF Same, L
    <3> QED BY <1>1, <1>7
  <2> HIDE DEF L
  <2> QED
    BY <2>1
<1> HIDE DEF kept
<1>9. \A i \in 0 .. L :
        f[i] = IF i = 0 THEN <<>>
               ELSE IF rows[i].ext \in KnownExts THEN Append(f[i - 1], rows[i])
               ELSE f[i - 1]
  BY <1>4
<1> QED
  BY <1>3, <1>6, <1>8, <1>9

LEMMA KnownRowsFacts ==
  ASSUME NEW T, NEW rows \in Seq(T)
  PROVE  /\ KnownRows(rows) \in Seq(T)
         /\ \E e : Embeds(e, KnownRows(rows), rows, Len(rows))
         /\ (\A i \in DOMAIN rows : rows[i].ext \in KnownExts) => KnownRows(rows) = rows
<1>1. PICK f \in [0 .. Len(rows) -> Seq(T)] :
        /\ KnownRows(rows) = f[Len(rows)]
        /\ \A i \in 0 .. Len(rows) :
             f[i] = IF i = 0 THEN <<>>
                    ELSE IF rows[i].ext \in KnownExts THEN Append(f[i - 1], rows[i])
                    ELSE f[i - 1]
  BY KnownRowsRecursion
<1>2. /\ Len(rows) \in Nat /\ DOMAIN rows = 1 .. Len(rows)
      /\ \A i \in 1 .. Len(rows) : rows[i] \in T
  OBVIOUS
<1> DEFINE AllKnown == \A i \in DOMAIN rows : rows[i].ext \in KnownExts
           Fine(i) ==
             /\ \E e : Embeds(e, f[i], rows, i)
             /\ AllKnown => Len(f[i]) = i /\ \A j \in 1 .. i : f[i][j] = rows[j]
           Kept == {i \in Nat : i <= Len(rows) => Fine(i)}
<1>3. 0 \in Kept
  <2>1. f[0] = <<>>
    BY <1>1, <1>2
  <2>2. Embeds(<<>>, <<>>, rows, 0)
    BY DEF Embeds
  <2> QED
    BY <2>1, <2>2
<1>4. \A i \in Nat : i \in Kept => i + 1 \in Kept
  <2> SUFFICES ASSUME NEW i \in Nat, i \in Kept, i + 1 <= Len(rows)
               PROVE  Fine(i + 1)
    <3> HIDE DEF Fine
    <3> QED OBVIOUS
  <2>1. /\ i + 1 \in 0 .. Len(rows) /\ i \in 0 .. Len(rows) /\ i + 1 # 0 /\ i + 1 - 1 = i
        /\ i + 1 \in DOMAIN rows /\ f[i] \in Seq(T) /\ i <= Len(rows)
    BY <1>2
  <2>2. f[i + 1] = IF rows[i + 1].ext \in KnownExts THEN Append(f[i], rows[i + 1]) ELSE f[i]
    <3>1. PICK j \in 0 .. Len(rows) : j = i + 1 /\ j # 0 /\ j - 1 = i
      BY <2>1
    <3>2. f[j] = IF rows[j].ext \in KnownExts THEN Append(f[i], rows[j]) ELSE f[i]
      BY <1>1, <3>1
    <3> QED
      BY <3>1, <3>2
  <2>3. PICK e : Embeds(e, f[i], rows, i)
    BY <2>1
  <2>4. \E d : Embeds(d, f[i + 1], rows, i + 1)
    BY <2>1, <2>2, <2>3, EmbedKeep, EmbedDrop
  <2>5. ASSUME AllKnown
        PROVE  Len(f[i + 1]) = i + 1 /\ \A j \in 1 .. i + 1 : f[i + 1][j] = rows[j]
    <3>1. f[i + 1] = Append(f[i], rows[i + 1])
      BY <2>1, <2>2, <2>5
    <3>2. Len(f[i]) = i /\ \A j \in 1 .. i : f[i][j] = rows[j]
      BY <2>1, <2>5
    <3>3. /\ Len(f[i + 1]) = i + 1 /\ f[i + 1][i + 1] = rows[i + 1]
          /\ \A j \in 1 .. i : f[i + 1][j] = f[i][j]
      BY <2>1, <3>1, <3>2
    <3>4. \A j \in 1 .. i + 1 : j = i + 1 \/ j \in 1 .. i
      OBVIOUS
    <3> QED
      BY <3>2, <3>3, <3>4
  <2> QED
    BY <2>4, <2>5
<1>5. Len(rows) \in Kept
  <2> HIDE DEF Kept
  <2>1. \A i \in Nat : i \in Kept
    BY <1>3, <1>4, InductionOnSet
  <2> QED
    BY <1>2, <2>1
<1>6. /\ \E e : Embeds(e, KnownRows(rows), rows, Len(rows))
      /\ AllKnown => /\ Len(KnownRows(rows)) = Len(rows)
                     /\ \A j \in 1 .. Len(rows) : KnownRows(rows)[j] = rows[j]
  <2> HIDE DEF AllKnown
  <2> QED BY <1>1, <1>2, <1>5
<1>7. KnownRows(rows) \in Seq(T)
  BY <1>1, <1>2
<1> QED
  BY <1>2, <1>6, <1>7

-----------------------------------------------------------------------------
(* The scan's position and its candidate. *)

\* The chunk lies before the scan's end, and so does what is scanned of it.
LEMMA ChunkFacts ==
  ASSUME Typed
  PROVE  /\ Want \in Nat /\ Want <= opts.end - abs /\ Want <= ScanChunk + Overlap
         /\ opts.end \in Nat
         /\ n <= Want => /\ ScanLimit \in Nat /\ ScanLimit <= opts.end
                         /\ ScanLimit <= abs + n /\ abs <= ScanLimit
<1>1. /\ opts.end \in Nat /\ abs \in Nat /\ abs <= opts.end /\ n \in Nat
      /\ ScanChunk \in Nat /\ Overlap \in Nat
  BY OptionFacts, ScanAssumption DEF Typed
<1>2. /\ Want \in Nat /\ Want <= opts.end - abs /\ Want <= ScanChunk + Overlap
      /\ Want = opts.end - abs \/ Want = ScanChunk + Overlap
  BY <1>1 DEF Want, Min2
<1>3. ASSUME n <= Want
      PROVE  /\ ScanLimit \in Nat /\ ScanLimit <= opts.end
             /\ ScanLimit <= abs + n /\ abs <= ScanLimit
  <2>1. CASE n = Want /\ abs + n < opts.end
    <3>1. n = ScanChunk + Overlap /\ ScanLimit = abs + n - Overlap
      BY <1>1, <1>2, <2>1 DEF ScanLimit
    <3> QED
      BY <1>1, <2>1, <3>1
  <2>2. CASE ~ (n = Want /\ abs + n < opts.end)
    <3>1. ScanLimit = abs + n
      BY <2>2 DEF ScanLimit
    <3> QED
      BY <1>1, <1>2, <1>3, <3>1
  <2> QED
    BY <2>1, <2>2
<1> QED
  BY <1>1, <1>2, <1>3

\* The nearest candidate ahead exists when there is one at all.
LEMMA NearestFacts ==
  ASSUME Ahead # {}
  PROVE  /\ Nearest \in Ahead /\ Nearest \in Candidates
         /\ \A d \in Ahead : Nearest.at <= d.at
         /\ Nearest.at \in Nat /\ at <= Nearest.at /\ Nearest.at < ScanLimit
         /\ Nearest.at + Nearest.reach <= abs + n
<1> DEFINE S == {c.at : c \in Ahead}
<1>1. Ahead \subseteq Candidates
  BY DEF Ahead
<1>2. S \in SUBSET Nat /\ S # {}
  BY <1>1, CandidateFacts
<1>3. PICK x \in S : \A y \in S : x <= y
  <2> HIDE DEF S
  <2> QED BY <1>2, LeastNatural
<1>4. \E c \in Ahead : \A d \in Ahead : c.at <= d.at
  BY <1>3
<1>5. Nearest \in Ahead /\ \A d \in Ahead : Nearest.at <= d.at
  <2> HIDE DEF S
  <2> QED BY <1>4 DEF Nearest
<1>6. Nearest \in Candidates /\ Nearest.at \in Nat
  BY <1>1, <1>5, CandidateFacts
<1>7. at <= Nearest.at /\ Nearest.at < ScanLimit /\ Nearest.at + Nearest.reach <= abs + n
  BY <1>5 DEF Ahead
<1> QED
  BY <1>5, <1>6, <1>7

\* The candidate is the same as long as the position is.
LEMMA NearestSame ==
  ASSUME abs' = abs, n' = n, at' = at, opts' = opts
  PROVE  Ahead' = Ahead /\ Nearest' = Nearest /\ ScanLimit' = ScanLimit /\ Want' = Want
<1>1. Want' = Want
  BY DEF Want
<1>2. ScanLimit' = ScanLimit
  BY <1>1 DEF ScanLimit
<1>3. Ahead' = Ahead
  <2> HIDE DEF ScanLimit
  <2> QED BY <1>2 DEF Ahead
<1>4. Nearest' = Nearest
  BY <1>3 DEF Nearest
<1> QED
  BY <1>1, <1>2, <1>3, <1>4

\* A file that is considered lies inside the scan, at or after the boundary,
\* and moves the boundary past its end.
LEMMA ConsideredFacts ==
  ASSUME NEW c \in Candidates, opts \in Options, NEW skip \in 0 .. opts.end,
         Considered(c, skip)
  PROVE  /\ Begin(c) \in Nat /\ c.len \in Nat /\ Begin(c) + c.len <= opts.end
         /\ Written(c) \in Nat /\ Written(c) <= c.len
         /\ ~ opts.allow_nested => skip <= Begin(c)
         /\ Hidden(c, skip) \in 0 .. opts.end /\ skip <= Hidden(c, skip)
         /\ opts.allow_nested => Hidden(c, skip) = skip
<1>1. /\ c.at \in Nat /\ c.off \in Nat /\ c.len \in Nat /\ c.at >= c.off
      /\ opts.end \in Nat /\ PhysEnd \in Nat /\ skip \in Nat
      /\ Begin(c) + c.len <= opts.end
  BY CandidateFacts, OptionFacts, SourceAssumption DEF Considered
<1>10. opts.allow_nested \/ Begin(c) >= skip
  BY DEF Considered
<1>2. Begin(c) \in Nat
  BY <1>1 DEF Begin
<1>3. Written(c) \in Nat /\ Written(c) <= c.len
  BY <1>1, <1>2 DEF Written, Min2
<1>4. ASSUME opts.allow_nested \/ c.volume PROVE Hidden(c, skip) = skip
  BY <1>4 DEF Hidden
<1>6. ASSUME ~ (opts.allow_nested \/ c.volume)
      PROVE  Hidden(c, skip) = Begin(c) + c.len /\ skip <= Begin(c)
  <2>1. Hidden(c, skip) = Begin(c) + c.len /\ ~ opts.allow_nested
    BY <1>6 DEF Hidden
  <2>2. Begin(c) >= skip
    BY <1>10, <2>1
  <2> QED
    BY <1>1, <1>2, <2>1, <2>2
<1>7. Hidden(c, skip) = skip \/ (Hidden(c, skip) = Begin(c) + c.len /\ skip <= Begin(c))
  BY <1>4, <1>6
<1> HIDE DEF Hidden
<1>8. Hidden(c, skip) \in 0 .. opts.end /\ skip <= Hidden(c, skip)
  BY <1>1, <1>2, <1>7
<1>9. opts.allow_nested => Hidden(c, skip) = skip
  BY <1>4
<1>5. ~ opts.allow_nested => skip <= Begin(c)
  <2>1. Begin(c) >= skip => skip <= Begin(c)
    BY <1>1, <1>2
  <2> QED
    BY <1>10, <2>1
<1> QED
  BY <1>1, <1>2, <1>3, <1>5, <1>8, <1>9, Zenon

\* What the next row says of the candidate.
LEMMA GradeFacts ==
  ASSUME NEW c PROVE Grade(c) \in Grades
BY DEF Grade, Grades

\* The new name is free: among one more name than there are files, one is.
LEMMA NewNameFacts ==
  ASSUME IsFiniteSet(DOMAIN disk), NEW i, NEW c
  PROVE  /\ \E k \in Nat : NewName(i, c) = Named(i, c, k)
         /\ NewName(i, c) \notin DOMAIN disk
<1> DEFINE Free(k) == Named(i, c, k) \notin DOMAIN disk
           card == Cardinality(DOMAIN disk)
           f == [k \in 0 .. card |-> Named(i, c, k)]
           S == {k \in 0 .. card : Free(k)}
<1>1. card \in Nat
  BY FS_CardinalityType
<1>2. \E k \in 0 .. card : Free(k)
  <2>1. IsFiniteSet(0 .. card) /\ Cardinality(0 .. card) = card + 1
    <3> HIDE DEF card
    <3> QED BY <1>1, FS_Interval
  <2>2. SUFFICES ASSUME \A k \in 0 .. card : ~ Free(k) PROVE FALSE
    OBVIOUS
  <2>3. f \in [0 .. card -> DOMAIN disk]
    BY <2>2
  <2>4. \A j, k \in 0 .. card : f[j] = f[k] => j = k
    BY DEF Named
  <2>5. f \in Injection(0 .. card, DOMAIN disk)
    <3> HIDE DEF f, card
    <3> QED BY <2>3, <2>4 DEF Injection, IsInjective
  <2>6. card + 1 <= card
    <3> HIDE DEF f
    <3> QED BY <2>1, <2>5, FS_Injection
  <2> QED
    BY <1>1, <2>6
<1>3. S \in SUBSET Nat /\ S # {}
  BY <1>1, <1>2
<1>4. PICK m \in S : \A k \in S : m <= k
  <2> HIDE DEF S
  <2> QED BY <1>3, LeastNatural
<1>5. m \in 0 .. card /\ Free(m) /\ \A j \in 0 .. m - 1 : ~ Free(j)
  <2>1. m \in 0 .. card /\ Free(m)
    BY <1>4
  <2>2. ASSUME NEW j \in 0 .. m - 1, Free(j) PROVE FALSE
    <3>1. j \in 0 .. card /\ ~ (m <= j)
      BY <1>1, <2>1
    <3> QED
      BY <1>4, <2>2, <3>1
  <2> QED
    BY <2>1, <2>2
<1> DEFINE least == CHOOSE k \in 0 .. card : Free(k) /\ \A j \in 0 .. k - 1 : ~ Free(j)
<1>6. least \in 0 .. card /\ Free(least)
  <2> HIDE DEF Free, card
  <2> QED BY <1>5
<1>7. NewName(i, c) = Named(i, c, least)
  BY DEF NewName
<1> HIDE DEF least
<1> QED
  BY <1>1, <1>6, <1>7

-----------------------------------------------------------------------------
(* The tally and its rows. *)

\* A tally whose rows and marks change.
LEMMA TallyUpdate ==
  ASSUME NEW s \in Tallies, NEW marks \in [Grades -> Nat], NEW rows \in Seq(Rows),
         NEW count \in Nat
  PROVE  [s EXCEPT !.recovered = count, !.grades = marks, !.files = rows] \in Tallies
<1> DEFINE A == Seq(Rows)
           G == [Grades -> Nat]
<1>1. /\ s \in [files : A, recovered : Nat, duplicates : Nat, rejected : Nat,
                large : Nat, grades : G]
      /\ marks \in G /\ rows \in A
  BY DEF Tallies
<1> HIDE DEF A, G
<1>2. [s EXCEPT !.recovered = count, !.grades = marks, !.files = rows]
        \in [files : A, recovered : Nat, duplicates : Nat, rejected : Nat,
             large : Nat, grades : G]
  BY <1>1
<1> QED
  BY <1>2 DEF Tallies, A, G

\* A further row in the manifest.
LEMMA TallyWithRow ==
  ASSUME NEW s \in Tallies, NEW row \in Rows, NEW g \in Grades,
         NEW t, t = [s EXCEPT !.recovered = @ + 1, !.grades[g] = @ + 1,
                              !.files = Append(@, row)]
  PROVE  /\ t \in Tallies
         /\ t.recovered = s.recovered + 1 /\ t.files = Append(s.files, row)
         /\ t.grades = [s.grades EXCEPT ![g] = @ + 1]
         /\ t.duplicates = s.duplicates /\ t.rejected = s.rejected
<1> HIDE DEF Rows, Grades
<1>1. /\ t.recovered = s.recovered + 1 /\ t.files = Append(s.files, row)
      /\ t.grades = [s.grades EXCEPT ![g] = @ + 1]
      /\ t.duplicates = s.duplicates /\ t.rejected = s.rejected /\ t.large = s.large
  BY DEF Tallies
<1>2. t.files \in Seq(Rows)
  BY <1>1 DEF Tallies
<1>3. t.grades \in [Grades -> Nat]
  BY <1>1 DEF Tallies
<1>4. t \in Tallies
  <2>1. s \in Tallies /\ s.grades \in [Grades -> Nat]
    BY DEF Tallies
  <2> DEFINE marks == [s.grades EXCEPT ![g] = @ + 1]
             rows == Append(s.files, row)
             count == s.recovered + 1
  <2>2. t = [s EXCEPT !.recovered = count, !.grades = marks, !.files = rows]
    OBVIOUS
  <2>3. marks \in [Grades -> Nat] /\ rows \in Seq(Rows)
    BY <1>1, <1>2, <1>3
  <2>4. count \in Nat
    BY DEF Tallies
  <2> HIDE DEF marks, rows, count
  <2>5. [s EXCEPT !.recovered = count, !.grades = marks, !.files = rows] \in Tallies
    BY <2>3, <2>4, TallyUpdate
  <2> QED
    BY <2>2, <2>5, Zenon
<1> QED
  BY <1>1, <1>4

\* What a resume starts from.
LEMMA RestoredFacts ==
  ASSUME NEW limit, NEW ck \in Saved(limit)
  PROVE  /\ Restored(ck) \in Tallies
         /\ Restored(ck).files = KnownRows(ck.stats.files)
         /\ Restored(ck).recovered = ck.stats.recovered
         /\ Restored(ck).duplicates = ck.stats.duplicates
         /\ Restored(ck).rejected = ck.stats.rejected
         /\ Restored(ck).grades = ck.stats.grades
<1> HIDE DEF Rows, Grades
<1>1. ck.stats \in Tallies /\ ck.stats.files \in Seq(Rows)
  BY DEF Saved, Tallies
<1>2. KnownRows(ck.stats.files) \in Seq(Rows)
  BY <1>1, KnownRowsFacts
<1> QED
  BY <1>1, <1>2 DEF Restored, Tallies

\* The first run starts from nothing.
LEMMA NoStatsFacts ==
  NoStats \in Tallies /\ NoStats.files = <<>> /\ NoStats.recovered = 0
  /\ NoStats.grades = [g \in Grades |-> 0]
<1>1. <<>> \in Seq(Rows) /\ [g \in Grades |-> 0] \in [Grades -> Nat]
  OBVIOUS
<1> QED
  BY <1>1 DEF NoStats, Tallies

\* Every checkpoint that is written is typed.
LEMMA CheckpointFacts ==
  ASSUME Typed, NEW pos \in 0 .. opts.end
  PROVE  Checkpoint(pos) \in Saved(opts.end)
BY DEF Typed, Checkpoint, Saved

\* The row of the file that is being written.
LEMMA RowFacts ==
  ASSUME Typed, Opened, pc = "write"
  PROVE  /\ Nearest \in Candidates /\ Row(Nearest) \in Rows
         /\ Row(Nearest).name = writing /\ writing[1] = stats.recovered
         /\ Row(Nearest).start = Begin(Nearest) /\ Row(Nearest).size = Written(Nearest)
         /\ Row(Nearest).ext = Nearest.ext /\ Row(Nearest).digest = Nearest.digest
         /\ Row(Nearest).grade = Grade(Nearest)
<1>1. Nearest \in Candidates /\ Considered(Nearest, skip_until)
  BY NearestFacts DEF Opened
<1>2. PICK k \in Nat : writing = Named(stats.recovered, Nearest, k)
  BY DEF Opened
<1>3. Begin(Nearest) \in Nat /\ Written(Nearest) \in Nat
  BY <1>1, ConsideredFacts DEF Typed
<1>4. Nearest.ext \in Exts /\ Nearest.digest \in Digests /\ Grade(Nearest) \in Grades
  BY <1>1, CandidateFacts, GradeFacts
<1>5. stats.recovered \in Nat
  BY DEF Typed, Tallies
<1>6. writing \in FileNames /\ writing[1] = stats.recovered
  BY <1>2, <1>3, <1>4, <1>5 DEF Named, FileNames
<1> QED
  BY <1>1, <1>3, <1>4, <1>6 DEF Row, Rows

-----------------------------------------------------------------------------
(* Types, place and the open file, step by step. *)

Well == Typed /\ Placed /\ Opened

LEMMA WellInit == Init => Well
<1> SUFFICES ASSUME Init PROVE Well
  OBVIOUS
<1>1. opts.end \in Nat
  BY OptionFacts DEF Init
<1>2. IsFiniteSet(DOMAIN disk)
  <2>1. DOMAIN disk = {}
    BY DEF Init
  <2> QED
    BY <2>1, FS_EmptySet
<1>3. Typed
  <2>1. 0 \in 0 .. ScanChunk + Overlap /\ 0 \in 0 .. MaxRuns /\ 0 \in 0 .. opts.end
    BY <1>1, ScanAssumption
  <2>2. stats \in Tallies /\ seen \in SUBSET Digests /\ cancel \in BOOLEAN
    BY NoStatsFacts DEF Init
  <2>3. 0 \in Nat /\ 0 <= opts.end
    BY <1>1
  <2> QED
    BY <1>2, <2>1, <2>2, <2>3 DEF Init, Typed
<1>4. Placed /\ Opened
  BY DEF Init, Placed, Opened
<1> QED
  BY <1>3, <1>4 DEF Well

\* A step that moves neither the scan nor its files.
LEMMA WellMoves ==
  ASSUME Well, UNCHANGED <<files, abs, n, at, last_checkpoint, tally, opts, runs, writing>>,
         pc' \in {"final", "idle", pc}, cancel' \in BOOLEAN,
         outcome' \in {"none", "complete", "cancelled", "stopped", "killed"}
  PROVE  Well'
<1>1. Ahead' = Ahead /\ Nearest' = Nearest /\ ScanLimit' = ScanLimit /\ Want' = Want
  BY NearestSame
<1>2. Typed'
  BY DEF Well, Typed, files, tally
<1>3. Placed'
  <2> HIDE DEF Want, ScanLimit
  <2> QED BY <1>1 DEF Well, Placed
<1>4. Opened'
  <2> HIDE DEF Ahead, Nearest
  <2>1. pc' = "write" => Considered(Nearest, skip_until)'
    BY <1>1 DEF Well, Opened, Considered, tally
  <2>2. \A k : Named(stats.recovered, Nearest, k)' = Named(stats.recovered, Nearest, k)
    BY <1>1 DEF Named, tally
  <2> QED
    BY <1>1, <2>1, <2>2 DEF Well, Opened, tally, files, Named
<1> QED
  BY <1>2, <1>3, <1>4 DEF Well

\* A step after which no file is open, and whose types were checked.
LEMMA WellClosed ==
  ASSUME Typed', Placed', pc' # "write",
         writing' = NoName \/ (Opened /\ writing' = writing /\ disk' = disk /\ opts' = opts)
  PROVE  Well'
<1>1. Opened'
  BY DEF Opened
<1> QED
  BY <1>1 DEF Well

LEMMA WellStart ==
  ASSUME Well, NEW resume \in BOOLEAN, Start(resume)
  PROVE  Well'
<1> DEFINE resuming == resume /\ ckpt # NoCheckpoint
<1>1. opts.end \in Nat /\ opts' = opts /\ opts \in Options
  BY OptionFacts DEF Well, Typed, Start
<1>2. abs' \in Nat /\ abs' <= opts.end /\ at' = abs' /\ last_checkpoint' = abs'
  <2>1. CASE resuming
    <3>1. ckpt.pos \in 0 .. opts.end
      BY <2>1 DEF Well, Typed, Saved
    <3> QED
      BY <1>1, <2>1, <3>1 DEF Start, Min2
  <2>2. CASE ~ resuming
    BY <1>1, <2>2 DEF Start
  <2> QED
    BY <2>1, <2>2
<1>3. skip_until' \in 0 .. opts.end /\ seen' \in SUBSET Digests /\ stats' \in Tallies
  <2>1. CASE resuming
    <3>1. ckpt \in Saved(opts.end)
      BY <2>1 DEF Well, Typed
    <3>2. ckpt.skip \in 0 .. opts.end /\ ckpt.seen \in SUBSET Digests
      BY <3>1 DEF Saved
    <3>3. Restored(ckpt) \in Tallies
      BY <3>1, RestoredFacts
    <3> QED
      BY <2>1, <3>2, <3>3 DEF Start
  <2>2. CASE ~ resuming
    <3>1. skip_until' = 0 /\ seen' = {} /\ stats' = NoStats
      BY <2>2 DEF Start
    <3> QED
      BY <1>1, <3>1, NoStatsFacts
  <2> QED
    BY <2>1, <2>2
<1>4. runs' \in 0 .. MaxRuns
  BY ScanAssumption DEF Well, Typed, Start
<1>5. /\ pc' = "loop" /\ cancel' = FALSE /\ outcome' = "none" /\ n' = 0 /\ writing' = NoName
      /\ disk' = disk /\ ckpt' = ckpt
  BY DEF Start, files
<1>6. 0 \in 0 .. ScanChunk + Overlap
  BY ScanAssumption
<1> HIDE DEF resuming
<1>7. Typed'
  <2>1. ckpt' # NoCheckpoint => ckpt' \in Saved(opts'.end)
    BY <1>1, <1>5 DEF Well, Typed
  <2>2. IsFiniteSet(DOMAIN disk')
    BY <1>5 DEF Well, Typed
  <2>3. abs' <= opts'.end /\ last_checkpoint' <= abs' /\ opts' \in Options
    BY <1>1, <1>2
  <2>4. cancel' \in BOOLEAN /\ skip_until' \in 0 .. opts'.end
    BY <1>1, <1>3, <1>5
  <2> QED
    BY <1>2, <1>3, <1>4, <1>5, <1>6, <2>1, <2>2, <2>3, <2>4 DEF Typed
<1>8. Placed'
  BY <1>5 DEF Placed
<1> QED
  BY <1>5, <1>7, <1>8, WellClosed

LEMMA WellRead ==
  ASSUME Well, ReadChunk
  PROVE  Well'
<1>1. /\ Want \in Nat /\ Want <= opts.end - abs /\ Want <= ScanChunk + Overlap
      /\ opts.end \in Nat /\ abs \in Nat /\ PhysEnd \in Nat /\ abs < PhysEnd
      /\ ScanChunk \in Nat /\ Overlap \in Nat
  BY ChunkFacts, ScanAssumption, SourceAssumption DEF Well, Typed, ReadChunk
<1>2. n' = Min2(Want, PhysEnd - abs) /\ at' = abs /\ abs' = abs /\ pc' = "scan"
  BY DEF ReadChunk
<1>3. n' \in Nat /\ n' <= Want /\ n' <= ScanChunk + Overlap
  BY <1>1, <1>2 DEF Min2
<1>4. UNCHANGED <<files, last_checkpoint, tally, user, writing, outcome>>
  BY DEF ReadChunk
<1>5. Typed'
  <2>1. n' \in 0 .. ScanChunk + Overlap /\ at' \in Nat
    BY <1>1, <1>2, <1>3
  <2> QED
    BY <1>2, <1>4, <2>1 DEF Well, Typed, files, tally, user
<1>6. Want' = Want
  BY <1>2, <1>4 DEF Want, user
<1>7. abs <= abs + n'
  <2>1. abs \in Nat /\ n' \in Nat
    BY <1>1, <1>3
  <2>2. \A x, y \in Nat : x <= x + y
    OBVIOUS
  <2> QED
    BY <2>1, <2>2, Zenon
<1>8. abs <= ScanLimit'
  <2>1. /\ opts' = opts /\ abs' = abs
        /\ Want = opts.end - abs \/ Want = ScanChunk + Overlap
    BY <1>2, <1>4 DEF Want, Min2, user
  <2>2. CASE n' = Want /\ abs + n' < opts.end
    <3>1. ScanLimit' = abs + n' - Overlap
      BY <1>6, <2>1, <2>2 DEF ScanLimit
    <3>2. n' = ScanChunk + Overlap
      BY <1>1, <2>1, <2>2
    <3>3. ScanLimit' = abs + ScanChunk
      BY <1>1, <3>1, <3>2
    <3> HIDE DEF ScanLimit
    <3> QED
      BY <1>1, <3>3
  <2>3. CASE ~ (n' = Want /\ abs + n' < opts.end)
    <3>1. ScanLimit' = abs + n'
      BY <1>6, <2>1, <2>3 DEF ScanLimit
    <3> QED
      BY <1>7, <3>1, Zenon
  <2> QED
    BY <2>2, <2>3
<1>9. Placed'
  <2>1. abs' <= at'
    BY <1>1, <1>2
  <2>2. n' <= Want' /\ at' <= ScanLimit'
    BY <1>2, <1>3, <1>6, <1>8
  <2> QED
    BY <2>1, <2>2 DEF Placed
<1>10. writing' = writing /\ disk' = disk /\ opts' = opts
  BY <1>4 DEF files, user
<1> QED
  BY <1>2, <1>5, <1>10, <1>9, WellClosed DEF Well

\* The scan passes a candidate, with or without a row for it.
LEMMA WellPass ==
  ASSUME Well, pc \in {"scan", "write"}, Ahead # {}, at' = Nearest.at + 1,
         UNCHANGED <<place, user>>, pc' \in {"scan", "stop"},
         skip_until' \in 0 .. opts.end, seen' \in SUBSET Digests, stats' \in Tallies,
         ckpt' = ckpt, IsFiniteSet(DOMAIN disk'),
         outcome' = outcome,
         writing' = NoName \/ (writing' = writing /\ disk' = disk)
  PROVE  Well'
<1>1. /\ Nearest.at \in Nat /\ at <= Nearest.at /\ Nearest.at < ScanLimit
      /\ ScanLimit \in Nat /\ abs \in Nat /\ at \in Nat /\ abs <= at /\ n <= Want
  BY NearestFacts, ChunkFacts DEF Well, Typed, Placed
<1>2. at' \in Nat /\ abs <= at' /\ at' <= ScanLimit
  BY <1>1
<1>3. /\ abs' = abs /\ n' = n /\ last_checkpoint' = last_checkpoint
      /\ opts' = opts /\ cancel' = cancel /\ runs' = runs
  BY DEF place, user
<1>4. Typed'
  BY <1>2, <1>3 DEF Well, Typed
<1>5. Want' = Want /\ ScanLimit' = ScanLimit
  <2>1. Want' = Want
    BY <1>3 DEF Want
  <2> QED
    BY <1>3, <2>1 DEF ScanLimit
<1>6. Placed'
  BY <1>1, <1>2, <1>3, <1>5 DEF Placed
<1> QED
  BY <1>3, <1>4, <1>6, WellClosed DEF Well

LEMMA WellSkip ==
  ASSUME Well, SkipCandidate \/ SkipLarge \/ Reject
  PROVE  Well'
<1>1. /\ pc = "scan" /\ Ahead # {} /\ at' = Nearest.at + 1
      /\ UNCHANGED <<place, user, writing, outcome, files, seen, pc>>
  BY DEF SkipCandidate, SkipLarge, Reject, Reached, Pass, tally
<1>2. Nearest \in Candidates /\ skip_until \in 0 .. opts.end /\ opts \in Options
  BY <1>1, NearestFacts DEF Well, Typed
<1>3. skip_until' \in 0 .. opts.end
  <2>1. CASE SkipLarge
    <3>1. Considered(Nearest, skip_until) /\ skip_until' = Hidden(Nearest, skip_until)
      BY <2>1 DEF SkipLarge
    <3> QED
      BY <1>2, <3>1, ConsideredFacts
  <2>2. CASE SkipCandidate \/ Reject
    BY <1>2, <2>2 DEF SkipCandidate, Reject, tally
  <2> QED
    BY <2>1, <2>2
<1>4. stats' \in Tallies
  <2>1. stats \in Tallies
    BY DEF Well, Typed
  <2>2. [stats EXCEPT !.large = @ + 1] \in Tallies
    BY <2>1 DEF Tallies
  <2>3. [stats EXCEPT !.rejected = @ + 1] \in Tallies
    BY <2>1 DEF Tallies
  <2> QED
    BY <2>1, <2>2, <2>3 DEF SkipCandidate, SkipLarge, Reject, tally
<1>5. seen' \in SUBSET Digests /\ IsFiniteSet(DOMAIN disk') /\ ckpt' = ckpt /\ disk' = disk
  BY <1>1 DEF Well, Typed, files
<1> QED
  BY <1>1, <1>3, <1>4, <1>5, WellPass

\* The open file: a fresh name, with the candidate's content, not whole.
LEMMA WellOpen ==
  ASSUME Well, OpenOutput
  PROVE  /\ Well'
         /\ \A f \in DOMAIN disk : f \in DOMAIN disk' /\ disk'[f] = disk[f]
<1>1. /\ pc = "scan" /\ Ahead # {} /\ Considered(Nearest, skip_until) /\ pc' = "write"
      /\ UNCHANGED <<ckpt, place, tally, user, at, outcome>>
  BY DEF OpenOutput, Reached
<1>2. /\ abs' = abs /\ n' = n /\ at' = at /\ last_checkpoint' = last_checkpoint
      /\ opts' = opts /\ cancel' = cancel /\ runs' = runs
      /\ skip_until' = skip_until /\ seen' = seen /\ stats' = stats
  BY <1>1 DEF place, user, tally
<1>3. Ahead' = Ahead /\ Nearest' = Nearest /\ ScanLimit' = ScanLimit /\ Want' = Want
  BY <1>2, NearestSame
<1>4. IsFiniteSet(DOMAIN disk) /\ opts.dry_run \in BOOLEAN
  BY OptionFacts DEF Well, Typed
<1>5. ASSUME opts.dry_run
      PROVE  writing' = Named(stats.recovered, Nearest, 0) /\ disk' = disk
  BY <1>5 DEF OpenOutput
<1>6. ASSUME ~ opts.dry_run
      PROVE  /\ writing' = NewName(stats.recovered, Nearest)
             /\ DOMAIN disk' = DOMAIN disk \cup {writing'}
             /\ disk'[writing'] = [digest |-> Nearest.digest, whole |-> FALSE]
             /\ \A f \in DOMAIN disk : f # writing' => disk'[f] = disk[f]
  <2>1. /\ writing' = NewName(stats.recovered, Nearest)
        /\ disk' = [f \in DOMAIN disk \cup {writing'} |->
                      IF f = writing' THEN [digest |-> Nearest.digest, whole |-> FALSE]
                                      ELSE disk[f]]
    BY <1>6 DEF OpenOutput
  <2> QED
    BY <2>1
<1>7. \E k \in Nat : writing' = Named(stats.recovered, Nearest, k)
  BY <1>4, <1>5, <1>6, NewNameFacts
<1>8. \A f \in DOMAIN disk : f \in DOMAIN disk' /\ disk'[f] = disk[f]
  BY <1>4, <1>5, <1>6, NewNameFacts
<1>9. IsFiniteSet(DOMAIN disk')
  BY <1>4, <1>5, <1>6, FS_AddElement
<1>10. Typed'
  BY <1>1, <1>2, <1>9 DEF Well, Typed
<1>11. Placed'
  <2> HIDE DEF Want, ScanLimit
  <2> QED BY <1>1, <1>2, <1>3 DEF Well, Placed
<1>12. Opened'
  <2>1. Considered(Nearest, skip_until)'
    BY <1>1, <1>2, <1>3 DEF Considered
  <2>2. (\E k \in Nat : writing = Named(stats.recovered, Nearest, k))'
    BY <1>2, <1>3, <1>7 DEF Named
  <2>3. ASSUME ~ opts'.dry_run
        PROVE  /\ writing' \in DOMAIN disk'
               /\ disk'[writing'] = [digest |-> Nearest'.digest, whole |-> FALSE]
    BY <1>2, <1>3, <1>6, <2>3
  <2> HIDE DEF Ahead, Nearest
  <2> QED
    BY <1>1, <1>3, <2>1, <2>2, <2>3 DEF Opened
<1> QED
  BY <1>8, <1>10, <1>11, <1>12 DEF Well

LEMMA RecordUpdate ==
  ASSUME NEW d, NEW a, NEW b
  PROVE  [[digest |-> d, whole |-> a] EXCEPT !.whole = b] = [digest |-> d, whole |-> b]
OBVIOUS

\* The file that is being written goes, or becomes whole; no other is touched.
LEMMA FinishFacts ==
  ASSUME Well, FinishWrite
  PROVE  /\ pc = "write" /\ Ahead # {} /\ at' = Nearest.at + 1
         /\ Nearest \in Candidates /\ Considered(Nearest, skip_until)
         /\ UNCHANGED <<ckpt, place, user, outcome>> /\ writing' = NoName
         /\ pc' \in {"scan", "stop"}
         /\ skip_until' = Hidden(Nearest, skip_until)
         /\ seen' = IF opts.dedup THEN seen \cup {Nearest.digest} ELSE seen
         /\ \/ /\ opts.dedup /\ Nearest.digest \in seen
               /\ stats' = [stats EXCEPT !.duplicates = @ + 1]
               /\ \A f : f # writing => (f \in DOMAIN disk' <=> f \in DOMAIN disk)
               /\ \A f \in DOMAIN disk : f # writing => disk'[f] = disk[f]
               /\ opts.dry_run => disk' = disk
            \/ /\ ~ (opts.dedup /\ Nearest.digest \in seen)
               /\ stats' = [stats EXCEPT !.recovered = @ + 1, !.grades[Grade(Nearest)] = @ + 1,
                                         !.files = Append(@, Row(Nearest))]
               /\ DOMAIN disk' = DOMAIN disk
               /\ \A f \in DOMAIN disk : f # writing => disk'[f] = disk[f]
               /\ opts.dry_run => disk' = disk
               /\ ~ opts.dry_run => disk'[writing] = [digest |-> Nearest.digest, whole |-> TRUE]
<1>1. /\ pc = "write" /\ at' = Nearest.at + 1
      /\ UNCHANGED <<ckpt, place, user, outcome>> /\ writing' = NoName
      /\ pc' \in {"scan", "stop"}
      /\ skip_until' = Hidden(Nearest, skip_until)
      /\ seen' = IF opts.dedup THEN seen \cup {Nearest.digest} ELSE seen
  BY DEF FinishWrite, WriteDuplicate, WriteNew
<1>2. Ahead # {} /\ Considered(Nearest, skip_until)
  BY <1>1 DEF Well, Opened
<1>3. Nearest \in Candidates
  BY <1>2, NearestFacts
<1>4. CASE WriteDuplicate
  <2>1. /\ opts.dedup /\ Nearest.digest \in seen
        /\ stats' = [stats EXCEPT !.duplicates = @ + 1]
        /\ disk' = IF opts.dry_run THEN disk ELSE Without(writing)
    BY <1>4 DEF WriteDuplicate
  <2>2. /\ DOMAIN Without(writing) = DOMAIN disk \ {writing}
        /\ \A f \in DOMAIN disk \ {writing} : Without(writing)[f] = disk[f]
    BY DEF Without
  <2>3. /\ \A f : f # writing => (f \in DOMAIN disk' <=> f \in DOMAIN disk)
        /\ \A f \in DOMAIN disk : f # writing => disk'[f] = disk[f]
        /\ opts.dry_run => disk' = disk
    BY <2>1, <2>2
  <2> QED
    BY <1>1, <1>2, <1>3, <2>1, <2>3
<1>5. CASE WriteNew
  <2>1. /\ ~ (opts.dedup /\ Nearest.digest \in seen)
        /\ stats' = [stats EXCEPT !.recovered = @ + 1, !.grades[Grade(Nearest)] = @ + 1,
                                  !.files = Append(@, Row(Nearest))]
        /\ disk' = IF opts.dry_run THEN disk ELSE [disk EXCEPT ![writing].whole = TRUE]
    BY <1>5 DEF WriteNew
  <2>2. /\ DOMAIN disk' = DOMAIN disk
        /\ \A f \in DOMAIN disk : f # writing => disk'[f] = disk[f]
        /\ opts.dry_run => disk' = disk
    BY <2>1
  <2>3. ASSUME ~ opts.dry_run
        PROVE  disk'[writing] = [digest |-> Nearest.digest, whole |-> TRUE]
    <3>1. /\ writing \in DOMAIN disk
          /\ disk[writing] = [digest |-> Nearest.digest, whole |-> FALSE]
      BY <1>1, <2>3 DEF Well, Opened
    <3>2. disk' = [disk EXCEPT ![writing] = [disk[writing] EXCEPT !.whole = TRUE]]
      BY <2>1, <2>3
    <3>3. disk'[writing] = [disk[writing] EXCEPT !.whole = TRUE]
      BY <3>1, <3>2
    <3>4. [[digest |-> Nearest.digest, whole |-> FALSE] EXCEPT !.whole = TRUE]
            = [digest |-> Nearest.digest, whole |-> TRUE]
      BY RecordUpdate, Zenon
    <3> QED
      BY <3>1, <3>3, <3>4, Zenon
  <2> QED
    BY <1>1, <1>2, <1>3, <2>1, <2>2, <2>3
<1> QED
  BY <1>4, <1>5 DEF FinishWrite

LEMMA WellFinishWrite ==
  ASSUME Well, FinishWrite
  PROVE  Well'
<1>1. /\ pc = "write" /\ Ahead # {} /\ at' = Nearest.at + 1
      /\ Nearest \in Candidates /\ Considered(Nearest, skip_until)
      /\ UNCHANGED <<ckpt, place, user, outcome>> /\ writing' = NoName
      /\ pc' \in {"scan", "stop"}
      /\ skip_until' = Hidden(Nearest, skip_until)
      /\ seen' = IF opts.dedup THEN seen \cup {Nearest.digest} ELSE seen
  BY FinishFacts
<1>2. skip_until' \in 0 .. opts.end
  <2>1. skip_until \in 0 .. opts.end /\ opts \in Options
    BY DEF Well, Typed
  <2> QED
    BY <1>1, <2>1, ConsideredFacts
<1>3. seen' \in SUBSET Digests
  <2>1. Nearest.digest \in Digests /\ seen \in SUBSET Digests
    BY <1>1, CandidateFacts DEF Well, Typed
  <2> QED
    BY <1>1, <2>1
<1>4. stats' \in Tallies
  <2>1. stats \in Tallies
    BY DEF Well, Typed
  <2>2. [stats EXCEPT !.duplicates = @ + 1] \in Tallies
    BY <2>1 DEF Tallies
  <2>3. Row(Nearest) \in Rows /\ Grade(Nearest) \in Grades
    BY <1>1, RowFacts, GradeFacts DEF Well
  <2>4. WriteNew => stats' \in Tallies
    <3> DEFINE row == Row(Nearest)
               g == Grade(Nearest)
    <3>1. WriteNew => stats' = [stats EXCEPT !.recovered = @ + 1, !.grades[g] = @ + 1,
                                             !.files = Append(@, row)]
      BY DEF WriteNew
    <3> HIDE DEF row, g
    <3>2. row \in Rows /\ g \in Grades
      BY <2>3 DEF row, g
    <3>3. ASSUME WriteNew PROVE stats' \in Tallies
      <4> DEFINE new == stats'
      <4>1. new = [stats EXCEPT !.recovered = @ + 1, !.grades[g] = @ + 1, !.files = Append(@, row)]
        BY <3>1, <3>3
      <4> HIDE DEF new
      <4>2. new \in Tallies
        BY <2>1, <3>2, <4>1, TallyWithRow
      <4> QED BY <4>2 DEF new
    <3> QED BY <3>3
  <2> QED
    BY <2>2, <2>4 DEF FinishWrite, WriteDuplicate
<1>5. IsFiniteSet(DOMAIN disk')
  <2>1. IsFiniteSet(DOMAIN disk)
    BY DEF Well, Typed
  <2>2. DOMAIN disk' \subseteq DOMAIN disk
    BY DEF FinishWrite, WriteDuplicate, WriteNew, Without
  <2> QED
    BY <2>1, <2>2, FS_Subset
<1>6. ckpt' = ckpt /\ outcome' = outcome
  BY <1>1
<1> QED
  BY <1>1, <1>2, <1>3, <1>4, <1>5, <1>6, WellPass

LEMMA WellChunkEnd ==
  ASSUME Well, ChunkEnd
  PROVE  Well'
<1>1. /\ pc' \in {"flush", "loop"} /\ abs' = ScanLimit /\ at' = ScanLimit
      /\ UNCHANGED <<files, n, last_checkpoint, tally, user, writing, outcome>>
      /\ pc = "scan"
  BY DEF ChunkEnd
<1>2. ScanLimit \in Nat /\ ScanLimit <= opts.end /\ abs <= ScanLimit
  BY <1>1, ChunkFacts DEF Well, Placed
<1>3. last_checkpoint <= ScanLimit
  <2>1. last_checkpoint \in Nat /\ abs \in Nat /\ last_checkpoint <= abs
    BY DEF Well, Typed
  <2> QED
    BY <1>2, <2>1
<1>4. Typed'
  <2> HIDE DEF ScanLimit
  <2> QED BY <1>1, <1>2, <1>3 DEF Well, Typed, files, tally, user
<1>5. Placed'
  BY <1>1 DEF Placed
<1>6. writing' = writing /\ disk' = disk /\ opts' = opts
  BY <1>1 DEF files, user
<1> QED
  BY <1>1, <1>4, <1>5, <1>6, WellClosed DEF Well

\* A checkpoint is written, and the run goes on or ends.
LEMMA WellCheckpoint ==
  ASSUME Well, StopAtMax \/ PeriodicCheckpoint \/ Finish
  PROVE  Well'
<1>1. /\ pc' \in {"idle", "loop"} /\ ckpt' = Checkpoint(abs) /\ last_checkpoint' \in {last_checkpoint, abs}
      /\ outcome' \in {"none", "complete", "cancelled", "stopped", "killed"}
      /\ UNCHANGED <<disk, abs, n, tally, user, at, writing>>
  BY DEF StopAtMax, PeriodicCheckpoint, Finish, Well, Typed, place
<1>2. abs \in 0 .. opts.end /\ last_checkpoint' \in Nat /\ last_checkpoint' <= abs
  BY <1>1, OptionFacts DEF Well, Typed
<1>3. ckpt' \in Saved(opts.end)
  BY <1>1, <1>2, CheckpointFacts DEF Well
<1>4. Typed'
  BY <1>1, <1>2, <1>3 DEF Well, Typed, tally, user
<1>5. Placed'
  BY <1>1 DEF Placed
<1>6. writing' = writing /\ disk' = disk /\ opts' = opts
  BY <1>1 DEF user
<1> QED
  BY <1>1, <1>4, <1>5, <1>6, WellClosed DEF Well

LEMMA WellNext == Well /\ [Next]_vars => Well'
<1> SUFFICES ASSUME Well, [Next]_vars PROVE Well'
  OBVIOUS
<1>1. ASSUME NEW resume \in BOOLEAN, Start(resume) PROVE Well'
  BY <1>1, WellStart
<1>2. CASE ScanOver \/ ScanCancelled \/ SourceEnded \/ RequestCancel \/ Killed
  <2>1. outcome \in {"none", "complete", "cancelled", "stopped", "killed"} /\ cancel \in BOOLEAN
    BY DEF Well, Typed
  <2>2. /\ UNCHANGED <<files, abs, n, at, last_checkpoint, tally, opts, runs, writing>>
        /\ pc' \in {"final", "idle", pc} /\ cancel' \in BOOLEAN
        /\ outcome' \in {"none", "complete", "cancelled", "stopped", "killed"}
    BY <1>2, <2>1 DEF ScanOver, ScanCancelled, SourceEnded, RequestCancel, Killed, place, user
  <2> QED
    BY <2>2, WellMoves
<1>3. CASE ReadChunk
  BY <1>3, WellRead
<1>4. CASE SkipCandidate \/ SkipLarge \/ Reject
  BY <1>4, WellSkip
<1>5. CASE OpenOutput
  BY <1>5, WellOpen
<1>6. CASE FinishWrite
  BY <1>6, WellFinishWrite
<1>7. CASE ChunkEnd
  BY <1>7, WellChunkEnd
<1>8. CASE StopAtMax \/ PeriodicCheckpoint \/ Finish
  BY <1>8, WellCheckpoint
<1>9. CASE UNCHANGED vars
  <2>1. outcome \in {"none", "complete", "cancelled", "stopped", "killed"} /\ cancel \in BOOLEAN
    BY DEF Well, Typed
  <2> QED
    BY <1>9, <2>1, WellMoves DEF vars, place, user
<1> QED
  BY <1>1, <1>2, <1>3, <1>4, <1>5, <1>6, <1>7, <1>8, <1>9 DEF Next, Work

LEMMA WellAlways == Spec => []Well
BY WellInit, WellNext, PTL DEF Spec

-----------------------------------------------------------------------------
(* What a step does to the manifest: it keeps it, adds a row, or a run     *)
(* starts, afresh or from the checkpoint.                                  *)

TallyKept ==
  /\ stats'.files = stats.files /\ stats'.recovered = stats.recovered
  /\ stats'.grades = stats.grades /\ skip_until <= skip_until'
  /\ ckpt' = ckpt \/ ckpt' = Checkpoint(abs)

RowAdded ==
  /\ pc = "write" /\ Nearest \in Candidates /\ Considered(Nearest, skip_until)
  /\ stats' = [stats EXCEPT !.recovered = @ + 1, !.grades[Grade(Nearest)] = @ + 1,
                            !.files = Append(@, Row(Nearest))]
  /\ skip_until' = Hidden(Nearest, skip_until)
  /\ ~ opts.dry_run => /\ writing \in DOMAIN disk'
                       /\ disk'[writing] = [digest |-> Nearest.digest, whole |-> TRUE]
  /\ ckpt' = ckpt

Afresh == stats' = NoStats /\ skip_until' = 0 /\ ckpt' = ckpt
Resumed ==
  /\ ckpt # NoCheckpoint /\ stats' = Restored(ckpt) /\ skip_until' = ckpt.skip
  /\ ckpt' = ckpt

LEMMA ManifestStep ==
  ASSUME Well, [Next]_vars
  PROVE  opts' = opts /\ (TallyKept \/ RowAdded \/ Afresh \/ Resumed)
<1>1. opts' = opts
  BY DEF Next, Work, Start, ScanOver, ScanCancelled, SourceEnded, ReadChunk, SkipCandidate,
         SkipLarge, Reject, Pass, OpenOutput, FinishWrite, StopAtMax, ChunkEnd,
         PeriodicCheckpoint, Finish, RequestCancel, Killed, user, vars
<1>2. skip_until \in Nat /\ skip_until <= skip_until
  BY OptionFacts DEF Well, Typed
<1>3. ASSUME NEW resume \in BOOLEAN, Start(resume) PROVE Afresh \/ Resumed
  BY <1>3 DEF Start, files, Afresh, Resumed
<1>4. CASE UNCHANGED <<stats, skip_until, ckpt>>
  BY <1>1, <1>2, <1>4 DEF TallyKept
<1>5. CASE SkipLarge
  <2>1. Nearest \in Candidates /\ skip_until \in 0 .. opts.end /\ opts \in Options
    BY <1>5, NearestFacts DEF SkipLarge, Reached, Well, Typed
  <2>2. /\ skip_until' = Hidden(Nearest, skip_until) /\ Considered(Nearest, skip_until)
        /\ ckpt' = ckpt /\ stats' = [stats EXCEPT !.large = @ + 1]
    BY <1>5 DEF SkipLarge, files
  <2>3. skip_until <= skip_until'
    BY <2>1, <2>2, ConsideredFacts
  <2>4. stats \in Tallies
    BY DEF Well, Typed
  <2> QED
    BY <1>1, <2>2, <2>3, <2>4 DEF TallyKept, Tallies
<1>6. CASE Reject
  <2>1. stats \in Tallies
    BY DEF Well, Typed
  <2> QED
    BY <1>1, <1>2, <1>6, <2>1 DEF Reject, TallyKept, Tallies, files
<1>7. CASE FinishWrite
  <2>1. CASE WriteDuplicate
    <3>1. stats \in Tallies /\ skip_until \in 0 .. opts.end /\ opts \in Options
      BY DEF Well, Typed
    <3>2. /\ Nearest \in Candidates /\ Considered(Nearest, skip_until)
          /\ skip_until' = Hidden(Nearest, skip_until) /\ ckpt' = ckpt
      BY <1>7, FinishFacts
    <3>3. skip_until <= skip_until'
      BY <3>1, <3>2, ConsideredFacts
    <3>4. stats' = [stats EXCEPT !.duplicates = @ + 1]
      BY <2>1 DEF WriteDuplicate
    <3> QED
      BY <1>1, <3>1, <3>2, <3>3, <3>4 DEF TallyKept, Tallies
  <2>2. CASE WriteNew
    <3>1. /\ pc = "write" /\ Nearest \in Candidates /\ Considered(Nearest, skip_until)
          /\ skip_until' = Hidden(Nearest, skip_until) /\ ckpt' = ckpt
      BY <1>7, FinishFacts
    <3>2. /\ ~ (opts.dedup /\ Nearest.digest \in seen)
          /\ stats' = [stats EXCEPT !.recovered = @ + 1, !.grades[Grade(Nearest)] = @ + 1,
                                    !.files = Append(@, Row(Nearest))]
      BY <2>2 DEF WriteNew
    <3>3. /\ DOMAIN disk' = DOMAIN disk
          /\ ~ opts.dry_run => disk'[writing] = [digest |-> Nearest.digest, whole |-> TRUE]
      BY <1>7, <3>2, FinishFacts
    <3>4. ~ opts.dry_run => writing \in DOMAIN disk
      BY <3>1 DEF Well, Opened
    <3> QED
      BY <1>1, <3>1, <3>2, <3>3, <3>4 DEF RowAdded
  <2> QED
    BY <1>7, <2>1, <2>2 DEF FinishWrite
<1>8. CASE StopAtMax \/ PeriodicCheckpoint \/ Finish
  BY <1>1, <1>2, <1>8 DEF StopAtMax, PeriodicCheckpoint, Finish, tally, TallyKept
<1>9. CASE OpenOutput
  BY <1>4, <1>9 DEF OpenOutput, tally
<1>10. CASE \/ ScanOver \/ ScanCancelled \/ SourceEnded \/ ReadChunk \/ SkipCandidate
            \/ ChunkEnd \/ RequestCancel \/ Killed \/ UNCHANGED vars
  <2>1. UNCHANGED <<stats, skip_until, ckpt>>
    BY <1>10 DEF ScanOver, ScanCancelled, SourceEnded, ReadChunk, SkipCandidate, ChunkEnd,
                 RequestCancel, Killed, vars, files, tally
  <2> QED
    BY <1>4, <2>1
<1> QED
  BY <1>1, <1>3, <1>5, <1>6, <1>7, <1>8, <1>9, <1>10 DEF Next, Work

LEMMA RowAddedFacts ==
  ASSUME Well, RowAdded
  PROVE  /\ stats'.recovered = stats.recovered + 1
         /\ stats'.files = Append(stats.files, Row(Nearest))
         /\ stats'.grades = [stats.grades EXCEPT ![Grade(Nearest)] = @ + 1]
<1>1. stats \in Tallies
  BY DEF Well, Typed
<1> DEFINE row == Row(Nearest)
           g == Grade(Nearest)
<1>2. stats' = [stats EXCEPT !.recovered = @ + 1, !.grades[g] = @ + 1,
                             !.files = Append(@, row)]
  BY DEF RowAdded
<1> HIDE DEF row, g, Rows, Grades
<1>3. /\ stats'.recovered = stats.recovered + 1
      /\ stats'.files = Append(stats.files, row)
      /\ stats'.grades = [stats.grades EXCEPT ![g] = @ + 1]
  BY <1>1, <1>2 DEF Tallies
<1> QED
  BY <1>3 DEF row, g

\* No step touches a file that is whole.
LEMMA WholeKept ==
  ASSUME Well, [Next]_vars
  PROVE  \A f \in DOMAIN disk : disk[f].whole => f \in DOMAIN disk' /\ disk'[f] = disk[f]
<1>1. CASE OpenOutput
  BY <1>1, WellOpen
<1>2. CASE FinishWrite
  <2>1. /\ pc = "write"
        /\ \A f \in DOMAIN disk : f # writing => f \in DOMAIN disk' /\ disk'[f] = disk[f]
        /\ opts.dry_run => disk' = disk
    BY <1>2, FinishFacts
  <2>2. ~ opts.dry_run => disk[writing] = [digest |-> Nearest.digest, whole |-> FALSE]
    BY <2>1 DEF Well, Opened
  <2>3. ~ opts.dry_run => ~ disk[writing].whole
    BY <2>2
  <2> QED
    BY <2>1, <2>3, Zenon
<1>3. CASE disk' = disk
  BY <1>3
<1>4. CASE ~ OpenOutput /\ ~ FinishWrite
  <2>1. disk' = disk
    BY <1>4 DEF Next, Work, Start, ScanOver, ScanCancelled, SourceEnded, ReadChunk,
                SkipCandidate, SkipLarge, Reject, StopAtMax, ChunkEnd, PeriodicCheckpoint,
                Finish, RequestCancel, Killed, files, vars
  <2> QED
    BY <1>3, <2>1
<1> QED
  BY <1>1, <1>2, <1>4

\* Positions, counters, options, the checkpoint and the open file stay what they
\* should be, through every chunk, kill and resume.
THEOREM TypeCorrect == Spec => []TypeOK
<1>1. Well => TypeOK
  <2> SUFFICES ASSUME Well PROVE TypeOK
    OBVIOUS
  <2>1. \A s \in Tallies : StatsOK(s)
    BY DEF Tallies, StatsOK
  <2>2. StatsOK(stats)
    BY <2>1 DEF Well, Typed
  <2>3. ckpt # NoCheckpoint => StatsOK(ckpt.stats)
    <3>1. ckpt # NoCheckpoint => ckpt.stats \in Tallies
      BY DEF Well, Typed, Saved
    <3> QED
      BY <2>1, <3>1
  <2>4. (writing # NoName /\ ~ opts.dry_run) => writing \in Names
    BY DEF Well, Opened, Names
  <2>5. pc = "scan" => (abs <= at /\ at <= ScanLimit)
    BY DEF Well, Placed
  <2>6. 0 <= last_checkpoint
    BY DEF Well, Typed
  <2> HIDE DEF StatsOK
  <2> QED
    BY <2>2, <2>3, <2>4, <2>5, <2>6 DEF Well, Typed, TypeOK
<1> QED
  BY <1>1, WellAlways, PTL

\* A file that was written whole is never removed, truncated or written over, by
\* the run that wrote it or by a later one over the same directory.
THEOREM WholeFilesAreFinal == Spec => NeverClobbers
<1>1. Well /\ [Next]_vars =>
        [\A f \in Names : disk[f].whole => f \in DOMAIN disk' /\ disk'[f] = disk[f]]_vars
  BY WholeKept DEF Names
<1> QED
  BY <1>1, WellAlways, PTL DEF Spec, NeverClobbers

-----------------------------------------------------------------------------
(* Every row has a file of its own. *)

\* The rows of a tally t are backed by the files of a disk d, and numbered below
\* the running count, so that the next name cannot be one of theirs.
Owns(t, d, dry) ==
  /\ \A i \in DOMAIN t.files : t.files[i].name[1] < t.recovered
  /\ \A i, j \in DOMAIN t.files : t.files[i].name = t.files[j].name => i = j
  /\ dry \/ \A i \in DOMAIN t.files :
       /\ t.files[i].name \in DOMAIN d
       /\ d[t.files[i].name] = [digest |-> t.files[i].digest, whole |-> TRUE]

LEMMA OwnsKept ==
  ASSUME NEW t, NEW d, NEW dry, Owns(t, d, dry), NEW e,
         \A f \in DOMAIN d : d[f].whole => f \in DOMAIN e /\ e[f] = d[f]
  PROVE  Owns(t, e, dry)
<1>1. ASSUME ~ dry, NEW i \in DOMAIN t.files
      PROVE  /\ t.files[i].name \in DOMAIN e
             /\ e[t.files[i].name] = [digest |-> t.files[i].digest, whole |-> TRUE]
  <2>1. /\ t.files[i].name \in DOMAIN d
        /\ d[t.files[i].name] = [digest |-> t.files[i].digest, whole |-> TRUE]
    BY <1>1 DEF Owns
  <2>2. d[t.files[i].name].whole
    BY <2>1
  <2> QED
    BY <2>1, <2>2
<1> QED
  BY <1>1 DEF Owns

LEMMA OwnsSame ==
  ASSUME NEW t, NEW d, NEW dry, Owns(t, d, dry),
         NEW u, u.files = t.files, u.recovered = t.recovered
  PROVE  Owns(u, d, dry)
BY DEF Owns

\* Rows that a resume drops take nothing from the others.
LEMMA OwnsPart ==
  ASSUME NEW t, NEW d, NEW dry, Owns(t, d, dry),
         NEW T, t.files \in Seq(T),
         NEW u, u.recovered = t.recovered, u.files \in Seq(T),
         NEW e, Embeds(e, u.files, t.files, Len(t.files))
  PROVE  Owns(u, d, dry)
<1>1. \A i \in DOMAIN u.files : e[i] \in DOMAIN t.files /\ u.files[i] = t.files[e[i]]
  BY DEF Embeds
<1>2. ASSUME NEW i \in DOMAIN u.files, NEW j \in DOMAIN u.files,
             u.files[i].name = u.files[j].name
      PROVE  i = j
  <2>1. e[i] = e[j] /\ e[i] \in Nat /\ e[j] \in Nat /\ i \in Nat /\ j \in Nat
    BY <1>1, <1>2 DEF Owns
  <2>2. (i < j => e[i] < e[j]) /\ (j < i => e[j] < e[i])
    BY DEF Embeds
  <2> QED
    BY <2>1, <2>2
<1>3. \A i \in DOMAIN u.files : u.files[i].name[1] < u.recovered
  BY <1>1 DEF Owns
<1>4. dry \/ \A i \in DOMAIN u.files :
        /\ u.files[i].name \in DOMAIN d
        /\ d[u.files[i].name] = [digest |-> u.files[i].digest, whole |-> TRUE]
  <2>1. ASSUME ~ dry, NEW i \in DOMAIN u.files
        PROVE  /\ u.files[i].name \in DOMAIN d
               /\ d[u.files[i].name] = [digest |-> u.files[i].digest, whole |-> TRUE]
    <3>1. e[i] \in DOMAIN t.files /\ u.files[i] = t.files[e[i]]
      BY <1>1
    <3> QED
      BY <2>1, <3>1 DEF Owns
  <2> QED
    BY <2>1
<1> QED
  BY <1>2, <1>3, <1>4 DEF Owns

LEMMA OwnsRow ==
  ASSUME NEW t \in Tallies, NEW d, NEW dry, Owns(t, d, dry),
         NEW row, row.name[1] = t.recovered,
         ~ dry => /\ row.name \in DOMAIN d
                  /\ d[row.name] = [digest |-> row.digest, whole |-> TRUE],
         NEW u, u.files = Append(t.files, row), u.recovered = t.recovered + 1
  PROVE  Owns(u, d, dry)
<1> DEFINE L == Len(t.files)
<1>1. /\ L \in Nat /\ t.recovered \in Nat /\ DOMAIN t.files = 1 .. L
      /\ DOMAIN u.files = 1 .. L + 1 /\ u.files[L + 1] = row
      /\ \A i \in 1 .. L : u.files[i] = t.files[i]
  BY DEF Tallies
<1> HIDE DEF L
<1>2. \A i \in 1 .. L + 1 : i = L + 1 \/ i \in 1 .. L
  BY <1>1
<1>3. \A i \in 1 .. L : t.files[i].name[1] \in Nat /\ t.files[i].name[1] < t.recovered
  <2>1. \A i \in 1 .. L : t.files[i] \in Rows
    BY <1>1 DEF Tallies
  <2>2. \A r \in Rows : r.name[1] \in Nat
    BY DEF Rows, FileNames
  <2> QED
    BY <1>1, <2>1, <2>2 DEF Owns
<1>4. \A i \in 1 .. L + 1 : u.files[i].name[1] < u.recovered
  BY <1>1, <1>2, <1>3
<1>5. ASSUME NEW i \in 1 .. L + 1, NEW j \in 1 .. L + 1, u.files[i].name = u.files[j].name
      PROVE  i = j
  <2>1. CASE i \in 1 .. L /\ j \in 1 .. L
    BY <1>1, <1>5, <2>1 DEF Owns
  <2>2. CASE i = L + 1 /\ j \in 1 .. L
    BY <1>1, <1>3, <1>5, <2>2
  <2>3. CASE j = L + 1 /\ i \in 1 .. L
    BY <1>1, <1>3, <1>5, <2>3
  <2> QED
    BY <1>2, <2>1, <2>2, <2>3
<1>6. ASSUME ~ dry, NEW i \in 1 .. L + 1
      PROVE  /\ u.files[i].name \in DOMAIN d
             /\ d[u.files[i].name] = [digest |-> u.files[i].digest, whole |-> TRUE]
  BY <1>1, <1>2, <1>6 DEF Owns
<1> QED
  BY <1>1, <1>4, <1>5, <1>6 DEF Owns

\* The rows of this run and those a resume will start from.
Owned ==
  /\ Owns(stats, disk, opts.dry_run)
  /\ ckpt # NoCheckpoint => Owns(ckpt.stats, disk, opts.dry_run)

LEMMA OwnedInit == Init => Owned
BY DEF Init, Owned, Owns, NoStats

LEMMA OwnedNext == Well /\ Owned /\ [Next]_vars => Owned'
<1> SUFFICES ASSUME Well, Owned, [Next]_vars PROVE Owned'
  OBVIOUS
<1>1. opts' = opts /\ (TallyKept \/ RowAdded \/ Afresh \/ Resumed)
  BY ManifestStep
<1>2. \A f \in DOMAIN disk : disk[f].whole => f \in DOMAIN disk' /\ disk'[f] = disk[f]
  BY WholeKept
<1>3. Owns(stats, disk', opts.dry_run)
  BY <1>2, OwnsKept DEF Owned
<1>4. ckpt # NoCheckpoint => Owns(ckpt.stats, disk', opts.dry_run)
  BY <1>2, OwnsKept DEF Owned
<1>5. CASE TallyKept
  <2>1. Owns(stats', disk', opts.dry_run)
    BY <1>3, <1>5, OwnsSame DEF TallyKept
  <2>2. Checkpoint(abs).stats = stats
    BY DEF Checkpoint
  <2>3. ckpt' # NoCheckpoint => Owns(ckpt'.stats, disk', opts.dry_run)
    BY <1>3, <1>4, <1>5, <2>2 DEF TallyKept
  <2> QED
    BY <1>1, <2>1, <2>3 DEF Owned
<1>6. CASE RowAdded
  <2>1. /\ Row(Nearest) \in Rows /\ Row(Nearest).name[1] = stats.recovered
        /\ Row(Nearest).name = writing /\ Row(Nearest).digest = Nearest.digest
    BY <1>6, RowFacts DEF Well, RowAdded
  <2>2. stats \in Tallies
    BY DEF Well, Typed
  <2>3. /\ stats'.recovered = stats.recovered + 1
        /\ stats'.files = Append(stats.files, Row(Nearest))
    BY <1>6, RowAddedFacts
  <2>4. ~ opts.dry_run => /\ Row(Nearest).name \in DOMAIN disk'
                          /\ disk'[Row(Nearest).name]
                               = [digest |-> Row(Nearest).digest, whole |-> TRUE]
    BY <1>6, <2>1 DEF RowAdded
  <2>5. Owns(stats', disk', opts.dry_run)
    <3> HIDE DEF Row
    <3> QED BY <1>3, <2>1, <2>2, <2>3, <2>4, OwnsRow
  <2> QED
    BY <1>1, <1>4, <1>6, <2>5 DEF Owned, RowAdded
<1>7. CASE Afresh
  <2>1. Owns(stats', disk', opts.dry_run)
    BY <1>7 DEF Afresh, NoStats, Owns
  <2> QED
    BY <1>1, <1>4, <1>7, <2>1 DEF Owned, Afresh
<1>8. CASE Resumed
  <2>1. ckpt \in Saved(opts.end) /\ stats' = Restored(ckpt)
    BY <1>8 DEF Well, Typed, Resumed
  <2>2. /\ stats'.files = KnownRows(ckpt.stats.files)
        /\ stats'.recovered = ckpt.stats.recovered
    BY <2>1, RestoredFacts
  <2>3. ckpt.stats.files \in Seq(Rows)
    BY <2>1 DEF Saved, Tallies
  <2>4. /\ stats'.files \in Seq(Rows)
        /\ \E e : Embeds(e, stats'.files, ckpt.stats.files, Len(ckpt.stats.files))
    BY <2>2, <2>3, KnownRowsFacts
  <2>5. Owns(stats', disk', opts.dry_run)
    BY <1>4, <1>8, <2>2, <2>3, <2>4, OwnsPart DEF Resumed
  <2> QED
    BY <1>1, <1>4, <1>8, <2>5 DEF Owned, Resumed
<1> QED
  BY <1>1, <1>5, <1>6, <1>7, <1>8

\* Every manifest row, of this run and of the checkpoint, names a file of its own
\* that is on disk, whole, with the row's content.
THEOREM RowsHaveFiles == Spec => []ManifestBacked
<1>1. Owned => ManifestBacked
  BY DEF Owned, Owns, ManifestBacked, Backed, Names
<1> QED
  BY <1>1, OwnedInit, OwnedNext, WellAlways, PTL DEF Spec

-----------------------------------------------------------------------------
(* No row inside an earlier one. *)

\* A file that is not a filesystem image ends before the boundary, and before
\* every later row starts.
Unnested(rows, skip) ==
  \A i \in DOMAIN rows : rows[i].ext \notin VolumeExts =>
    /\ rows[i].start + rows[i].size <= skip
    /\ \A j \in DOMAIN rows : i < j => rows[i].start + rows[i].size <= rows[j].start

LEMMA UnnestedLater ==
  ASSUME NEW rows \in Seq(Rows), NEW skip \in Nat, Unnested(rows, skip),
         NEW later \in Nat, skip <= later
  PROVE  Unnested(rows, later)
<1>1. \A i \in DOMAIN rows : rows[i].start + rows[i].size \in Nat
  <2>1. \A r \in Rows : r.start + r.size \in Nat
    BY DEF Rows
  <2> QED
    BY <2>1
<1>2. \A k \in Nat : k <= skip => k <= later
  OBVIOUS
<1> QED
  BY <1>1, <1>2 DEF Unnested

LEMMA UnnestedPart ==
  ASSUME NEW T, NEW rows \in Seq(T), NEW skip, Unnested(rows, skip), NEW part \in Seq(T),
         NEW e, Embeds(e, part, rows, Len(rows))
  PROVE  Unnested(part, skip)
<1>1. \A i \in DOMAIN part : e[i] \in DOMAIN rows /\ part[i] = rows[e[i]]
  BY DEF Embeds
<1>2. \A i, j \in DOMAIN part : i < j => e[i] < e[j]
  BY DEF Embeds
<1> QED
  BY <1>1, <1>2 DEF Unnested

LEMMA UnnestedRow ==
  ASSUME NEW rows \in Seq(Rows), NEW skip \in Nat, Unnested(rows, skip),
         NEW row \in Rows, skip <= row.start,
         NEW later \in Nat, skip <= later,
         row.ext \notin VolumeExts => row.start + row.size <= later
  PROVE  Unnested(Append(rows, row), later)
<1> DEFINE L == Len(rows)
           new == Append(rows, row)
           end(r) == r.start + r.size
<1>1. /\ L \in Nat /\ DOMAIN rows = 1 .. L /\ DOMAIN new = 1 .. L + 1 /\ new[L + 1] = row
      /\ \A i \in 1 .. L : new[i] = rows[i] /\ rows[i] \in Rows
  OBVIOUS
<1>2. \A r \in Rows : r.start \in Nat /\ end(r) \in Nat
  BY DEF Rows
<1> HIDE DEF L, new
<1> SUFFICES ASSUME NEW i \in 1 .. L + 1, new[i].ext \notin VolumeExts
             PROVE  /\ end(new[i]) <= later
                    /\ \A j \in 1 .. L + 1 : i < j => end(new[i]) <= new[j].start
  BY <1>1 DEF Unnested, new
<1>3. CASE i = L + 1
  <2>1. \A j \in 1 .. L + 1 : ~ (i < j)
    BY <1>1, <1>3
  <2> QED
    BY <1>1, <1>3, <2>1
<1>4. CASE i \in 1 .. L
  <2>1. new[i] = rows[i] /\ rows[i] \in Rows /\ end(rows[i]) \in Nat /\ end(rows[i]) <= skip
    BY <1>1, <1>2, <1>4 DEF Unnested
  <2>2. row.start \in Nat
    BY <1>2
  <2>3. end(rows[i]) <= later /\ end(rows[i]) <= row.start
    <3> HIDE DEF end
    <3> QED BY <2>1, <2>2
  <2>4. ASSUME NEW j \in 1 .. L, i < j PROVE end(rows[i]) <= rows[j].start
    BY <1>1, <1>4, <2>1, <2>4 DEF Unnested
  <2>5. \A j \in 1 .. L + 1 : j = L + 1 \/ j \in 1 .. L
    BY <1>1
  <2> QED
    BY <1>1, <2>1, <2>3, <2>4, <2>5
<1> QED
  BY <1>1, <1>3, <1>4

\* The rows of this run, and those of the checkpoint with the boundary in it.
Apart ==
  ~ opts.allow_nested =>
    /\ Unnested(stats.files, skip_until)
    /\ ckpt # NoCheckpoint => Unnested(ckpt.stats.files, ckpt.skip)

LEMMA ApartInit == Init => Apart
BY DEF Init, Apart, Unnested, NoStats

LEMMA ApartNext == Well /\ Well' /\ Apart /\ [Next]_vars => Apart'
<1> SUFFICES ASSUME Well, Well', Apart, [Next]_vars, ~ opts.allow_nested
             PROVE  /\ Unnested(stats'.files, skip_until')
                    /\ ckpt' # NoCheckpoint => Unnested(ckpt'.stats.files, ckpt'.skip)
  BY ManifestStep DEF Apart, Unnested
<1>1. opts' = opts /\ (TallyKept \/ RowAdded \/ Afresh \/ Resumed)
  BY ManifestStep
<1>2. Unnested(stats.files, skip_until)
  BY DEF Apart
<1>3. ckpt # NoCheckpoint => Unnested(ckpt.stats.files, ckpt.skip)
  BY DEF Apart
<1>4. /\ stats.files \in Seq(Rows) /\ skip_until \in Nat /\ skip_until' \in Nat
      /\ skip_until \in 0 .. opts.end /\ opts \in Options
  <2>1. stats \in Tallies /\ skip_until \in 0 .. opts.end /\ opts \in Options
    BY DEF Well, Typed
  <2>2. skip_until' \in 0 .. opts'.end
    BY DEF Well, Typed
  <2>3. opts.end \in Nat
    BY <2>1, OptionFacts
  <2> QED
    BY <1>1, <2>1, <2>2, <2>3 DEF Tallies
<1>5. CASE TallyKept
  <2>1. Unnested(stats'.files, skip_until')
    BY <1>2, <1>4, <1>5, UnnestedLater DEF TallyKept
  <2>2. Checkpoint(abs).stats = stats /\ Checkpoint(abs).skip = skip_until
    BY DEF Checkpoint
  <2> QED
    BY <1>2, <1>3, <1>5, <2>1, <2>2 DEF TallyKept
<1>6. CASE RowAdded
  <2>1. /\ Nearest \in Candidates /\ Considered(Nearest, skip_until) /\ pc = "write"
        /\ skip_until' = Hidden(Nearest, skip_until) /\ ckpt' = ckpt
    BY <1>6 DEF RowAdded
  <2>2. /\ Begin(Nearest) \in Nat /\ Nearest.len \in Nat /\ Written(Nearest) \in Nat
        /\ Written(Nearest) <= Nearest.len
        /\ skip_until <= Hidden(Nearest, skip_until)
    BY <1>4, <2>1, ConsideredFacts
  <2>3. skip_until <= Begin(Nearest)
    BY <1>4, <2>1, ConsideredFacts
  <2>4. /\ Row(Nearest) \in Rows /\ Row(Nearest).start = Begin(Nearest)
        /\ Row(Nearest).size = Written(Nearest) /\ Row(Nearest).ext = Nearest.ext
    BY <2>1, RowFacts DEF Well
  <2>5. ASSUME Nearest.ext \notin VolumeExts
        PROVE  Begin(Nearest) + Written(Nearest) <= skip_until'
    <3>1. ~ Nearest.volume
      BY <2>1, <2>5 DEF VolumeExts
    <3>2. skip_until' = Begin(Nearest) + Nearest.len
      BY <2>1, <3>1 DEF Hidden
    <3> QED
      BY <2>2, <3>2
  <2>6. stats'.files = Append(stats.files, Row(Nearest))
    BY <1>6, RowAddedFacts
  <2>7. Unnested(stats'.files, skip_until')
    <3> HIDE DEF Row
    <3>1. skip_until <= Row(Nearest).start /\ skip_until <= skip_until'
      BY <2>1, <2>2, <2>3, <2>4
    <3>2. Row(Nearest).ext \notin VolumeExts =>
            Row(Nearest).start + Row(Nearest).size <= skip_until'
      BY <2>4, <2>5
    <3>3. Unnested(Append(stats.files, Row(Nearest)), skip_until')
      BY <1>2, <1>4, <2>4, <3>1, <3>2, UnnestedRow
    <3> QED
      BY <2>6, <3>3
  <2> QED
    BY <1>3, <2>1, <2>7
<1>7. CASE Afresh
  BY <1>3, <1>7 DEF Afresh, NoStats, Unnested
<1>8. CASE Resumed
  <2>1. ckpt \in Saved(opts.end) /\ stats' = Restored(ckpt)
    BY <1>8 DEF Well, Typed, Resumed
  <2>2. stats'.files = KnownRows(ckpt.stats.files)
    BY <2>1, RestoredFacts
  <2>3. ckpt.stats.files \in Seq(Rows)
    BY <2>1 DEF Saved, Tallies
  <2>4. /\ stats'.files \in Seq(Rows)
        /\ \E e : Embeds(e, stats'.files, ckpt.stats.files, Len(ckpt.stats.files))
    BY <2>2, <2>3, KnownRowsFacts
  <2>5. Unnested(stats'.files, ckpt.skip)
    BY <1>3, <1>8, <2>3, <2>4, UnnestedPart DEF Resumed
  <2> QED
    BY <1>3, <1>8, <2>5 DEF Resumed
<1> QED
  BY <1>1, <1>5, <1>6, <1>7, <1>8

\* Without --allow-nested no manifest row lies inside an earlier one that is not a
\* filesystem image, across chunk boundaries, kills, resumes and --max-files.
THEOREM RowsNeverNest == Spec => []NothingNested
<1>1. Well /\ Apart => NothingNested
  <2> SUFFICES ASSUME Apart, ~ opts.allow_nested, NEW j \in DOMAIN stats.files,
                      stats.files \in Seq(Rows),
                      NEW i \in 1 .. j - 1, stats.files[i].ext \notin VolumeExts
               PROVE  stats.files[i].start + stats.files[i].size <= stats.files[j].start
    BY DEF NothingNested, Well, Typed, Tallies
  <2>1. i \in DOMAIN stats.files /\ i < j
    OBVIOUS
  <2> QED
    BY <2>1 DEF Apart, Unnested
<1> QED
  BY <1>1, ApartInit, ApartNext, WellAlways, PTL DEF Spec

-----------------------------------------------------------------------------
(* The counts are the manifest's. *)

\* An extension that the signature table does not name makes a resume lose the
\* row and keep the count; then the counts are not the manifest's.
TableNamesAll == \A c \in Candidates : c.ext \in KnownExts

Marked(rows, g) == {i \in DOMAIN rows : rows[i].grade = g}
Counts(t) ==
  /\ t.recovered = Len(t.files)
  /\ \A g \in Grades : t.grades[g] = Cardinality(Marked(t.files, g))

LEMMA MarkedRow ==
  ASSUME NEW T, NEW rows \in Seq(T), NEW row, NEW g
  PROVE  Cardinality(Marked(Append(rows, row), g))
           = Cardinality(Marked(rows, g)) + (IF row.grade = g THEN 1 ELSE 0)
<1> DEFINE L == Len(rows)
           new == Append(rows, row)
<1>1. /\ L \in Nat /\ DOMAIN rows = 1 .. L /\ DOMAIN new = 1 .. L + 1 /\ new[L + 1] = row
      /\ \A i \in 1 .. L : new[i] = rows[i]
  OBVIOUS
<1> HIDE DEF L, new
<1>2. Marked(rows, g) \subseteq 1 .. L
  BY <1>1 DEF Marked
<1>3. IsFiniteSet(Marked(rows, g))
  <2>1. IsFiniteSet(1 .. L)
    BY <1>1, FS_Interval
  <2> QED
    BY <1>2, <2>1, FS_Subset
<1>4. \A i \in 1 .. L + 1 : i = L + 1 \/ i \in 1 .. L
  BY <1>1
<1>5. CASE row.grade = g
  <2>1. Marked(new, g) = Marked(rows, g) \cup {L + 1}
    BY <1>1, <1>4, <1>5 DEF Marked
  <2>2. L + 1 \notin Marked(rows, g)
    BY <1>1, <1>2
  <2>3. Cardinality(Marked(rows, g) \cup {L + 1}) = Cardinality(Marked(rows, g)) + 1
    BY <1>3, <2>2, FS_AddElement
  <2> QED
    BY <1>5, <2>1, <2>3 DEF new
<1>6. CASE row.grade # g
  <2>1. Marked(new, g) = Marked(rows, g)
    BY <1>1, <1>4, <1>6 DEF Marked
  <2>2. Cardinality(Marked(rows, g)) \in Nat
    BY <1>3, FS_CardinalityType
  <2> QED
    BY <1>6, <2>1, <2>2 DEF new
<1> QED
  BY <1>5, <1>6

LEMMA CountsRow ==
  ASSUME NEW t \in Tallies, Counts(t), NEW row, row.grade \in Grades,
         NEW u, u.recovered = t.recovered + 1, u.files = Append(t.files, row),
         u.grades = [t.grades EXCEPT ![row.grade] = @ + 1]
  PROVE  Counts(u)
<1>1. t.files \in Seq(Rows) /\ t.grades \in [Grades -> Nat]
  BY DEF Tallies
<1>2. u.recovered = Len(u.files)
  BY <1>1 DEF Counts
<1>3. ASSUME NEW g \in Grades PROVE u.grades[g] = Cardinality(Marked(u.files, g))
  <2>1. t.grades[g] = Cardinality(Marked(t.files, g)) /\ t.grades[g] \in Nat
    BY <1>1 DEF Counts
  <2>2. Cardinality(Marked(u.files, g))
          = Cardinality(Marked(t.files, g)) + (IF row.grade = g THEN 1 ELSE 0)
    BY <1>1, MarkedRow
  <2>3. u.grades[g] = IF row.grade = g THEN t.grades[g] + 1 ELSE t.grades[g]
    BY <1>1
  <2> QED
    BY <2>1, <2>2, <2>3
<1> QED
  BY <1>2, <1>3 DEF Counts

Tallied ==
  /\ Counts(stats)
  /\ ckpt # NoCheckpoint => Counts(ckpt.stats)

LEMMA NoStatsCount == Counts(NoStats)
<1>1. \A g : Marked(<<>>, g) = {}
  BY DEF Marked
<1>2. Cardinality({}) = 0
  BY FS_EmptySet
<1> QED
  BY <1>1, <1>2, NoStatsFacts DEF Counts

LEMMA TalliedNext ==
  TableNamesAll => (Well /\ Tallied /\ [Next]_vars => Tallied')
<1> SUFFICES ASSUME TableNamesAll, Well, Tallied, [Next]_vars
             PROVE  Counts(stats') /\ (ckpt' # NoCheckpoint => Counts(ckpt'.stats))
  BY DEF Tallied, Counts, Marked
<1>1. TallyKept \/ RowAdded \/ Afresh \/ Resumed
  BY ManifestStep
<1>2. Counts(stats) /\ (ckpt # NoCheckpoint => Counts(ckpt.stats))
  BY DEF Tallied
<1>3. CASE TallyKept
  <2>1. Counts(stats')
    BY <1>2, <1>3 DEF TallyKept, Counts
  <2>2. Checkpoint(abs).stats = stats
    BY DEF Checkpoint
  <2> QED
    BY <1>2, <1>3, <2>1, <2>2 DEF TallyKept
<1>4. CASE RowAdded
  <2>1. stats \in Tallies /\ Grade(Nearest) \in Grades
    BY GradeFacts DEF Well, Typed
  <2>2. Row(Nearest).grade = Grade(Nearest)
    BY DEF Row
  <2>3. /\ stats'.recovered = stats.recovered + 1
        /\ stats'.files = Append(stats.files, Row(Nearest))
        /\ stats'.grades = [stats.grades EXCEPT ![Row(Nearest).grade] = @ + 1]
    BY <1>4, <2>2, RowAddedFacts
  <2>4. Counts(stats')
    <3> HIDE DEF Row
    <3> QED BY <1>2, <2>1, <2>2, <2>3, CountsRow
  <2> QED
    BY <1>2, <1>4, <2>4 DEF RowAdded
<1>5. CASE Afresh
  BY <1>2, <1>5, NoStatsCount DEF Afresh
<1>6. CASE Resumed
  <2>1. ckpt \in Saved(opts.end) /\ stats' = Restored(ckpt)
    BY <1>6 DEF Well, Typed, Resumed
  <2>2. ckpt.stats.files \in Seq(Rows)
    BY <2>1 DEF Saved, Tallies
  <2>3. \A i \in DOMAIN ckpt.stats.files : ckpt.stats.files[i].ext \in KnownExts
    <3>1. \A r \in Rows : r.ext \in KnownExts
      BY DEF Rows, Exts, TableNamesAll
    <3> QED
      BY <2>2, <3>1
  <2>4. KnownRows(ckpt.stats.files) = ckpt.stats.files
    BY <2>2, <2>3, KnownRowsFacts
  <2>5. /\ stats'.files = ckpt.stats.files /\ stats'.recovered = ckpt.stats.recovered
        /\ stats'.grades = ckpt.stats.grades
    BY <2>1, <2>4, RestoredFacts
  <2> QED
    BY <1>2, <1>6, <2>5 DEF Resumed, Counts
<1> QED
  BY <1>1, <1>3, <1>4, <1>5, <1>6

\* As long as the signature table names every extension a file can be given, the
\* file count and the confidence counts are those of the manifest's rows, through
\* every resume.
THEOREM CountsAreTheManifests ==
  ASSUME TableNamesAll
  PROVE  Spec => []CountsMatchManifest
<1>1. Init => Tallied
  BY NoStatsCount DEF Init, Tallied
<1>2. Well /\ Tallied /\ [Next]_vars => Tallied'
  BY TalliedNext
<1>3. Tallied => CountsMatchManifest
  BY DEF Tallied, Counts, Marked, CountsMatchManifest
<1> QED
  BY <1>1, <1>2, <1>3, WellAlways, PTL DEF Spec

-----------------------------------------------------------------------------
(* The reference, position by position. *)

Finds == [start : Nat, size : Nat, ext : Exts, digest : Digests, grade : Grades]
States == [skip : Nat, seen : SUBSET Digests, finds : Seq(Finds),
           rejected : Nat, duplicates : Nat]
State(skip, known, finds, rejected, duplicates) ==
  [skip |-> skip, seen |-> known, finds |-> finds,
   rejected |-> rejected, duplicates |-> duplicates]
Blank == State(0, {}, <<>>, 0, 0)

Traces(f, pos, s) ==
  /\ f \in [pos .. opts.end -> States] /\ f[pos] = s
  /\ \A p \in pos .. opts.end - 1 :
       /\ Visible(p) = {} => f[p + 1] = f[p]
       /\ \A c \in Visible(p) : f[p + 1] = Judge(f[p], c)

\* Two states with the same findings: without --dedup the digests do not count.
Alike(s, t, dedup) ==
  /\ s.skip = t.skip /\ s.finds = t.finds
  /\ s.rejected = t.rejected /\ s.duplicates = t.duplicates
  /\ dedup => s.seen = t.seen

LEMMA StateFacts ==
  ASSUME NEW s \in States
  PROVE  /\ s = State(s.skip, s.seen, s.finds, s.rejected, s.duplicates)
         /\ s.skip \in Nat /\ s.seen \in SUBSET Digests /\ s.finds \in Seq(Finds)
         /\ s.rejected \in Nat /\ s.duplicates \in Nat
<1> HIDE DEF Finds, Digests
<1> QED
  BY DEF States, State

LEMMA StateTyped ==
  ASSUME NEW a \in Nat, NEW b \in SUBSET Digests, NEW c \in Seq(Finds),
         NEW d \in Nat, NEW e \in Nat
  PROVE  /\ State(a, b, c, d, e) \in States
         /\ State(a, b, c, d, e).skip = a /\ State(a, b, c, d, e).seen = b
         /\ State(a, b, c, d, e).finds = c /\ State(a, b, c, d, e).rejected = d
         /\ State(a, b, c, d, e).duplicates = e
<1> HIDE DEF Finds, Digests
<1> QED
  BY DEF States, State

\* What one candidate does to a state, case by case.
JudgedAs(s, c, j) ==
  \/ ~ Considered(c, s.skip) /\ j = s
  \/ /\ Considered(c, s.skip) /\ TooLarge(c)
     /\ j = State(Hidden(c, s.skip), s.seen, s.finds, s.rejected, s.duplicates)
  \/ /\ Considered(c, s.skip) /\ ~ TooLarge(c) /\ Rejected(c)
     /\ j = State(s.skip, s.seen, s.finds, s.rejected + 1, s.duplicates)
  \/ /\ Considered(c, s.skip) /\ ~ TooLarge(c) /\ ~ Rejected(c)
     /\ opts.dedup /\ c.digest \in s.seen
     /\ j = State(Hidden(c, s.skip), s.seen, s.finds, s.rejected, s.duplicates + 1)
  \/ /\ Considered(c, s.skip) /\ ~ TooLarge(c) /\ ~ Rejected(c)
     /\ ~ (opts.dedup /\ c.digest \in s.seen)
     /\ j = State(Hidden(c, s.skip), s.seen \cup {c.digest}, Append(s.finds, Find(c)),
                  s.rejected, s.duplicates)

LEMMA JudgeCases ==
  ASSUME NEW s \in States, NEW c
  PROVE  JudgedAs(s, c, Judge(s, c))
<1> DEFINE a == s.skip
           b == s.seen
           l == s.finds
           r == s.rejected
           d == s.duplicates
           h == Hidden(c, a)
           past == [s EXCEPT !.skip = h]
<1>1. s = [skip |-> a, seen |-> b, finds |-> l, rejected |-> r, duplicates |-> d]
  BY StateFacts DEF State
<1> DEFINE more == Append(past.finds, Find(c))
           known == past.seen \cup {c.digest}
<1>2. Judge(s, c) =
        IF ~ Considered(c, a) THEN s
        ELSE IF TooLarge(c) THEN past
        ELSE IF Rejected(c) THEN [s EXCEPT !.rejected = r + 1]
        ELSE IF opts.dedup /\ c.digest \in b THEN [past EXCEPT !.duplicates = past.duplicates + 1]
        ELSE [past EXCEPT !.finds = more, !.seen = known]
  BY DEF Judge
<1> HIDE DEF a, b, l, r, d, h
<1>3. past = [skip |-> h, seen |-> b, finds |-> l, rejected |-> r, duplicates |-> d]
  BY <1>1
<1>4. past.finds = l /\ past.seen = b /\ past.duplicates = d
  BY <1>3
<1>5. more = Append(l, Find(c)) /\ known = b \cup {c.digest}
  BY <1>4
<1> HIDE DEF past, more, known
<1>6. [past EXCEPT !.finds = more, !.seen = known]
        = [skip |-> h, seen |-> known, finds |-> more, rejected |-> r, duplicates |-> d]
  <2> DEFINE half == [past EXCEPT !.finds = more]
  <2>1. half = [skip |-> h, seen |-> b, finds |-> more, rejected |-> r, duplicates |-> d]
    BY <1>3
  <2>3. [past EXCEPT !.finds = more, !.seen = known] = [half EXCEPT !.seen = known]
    OBVIOUS
  <2> HIDE DEF half
  <2>2. [half EXCEPT !.seen = known]
          = [skip |-> h, seen |-> known, finds |-> more, rejected |-> r, duplicates |-> d]
    BY <2>1
  <2> QED
    BY <2>2, <2>3, Zenon
<1>7. [past EXCEPT !.duplicates = past.duplicates + 1]
        = [skip |-> h, seen |-> b, finds |-> l, rejected |-> r, duplicates |-> d + 1]
  BY <1>3, <1>4
<1>8. [s EXCEPT !.rejected = r + 1]
        = [skip |-> a, seen |-> b, finds |-> l, rejected |-> r + 1, duplicates |-> d]
  BY <1>1
<1> HIDE DEF Judge
<1>9. CASE ~ Considered(c, a)
  BY <1>2, <1>9, Zenon DEF JudgedAs, a
<1>10. CASE Considered(c, a) /\ TooLarge(c)
  <2>1. Judge(s, c) = State(h, b, l, r, d)
    BY <1>2, <1>3, <1>10, Zenon DEF State
  <2> QED
    BY <1>10, <2>1, Zenon DEF JudgedAs, a, b, l, r, d, h
<1>11. CASE Considered(c, a) /\ ~ TooLarge(c) /\ Rejected(c)
  <2>1. Judge(s, c) = State(a, b, l, r + 1, d)
    BY <1>2, <1>8, <1>11, Zenon DEF State
  <2> QED
    BY <1>11, <2>1, Zenon DEF JudgedAs, a, b, l, r, d
<1>12. CASE /\ Considered(c, a) /\ ~ TooLarge(c) /\ ~ Rejected(c)
            /\ opts.dedup /\ c.digest \in b
  <2>1. Judge(s, c) = State(h, b, l, r, d + 1)
    BY <1>2, <1>7, <1>12, Zenon DEF State
  <2> QED
    BY <1>12, <2>1, Zenon DEF JudgedAs, a, b, l, r, d, h
<1>13. CASE /\ Considered(c, a) /\ ~ TooLarge(c) /\ ~ Rejected(c)
            /\ ~ (opts.dedup /\ c.digest \in b)
  <2>1. Judge(s, c) = State(h, b \cup {c.digest}, Append(l, Find(c)), r, d)
    BY <1>2, <1>5, <1>6, <1>13, Zenon DEF State
  <2> QED
    BY <1>13, <2>1, Zenon DEF JudgedAs, a, b, l, r, d, h
<1> QED
  BY <1>9, <1>10, <1>11, <1>12, <1>13, Zenon

LEMMA JudgeTyped ==
  ASSUME opts \in Options, NEW s \in States, NEW c \in Candidates
  PROVE  Judge(s, c) \in States
<1>1. /\ s.skip \in Nat /\ s.seen \in SUBSET Digests /\ s.finds \in Seq(Finds)
      /\ s.rejected \in Nat /\ s.duplicates \in Nat
  BY StateFacts
<1>2. s.rejected + 1 \in Nat /\ s.duplicates + 1 \in Nat
  BY <1>1
<1>3. ASSUME Considered(c, s.skip)
      PROVE  /\ Hidden(c, s.skip) \in Nat
             /\ s.seen \cup {c.digest} \in SUBSET Digests
             /\ Append(s.finds, Find(c)) \in Seq(Finds)
  <2>1. /\ c.at \in Nat /\ c.off \in Nat /\ c.len \in Nat /\ c.at >= c.off /\ PhysEnd \in Nat
        /\ c.ext \in Exts /\ c.digest \in Digests /\ Grade(c) \in Grades
    BY <1>3, CandidateFacts, SourceAssumption, GradeFacts DEF Considered
  <2>2. Begin(c) \in Nat
    BY <2>1 DEF Begin
  <2>3. Written(c) \in Nat
    BY <2>1, <2>2 DEF Written, Min2
  <2>4. Find(c) \in Finds
    BY <2>1, <2>2, <2>3 DEF Find, Finds
  <2>5. Begin(c) + c.len \in Nat
    BY <2>1, <2>2
  <2>6. Hidden(c, s.skip) \in Nat
    BY <1>1, <2>5 DEF Hidden
  <2>7. Append(s.finds, Find(c)) \in Seq(Finds)
    <3> HIDE DEF Finds
    <3> QED BY <1>1, <2>4
  <2> QED
    BY <1>1, <2>1, <2>6, <2>7
<1> DEFINE j == Judge(s, c)
           h == Hidden(c, s.skip)
<1>4. JudgedAs(s, c, j)
  BY JudgeCases
<1>5. \/ j = s
      \/ j = State(s.skip, s.seen, s.finds, s.rejected + 1, s.duplicates)
      \/ /\ Considered(c, s.skip)
         /\ \/ j = State(h, s.seen, s.finds, s.rejected, s.duplicates)
            \/ j = State(h, s.seen, s.finds, s.rejected, s.duplicates + 1)
            \/ j = State(h, s.seen \cup {c.digest}, Append(s.finds, Find(c)),
                         s.rejected, s.duplicates)
  <2> HIDE DEF j
  <2> QED BY <1>4, Zenon DEF JudgedAs
<1>6. CASE j = s
  BY <1>6
<1>7. CASE j = State(s.skip, s.seen, s.finds, s.rejected + 1, s.duplicates)
  <2> DEFINE more == s.rejected + 1
  <2>1. more \in Nat
    BY <1>2
  <2> HIDE DEF more, j
  <2>2. State(s.skip, s.seen, s.finds, more, s.duplicates) \in States
    BY <1>1, <2>1, StateTyped
  <2> QED
    BY <1>7, <2>2, Zenon DEF more, j
<1>8. CASE Considered(c, s.skip) /\ j = State(h, s.seen, s.finds, s.rejected, s.duplicates)
  <2> HIDE DEF h, j
  <2>1. State(h, s.seen, s.finds, s.rejected, s.duplicates) \in States
    BY <1>1, <1>3, <1>8, StateTyped DEF h
  <2> QED
    BY <1>8, <2>1, Zenon DEF j
<1>9. CASE /\ Considered(c, s.skip)
           /\ j = State(h, s.seen, s.finds, s.rejected, s.duplicates + 1)
  <2> DEFINE more == s.duplicates + 1
  <2>1. more \in Nat /\ h \in Nat
    BY <1>2, <1>3, <1>9
  <2> HIDE DEF h, j, more
  <2>2. State(h, s.seen, s.finds, s.rejected, more) \in States
    BY <1>1, <2>1, StateTyped
  <2> QED
    BY <1>9, <2>2, Zenon DEF j, more
<1>10. CASE /\ Considered(c, s.skip)
            /\ j = State(h, s.seen \cup {c.digest}, Append(s.finds, Find(c)),
                         s.rejected, s.duplicates)
  <2> DEFINE known == s.seen \cup {c.digest}
             more == Append(s.finds, Find(c))
  <2>1. known \in SUBSET Digests /\ more \in Seq(Finds) /\ h \in Nat
    BY <1>3, <1>10
  <2> HIDE DEF h, j, more, known
  <2>2. State(h, known, more, s.rejected, s.duplicates) \in States
    BY <1>1, <2>1, StateTyped
  <2> QED
    BY <1>10, <2>2, Zenon DEF j, more, known
<1> QED
  BY <1>5, <1>6, <1>7, <1>8, <1>9, <1>10, Zenon

\* States with the same findings stay so.
LEMMA JudgeAlike ==
  ASSUME NEW s \in States, NEW t \in States, NEW c, Alike(s, t, opts.dedup),
         opts.dedup \in BOOLEAN
  PROVE  Alike(Judge(s, c), Judge(t, c), opts.dedup)
<1>1. /\ s.skip = t.skip /\ s.finds = t.finds
      /\ s.rejected = t.rejected /\ s.duplicates = t.duplicates
      /\ opts.dedup => s.seen = t.seen
  BY DEF Alike
<1>2. (opts.dedup /\ c.digest \in s.seen) <=> (opts.dedup /\ c.digest \in t.seen)
  BY <1>1
<1>3. \A a, b, bb, l, r, d :
        (opts.dedup => b = bb) => Alike(State(a, b, l, r, d), State(a, bb, l, r, d), opts.dedup)
  BY DEF Alike, State
<1> DEFINE i == Judge(s, c)
           j == Judge(t, c)
<1>4. JudgedAs(s, c, i) /\ JudgedAs(t, c, j)
  BY JudgeCases
<1> HIDE DEF i, j
<1>5. CASE ~ Considered(c, s.skip)
  <2>1. ~ Considered(c, t.skip)
    BY <1>1, <1>5, Zenon
  <2>2. i = s /\ j = t
    BY <1>4, <1>5, <2>1, Zenon DEF JudgedAs
  <2> QED
    BY <2>2, Zenon DEF i, j
<1>6. CASE Considered(c, s.skip)
  <2> DEFINE h == Hidden(c, s.skip)
  <2>1. Considered(c, t.skip) /\ Hidden(c, t.skip) = h
    BY <1>1, <1>6, Zenon
  <2> HIDE DEF h
  <2>2. CASE TooLarge(c)
    <3>1. /\ i = State(h, s.seen, s.finds, s.rejected, s.duplicates)
          /\ j = State(h, t.seen, t.finds, t.rejected, t.duplicates)
      BY <1>4, <1>6, <2>1, <2>2, Zenon DEF JudgedAs, h
    <3> QED
      BY <1>1, <1>3, <3>1, Zenon DEF i, j
  <2>3. CASE ~ TooLarge(c) /\ Rejected(c)
    <3>1. /\ i = State(s.skip, s.seen, s.finds, s.rejected + 1, s.duplicates)
          /\ j = State(t.skip, t.seen, t.finds, t.rejected + 1, t.duplicates)
      BY <1>4, <1>6, <2>1, <2>3, Zenon DEF JudgedAs
    <3> QED
      BY <1>1, <1>3, <3>1, Zenon DEF i, j
  <2>4. CASE ~ TooLarge(c) /\ ~ Rejected(c) /\ opts.dedup /\ c.digest \in s.seen
    <3>1. /\ i = State(h, s.seen, s.finds, s.rejected, s.duplicates + 1)
          /\ j = State(h, t.seen, t.finds, t.rejected, t.duplicates + 1)
      BY <1>2, <1>4, <1>6, <2>1, <2>4, Zenon DEF JudgedAs, h
    <3> QED
      BY <1>1, <1>3, <3>1, Zenon DEF i, j
  <2>5. CASE ~ TooLarge(c) /\ ~ Rejected(c) /\ ~ (opts.dedup /\ c.digest \in s.seen)
    <3>1. /\ i = State(h, s.seen \cup {c.digest}, Append(s.finds, Find(c)),
                       s.rejected, s.duplicates)
          /\ j = State(h, t.seen \cup {c.digest}, Append(t.finds, Find(c)),
                       t.rejected, t.duplicates)
      BY <1>2, <1>4, <1>6, <2>1, <2>5, Zenon DEF JudgedAs, h
    <3>2. opts.dedup => s.seen \cup {c.digest} = t.seen \cup {c.digest}
      BY <1>1
    <3>3. j = State(h, t.seen \cup {c.digest}, Append(s.finds, Find(c)),
                    s.rejected, s.duplicates)
      BY <1>1, <3>1, Zenon
    <3>5. Alike(State(h, s.seen \cup {c.digest}, Append(s.finds, Find(c)),
                      s.rejected, s.duplicates),
                State(h, t.seen \cup {c.digest}, Append(s.finds, Find(c)),
                      s.rejected, s.duplicates), opts.dedup)
      BY <3>2 DEF Alike, State
    <3>4. Alike(i, j, opts.dedup)
      BY <3>1, <3>3, <3>5, Zenon
    <3> QED
      BY <3>4 DEF i, j
  <2> QED
    BY <2>2, <2>3, <2>4, <2>5, Zenon
<1> QED
  BY <1>5, <1>6, Zenon

-----------------------------------------------------------------------------
(* The reference exists, and Continue is its last value. *)

\* At most one candidate is visible at an offset.
LEMMA VisibleFacts ==
  ASSUME NEW p
  PROVE  /\ Visible(p) \subseteq Candidates
         /\ \A c, d \in Visible(p) : c = d
         /\ Visible(p) # {} =>
              (CHOOSE c \in Visible(p) : TRUE) \in Visible(p)
BY SourceAssumption DEF Visible

\* What comes after a state, one offset further.
After(p, s) ==
  IF Visible(p) = {} THEN s ELSE Judge(s, CHOOSE c \in Visible(p) : TRUE)

LEMMA AfterFacts ==
  ASSUME opts \in Options, NEW p, NEW s \in States
  PROVE  /\ After(p, s) \in States
         /\ Visible(p) = {} => After(p, s) = s
         /\ \A c \in Visible(p) : After(p, s) = Judge(s, c)
<1> DEFINE d == CHOOSE c \in Visible(p) : TRUE
<1>1. CASE Visible(p) = {}
  BY <1>1 DEF After
<1>2. CASE Visible(p) # {}
  <2>1. d \in Candidates /\ \A c \in Visible(p) : c = d
    BY <1>2, VisibleFacts
  <2>2. After(p, s) = Judge(s, d)
    BY <1>2 DEF After
  <2> HIDE DEF d
  <2>3. Judge(s, d) \in States
    BY <2>1, JudgeTyped
  <2> QED
    BY <1>2, <2>1, <2>2, <2>3
<1> QED
  BY <1>1, <1>2

LEMMA TraceExists ==
  ASSUME opts \in Options, NEW pos \in 0 .. opts.end, NEW s \in States
  PROVE  \E f : /\ Traces(f, pos, s)
                /\ \A p \in pos .. opts.end :
                     f[p] = IF p = pos THEN s ELSE After(p - 1, f[p - 1])
<1> DEFINE last == opts.end
           step == [p \in pos + 1 .. last |-> [t \in States |-> After(p - 1, t)]]
<1>1. last \in Nat /\ pos \in Nat /\ pos <= last
  BY OptionFacts
<1>2. \A p, t : t \in States => After(p, t) \in States
  BY AfterFacts
<1>3. \A p \in pos + 1 .. last : \A t \in States : step[p][t] = After(p - 1, t)
  OBVIOUS
<1> HIDE DEF last, step
<1>4. Recursive(pos, last, States, s, step)
  BY <1>1, <1>2, <1>3 DEF Recursive
<1>5. PICK f : Follows(f, pos, last, States, s, step)
  BY <1>4, RecursionHolds
<1>6. f \in [pos .. last -> States]
  BY <1>5 DEF Follows
<1>7. ASSUME NEW p \in pos .. last
      PROVE  f[p] = IF p = pos THEN s ELSE After(p - 1, f[p - 1])
  <2>1. f[p] = IF p = pos THEN s ELSE step[p][f[p - 1]]
    BY <1>5 DEF Follows
  <2>2. p # pos => p \in pos + 1 .. last /\ p - 1 \in pos .. last
    BY <1>1
  <2>3. p # pos => f[p - 1] \in States
    BY <1>6, <2>2
  <2> QED
    BY <1>3, <2>1, <2>2, <2>3
<1>8. ASSUME NEW p \in pos .. last - 1
      PROVE  /\ Visible(p) = {} => f[p + 1] = f[p]
             /\ \A c \in Visible(p) : f[p + 1] = Judge(f[p], c)
  <2>1. PICK q \in pos .. last : q = p + 1 /\ q # pos /\ q - 1 = p
    BY <1>1
  <2>2. p \in pos .. last
    BY <1>1
  <2>3. f[p] \in States
    BY <1>6, <2>2
  <2>4. f[q] = After(p, f[p])
    BY <1>7, <2>1
  <2>5. f[p + 1] = After(p, f[p])
    BY <2>1, <2>4
  <2> QED
    BY <2>3, <2>5, AfterFacts
<1>9. f[pos] = s
  <2>1. pos \in pos .. last
    BY <1>1
  <2> QED
    BY <1>7, <2>1
<1>10. Traces(f, pos, s)
  BY <1>6, <1>8, <1>9 DEF Traces, last
<1> QED
  BY <1>7, <1>10 DEF last

\* Two traces whose findings agree somewhere agree from there on.
LEMMA TracesAlike ==
  ASSUME opts \in Options, NEW f, NEW g, NEW from \in Nat, NEW pos \in Nat, from <= pos,
         NEW s, NEW t, Traces(f, from, s), Traces(g, pos, t), pos <= opts.end,
         Alike(f[pos], g[pos], opts.dedup)
  PROVE  \A p \in pos .. opts.end : Alike(f[p], g[p], opts.dedup)
<1> DEFINE last == opts.end
           Agree(p) == Alike(f[p], g[p], opts.dedup)
           S == {k \in Nat : pos + k <= last => Agree(pos + k)}
<1>1. last \in Nat /\ opts.dedup \in BOOLEAN
  BY OptionFacts
<1>2. 0 \in S
  <2>1. pos + 0 = pos
    OBVIOUS
  <2>2. Agree(pos + 0)
    BY <2>1
  <2> HIDE DEF Agree
  <2> QED
    BY <2>2
<1>3. \A k \in Nat : k \in S => k + 1 \in S
  <2> SUFFICES ASSUME NEW k \in Nat, k \in S, pos + (k + 1) <= last
               PROVE  Agree(pos + (k + 1))
    <3> HIDE DEF Agree
    <3> QED OBVIOUS
  <2> DEFINE p == pos + k
  <2>1. /\ p \in pos .. last - 1 /\ p \in from .. last - 1 /\ p <= last
        /\ p \in pos .. last /\ p \in from .. last /\ pos + (k + 1) = p + 1
    BY <1>1
  <2>2. Agree(p)
    <3> HIDE DEF Agree
    <3> QED BY <2>1
  <2> HIDE DEF p
  <2>3. f[p] \in States /\ g[p] \in States
    BY <2>1 DEF Traces
  <2>4. /\ Visible(p) = {} => f[p + 1] = f[p] /\ g[p + 1] = g[p]
        /\ \A c \in Visible(p) : f[p + 1] = Judge(f[p], c) /\ g[p + 1] = Judge(g[p], c)
    BY <2>1 DEF Traces
  <2>5. CASE Visible(p) = {}
    <3>1. f[p + 1] = f[p] /\ g[p + 1] = g[p]
      BY <2>4, <2>5
    <3> QED
      BY <2>1, <2>2, <3>1, Zenon
  <2>6. ASSUME NEW c \in Visible(p) PROVE Agree(p + 1)
    <3>1. Alike(Judge(f[p], c), Judge(g[p], c), opts.dedup)
      BY <1>1, <2>2, <2>3, JudgeAlike
    <3>2. f[p + 1] = Judge(f[p], c) /\ g[p + 1] = Judge(g[p], c)
      BY <2>4
    <3> QED
      BY <3>1, <3>2, Zenon
  <2> QED
    BY <2>1, <2>5, <2>6, Zenon
<1>4. \A k \in Nat : k \in S
  <2> HIDE DEF S
  <2> QED BY <1>2, <1>3, InductionOnSet
<1> SUFFICES ASSUME NEW p \in pos .. last PROVE Agree(p)
  OBVIOUS
<1>5. p - pos \in Nat /\ pos + (p - pos) = p /\ p <= last
  BY <1>1
<1>6. Agree(pos + (p - pos))
  <2> HIDE DEF Agree
  <2>1. pos + (p - pos) <= last => Agree(pos + (p - pos))
    BY <1>4, <1>5
  <2> QED
    BY <1>5, <2>1
<1> QED
  BY <1>5, <1>6

LEMMA AlikeItself ==
  ASSUME NEW s, NEW dedup PROVE Alike(s, s, dedup)
BY DEF Alike

\* The last value of the reference is that of any trace.
LEMMA ContinueIs ==
  ASSUME opts \in Options, NEW pos \in 0 .. opts.end, NEW s \in States,
         NEW f, Traces(f, pos, s)
  PROVE  Outcome(Continue(pos, s)) = Outcome(f[opts.end])
<1> DEFINE last == opts.end
           Body(u) == [p \in pos .. opts.end |->
                         IF p = pos THEN s
                         ELSE IF Visible(p - 1) = {} THEN u[p - 1]
                         ELSE Judge(u[p - 1], CHOOSE c \in Visible(p - 1) : TRUE)]
           upto == CHOOSE u : u = Body(u)
<1>1. last \in Nat /\ pos \in Nat /\ pos <= last
  BY OptionFacts
<1>2. PICK g : /\ Traces(g, pos, s)
               /\ \A p \in pos .. last : g[p] = IF p = pos THEN s ELSE After(p - 1, g[p - 1])
  BY TraceExists
<1>3. g = Body(g)
  <2>1. g \in [pos .. last -> States]
    BY <1>2 DEF Traces
  <2>2. \A p \in pos .. last : g[p] = Body(g)[p]
    BY <1>2 DEF After
  <2> QED
    BY <2>1, <2>2
<1>4. upto = Body(upto)
  <2> HIDE DEF Body
  <2> QED BY <1>3
<1>5. Continue(pos, s) = upto[last]
  BY DEF Continue
<1> DEFINE S == {k \in Nat : pos + k <= last => upto[pos + k] = g[pos + k]}
<1>6. \A k \in Nat : k \in S
  <2>1. \A p \in pos .. last : upto[p] = IF p = pos THEN s ELSE After(p - 1, upto[p - 1])
    <3> HIDE DEF upto
    <3> QED BY <1>4 DEF After
  <2> HIDE DEF upto
  <2>2. 0 \in S
    <3>1. pos \in pos .. last /\ pos + 0 = pos
      BY <1>1
    <3> QED
      BY <1>2, <2>1, <3>1
  <2>3. \A k \in Nat : k \in S => k + 1 \in S
    <3> SUFFICES ASSUME NEW k \in Nat, k \in S, pos + (k + 1) <= last
                 PROVE  upto[pos + (k + 1)] = g[pos + (k + 1)]
      OBVIOUS
    <3>1. PICK q \in pos .. last : q = pos + (k + 1) /\ q # pos /\ q - 1 = pos + k
      BY <1>1
    <3>2. upto[pos + k] = g[pos + k]
      BY <1>1
    <3>3. upto[q] = After(pos + k, upto[pos + k]) /\ g[q] = After(pos + k, g[pos + k])
      BY <1>2, <2>1, <3>1
    <3> QED
      BY <3>1, <3>2, <3>3
  <2> HIDE DEF S
  <2> QED
    BY <2>2, <2>3, InductionOnSet
<1> HIDE DEF upto
<1>7. upto[last] = g[last]
  <2>1. last - pos \in Nat /\ pos + (last - pos) = last
    BY <1>1
  <2>2. last - pos \in S
    <3> HIDE DEF S
    <3> QED BY <1>6, <2>1
  <2> QED
    BY <2>1, <2>2
<1>8. Alike(g[last], f[last], opts.dedup)
  <2>1. f[pos] = s /\ g[pos] = s
    BY <1>2 DEF Traces
  <2>2. Alike(g[pos], f[pos], opts.dedup)
    BY <2>1, AlikeItself
  <2>3. \A p \in pos .. opts.end : Alike(g[p], f[p], opts.dedup)
    BY <1>1, <1>2, <2>2, TracesAlike
  <2> QED
    BY <1>1, <2>3
<1> QED
  BY <1>5, <1>7, <1>8 DEF Alike, Outcome

-----------------------------------------------------------------------------
(* The run, seen as a state of the reference. *)

Current == State(skip_until, seen, FindsOf(stats.files), stats.rejected, stats.duplicates)
SavedState(ck) ==
  State(ck.skip, ck.seen, FindsOf(ck.stats.files), ck.stats.rejected, ck.stats.duplicates)

LEMMA FindsFacts ==
  ASSUME NEW rows \in Seq(Rows)
  PROVE  /\ FindsOf(rows) \in Seq(Finds)
         /\ \A row \in Rows : FindsOf(Append(rows, row)) = Append(FindsOf(rows), FindOf(row))
<1> DEFINE L == Len(rows)
<1>1. L \in Nat /\ DOMAIN rows = 1 .. L /\ \A i \in 1 .. L : rows[i] \in Rows
  OBVIOUS
<1>2. \A row \in Rows : FindOf(row) \in Finds
  BY DEF Rows, FindOf, Finds
<1>3. FindsOf(rows) = [i \in 1 .. L |-> FindOf(rows[i])]
  BY <1>1 DEF FindsOf
<1> HIDE DEF L, Rows, Finds
<1>4. FindsOf(rows) \in Seq(Finds) /\ Len(FindsOf(rows)) = L
  <2>1. FindsOf(rows) \in [1 .. L -> Finds]
    BY <1>1, <1>2, <1>3
  <2> QED
    BY <1>1, <2>1
<1>5. ASSUME NEW row \in Rows
      PROVE  FindsOf(Append(rows, row)) = Append(FindsOf(rows), FindOf(row))
  <2> DEFINE new == Append(rows, row)
             old == FindsOf(rows)
             a == FindsOf(new)
             b == Append(old, FindOf(row))
  <2>1. /\ DOMAIN new = 1 .. L + 1 /\ new[L + 1] = row
        /\ \A i \in 1 .. L : new[i] = rows[i]
    BY <1>1 DEF L
  <2> HIDE DEF new
  <2>2. a = [i \in 1 .. L + 1 |-> FindOf(new[i])]
    BY <2>1 DEF FindsOf
  <2>3. \A i \in 1 .. L : old[i] = FindOf(rows[i])
    BY <1>3
  <2>4. old \in Seq(Finds) /\ Len(old) = L /\ FindOf(row) \in Finds
    BY <1>2, <1>4
  <2> HIDE DEF old
  <2>5. /\ b \in Seq(Finds) /\ Len(b) = L + 1 /\ b[L + 1] = FindOf(row)
        /\ \A i \in 1 .. L : b[i] = old[i]
    BY <1>1, <2>4
  <2>6. \A i \in 1 .. L + 1 : i = L + 1 \/ i \in 1 .. L
    BY <1>1
  <2>7. \A i \in 1 .. L + 1 : a[i] = b[i]
    <3> HIDE DEF b
    <3> QED BY <2>1, <2>2, <2>3, <2>5, <2>6
  <2>8. b = [i \in 1 .. L + 1 |-> b[i]]
    <3> HIDE DEF b
    <3> QED BY <1>1, <2>5
  <2>9. a = b
    <3> HIDE DEF b
    <3> QED BY <2>2, <2>7, <2>8
  <2> QED
    BY <2>9 DEF new, old
<1> QED
  BY <1>4, <1>5

LEMMA CurrentFacts ==
  ASSUME Typed
  PROVE  /\ Current \in States
         /\ Current.skip = skip_until /\ Current.seen = seen
         /\ Current.finds = FindsOf(stats.files)
         /\ Current.rejected = stats.rejected /\ Current.duplicates = stats.duplicates
<1>1. /\ stats.files \in Seq(Rows) /\ stats.rejected \in Nat /\ stats.duplicates \in Nat
      /\ seen \in SUBSET Digests /\ skip_until \in Nat
  BY OptionFacts DEF Typed, Tallies
<1>2. FindsOf(stats.files) \in Seq(Finds)
  BY <1>1, FindsFacts
<1> QED
  BY <1>1, <1>2, StateTyped DEF Current

LEMMA SavedFacts ==
  ASSUME NEW limit \in Nat, NEW ck \in Saved(limit)
  PROVE  /\ SavedState(ck) \in States
         /\ SavedState(ck).skip = ck.skip /\ SavedState(ck).seen = ck.seen
         /\ SavedState(ck).finds = FindsOf(ck.stats.files)
         /\ SavedState(ck).rejected = ck.stats.rejected
         /\ SavedState(ck).duplicates = ck.stats.duplicates
<1>1. /\ ck.stats.files \in Seq(Rows) /\ ck.stats.rejected \in Nat
      /\ ck.stats.duplicates \in Nat /\ ck.seen \in SUBSET Digests /\ ck.skip \in Nat
  <2>1. ck.stats \in Tallies /\ ck.seen \in SUBSET Digests /\ ck.skip \in 0 .. limit
    BY DEF Saved
  <2> QED
    BY <2>1 DEF Tallies
<1>2. FindsOf(ck.stats.files) \in Seq(Finds)
  BY <1>1, FindsFacts
<1> QED
  BY <1>1, <1>2, StateTyped DEF SavedState

\* A stretch without a visible candidate changes nothing.
LEMMA Quiet ==
  ASSUME opts \in Options, NEW f, NEW pos \in Nat, NEW s, Traces(f, pos, s),
         NEW lo \in Nat, pos <= lo, NEW hi \in Nat, lo <= hi, hi <= opts.end,
         \A p \in lo .. hi - 1 : Visible(p) = {}
  PROVE  f[hi] = f[lo]
<1> DEFINE S == {k \in Nat : lo + k <= hi => f[lo + k] = f[lo]}
<1>1. opts.end \in Nat
  BY OptionFacts
<1>2. 0 \in S
  <2>1. lo + 0 = lo
    OBVIOUS
  <2> QED
    BY <2>1
<1>3. \A k \in Nat : k \in S => k + 1 \in S
  <2> SUFFICES ASSUME NEW k \in Nat, k \in S, lo + (k + 1) <= hi
               PROVE  f[lo + (k + 1)] = f[lo]
    OBVIOUS
  <2>1. /\ lo + k <= hi /\ lo + k \in lo .. hi - 1 /\ lo + k \in pos .. opts.end - 1
        /\ lo + (k + 1) = (lo + k) + 1
    BY <1>1
  <2>2. f[lo + k] = f[lo]
    BY <2>1
  <2>3. f[(lo + k) + 1] = f[lo + k]
    BY <2>1 DEF Traces
  <2> QED
    BY <2>1, <2>2, <2>3
<1>4. hi - lo \in Nat /\ lo + (hi - lo) = hi
  OBVIOUS
<1>5. hi - lo \in S
  <2> HIDE DEF S
  <2> QED BY <1>2, <1>3, <1>4, InductionOnSet
<1> QED
  BY <1>4, <1>5

\* The chunk in memory is as much of the source as there is for it.
ChunkRead == abs < PhysEnd /\ n = Min2(Want, PhysEnd - abs)

\* Inside the chunk the scan sees exactly the candidates the reference sees.
LEMMA ChunkSees ==
  ASSUME Well, pc \in {"scan", "write"}, ChunkRead,
         NEW p \in Nat, at <= p, p < ScanLimit
  PROVE  Visible(p) = {c \in Ahead : c.at = p}
<1>1. /\ n \in Nat /\ abs \in Nat /\ at \in Nat /\ opts.end \in Nat /\ PhysEnd \in Nat
      /\ Overlap \in Nat /\ ScanChunk \in Nat /\ Want \in Nat /\ abs <= opts.end
      /\ abs < PhysEnd /\ Want <= opts.end - abs
  BY ChunkFacts, SourceAssumption, ScanAssumption, OptionFacts DEF Well, Typed, ChunkRead
<1>2. (n = Want /\ n <= PhysEnd - abs) \/ (n = PhysEnd - abs /\ n <= Want)
  <2>1. n = IF Want <= PhysEnd - abs THEN Want ELSE PhysEnd - abs
    BY DEF ChunkRead, Min2
  <2> HIDE DEF Want
  <2> QED
    BY <1>1, <2>1
<1> DEFINE top == abs + n
           stop == Min2(PhysEnd, opts.end)
<1>3. top \in Nat /\ top <= stop
  <2> HIDE DEF Want
  <2> QED BY <1>1, <1>2 DEF Min2
<1>4. \/ top = stop
      \/ p < top - Overlap
  <2>1. CASE n = Want /\ top < opts.end
    <3>1. ScanLimit = top - Overlap
      <4>1. n = Want /\ abs + n < opts.end
        BY <2>1
      <4>2. ScanLimit = abs + n - Overlap
        BY <4>1 DEF ScanLimit
      <4>3. PICK a \in Nat : a = abs
        BY <1>1
      <4>4. ScanLimit = a + n - Overlap /\ top = a + n
        BY <4>2, <4>3, Zenon
      <4>5. n \in Nat /\ Overlap \in Nat
        BY <1>1
      <4> HIDE DEF ScanLimit, top
      <4> QED
        BY <4>4, <4>5
    <3> QED
      BY <3>1
  <2>2. CASE ~ (n = Want /\ top < opts.end)
    <3>1. n = PhysEnd - abs \/ ~ (top < opts.end)
      BY <1>2, <2>2
    <3>2. CASE n = PhysEnd - abs
      <4>1. top = PhysEnd
        BY <1>1, <3>2
      <4> QED
        BY <1>1, <1>3, <4>1 DEF Min2
    <3>3. CASE ~ (top < opts.end)
      BY <1>1, <1>3, <3>3 DEF Min2
    <3> QED
      BY <3>1, <3>2, <3>3
  <2> QED
    BY <2>1, <2>2
<1>5. ASSUME NEW c \in Candidates, c.at = p
      PROVE  c.at + c.reach <= stop <=> c.at + c.reach <= top
  <2>1. c.at \in Nat /\ c.reach \in Nat /\ c.off \in Nat /\ c.reach + c.off <= Overlap
    BY CandidateFacts
  <2>2. stop \in Nat
    BY <1>1 DEF Min2
  <2> HIDE DEF top, stop
  <2> QED
    BY <1>1, <1>3, <1>4, <1>5, <2>1, <2>2
<1>6. \A c : c \in Ahead <=> /\ c \in Candidates /\ c.at >= at /\ c.at < ScanLimit
                             /\ c.at + c.reach <= top
  BY DEF Ahead
<1>7. \A c : c \in Visible(p) <=> /\ c \in Candidates /\ c.at = p
                                  /\ c.at + c.reach <= stop
  BY DEF Visible
<1>8. at <= p => p >= at
  BY <1>1
<1> HIDE DEF top, stop, Visible, Ahead, ScanLimit
<1> QED
  BY <1>5, <1>6, <1>7, <1>8

LEMMA AlikeFacts ==
  ASSUME NEW s, NEW t, NEW u, NEW dedup, Alike(s, t, dedup), Alike(t, u, dedup)
  PROVE  Alike(s, u, dedup)
BY DEF Alike

LEMMA BlankTyped == Blank \in States
<1>1. <<>> \in Seq(Finds) /\ {} \in SUBSET Digests
  OBVIOUS
<1> QED
  BY <1>1, StateTyped DEF Blank

\* The reference stays the same as long as the options do.
LEMMA ReferenceSame ==
  ASSUME opts' = opts, NEW f, NEW pos, NEW s
  PROVE  Traces(f, pos, s)' <=> Traces(f, pos, s)
<1>1. \A p : Visible(p)' = Visible(p)
  BY DEF Visible
<1>2. \A t, c : Judge(t, c)' = Judge(t, c)
  BY DEF Judge, Considered, Hidden, TooLarge, Rejected
<1> QED
  BY <1>1, <1>2, Zenon DEF Traces

\* From the scan's position to just behind the nearest candidate the reference
\* judges that candidate and nothing else.
LEMMA PassedOne ==
  ASSUME Well, pc \in {"scan", "write"}, ChunkRead, Ahead # {},
         NEW f, Traces(f, 0, Blank)
  PROVE  /\ at \in 0 .. opts.end /\ Nearest.at + 1 \in 0 .. opts.end
         /\ f[at] \in States /\ f[Nearest.at + 1] = Judge(f[at], Nearest)
<1>1. /\ Nearest \in Ahead /\ \A d \in Ahead : Nearest.at <= d.at
      /\ Nearest.at \in Nat /\ at <= Nearest.at /\ Nearest.at < ScanLimit
  BY NearestFacts
<1>2. /\ at \in Nat /\ opts.end \in Nat /\ ScanLimit \in Nat /\ ScanLimit <= opts.end
      /\ opts \in Options
  BY ChunkFacts, OptionFacts DEF Well, Typed, Placed
<1> DEFINE m == Nearest.at
<1>3. \A p \in Nat : at <= p /\ p < ScanLimit => Visible(p) = {c \in Ahead : c.at = p}
  BY ChunkSees
<1>4. Nearest \in Visible(m)
  BY <1>1, <1>3
<1>5. \A p \in at .. m - 1 : Visible(p) = {}
  <2> SUFFICES ASSUME NEW p \in at .. m - 1 PROVE Visible(p) = {}
    OBVIOUS
  <2>1. p \in Nat /\ at <= p /\ p < ScanLimit /\ p < m
    BY <1>1, <1>2
  <2>2. \A d \in Ahead : d.at # p
    BY <1>1, <2>1
  <2> QED
    BY <1>3, <2>1, <2>2
<1>6. m \in Nat /\ m <= opts.end /\ m \in 0 .. opts.end - 1
      /\ at \in 0 .. opts.end /\ m + 1 \in 0 .. opts.end
  BY <1>1, <1>2
<1>7. f[m] = f[at]
  <2> HIDE DEF m
  <2> QED BY <1>1, <1>2, <1>5, <1>6, Quiet DEF m
<1>8. f[m + 1] = Judge(f[m], Nearest)
  BY <1>4, <1>6 DEF Traces
<1>9. f[at] \in States
  BY <1>6 DEF Traces
<1> QED
  BY <1>6, <1>7, <1>8, <1>9

-----------------------------------------------------------------------------
(* One candidate: the run does what the reference does. *)

\* What holds of the scan's place between the steps of a run without
\* --max-files.
Staged ==
  /\ pc # "stop"
  /\ pc # "idle" => outcome \in {"none", "cancelled"}
  /\ outcome = "cancelled" => pc \in {"idle", "final"}
  /\ pc \in {"loop", "flush", "final"} => at = abs
  /\ pc \in {"scan", "write"} => ChunkRead
  /\ pc = "write" => ~ TooLarge(Nearest) /\ ~ Rejected(Nearest)
  /\ pc = "final" /\ outcome # "cancelled" => abs >= opts.end \/ abs >= PhysEnd

LEMMA RowFound ==
  ASSUME Typed, Opened, pc = "write"
  PROVE  FindOf(Row(Nearest)) = Find(Nearest)
BY RowFacts DEF FindOf, Find

\* The candidate is passed over, counted or written, as the reference judges it.
LEMMA JudgedHere ==
  ASSUME Well, Staged, opts' = opts, SkipCandidate \/ SkipLarge \/ Reject \/ FinishWrite
  PROVE  Alike(Current', Judge(Current, Nearest), opts.dedup)
<1> DEFINE j == Judge(Current, Nearest)
           h == Hidden(Nearest, skip_until)
           finds == FindsOf(stats.files)
<1>1. /\ Current \in States /\ Current.skip = skip_until /\ Current.seen = seen
      /\ Current.finds = finds
      /\ Current.rejected = stats.rejected /\ Current.duplicates = stats.duplicates
  BY CurrentFacts DEF Well
<1>2. JudgedAs(Current, Nearest, j)
  BY <1>1, JudgeCases
<1>3. Current' = State(skip_until', seen', FindsOf(stats'.files), stats'.rejected,
                       stats'.duplicates)
  BY DEF Current
<1>4. stats \in Tallies
  BY DEF Well, Typed
<1>5. \A s : Alike(s, s, opts.dedup)
  BY DEF Alike
<1> HIDE DEF j, finds
<1>6. CASE SkipCandidate
  <2>1. ~ Considered(Nearest, skip_until) /\ UNCHANGED tally
    BY <1>6 DEF SkipCandidate
  <2>2. j = Current
    BY <1>1, <1>2, <2>1, Zenon DEF JudgedAs
  <2>3. Current' = Current
    BY <2>1 DEF tally, Current
  <2> QED
    BY <1>5, <2>2, <2>3, Zenon DEF j
<1>7. CASE SkipLarge
  <2>1. /\ Considered(Nearest, skip_until) /\ TooLarge(Nearest) /\ seen' = seen
        /\ skip_until' = h /\ stats' = [stats EXCEPT !.large = @ + 1]
    BY <1>7 DEF SkipLarge
  <2>2. /\ stats'.files = stats.files /\ stats'.rejected = stats.rejected
        /\ stats'.duplicates = stats.duplicates
    BY <1>4, <2>1 DEF Tallies
  <2>3. j = State(h, seen, finds, stats.rejected, stats.duplicates)
    BY <1>1, <1>2, <2>1, Zenon DEF JudgedAs
  <2>4. Current' = State(h, seen, finds, stats.rejected, stats.duplicates)
    BY <1>3, <2>1, <2>2, Zenon DEF finds
  <2> QED
    BY <1>5, <2>3, <2>4, Zenon DEF j
<1>8. CASE Reject
  <2>1. /\ Considered(Nearest, skip_until) /\ ~ TooLarge(Nearest) /\ Rejected(Nearest)
        /\ seen' = seen /\ skip_until' = skip_until
        /\ stats' = [stats EXCEPT !.rejected = @ + 1]
    BY <1>8 DEF Reject
  <2>2. /\ stats'.files = stats.files /\ stats'.rejected = stats.rejected + 1
        /\ stats'.duplicates = stats.duplicates
    BY <1>4, <2>1 DEF Tallies
  <2>3. j = State(skip_until, seen, finds, stats.rejected + 1, stats.duplicates)
    BY <1>1, <1>2, <2>1, Zenon DEF JudgedAs
  <2>4. Current' = State(skip_until, seen, finds, stats.rejected + 1, stats.duplicates)
    BY <1>3, <2>1, <2>2, Zenon DEF finds
  <2> QED
    BY <1>5, <2>3, <2>4, Zenon DEF j
<1>9. CASE FinishWrite
  <2>1. /\ pc = "write" /\ Considered(Nearest, skip_until) /\ skip_until' = h
        /\ seen' = IF opts.dedup THEN seen \cup {Nearest.digest} ELSE seen
    BY <1>9, FinishFacts
  <2>2. ~ TooLarge(Nearest) /\ ~ Rejected(Nearest)
    BY <2>1 DEF Staged
  <2>3. CASE opts.dedup /\ Nearest.digest \in seen
    <3>1. stats' = [stats EXCEPT !.duplicates = @ + 1]
      BY <1>9, <2>3, FinishFacts
    <3>2. /\ stats'.files = stats.files /\ stats'.rejected = stats.rejected
          /\ stats'.duplicates = stats.duplicates + 1
      BY <1>4, <3>1 DEF Tallies
    <3>3. seen' = seen
      BY <2>1, <2>3
    <3>4. j = State(h, seen, finds, stats.rejected, stats.duplicates + 1)
      BY <1>1, <1>2, <2>1, <2>2, <2>3, Zenon DEF JudgedAs
    <3>5. Current' = State(h, seen, finds, stats.rejected, stats.duplicates + 1)
      BY <1>3, <2>1, <3>2, <3>3, Zenon DEF finds
    <3> QED
      BY <1>5, <3>4, <3>5, Zenon DEF j
  <2>4. CASE ~ (opts.dedup /\ Nearest.digest \in seen)
    <3>1. stats' = [stats EXCEPT !.recovered = @ + 1, !.grades[Grade(Nearest)] = @ + 1,
                                 !.files = Append(@, Row(Nearest))]
      BY <1>9, <2>4, FinishFacts
    <3>2. Row(Nearest) \in Rows /\ Grade(Nearest) \in Grades
      BY <2>1, RowFacts, GradeFacts DEF Well
    <3>3. /\ stats'.files = Append(stats.files, Row(Nearest))
          /\ stats'.rejected = stats.rejected /\ stats'.duplicates = stats.duplicates
      <4> DEFINE row == Row(Nearest)
                 g == Grade(Nearest)
                 t == stats'
                 s == stats
      <4>1. t = [s EXCEPT !.recovered = @ + 1, !.grades[g] = @ + 1, !.files = Append(@, row)]
        BY <3>1
      <4>2. row \in Rows /\ g \in Grades /\ s \in Tallies
        BY <1>4, <3>2
      <4> HIDE DEF row, g, t, s, Rows, Grades
      <4>3. /\ t.files = Append(s.files, row)
            /\ t.rejected = s.rejected /\ t.duplicates = s.duplicates
        BY <4>1, <4>2 DEF Tallies
      <4> QED
        BY <4>3 DEF row, t, s
    <3>4. FindsOf(stats'.files) = Append(finds, Find(Nearest))
      <4>1. stats.files \in Seq(Rows)
        BY <1>4 DEF Tallies
      <4>2. FindsOf(Append(stats.files, Row(Nearest))) = Append(finds, FindOf(Row(Nearest)))
        BY <3>2, <4>1, FindsFacts DEF finds
      <4>3. FindOf(Row(Nearest)) = Find(Nearest)
        BY <2>1, RowFound DEF Well
      <4> QED
        BY <3>3, <4>2, <4>3
    <3>5. j = State(h, seen \cup {Nearest.digest}, Append(finds, Find(Nearest)),
                    stats.rejected, stats.duplicates)
      BY <1>1, <1>2, <2>1, <2>2, <2>4, Zenon DEF JudgedAs
    <3>6. Current' = State(h, seen', Append(finds, Find(Nearest)), stats.rejected,
                           stats.duplicates)
      BY <1>3, <2>1, <3>3, <3>4, Zenon
    <3>7. opts.dedup => seen' = seen \cup {Nearest.digest}
      BY <2>1
    <3>8. Alike(State(h, seen', Append(finds, Find(Nearest)), stats.rejected,
                      stats.duplicates),
                State(h, seen \cup {Nearest.digest}, Append(finds, Find(Nearest)),
                      stats.rejected, stats.duplicates), opts.dedup)
      BY <3>7 DEF Alike, State
    <3> QED
      BY <3>5, <3>6, <3>8, Zenon DEF j
  <2> QED
    BY <2>3, <2>4, Zenon
<1> QED
  BY <1>6, <1>7, <1>8, <1>9

-----------------------------------------------------------------------------
(* The run's place. *)

LEMMA StagedInit == Init => Staged
BY DEF Init, Staged

LEMMA StagedNext ==
  ASSUME Well, Staged, opts.max_files = NoLimit, [Next]_vars
  PROVE  Staged'
<1>1. ASSUME NEW resume \in BOOLEAN, Start(resume) PROVE Staged'
  <2>1. pc' = "loop" /\ outcome' = "none" /\ at' = abs'
    BY <1>1 DEF Start
  <2> QED
    BY <2>1 DEF Staged
<1>2. ASSUME pc' = "final", abs' = abs, at' = at, opts' = opts, pc = "loop",
             outcome' \in {outcome, "cancelled"},
             outcome' = "cancelled" \/ abs >= opts.end \/ abs >= PhysEnd
      PROVE  Staged'
  <2>1. at = abs /\ outcome' \in {"none", "cancelled"}
    BY <1>2 DEF Staged
  <2> HIDE DEF ChunkRead
  <2> QED
    BY <1>2, <2>1, Zenon DEF Staged
<1>3. CASE ScanOver \/ ScanCancelled \/ SourceEnded
  <2>1. ScanOver => abs >= opts.end
    BY DEF ScanOver
  <2>2. ScanCancelled => outcome' = "cancelled"
    BY DEF ScanCancelled
  <2>3. SourceEnded => abs >= PhysEnd
    BY DEF SourceEnded
  <2>4. /\ pc' = "final" /\ abs' = abs /\ at' = at /\ opts' = opts /\ pc = "loop"
        /\ outcome' \in {outcome, "cancelled"}
    BY <1>3 DEF ScanOver, ScanCancelled, SourceEnded, place, user
  <2> QED
    BY <1>2, <1>3, <2>1, <2>2, <2>3, <2>4, Zenon
<1>4. CASE ReadChunk
  <2>1. /\ pc' = "scan" /\ pc = "loop" /\ outcome' = outcome /\ abs' = abs /\ opts' = opts
        /\ abs < PhysEnd /\ n' = Min2(Want, PhysEnd - abs)
    BY <1>4 DEF ReadChunk, user
  <2>2. Want' = Want
    BY <2>1 DEF Want
  <2>3. ChunkRead'
    BY <2>1, <2>2, Zenon DEF ChunkRead
  <2> QED
    BY <2>1, <2>3 DEF Staged
<1>5. ASSUME UNCHANGED <<abs, n, opts, outcome>>, pc \in {"scan", "write"}, pc' = "scan"
      PROVE  Staged'
  <2>1. Want' = Want
    BY <1>5 DEF Want
  <2>2. ChunkRead'
    BY <1>5, <2>1, Zenon DEF ChunkRead, Staged
  <2> QED
    BY <1>5, <2>2 DEF Staged
<1>6. CASE SkipCandidate \/ SkipLarge \/ Reject
  <2>1. UNCHANGED <<abs, n, opts, outcome>> /\ pc = "scan" /\ pc' = "scan"
    BY <1>6 DEF SkipCandidate, SkipLarge, Reject, Pass, place, user, Reached
  <2> QED
    BY <1>5, <2>1
<1>7. CASE OpenOutput
  <2>1. /\ UNCHANGED <<abs, n, at, opts, outcome>> /\ pc = "scan" /\ pc' = "write"
        /\ ~ TooLarge(Nearest) /\ ~ Rejected(Nearest)
    BY <1>7 DEF OpenOutput, place, user, Reached
  <2>2. Nearest' = Nearest /\ Want' = Want
    BY <2>1, NearestSame
  <2>3. ChunkRead'
    BY <2>1, <2>2, Zenon DEF ChunkRead, Staged
  <2>4. TooLarge(Nearest)' <=> TooLarge(Nearest)
    BY <2>1, <2>2 DEF TooLarge
  <2>5. Rejected(Nearest)' <=> Rejected(Nearest)
    BY <2>1, <2>2 DEF Rejected
  <2> HIDE DEF ChunkRead, TooLarge, Rejected
  <2> QED
    BY <2>1, <2>3, <2>4, <2>5 DEF Staged
<1>8. CASE FinishWrite
  <2>1. /\ pc = "write" /\ UNCHANGED <<abs, n, opts, outcome>>
    BY <1>8, FinishFacts DEF place, user
  <2>2. pc' = "scan"
    BY <1>8 DEF FinishWrite
  <2> QED
    BY <1>5, <2>1, <2>2
<1>9. CASE ChunkEnd
  <2>1. /\ pc = "scan" /\ pc' \in {"flush", "loop"} /\ outcome' = outcome /\ at' = abs'
    BY <1>9 DEF ChunkEnd
  <2> QED
    BY <2>1 DEF Staged
<1>10. CASE PeriodicCheckpoint
  <2>1. /\ pc = "flush" /\ pc' = "loop" /\ outcome' = outcome /\ at' = at /\ abs' = abs
    BY <1>10 DEF PeriodicCheckpoint
  <2> QED
    BY <2>1 DEF Staged
<1>11. CASE Finish \/ Killed
  <2>1. pc' = "idle"
    BY <1>11 DEF Finish, Killed
  <2> QED
    BY <2>1 DEF Staged
<1>12. CASE StopAtMax
  BY <1>12 DEF StopAtMax, Staged
<1>13. CASE RequestCancel \/ UNCHANGED vars
  <2>1. UNCHANGED <<pc, abs, n, at, opts, outcome>>
    BY <1>13 DEF RequestCancel, vars, place, user
  <2>2. Nearest' = Nearest /\ Want' = Want
    BY <2>1, NearestSame
  <2>3. ChunkRead' <=> ChunkRead
    BY <2>1, <2>2, Zenon DEF ChunkRead
  <2>4. TooLarge(Nearest)' <=> TooLarge(Nearest)
    BY <2>1, <2>2 DEF TooLarge
  <2>5. Rejected(Nearest)' <=> Rejected(Nearest)
    BY <2>1, <2>2 DEF Rejected
  <2>6. opts'.end = opts.end
    BY <2>1
  <2> HIDE DEF ChunkRead, TooLarge, Rejected
  <2> QED
    BY <2>1, <2>3, <2>4, <2>5, <2>6, Zenon DEF Staged
<1> QED
  BY <1>1, <1>3, <1>4, <1>6, <1>7, <1>8, <1>9, <1>10, <1>11, <1>12, <1>13 DEF Next, Work

-----------------------------------------------------------------------------
(* The run and its checkpoint stay on the reference's track. *)

OnTrack(f) ==
  /\ pc # "idle" => Alike(Current, f[at], opts.dedup)
  /\ ckpt # NoCheckpoint => Alike(SavedState(ckpt), f[ckpt.pos], opts.dedup)
  /\ outcome = "complete" => Alike(Current, f[opts.end], opts.dedup)

\* Every state that a run starts with, afresh or from the checkpoint.
LEMMA StartOnTrack ==
  ASSUME TableNamesAll, Well, NEW f, Traces(f, 0, Blank), OnTrack(f),
         NEW resume \in BOOLEAN, Start(resume)
  PROVE  Alike(Current', f[at'], opts.dedup)
<1>1. Current' = State(skip_until', seen', FindsOf(stats'.files), stats'.rejected,
                       stats'.duplicates)
  BY DEF Current
<1>2. CASE resume /\ ckpt # NoCheckpoint
  <2>1. /\ at' = Min2(ckpt.pos, opts.end) /\ skip_until' = ckpt.skip /\ seen' = ckpt.seen
        /\ stats' = Restored(ckpt)
    BY <1>2 DEF Start
  <2>2. ckpt \in Saved(opts.end) /\ opts.end \in Nat
    BY <1>2, OptionFacts DEF Well, Typed
  <2>3. ckpt.pos \in 0 .. opts.end /\ ckpt.stats.files \in Seq(Rows)
    BY <2>2 DEF Saved, Tallies
  <2>4. at' = ckpt.pos
    BY <2>1, <2>2, <2>3 DEF Min2
  <2>5. \A i \in DOMAIN ckpt.stats.files : ckpt.stats.files[i].ext \in KnownExts
    <3>1. \A row \in Rows : row.ext \in KnownExts
      BY DEF Rows, Exts, TableNamesAll
    <3> HIDE DEF Rows
    <3> QED BY <2>3, <3>1
  <2>6. KnownRows(ckpt.stats.files) = ckpt.stats.files
    <3> HIDE DEF Rows
    <3> QED BY <2>3, <2>5, KnownRowsFacts
  <2>7. /\ Restored(ckpt).files = ckpt.stats.files
        /\ Restored(ckpt).rejected = ckpt.stats.rejected
        /\ Restored(ckpt).duplicates = ckpt.stats.duplicates
    BY <2>2, <2>6, RestoredFacts
  <2>8. Current' = SavedState(ckpt)
    BY <1>1, <2>1, <2>7, Zenon DEF SavedState
  <2> QED
    BY <1>2, <2>4, <2>8, Zenon DEF OnTrack
<1>3. CASE ~ (resume /\ ckpt # NoCheckpoint)
  <2>1. at' = 0 /\ skip_until' = 0 /\ seen' = {} /\ stats' = NoStats
    BY <1>3 DEF Start
  <2>2. NoStats.files = <<>> /\ NoStats.rejected = 0 /\ NoStats.duplicates = 0
    BY DEF NoStats
  <2>3. FindsOf(<<>>) = <<>>
    BY DEF FindsOf
  <2>4. Current' = Blank
    BY <1>1, <2>1, <2>2, <2>3, Zenon DEF Blank
  <2>5. f[0] = Blank
    BY DEF Traces
  <2> QED
    BY <2>1, <2>4, <2>5, AlikeItself, Zenon
<1> QED
  BY <1>2, <1>3

\* At the end of a chunk nothing is left in it for the reference either.
LEMMA ChunkEndOnTrack ==
  ASSUME Well, Staged, NEW f, Traces(f, 0, Blank), OnTrack(f), ChunkEnd
  PROVE  Alike(Current, f[at'], opts.dedup)
<1>1. pc = "scan" /\ Ahead = {} /\ at' = ScanLimit
  BY DEF ChunkEnd
<1>2. ChunkRead /\ at <= ScanLimit /\ at \in Nat /\ ScanLimit \in Nat /\ ScanLimit <= opts.end
      /\ opts \in Options
  BY <1>1, ChunkFacts DEF Well, Typed, Placed, Staged
<1>3. ASSUME NEW p \in at .. ScanLimit - 1 PROVE Visible(p) = {}
  <2>1. p \in Nat /\ at <= p /\ p < ScanLimit
    BY <1>2
  <2>2. Visible(p) = {c \in Ahead : c.at = p}
    BY <1>1, <1>2, <2>1, ChunkSees
  <2> QED
    BY <1>1, <2>2
<1>4. f[ScanLimit] = f[at]
  BY <1>2, <1>3, Quiet
<1> QED
  BY <1>1, <1>4, Zenon DEF OnTrack

\* Behind the last byte the source gives, the reference finds nothing more.
LEMMA EndOnTrack ==
  ASSUME Well, Staged, NEW f, Traces(f, 0, Blank), OnTrack(f), pc = "final",
         outcome # "cancelled"
  PROVE  Alike(Current, f[opts.end], opts.dedup)
<1>1. at = abs /\ (abs >= opts.end \/ abs >= PhysEnd)
  BY DEF Staged
<1>2. at \in Nat /\ opts \in Options /\ at <= opts.end /\ opts.end \in Nat /\ PhysEnd \in Nat
  BY <1>1, OptionFacts, SourceAssumption DEF Well, Typed
<1>3. CASE at >= opts.end
  <2>1. at = opts.end
    BY <1>2, <1>3
  <2> QED
    BY <2>1, Zenon DEF OnTrack
<1>4. CASE at >= PhysEnd
  <2>1. ASSUME NEW p \in at .. opts.end - 1 PROVE Visible(p) = {}
    <3>1. SUFFICES ASSUME NEW c \in Visible(p) PROVE FALSE
      OBVIOUS
    <3>2. c \in Candidates /\ c.at = p /\ c.at + c.reach <= Min2(PhysEnd, opts.end)
      BY DEF Visible
    <3>3. c.reach \in Nat /\ c.reach > 0 /\ p \in Nat
      BY <1>2, <3>2, CandidateFacts
    <3> QED
      BY <1>2, <1>4, <3>2, <3>3 DEF Min2
  <2>2. f[opts.end] = f[at]
    BY <1>2, <2>1, Quiet
  <2> QED
    BY <2>2, Zenon DEF OnTrack
<1> QED
  BY <1>1, <1>3, <1>4

\* The checkpoint that a run writes is the run's own state.
LEMMA CheckpointOnTrack ==
  ASSUME NEW t, NEW pos, Alike(Current, t, opts.dedup)
  PROVE  Alike(SavedState(Checkpoint(pos)), t, opts.dedup) /\ Checkpoint(pos).pos = pos
<1> DEFINE ck == Checkpoint(pos)
<1>1. /\ ck.pos = pos /\ ck.skip = skip_until /\ ck.stats = stats
      /\ ck.seen = IF opts.dedup THEN seen ELSE {}
  BY DEF Checkpoint
<1>2. opts.dedup => ck.seen = seen
  BY <1>1
<1> HIDE DEF ck
<1>3. Alike(SavedState(ck), Current, opts.dedup)
  BY <1>1, <1>2 DEF Alike, SavedState, Current, State
<1>4. Alike(SavedState(ck), t, opts.dedup)
  BY <1>3, AlikeFacts
<1> QED
  BY <1>1, <1>4 DEF ck

LEMMA OnTrackNext ==
  ASSUME TableNamesAll, opts.max_files = NoLimit, Well, Staged,
         NEW f, Traces(f, 0, Blank), OnTrack(f), [Next]_vars
  PROVE  OnTrack(f)'
<1>1. opts' = opts
  BY ManifestStep
\* The scan stays where it is, or the run ends.
<1>2. ASSUME UNCHANGED <<at, tally, ckpt>>, pc' # "idle" => pc # "idle",
             outcome' = "complete" => outcome = "complete"
      PROVE  OnTrack(f)'
  <2>1. Current' = Current
    BY <1>2 DEF Current, tally
  <2> QED
    BY <1>1, <1>2, <2>1, Zenon DEF OnTrack
\* The scan moves on, with the checkpoint as it is.
<1>3. ASSUME Alike(Current', f[at'], opts.dedup), ckpt' = ckpt, outcome' # "complete"
      PROVE  OnTrack(f)'
  BY <1>1, <1>3, Zenon DEF OnTrack
\* A checkpoint is written where the scan stands.
<1>4. ASSUME UNCHANGED <<at, tally>>, ckpt' = Checkpoint(abs), at = abs, pc # "idle",
             outcome' = "complete" => Alike(Current, f[opts.end], opts.dedup)
      PROVE  OnTrack(f)'
  <2>1. Current' = Current
    BY <1>4 DEF Current, tally
  <2>2. Alike(Current, f[at], opts.dedup)
    BY <1>4 DEF OnTrack
  <2>3. Alike(SavedState(ckpt'), f[ckpt'.pos], opts.dedup)
    <3>1. Alike(SavedState(Checkpoint(abs)), f[abs], opts.dedup) /\ Checkpoint(abs).pos = abs
      BY <1>4, <2>2, CheckpointOnTrack
    <3> QED
      BY <1>4, <3>1, Zenon
  <2> QED
    BY <1>1, <1>4, <2>1, <2>2, <2>3, Zenon DEF OnTrack
<1>5. ASSUME NEW resume \in BOOLEAN, Start(resume) PROVE OnTrack(f)'
  <2>1. ckpt' = ckpt /\ outcome' # "complete"
    BY <1>5 DEF Start, files
  <2> QED
    BY <1>3, <1>5, <2>1, StartOnTrack
<1>6. CASE SkipCandidate \/ SkipLarge \/ Reject \/ FinishWrite
  <2>1. /\ pc \in {"scan", "write"} /\ Ahead # {} /\ at' = Nearest.at + 1
        /\ ckpt' = ckpt /\ outcome' = outcome
    <3>1. CASE SkipCandidate \/ SkipLarge \/ Reject
      BY <3>1 DEF SkipCandidate, SkipLarge, Reject, Reached, Pass, files
    <3>2. CASE FinishWrite
      BY <3>2, FinishFacts
    <3> QED
      BY <1>6, <3>1, <3>2
  <2>2. ChunkRead /\ outcome # "complete" /\ pc # "idle"
    BY <2>1 DEF Staged
  <2>3. Alike(Current', Judge(Current, Nearest), opts.dedup)
    BY <1>1, <1>6, JudgedHere
  <2>4. f[at] \in States /\ f[Nearest.at + 1] = Judge(f[at], Nearest)
    BY <2>1, <2>2, PassedOne
  <2>5. Alike(Judge(Current, Nearest), Judge(f[at], Nearest), opts.dedup)
    <3>1. Current \in States /\ opts.dedup \in BOOLEAN
      BY CurrentFacts, OptionFacts DEF Well, Typed
    <3>2. Alike(Current, f[at], opts.dedup)
      BY <2>2 DEF OnTrack
    <3> QED
      BY <2>4, <3>1, <3>2, JudgeAlike
  <2>6. Alike(Current', f[at'], opts.dedup)
    <3>1. Alike(Current', Judge(f[at], Nearest), opts.dedup)
      BY <2>3, <2>5, AlikeFacts
    <3> QED
      BY <2>1, <2>4, <3>1, Zenon
  <2> QED
    BY <1>3, <2>1, <2>2, <2>6
<1>7. CASE ChunkEnd
  <2>1. Alike(Current, f[at'], opts.dedup)
    BY <1>7, ChunkEndOnTrack
  <2>2. /\ ckpt' = ckpt /\ outcome' = outcome /\ pc = "scan" /\ UNCHANGED tally
    BY <1>7 DEF ChunkEnd, files
  <2>3. Current' = Current
    BY <2>2 DEF Current, tally
  <2>4. outcome' # "complete"
    BY <2>2 DEF Staged
  <2> QED
    BY <1>3, <2>1, <2>2, <2>3, <2>4, Zenon
<1>8. CASE PeriodicCheckpoint
  <2>1. /\ UNCHANGED <<at, tally>> /\ ckpt' = Checkpoint(abs) /\ pc = "flush"
        /\ outcome' = outcome
    BY <1>8 DEF PeriodicCheckpoint
  <2>2. at = abs /\ outcome # "complete"
    BY <2>1 DEF Staged
  <2> QED
    BY <1>4, <2>1, <2>2
<1>9. CASE Finish
  <2>1. /\ UNCHANGED <<at, tally>> /\ ckpt' = Checkpoint(abs) /\ pc = "final"
        /\ outcome' = IF outcome = "cancelled" THEN "cancelled" ELSE "complete"
    BY <1>9 DEF Finish
  <2>2. at = abs
    BY <2>1 DEF Staged
  <2>3. outcome' = "complete" => Alike(Current, f[opts.end], opts.dedup)
    BY <2>1, EndOnTrack
  <2> QED
    BY <1>4, <2>1, <2>2, <2>3
<1>10. CASE ReadChunk
  <2>1. at' = abs /\ UNCHANGED <<tally, ckpt>> /\ pc = "loop" /\ outcome' = outcome
    BY <1>10 DEF ReadChunk, files
  <2>2. at = abs
    BY <2>1 DEF Staged
  <2> QED
    BY <1>2, <2>1, <2>2
<1>11. CASE \/ ScanOver \/ ScanCancelled \/ SourceEnded \/ OpenOutput
            \/ RequestCancel \/ Killed \/ UNCHANGED vars
  <2>1. UNCHANGED <<at, tally, ckpt>> /\ (pc' # "idle" => pc # "idle")
    BY <1>11 DEF ScanOver, ScanCancelled, SourceEnded, OpenOutput, RequestCancel, Killed,
                 vars, files, Reached
  <2>2. outcome' = "complete" => outcome = "complete"
    BY <1>11 DEF ScanOver, ScanCancelled, SourceEnded, OpenOutput, RequestCancel, Killed, vars
  <2> QED
    BY <1>2, <2>1, <2>2
<1>12. CASE StopAtMax
  BY <1>12 DEF StopAtMax, Staged
<1> QED
  BY <1>5, <1>6, <1>7, <1>8, <1>9, <1>10, <1>11, <1>12 DEF Next, Work

-----------------------------------------------------------------------------
(* The theorems. *)

\* In a run without --max-files everything found so far is what the reference
\* finds up to there; the invariant that the two theorems rest on.
Faithful ==
  opts.max_files = NoLimit =>
    Staged /\ \A f : Traces(f, 0, Blank) => OnTrack(f)

LEMMA FaithfulInit == Init => Faithful
<1> SUFFICES ASSUME Init PROVE Faithful
  OBVIOUS
<1>1. pc = "idle" /\ ckpt = NoCheckpoint /\ outcome = "none"
  BY DEF Init
<1>2. Staged
  BY StagedInit
<1> QED
  BY <1>1, <1>2 DEF Faithful, OnTrack

LEMMA FaithfulNext ==
  TableNamesAll => (Well /\ Faithful /\ [Next]_vars => Faithful')
<1> SUFFICES ASSUME TableNamesAll, Well, Faithful, [Next]_vars, (opts.max_files = NoLimit)'
             PROVE  Staged' /\ \A f : Traces(f, 0, Blank)' => OnTrack(f)'
  BY DEF Faithful
<1>1. opts' = opts
  BY ManifestStep
<1>2. opts.max_files = NoLimit
  BY <1>1
<1>3. Staged
  BY <1>2 DEF Faithful
<1>4. Staged'
  BY <1>2, <1>3, StagedNext
<1>5. ASSUME NEW f, Traces(f, 0, Blank)' PROVE OnTrack(f)'
  <2>1. Traces(f, 0, Blank)
    BY <1>1, <1>5, ReferenceSame
  <2>2. OnTrack(f)
    BY <1>2, <2>1 DEF Faithful
  <2> QED
    BY <1>2, <1>3, <2>1, <2>2, OnTrackNext
<1> QED
  BY <1>4, <1>5

LEMMA FaithfulAlways == TableNamesAll => (Spec => []Faithful)
<1> DEFINE I == Well /\ Faithful
<1> SUFFICES ASSUME TableNamesAll PROVE Spec => []Faithful
  OBVIOUS
<1>1. Init => I
  BY WellInit, FaithfulInit
<1>2. I /\ [Next]_vars => I'
  BY WellNext, FaithfulNext
<1>3. I => Faithful
  OBVIOUS
<1> HIDE DEF I
<1> QED
  BY <1>1, <1>2, <1>3, PTL DEF Spec

\* Uninterrupted is the last value of every trace from the start.
LEMMA UninterruptedIs ==
  ASSUME opts \in Options
  PROVE  \E f : Traces(f, 0, Blank) /\ Outcome(Uninterrupted) = Outcome(f[opts.end])
<1>1. 0 \in 0 .. opts.end
  BY OptionFacts
<1>2. Uninterrupted = Continue(0, Blank)
  BY DEF Uninterrupted, Blank, State
<1>3. PICK f : Traces(f, 0, Blank)
  BY <1>1, BlankTyped, TraceExists
<1>4. Outcome(Continue(0, Blank)) = Outcome(f[opts.end])
  BY <1>1, <1>3, BlankTyped, ContinueIs
<1> QED
  BY <1>2, <1>3, <1>4

\* However often a scan is killed, cancelled and resumed, the manifest and the
\* tally of the run that completes it are those of one uninterrupted scan, as long
\* as the signature table names every extension a file can be given.
THEOREM ResumesAreUninterrupted ==
  ASSUME TableNamesAll
  PROVE  Spec => []ResumeEqualsUninterrupted
<1>1. Well /\ Faithful => ResumeEqualsUninterrupted
  <2> SUFFICES ASSUME Well, Faithful, outcome = "complete", opts.max_files = NoLimit
               PROVE  Outcome(Uninterrupted) =
                        [finds |-> FindsOf(stats.files), rejected |-> stats.rejected,
                         duplicates |-> stats.duplicates]
    BY DEF ResumeEqualsUninterrupted
  <2>1. PICK f : Traces(f, 0, Blank) /\ Outcome(Uninterrupted) = Outcome(f[opts.end])
    BY UninterruptedIs DEF Well, Typed
  <2>2. Alike(Current, f[opts.end], opts.dedup)
    BY <2>1 DEF Faithful, OnTrack
  <2>3. /\ Current.finds = FindsOf(stats.files) /\ Current.rejected = stats.rejected
        /\ Current.duplicates = stats.duplicates
    BY CurrentFacts DEF Well
  <2> QED
    BY <2>1, <2>2, <2>3 DEF Alike, Outcome
<1> QED
  BY <1>1, TableNamesAll, WellAlways, FaithfulAlways, PTL

\* The rest of the scan can be done from every checkpoint on disk: nothing before
\* its position is lost, counted twice or found again.
THEOREM CheckpointsAreSound ==
  ASSUME TableNamesAll
  PROVE  Spec => []CheckpointSound
<1>1. TableNamesAll /\ Well /\ Faithful => CheckpointSound
  <2> SUFFICES ASSUME TableNamesAll, Well, Faithful, ckpt # NoCheckpoint,
                      opts.max_files = NoLimit
               PROVE  Outcome(FromCheckpoint(ckpt)) = Outcome(Uninterrupted)
    BY DEF CheckpointSound
  <2> DEFINE s == SavedState(ckpt)
             pos == ckpt.pos
  <2>1. opts \in Options /\ opts.end \in Nat /\ ckpt \in Saved(opts.end)
    BY OptionFacts DEF Well, Typed
  <2>2. pos \in 0 .. opts.end /\ ckpt.stats.files \in Seq(Rows)
    BY <2>1 DEF Saved, Tallies
  <2>3. s \in States
    BY <2>1, SavedFacts
  <2>4. Restored(ckpt).files = ckpt.stats.files
    <3>1. \A row \in Rows : row.ext \in KnownExts
      BY DEF Rows, Exts, TableNamesAll
    <3>2. KnownRows(ckpt.stats.files) = ckpt.stats.files
      <4> HIDE DEF Rows
      <4>1. \A i \in DOMAIN ckpt.stats.files : ckpt.stats.files[i].ext \in KnownExts
        BY <2>2, <3>1
      <4> QED
        BY <2>2, <4>1, KnownRowsFacts
    <3> QED
      BY <2>1, <3>2, RestoredFacts
  <2>5. FromCheckpoint(ckpt) = Continue(pos, s)
    BY <2>4 DEF FromCheckpoint, SavedState, State
  <2>6. PICK f : Traces(f, 0, Blank) /\ Outcome(Uninterrupted) = Outcome(f[opts.end])
    BY <2>1, UninterruptedIs
  <2>7. Alike(s, f[pos], opts.dedup)
    BY <2>6 DEF Faithful, OnTrack
  <2> HIDE DEF s, pos
  <2>8. PICK g : Traces(g, pos, s)
    BY <2>1, <2>2, <2>3, TraceExists
  <2>9. Outcome(Continue(pos, s)) = Outcome(g[opts.end])
    BY <2>1, <2>2, <2>3, <2>8, ContinueIs
  <2>10. Alike(f[opts.end], g[opts.end], opts.dedup)
    <3>1. Alike(f[pos], g[pos], opts.dedup)
      BY <2>7, <2>8 DEF Alike, Traces
    <3>2. \A p \in pos .. opts.end : Alike(f[p], g[p], opts.dedup)
      BY <2>1, <2>2, <2>6, <2>8, <3>1, TracesAlike
    <3> QED
      BY <2>1, <2>2, <3>2
  <2> QED
    BY <2>5, <2>6, <2>9, <2>10 DEF Alike, Outcome
<1> QED
  BY <1>1, TableNamesAll, WellAlways, FaithfulAlways, PTL
=============================================================================
