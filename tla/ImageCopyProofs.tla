-------------------------- MODULE ImageCopyProofs --------------------------
(***************************************************************************)
(* Proofs about ImageCopy, for every size, read pattern and option set:    *)
(* its type invariant; for a user who keeps to one start offset, does not  *)
(* start over beside an old map and is not killed inside a map write, that *)
(* a copy reported as done is the copy it claims to be, that a resume      *)
(* skips only what is in the image, and that the image with its map        *)
(* implements the durable copy of DurableCopy; and, whatever the user and  *)
(* the disk do, that the counters of a run are exact.                      *)
(***************************************************************************)
EXTENDS ImageCopy, FiniteSetTheorems, TLAPS

-----------------------------------------------------------------------------
(* Lemmas about the operators.                                             *)

\* TypeOK is inductive once the sector loop is known to stay in its block.
TypeInv == TypeOK /\ (pc = "sector" => pos <= block_end /\ block_end <= opts.end)

\* What TypeOK says of the options, in the form the arithmetic needs.
LEMMA OptionTypes ==
  ASSUME NEW o \in Options
  PROVE  /\ o.start \in 0 .. N /\ o.end \in 0 .. N /\ o.start <= o.end
         /\ o.retries \in Nat /\ o.resume \in BOOLEAN /\ o.sparse \in BOOLEAN
         /\ N \in Nat /\ Total(o) \in 0 .. N
<1>1. /\ o.start \in Starts /\ o.end \in Ends /\ o.retries \in Retries
      /\ o.resume \in BOOLEAN /\ o.sparse \in BOOLEAN
  BY DEF Options
<1>2. /\ N \in Nat /\ o.start \in 0 .. N /\ o.end \in 0 .. N
      /\ o.start <= o.end /\ o.retries \in Nat
  BY <1>1, SizeAssumption, OptionAssumption
<1>3. Total(o) \in 0 .. N
  BY <1>2 DEF Total
<1> QED
  BY <1>1, <1>2, <1>3

\* A cell's right content is a hole or the cell itself.
LEMMA ContentType ==
  ASSUME NEW c \in Nat
  PROVE  Content(c) \in {Zero} \cup Cells
BY SizeAssumption DEF Content, Cells

\* write_region puts only source cells into the image.
LEMMA WrittenType ==
  ASSUME TypeOK, NEW from, NEW n
  PROVE  WrittenImage(from, n) \in [Cells -> {Zero} \cup Cells]
<1>1. \A k \in Cells : Content(k + opts.start) \in {Zero} \cup Cells
  <2>1. opts.start \in Nat
    BY OptionTypes DEF TypeOK
  <2>2. \A k \in Cells : k + opts.start \in Nat
    BY <2>1, SizeAssumption DEF Cells
  <2> QED
    BY <2>2, ContentType
<1> QED
  BY <1>1 DEF WrittenImage, TypeOK

\* Shrinking or growing the file adds nothing but holes.
LEMMA SetLenType ==
  ASSUME NEW f \in [Cells -> {Zero} \cup Cells], NEW n
  PROVE  SetLen(f, n) \in [Cells -> {Zero} \cup Cells]
BY DEF SetLen

\* A read inside the range stays inside it, and inside what can be read.
LEMMA ReadLenBounds ==
  ASSUME TypeOK, AtLoopHead
  PROVE  /\ Want \in Nat /\ Want > 0 /\ abs + Want <= opts.end
         /\ ReadLen(abs, Want) \in 0 .. Want
         /\ abs + ReadLen(abs, Want) <= opts.end
<1>1. opts.end \in 0 .. N /\ N \in Nat /\ abs \in 0 .. N
  BY OptionTypes DEF TypeOK
<1>2. Want \in Nat /\ Want > 0 /\ abs + Want <= opts.end
  BY <1>1, GrainAssumption DEF AtLoopHead, Want, Min2
<1> QED
  BY <1>1, <1>2, SizeAssumption DEF ReadLen, Min2

\* write_region skips no more than it was given, so bytes_copied only grows.
LEMMA SkippedBound ==
  ASSUME NEW from \in Nat, NEW n \in Nat
  PROVE  Cardinality(Skipped(from, n)) \in 0 .. n
<1>1. IsFiniteSet(Span(from, n)) /\ Cardinality(Span(from, n)) = n
  BY FS_Interval DEF Span
<1>2. Skipped(from, n) \subseteq Span(from, n)
  BY DEF Skipped
<1>3. /\ IsFiniteSet(Skipped(from, n))
      /\ Cardinality(Skipped(from, n)) <= Cardinality(Span(from, n))
  BY <1>1, <1>2, FS_Subset
<1> QED
  BY <1>1, <1>3, FS_CardinalityType

StatsType == [copied : Nat, sparse : Nat, zeroed : Nat, salvaged : Nat, passes : Nat]

\* Counting a written span keeps the counters natural numbers.
LEMMA CountWriteType ==
  ASSUME NEW s \in StatsType, NEW from \in Nat, NEW n \in Nat
  PROVE  CountWrite(s, from, n) \in StatsType
<1> DEFINE z == Cardinality(Skipped(from, n))
<1>1. z \in 0 .. n
  BY SkippedBound
<1>2. s.sparse \in Nat /\ s.copied \in Nat
  BY DEF StatsType
<1>3. s.sparse + z \in Nat /\ s.copied + n - z \in Nat
  BY <1>1, <1>2
<1>4. \A a, b \in Nat : [s EXCEPT !.sparse = a, !.copied = b] \in StatsType
  BY DEF StatsType
<1> QED
  BY <1>3, <1>4, Zenon DEF CountWrite

\* An unreadable region carried over from a map has a size.
LEMMA CarriedSize ==
  ASSUME NEW B \in SUBSET Cells
  PROVE  Cardinality(B) \in Nat
<1>1. IsFiniteSet(Cells)
  BY SizeAssumption, FS_Interval DEF Cells
<1>2. IsFiniteSet(B)
  BY <1>1, FS_Subset
<1> QED
  BY <1>2, FS_CardinalityType

-----------------------------------------------------------------------------
(* The type invariant.                                                     *)

\* The initial state: no image, no map, no run.
LEMMA TypeInit == Init => TypeInv
<1> SUFFICES ASSUME Init PROVE TypeInv
  OBVIOUS
<1>1. opts \in Options
  <2>1. opts \in [start : Starts, end : Ends, sparse : {TRUE}, retries : {0},
                 resume : {FALSE}]
    BY DEF Init
  <2> QED
    BY <2>1, OptionAssumption DEF Options
<1>2. [k \in Cells |-> Zero] \in [Cells -> {Zero} \cup Cells]
  OBVIOUS
<1>3. NoMap \in Maps
  BY SizeAssumption DEF NoMap, Maps, NoTotal
<1>4. NoStats \in StatsType
  BY DEF NoStats, StatsType
<1>5. 0 \in 0 .. N /\ 0 \in 0 .. MaxRuns
  BY SizeAssumption, GrainAssumption
<1>6. pc = "idle"
  BY DEF Init
<1>7. /\ map \in Maps /\ stats \in StatsType
      /\ img \in [Cells -> {Zero} \cup Cells]
  BY <1>2, <1>3, <1>4 DEF Init
<1>8. TypeOK
  BY <1>1, <1>5, <1>7 DEF Init, TypeOK, PCs, StatsType
<1> QED
  BY <1>6, <1>8 DEF TypeInv

\* The steps of a run that write to the image.
LEMMA TypeWrite ==
  ASSUME TypeInv, NEW c \in Nat, NEW n \in Nat, WriteRegion(c, n)
  PROVE  /\ img' \in [Cells -> {Zero} \cup Cells] /\ size' = size /\ map' = map
         /\ CountWrite(stats, c, n) \in StatsType
<1>1. stats \in StatsType
  BY DEF TypeInv, TypeOK, StatsType
<1> QED
  BY <1>1, WrittenType, CountWriteType DEF TypeInv, WriteRegion

\* The map image() writes is a map.
LEMMA MapType ==
  ASSUME TypeInv, NEW p \in 0 .. N
  PROVE  [total |-> opts.end, pos |-> p, bad |-> bad] \in Maps
BY OptionTypes, SizeAssumption DEF TypeInv, TypeOK, Maps

\* image() up to its loop: refused, fresh or resumed.
LEMMA TypeStart ==
  ASSUME TypeInv, NEW o \in Options, Start(o)
  PROVE  TypeInv'
<1> DEFINE resuming == MapVerdict(map, o) = "resume"
           from == IF resuming THEN map.pos ELSE o.start
           carried == IF resuming THEN map.bad ELSE {}
<1>1. /\ o.start \in 0 .. N /\ o.end \in 0 .. N /\ o.start <= o.end
      /\ Total(o) \in 0 .. N /\ N \in Nat
  BY OptionTypes
<1>2. runs' \in 0 .. MaxRuns /\ opts' = o /\ cancel' = FALSE
  BY GrainAssumption DEF TypeInv, TypeOK, Start
<1>3. CASE MapVerdict(map, o) = "refuse"
  <2>1. /\ outcome' = "refused"
        /\ UNCHANGED <<file, loop, retry, pc, bad, stats>>
    BY <1>3 DEF Start
  <2> QED
    BY <1>2, <2>1 DEF Start, TypeInv, TypeOK, PCs, file, loop, retry
<1>4. CASE MapVerdict(map, o) # "refuse"
  <2>1. /\ img' = IF resuming THEN SetLen(img, Total(o)) ELSE [k \in Cells |-> Zero]
        /\ size' = Total(o)
        /\ abs' = from /\ last_flush' = from /\ pos' = from /\ block_end' = from
        /\ bad' = carried
        /\ stats' = ResumeStats(carried)
        /\ todo' = {} /\ recovered_any' = FALSE
        /\ outcome' = "none" /\ pc' = "copy"
        /\ UNCHANGED map
    BY <1>4 DEF Start
  <2>2. resuming => map.pos >= o.start /\ map.pos <= o.end
    BY DEF MapVerdict
  <2>3. map.pos \in -1 .. N /\ map.bad \in SUBSET Cells
    BY DEF TypeInv, TypeOK, Maps
  <2>4. from \in 0 .. N /\ from <= o.end /\ carried \in SUBSET Cells
    BY <1>1, <2>2, <2>3
  <2>5. img' \in [Cells -> {Zero} \cup Cells]
    BY <2>1, SetLenType DEF TypeInv, TypeOK
  <2>6. stats' \in StatsType
    <3>1. Cardinality(carried) \in Nat
      BY <2>4, CarriedSize
    <3> QED
      BY <2>1, <3>1 DEF ResumeStats, NoStats, StatsType
  <2> HIDE DEF from, carried, resuming
  <2> QED
    BY <1>1, <1>2, <2>1, <2>4, <2>5, <2>6 DEF TypeInv, TypeOK, PCs, StatsType
<1> QED
  BY <1>3, <1>4

\* The main loop and its sector-granular part.
LEMMA TypeMainLoop ==
  ASSUME TypeInv,
         \/ CopyEnd \/ CopyCancelled \/ CopyEof \/ CopyChunk \/ CopyError
         \/ SectorGood \/ SectorBad \/ SectorEnd \/ FlushMap
  PROVE  TypeInv'
<1> USE DEF TypeInv, TypeOK, PCs, file, loop, retry, user
<1>1. opts.end \in 0 .. N /\ N \in Nat
  BY OptionTypes
<1>2. CASE CopyEnd
  BY <1>2 DEF CopyEnd, LeaveLoop
<1>3. CASE CopyCancelled
  BY <1>3 DEF CopyCancelled, AtLoopHead, LeaveLoop
<1>4. CASE CopyEof
  BY <1>4 DEF CopyEof, AtLoopHead, LeaveLoop
<1>5. CASE CopyChunk
  <2> DEFINE n == ReadLen(abs, Want)
  <2>1. /\ AtLoopHead /\ WriteRegion(abs, n)
        /\ stats' = CountWrite(stats, abs, n) /\ abs' = abs + n
        /\ AfterBlock(abs + n)
        /\ UNCHANGED <<last_flush, pos, block_end, retry, user, bad, outcome>>
    BY <1>5 DEF CopyChunk
  <2>2. n \in Nat /\ abs + n <= opts.end /\ abs \in Nat
    BY <2>1, ReadLenBounds
  <2>3. /\ img' \in [Cells -> {Zero} \cup Cells] /\ size' = size /\ map' = map
        /\ CountWrite(stats, abs, n) \in StatsType
    BY <2>1, <2>2, TypeWrite
  <2>4. pc' \in {"flush", "copy"}
    BY <2>1 DEF AfterBlock
  <2>5. abs' \in 0 .. N /\ abs' <= opts.end
    BY <1>1, <2>1, <2>2
  <2> HIDE DEF n
  <2>6. pos <= opts.end
    BY <2>1 DEF AtLoopHead
  <2> QED
    BY <2>1, <2>3, <2>4, <2>5, <2>6 DEF StatsType
<1>6. CASE CopyError
  <2>1. Want \in Nat /\ abs + Want <= opts.end
    BY <1>6, ReadLenBounds DEF CopyError
  <2>2. abs + Want \in 0 .. N /\ abs <= abs + Want
    BY <1>1, <2>1
  <2> QED
    BY <1>1, <1>6, <2>1, <2>2 DEF CopyError
<1>7. CASE SectorGood
  <2>1. /\ pc = "sector" /\ pos < block_end /\ WriteRegion(pos, 1)
        /\ stats' = CountWrite(stats, pos, 1) /\ pos' = pos + 1
        /\ UNCHANGED <<abs, last_flush, block_end, retry, user, pc, bad, outcome>>
    BY <1>7 DEF SectorGood
  <2>2. pos' \in 0 .. N /\ pos' <= block_end /\ pos' <= opts.end
    BY <1>1, <2>1
  <2>3. /\ img' \in [Cells -> {Zero} \cup Cells] /\ size' = size /\ map' = map
        /\ stats' \in StatsType
    BY <2>1, TypeWrite
  <2> QED
    BY <2>1, <2>2, <2>3 DEF StatsType
<1>8. CASE SectorBad
  <2>1. pos \in Cells /\ pos + 1 \in 0 .. N /\ pos + 1 <= block_end /\ pos + 1 <= opts.end
    <3>1. pos \in 0 .. N /\ block_end \in 0 .. N /\ block_end <= opts.end /\ pos < block_end
      BY <1>8 DEF SectorBad
    <3> QED BY <1>1, <3>1 DEF Cells
  <2>2. stats' \in StatsType
    BY <1>8 DEF SectorBad, StatsType
  <2> QED
    BY <1>8, <2>1, <2>2 DEF SectorBad, StatsType
<1>9. CASE SectorEnd
  BY <1>9 DEF SectorEnd, AfterBlock
<1>10. CASE FlushMap
  <2>1. map' \in Maps
    BY <1>10, MapType DEF FlushMap, WriteMap
  <2> QED
    BY <1>10, <2>1 DEF FlushMap
<1> QED
  BY <1>2, <1>3, <1>4, <1>5, <1>6, <1>7, <1>8, <1>9, <1>10

\* The retry passes and the final map.
LEMMA TypeRetries ==
  ASSUME TypeInv,
         \/ PassBegin \/ PassesOver \/ RetryGood \/ RetryBad \/ RetryCancelled
         \/ PassEnd \/ Finish
  PROVE  TypeInv'
<1> USE DEF TypeInv, TypeOK, PCs, file, loop, retry, user
<1>1. opts.end \in 0 .. N /\ N \in Nat /\ abs \in 0 .. N
  BY OptionTypes
<1>2. CASE PassBegin
  BY <1>2 DEF PassBegin
<1>3. CASE PassesOver
  BY <1>3 DEF PassesOver
<1>4. CASE RetryGood
  <2>1. PICK c \in todo : RetryGood!(c)
    BY <1>4 DEF RetryGood, Nearest
  <2>2. c \in Nat
    BY <1>1, <2>1 DEF Cells
  <2>3. /\ img' \in [Cells -> {Zero} \cup Cells] /\ size' = size /\ map' = map
        /\ CountWrite(stats, c, 1) \in StatsType
    BY <2>1, <2>2, TypeWrite
  <2>4. stats' \in StatsType
    <3> DEFINE s == CountWrite(stats, c, 1)
               z == IF s.zeroed > 0 THEN s.zeroed - 1 ELSE 0
    <3>1. s \in StatsType /\ z \in Nat /\ s.salvaged + 1 \in Nat
      BY <2>3 DEF StatsType
    <3>2. \A a, b \in Nat : [s EXCEPT !.zeroed = a, !.salvaged = b] \in StatsType
      BY <3>1 DEF StatsType
    <3>3. stats' = [s EXCEPT !.zeroed = z, !.salvaged = s.salvaged + 1]
      BY <2>1
    <3> HIDE DEF s, z
    <3> QED
      BY <3>1, <3>2, <3>3, Zenon
  <2> QED
    BY <2>1, <2>3, <2>4 DEF StatsType
<1>5. CASE RetryBad
  BY <1>5 DEF RetryBad, Nearest
<1>6. CASE RetryCancelled
  BY <1>6 DEF RetryCancelled
<1>7. CASE PassEnd
  <2>1. map' \in Maps
    BY <1>1, <1>7, MapType DEF PassEnd, WriteMap
  <2>2. stats' \in StatsType
    BY <1>7 DEF PassEnd, StatsType
  <2> QED
    BY <1>7, <2>1, <2>2 DEF PassEnd, StatsType
<1>8. CASE Finish
  <2>1. map' \in Maps
    BY <1>1, <1>8, MapType DEF Finish, WriteMap
  <2> QED
    BY <1>8, <2>1 DEF Finish
<1> QED
  BY <1>2, <1>3, <1>4, <1>5, <1>6, <1>7, <1>8

\* What a kill inside fs::write leaves is still a map as parse_map returns it.
LEMMA TornType ==
  ASSUME TypeInv, NEW m \in PendingMap, NEW t \in TornMaps(m)
  PROVE  t \in Maps
<1>1. opts.end \in 0 .. N /\ N \in Nat /\ abs \in 0 .. N /\ bad \in SUBSET Cells
  BY OptionTypes DEF TypeInv, TypeOK
<1>2. \E p \in 0 .. N : m = [total |-> opts.end, pos |-> p, bad |-> bad]
  BY <1>1 DEF PendingMap
<1>3. /\ m.total \in 0 .. N /\ m.pos \in 0 .. N /\ m.bad \in SUBSET Cells
      /\ m \in Maps
  BY <1>1, <1>2 DEF Maps
<1>4. CASE t \in {[total |-> x, pos |-> 0, bad |-> {}] : x \in {NoTotal} \cup 0 .. m.total}
  BY <1>1, <1>3, <1>4 DEF Maps
<1>5. CASE t \in {[total |-> m.total, pos |-> p, bad |-> {}] : p \in 0 .. m.pos}
  BY <1>1, <1>3, <1>5 DEF Maps
<1>6. CASE t \in {[m EXCEPT !.bad = {c \in m.bad : c < k}] : k \in 0 .. N}
  BY <1>3, <1>6 DEF Maps
<1> QED
  BY <1>4, <1>5, <1>6 DEF TornMaps

\* A cancel, a kill, a lost image or map.
LEMMA TypeEnvironment ==
  ASSUME TypeInv, RequestCancel \/ Killed \/ DeleteMap \/ LoseImage
  PROVE  TypeInv'
<1> USE DEF TypeInv, TypeOK, PCs, file, loop, retry, user
<1>1. CASE RequestCancel
  BY <1>1 DEF RequestCancel
<1>2. CASE Killed
  <2>1. img' \in [Cells -> {Zero} \cup Cells]
    BY <1>2, WrittenType DEF Killed
  <2>2. map' \in Maps
    BY <1>2, TornType DEF Killed
  <2> QED
    BY <1>2, <2>1, <2>2 DEF Killed
<1>3. CASE DeleteMap
  <2>1. map' \in Maps
    BY <1>3, SizeAssumption DEF DeleteMap, NoMap, NoTotal, Maps
  <2> QED
    BY <1>3, <2>1 DEF DeleteMap
<1>4. CASE LoseImage
  <2>1. PICK n \in 0 .. size - 1 : img' = SetLen(img, n) /\ size' = n
    BY <1>4 DEF LoseImage
  <2>2. img' \in [Cells -> {Zero} \cup Cells] /\ size' \in 0 .. N
    BY <2>1, SetLenType, SizeAssumption
  <2> QED
    BY <1>4, <2>2 DEF LoseImage
<1> QED
  BY <1>1, <1>2, <1>3, <1>4

\* No step of a run or of the user breaks the types.
LEMMA TypeStep == TypeInv /\ [Next]_vars => TypeInv'
<1> SUFFICES ASSUME TypeInv, [Next]_vars PROVE TypeInv'
  OBVIOUS
<1>1. CASE UNCHANGED vars
  BY <1>1 DEF TypeInv, TypeOK, vars, file, loop, retry, user
<1>2. CASE \E o \in Options : Start(o)
  BY <1>2, TypeStart
<1>3. CASE Work
  BY <1>3, TypeMainLoop, TypeRetries DEF Work
<1>4. CASE RequestCancel \/ Killed \/ DeleteMap \/ LoseImage
  BY <1>4, TypeEnvironment
<1> QED
  BY <1>1, <1>2, <1>3, <1>4 DEF Next

\* The inductive form of TypeOK holds of every behaviour.
LEMMA TypeInvariant == Spec => []TypeInv
<1>1. Init => TypeInv
  BY TypeInit
<1>2. TypeInv /\ [Next]_vars => TypeInv'
  BY TypeStep
<1> QED
  BY <1>1, <1>2, PTL DEF Spec

\* Whatever fails, is cancelled, killed, torn or taken away: no position of a
\* run leaves the range it copies, and the image holds only source bytes or
\* holes.
THEOREM TypeCorrect == Spec => []TypeOK
<1>1. TypeInv => TypeOK
  BY DEF TypeInv
<1> QED
  BY <1>1, TypeInvariant, PTL

-----------------------------------------------------------------------------
(* A faithful copy.                                                        *)

\* The user's part: one start offset, no start over beside an old map, no
\* kill inside a write of the map.  Each is needed: an instance that gives one
\* up fails (for the second, the run ImageCopyStaleMap).
Disciplined ==
  /\ ~ RestartOverMap /\ ~ TornMapWrites
  /\ \A s, t \in Starts : s = t

\* The loop has been left because the range or the source was at its end.
Through == abs >= opts.end \/ abs >= PhysEnd

\* What the code relies on without saying so.
Bookkeeping ==
  /\ map = NoMap \/ map.total # NoTotal
  /\ pc # "idle" => outcome \in {"none", "cancelled"}
  /\ pc \notin {"idle", "retry"} => todo = {}
  /\ pc \in {"pass", "retry"} \/ (pc = "final" /\ outcome # "cancelled") => Through

Safe == NothingMisplaced /\ MapSound /\ FaithfulImage /\ PrefixFaithful /\ Bookkeeping

\* The cells of the source that have a cell in the image.
Held == opts.start .. N - 1

\* With one start offset the image means the same in every run.
LEMMA StartFixed ==
  ASSUME Disciplined, TypeInv, NEW o \in Options
  PROVE  o.start = opts.start
BY DEF Disciplined, TypeInv, TypeOK, Options

\* A cell write_region leaves out is a cell of zeros.
LEMMA SkippedZero ==
  ASSUME NEW from, NEW n, NEW c \in Skipped(from, n)
  PROVE  c \in Span(from, n) /\ Content(c) = Zero
<1>1. c \in Span(from, n) /\ BlockOf(from, n, c) \subseteq ZeroCells
  BY DEF Skipped
<1>2. c \in BlockOf(from, n, c)
  BY <1>1 DEF BlockOf
<1> QED
  BY <1>1, <1>2 DEF Content

\* Writing a span (all of it, or as far as a kill lets it) misplaces nothing,
\* spoils nothing that was right, and makes the whole span right: also the
\* holes it leaves, for the image had no other bytes there.
LEMMA WriteSafe ==
  ASSUME TypeInv, NothingMisplaced, NEW from, NEW n,
         img' = WrittenImage(from, n), opts' = opts
  PROVE  /\ NothingMisplaced'
         /\ \A c \in Held : Correct(c) => Correct(c)'
         /\ \A c \in Held : c \in Span(from, n) => Correct(c)'
<1>1. opts.start \in 0 .. N /\ N \in Nat
  BY OptionTypes DEF TypeInv, TypeOK
<1>2. \A c \in Held : /\ c - opts.start \in Cells /\ c \in Cells
                      /\ (c - opts.start) + opts.start = c
  BY <1>1 DEF Held, Cells
<1>3. \A k \in Cells : img'[k] = IF k + opts.start \in Span(from, n) \ Skipped(from, n)
                                 THEN Content(k + opts.start) ELSE img[k]
  BY DEF WrittenImage
<1>4. \A c \in Held : img'[c - opts.start] = IF c \in Span(from, n) \ Skipped(from, n)
                                 THEN Content(c) ELSE img[c - opts.start]
  BY <1>2, <1>3
<1>5. NothingMisplaced'
  BY <1>3 DEF NothingMisplaced
<1>6. ASSUME NEW c \in Held, Correct(c) PROVE Correct(c)'
  BY <1>4, <1>6 DEF Correct
<1>7. ASSUME NEW c \in Held, c \in Span(from, n) PROVE Correct(c)'
  <2>1. CASE c \in Skipped(from, n)
    <3>1. Content(c) = Zero
      BY <2>1, SkippedZero
    <3>2. img[c - opts.start] \in {Zero, Content(c)}
      BY <1>2 DEF NothingMisplaced
    <3> QED
      BY <1>4, <2>1, <3>1, <3>2 DEF Correct
  <2>2. CASE c \notin Skipped(from, n)
    BY <1>4, <1>7, <2>2 DEF Correct
  <2> QED
    BY <2>1, <2>2
<1> QED
  BY <1>5, <1>6, <1>7

\* What lies past the physical end of the source is right as a hole.
LEMMA HoleCorrect ==
  ASSUME TypeInv, NothingMisplaced, NEW c \in Held, c >= PhysEnd
  PROVE  Correct(c)
<1>1. opts.start \in 0 .. N /\ N \in Nat
  BY OptionTypes DEF TypeInv, TypeOK
<1>2. c - opts.start \in Cells /\ (c - opts.start) + opts.start = c /\ c \in Cells
  BY <1>1 DEF Held, Cells
<1> QED
  BY <1>2 DEF NothingMisplaced, Content, Correct

\* Once the loop is through, the range is in the image or recorded as bad.
LEMMA ThroughCovers ==
  ASSUME TypeInv, Safe, pc \notin {"idle", "sector"}, todo = {}, Through
  PROVE  \A c \in Cells : InRange(c) => Correct(c) \/ c \in bad
<1> SUFFICES ASSUME NEW c \in Cells, InRange(c) PROVE Correct(c) \/ c \in bad
  OBVIOUS
<1>1. /\ opts.start \in 0 .. N /\ opts.end \in 0 .. N /\ N \in Nat /\ abs \in 0 .. N
      /\ opts.start <= c /\ c < opts.end /\ c \in Held /\ c \in Nat
  BY OptionTypes DEF TypeInv, TypeOK, InRange, Held, Cells
<1>2. CASE c < abs
  <2>1. c \in opts.start .. Front - 1
    BY <1>1, <1>2 DEF Front
  <2> QED
    BY <2>1 DEF Safe, PrefixFaithful
<1>3. CASE c >= abs
  <2>1. c >= PhysEnd
    BY <1>1, <1>3, SizeAssumption DEF Through
  <2> QED
    BY <1>1, <2>1, HoleCorrect DEF Safe
<1> QED
  BY <1>1, <1>2, <1>3

\* Before the first run there is nothing to be wrong.
LEMMA SafeInit == Init => Safe
<1> SUFFICES ASSUME Init PROVE Safe
  OBVIOUS
<1> QED
  BY DEF Init, Safe, NothingMisplaced, MapSound, FaithfulImage, PrefixFaithful,
         Bookkeeping

\* A step that touches neither file keeps what is said of them.
LEMMA SameFiles ==
  ASSUME Safe, UNCHANGED <<file, opts>>
  PROVE  /\ NothingMisplaced' /\ MapSound'
         /\ \A c : Correct(c)' <=> Correct(c)
BY DEF Safe, NothingMisplaced, MapSound, Correct, file

\* A fresh run starts beside no map, a resume trusts only a map that is sound.
LEMMA SafeStart ==
  ASSUME Disciplined, TypeInv, Safe, NEW o \in Options, Start(o)
  PROVE  Safe'
<1>1. opts' = o /\ o.start = opts.start /\ opts'.start = opts.start
  BY StartFixed DEF Start
<1>2. pc = "idle"
  BY DEF Start
<1>3. CASE MapVerdict(map, o) = "refuse"
  <2>1. outcome' = "refused" /\ UNCHANGED <<img, size, map, pc>>
    BY <1>3 DEF Start, file
  <2> QED
    BY <1>1, <1>2, <2>1
    DEF Safe, NothingMisplaced, MapSound, Correct, FaithfulImage, PrefixFaithful,
        Bookkeeping
<1>4. CASE MapVerdict(map, o) = "fresh"
  <2>1. /\ img' = [k \in Cells |-> Zero] /\ abs' = o.start /\ todo' = {}
        /\ outcome' = "none" /\ pc' = "copy" /\ map' = map
    BY <1>4 DEF Start
  <2>2. map = NoMap
    <3>1. ~ o.resume => map = NoMap
      BY DEF Start, Disciplined
    <3>2. o.resume => map = NoMap
      BY <1>4 DEF MapVerdict, Safe, Bookkeeping
    <3> QED
      BY <3>1, <3>2
  <2>3. o.start \in Nat
    BY OptionTypes
  <2> QED
    BY <1>1, <2>1, <2>2, <2>3
    DEF Safe, NothingMisplaced, MapSound, FaithfulImage, PrefixFaithful, Front,
        Bookkeeping
<1>5. CASE MapVerdict(map, o) = "resume"
  <2>1. /\ img' = SetLen(img, Total(o)) /\ size' = Total(o) /\ abs' = map.pos
        /\ bad' = map.bad /\ todo' = {} /\ outcome' = "none" /\ pc' = "copy"
        /\ map' = map
    BY <1>5 DEF Start
  <2>2. /\ map # NoMap /\ size >= map.pos - o.start
        /\ map.pos >= o.start /\ map.pos <= o.end
    BY <1>5 DEF MapVerdict
  <2>3. /\ o.start \in 0 .. N /\ o.end \in 0 .. N /\ N \in Nat /\ map.pos \in -1 .. N
    BY OptionTypes DEF TypeInv, TypeOK, Maps
  <2>4. NothingMisplaced'
    BY <1>1, <2>1 DEF Safe, NothingMisplaced, SetLen
  <2>5. ASSUME NEW c \in opts.start .. map.pos - 1
        PROVE  Correct(c)' \/ c \in map.bad
    <3>1. Correct(c) \/ c \in map.bad
      BY <1>1, <2>2 DEF Safe, MapSound
    <3>2. c - opts.start \in Cells /\ c - opts.start < Total(o)
      BY <1>1, <2>2, <2>3 DEF Total, Cells
    <3> QED
      BY <1>1, <2>1, <3>1, <3>2 DEF Correct, SetLen
  <2>6. MapSound'
    BY <1>1, <2>1, <2>5 DEF MapSound
  <2>7. PrefixFaithful'
    BY <1>1, <2>1, <2>5 DEF PrefixFaithful, Front
  <2> QED
    BY <2>1, <2>4, <2>6, <2>7 DEF Safe, FaithfulImage, Bookkeeping
<1> QED
  BY <1>3, <1>4, <1>5 DEF MapVerdict

\* Steps of a run that write nothing to either file.
LEMMA SafeQuiet ==
  ASSUME TypeInv, Safe,
         \/ CopyEnd \/ CopyCancelled \/ CopyEof \/ CopyError \/ SectorBad \/ SectorEnd
         \/ PassBegin \/ PassesOver \/ RetryBad \/ RetryCancelled \/ RequestCancel
  PROVE  Safe'
<1> USE DEF file, loop, retry, user
<1>1. UNCHANGED <<file, opts>> /\ pc # "idle" /\ pc' # "idle"
  BY DEF CopyEnd, CopyCancelled, CopyEof, CopyError, SectorBad, SectorEnd,
         PassBegin, PassesOver, RetryBad, RetryCancelled, RequestCancel,
         AtLoopHead, LeaveLoop, AfterBlock
<1>2. NothingMisplaced' /\ MapSound' /\ \A c : Correct(c)' <=> Correct(c)
  BY <1>1, SameFiles
<1>3. /\ opts.start \in 0 .. N /\ opts.end \in 0 .. N /\ N \in Nat
      /\ abs \in 0 .. N /\ pos \in 0 .. N
      /\ \A c \in opts.start .. Front - 1 : Correct(c) \/ c \in bad \cup todo
  BY <1>1, OptionTypes DEF TypeInv, TypeOK, Safe, PrefixFaithful
<1>4. \/ bad' \cup todo' = bad \cup todo /\ Front' = Front
      \/ pc = "sector" /\ pc' = "sector" /\ pos' = pos + 1
         /\ bad' = bad \cup {pos} /\ todo' = todo
  <2>1. CASE CopyEnd \/ CopyEof \/ CopyCancelled
    BY <2>1 DEF CopyEnd, CopyEof, CopyCancelled, AtLoopHead, LeaveLoop, Front
  <2>2. CASE CopyError \/ SectorEnd
    BY <2>2 DEF CopyError, SectorEnd, AtLoopHead, AfterBlock, Front
  <2>3. CASE SectorBad
    BY <2>3 DEF SectorBad
  <2>4. CASE PassBegin \/ PassesOver \/ RequestCancel
    BY <2>4 DEF PassBegin, PassesOver, RequestCancel, Front, Safe, Bookkeeping
  <2>5. CASE RetryBad \/ RetryCancelled
    BY <2>5 DEF RetryBad, RetryCancelled, Nearest, Front
  <2> QED
    BY <2>1, <2>2, <2>3, <2>4, <2>5
<1>5. PrefixFaithful'
  BY <1>1, <1>2, <1>3, <1>4 DEF PrefixFaithful, Front
<1>6. Bookkeeping'
  <2>1. outcome' \in {"none", "cancelled"} /\ (map' = NoMap \/ map'.total # NoTotal)
    BY <1>1 DEF Safe, Bookkeeping, CopyEnd, CopyCancelled, CopyEof, CopyError,
                SectorBad, SectorEnd, PassBegin, PassesOver, RetryBad,
                RetryCancelled, RequestCancel
  <2>2. pc' # "retry" => todo' = {}
    BY DEF Safe, Bookkeeping, CopyEnd, CopyCancelled, CopyEof, CopyError,
           SectorBad, SectorEnd, PassBegin, PassesOver, RetryBad, RetryCancelled,
           RequestCancel, AtLoopHead
  <2>3. pc' \in {"pass", "retry"} \/ (pc' = "final" /\ outcome' # "cancelled") => Through'
    <3>1. CASE CopyEnd
      BY <3>1 DEF CopyEnd, Through
    <3>2. CASE CopyCancelled
      BY <3>2 DEF CopyCancelled, LeaveLoop
    <3>3. CASE CopyEof
      <4>1. AtLoopHead /\ ReadLen(abs, Want) = 0 /\ abs' = abs
        BY <3>3 DEF CopyEof
      <4>2. abs >= PhysEnd
        BY <1>3, <4>1, ReadLenBounds, SizeAssumption DEF TypeInv, ReadLen, Min2
      <4> QED
        BY <4>1, <4>2 DEF Through
    <3>4. CASE CopyError \/ SectorBad \/ SectorEnd
      BY <3>4 DEF CopyError, SectorBad, SectorEnd, AfterBlock
    <3>5. CASE PassBegin \/ PassesOver \/ RetryBad
      BY <3>5 DEF PassBegin, PassesOver, RetryBad, Through, Safe, Bookkeeping
    <3>6. CASE RetryCancelled
      BY <3>6 DEF RetryCancelled
    <3>7. CASE RequestCancel
      BY <3>7 DEF RequestCancel, Through, Safe, Bookkeeping
    <3> QED
      BY <3>1, <3>2, <3>3, <3>4, <3>5, <3>6, <3>7
  <2> QED
    BY <2>1, <2>2, <2>3 DEF Bookkeeping
<1> QED
  BY <1>1, <1>2, <1>5, <1>6 DEF Safe, FaithfulImage, Bookkeeping

\* What a write to the image keeps of the map: a longer or better image never
\* makes it wrong.
LEMMA WriteKeepsMap ==
  ASSUME TypeInv, Safe, NEW from, NEW n,
         img' = WrittenImage(from, n), UNCHANGED <<opts, size, map>>
  PROVE  MapSound'
<1>1. /\ opts.start \in 0 .. N /\ N \in Nat /\ map.pos \in -1 .. N
  BY OptionTypes DEF TypeInv, TypeOK, Maps
<1>2. \A c \in opts.start .. map.pos - 1 : c \in Held
  BY <1>1 DEF Held
<1>3. \A c \in Held : Correct(c) => Correct(c)'
  BY WriteSafe DEF Safe
<1> QED
  BY <1>2, <1>3 DEF Safe, MapSound

\* The steps that write a span of the source to the image.
LEMMA SafeWriting ==
  ASSUME TypeInv, Safe, CopyChunk \/ SectorGood \/ RetryGood
  PROVE  Safe'
<1> USE DEF file, loop, retry, user
<1>1. /\ opts.start \in 0 .. N /\ opts.end \in 0 .. N /\ N \in Nat
      /\ abs \in 0 .. N /\ pos \in 0 .. N /\ \A c \in todo : c \in Nat
      /\ pc # "idle" => abs <= opts.end /\ pos <= opts.end
  BY OptionTypes DEF TypeInv, TypeOK, Cells
<1>2. /\ pc # "idle" /\ pc' # "idle" /\ UNCHANGED <<opts, size, map, outcome>>
      /\ pc' # "retry" => todo' = {}
      /\ pc' = "retry" => pc = "retry" /\ abs' = abs
      /\ pc' \notin {"pass", "final"}
  BY DEF CopyChunk, SectorGood, RetryGood, AtLoopHead, AfterBlock, WriteRegion,
         Safe, Bookkeeping
<1>3. Bookkeeping' /\ FaithfulImage'
  BY <1>2 DEF Safe, Bookkeeping, FaithfulImage, Through
<1>4. ASSUME NEW from, NEW n, WriteRegion(from, n)
      PROVE  /\ NothingMisplaced' /\ MapSound'
             /\ \A c \in Held : Correct(c) \/ c \in Span(from, n) => Correct(c)'
  BY <1>2, <1>4, WriteSafe, WriteKeepsMap DEF Safe, WriteRegion
<1>5. \A c \in opts.start .. Front - 1 :
         c \in Held /\ (Correct(c) \/ c \in bad \cup todo)
  BY <1>1, <1>2 DEF Safe, PrefixFaithful, Front, Held
<1>6. CASE CopyChunk
  <2> DEFINE n == ReadLen(abs, Want)
  <2>1. /\ AtLoopHead /\ WriteRegion(abs, n) /\ abs' = abs + n
        /\ UNCHANGED <<bad, todo>> /\ pc' \in {"copy", "flush"}
    BY <1>6 DEF CopyChunk, AfterBlock
  <2>2. n \in Nat /\ abs + n <= opts.end
    BY <2>1, ReadLenBounds DEF TypeInv
  <2> HIDE DEF n
  <2>3. ASSUME NEW c \in opts.start .. Front' - 1
        PROVE  Correct(c)' \/ c \in bad' \cup todo'
    <3>1. c \in opts.start .. Front - 1 \/ c \in Span(abs, n)
      BY <1>1, <2>1, <2>2 DEF Front, Span, AtLoopHead
    <3>2. c \in Held
      BY <1>1, <2>1, <2>2 DEF Front, Held
    <3> QED
      BY <1>4, <1>5, <2>1, <3>1, <3>2
  <2> QED
    BY <1>2, <1>3, <1>4, <2>1, <2>3 DEF Safe, PrefixFaithful
<1>7. CASE SectorGood
  <2>1. /\ pc = "sector" /\ pc' = "sector" /\ WriteRegion(pos, 1) /\ pos' = pos + 1
        /\ pos' <= opts.end /\ UNCHANGED <<bad, todo>>
    BY <1>1, <1>7 DEF SectorGood, TypeInv, TypeOK
  <2>2. ASSUME NEW c \in opts.start .. Front' - 1
        PROVE  Correct(c)' \/ c \in bad' \cup todo'
    <3>1. c \in opts.start .. Front - 1 \/ c \in Span(pos, 1)
      BY <1>1, <2>1 DEF Front, Span
    <3>2. c \in Held
      BY <1>1, <2>1 DEF Front, Held
    <3> QED
      BY <1>4, <1>5, <2>1, <3>1, <3>2
  <2> QED
    BY <1>2, <1>3, <1>4, <2>1, <2>2 DEF Safe, PrefixFaithful
<1>8. CASE RetryGood
  <2>1. PICK r \in todo : WriteRegion(r, 1) /\ todo' = todo \ {r} /\ bad' = bad
                          /\ pc = "retry" /\ UNCHANGED <<pc, abs>>
    BY <1>8 DEF RetryGood, Nearest
  <2>2. r \in Span(r, 1)
    BY <1>1, <2>1 DEF Span
  <2>3. ASSUME NEW c \in opts.start .. Front' - 1
        PROVE  Correct(c)' \/ c \in bad' \cup todo'
    <3>1. c \in Held /\ (Correct(c) \/ c \in bad \cup todo)
      BY <1>5, <2>1 DEF Front
    <3> QED
      BY <1>4, <2>1, <2>2, <3>1
  <2> QED
    BY <1>2, <1>3, <1>4, <2>1, <2>3 DEF Safe, PrefixFaithful
<1> QED
  BY <1>6, <1>7, <1>8

\* The three places that write the map.
LEMMA SafeRecord ==
  ASSUME TypeInv, Safe, FlushMap \/ PassEnd \/ Finish
  PROVE  Safe'
<1> USE DEF file, loop, retry, user
<1>1. /\ opts.start \in 0 .. N /\ opts.end \in 0 .. N /\ N \in Nat /\ abs \in 0 .. N
      /\ pc # "idle" => abs <= opts.end
  BY OptionTypes DEF TypeInv, TypeOK
<1>2. /\ UNCHANGED <<img, opts, bad, abs, todo>> /\ todo = {} /\ bad' = bad
      /\ pc \in {"flush", "retry", "final"} /\ pc' # "sector"
  BY DEF FlushMap, PassEnd, Finish, Safe, Bookkeeping
<1>3. \A c : Correct(c)' <=> Correct(c)
  BY <1>2 DEF Correct
<1>4. NothingMisplaced'
  BY <1>2 DEF Safe, NothingMisplaced
<1>5. \A c \in opts.start .. abs - 1 : Correct(c) \/ c \in bad
  BY <1>2 DEF Safe, PrefixFaithful, Front
<1>6. PrefixFaithful'
  BY <1>2, <1>3, <1>5 DEF PrefixFaithful, Front
<1>7. map' # NoMap /\ map'.total # NoTotal /\ map'.bad = bad
  BY <1>1, <1>2 DEF FlushMap, PassEnd, Finish, WriteMap, NoMap, NoTotal
<1>8. CASE FlushMap
  <2>1. map'.pos = abs /\ pc' = "copy" /\ outcome' = outcome /\ pc = "flush"
    BY <1>8 DEF FlushMap, WriteMap
  <2>2. MapSound'
    BY <1>2, <1>3, <1>5, <1>7, <2>1 DEF MapSound
  <2> QED
    BY <1>2, <1>4, <1>6, <1>7, <2>1, <2>2 DEF Safe, FaithfulImage, Bookkeeping
<1>9. CASE PassEnd
  <2>1. /\ map'.pos = opts.end /\ pc' \in {"pass", "final"} /\ outcome' = outcome
        /\ pc = "retry"
    BY <1>9 DEF PassEnd, WriteMap
  <2>2. Through /\ Through'
    BY <1>2, <2>1 DEF Safe, Bookkeeping, Through
  <2>3. \A c \in Cells : InRange(c) => Correct(c) \/ c \in bad
    BY <1>2, <2>1, <2>2, ThroughCovers
  <2>4. \A c \in opts.start .. opts.end - 1 : c \in Cells /\ InRange(c)
    BY <1>1 DEF Cells, InRange
  <2>5. MapSound'
    BY <1>2, <1>3, <1>7, <2>1, <2>3, <2>4 DEF MapSound
  <2> QED
    BY <1>2, <1>4, <1>6, <1>7, <2>1, <2>2, <2>5 DEF Safe, FaithfulImage, Bookkeeping
<1>10. CASE Finish
  <2>1. /\ map'.pos = abs /\ pc' = "idle" /\ pc = "final"
        /\ outcome' = "done" => outcome # "cancelled"
    BY <1>10 DEF Finish, WriteMap
  <2>2. MapSound'
    BY <1>2, <1>3, <1>5, <1>7, <2>1 DEF MapSound
  <2>3. FaithfulImage'
    <3>1. SUFFICES ASSUME outcome # "cancelled"
                   PROVE  \A c \in Cells : InRange(c) => Correct(c) \/ c \in bad
      BY <1>2, <1>3, <2>1 DEF FaithfulImage, InRange
    <3>2. Through
      BY <2>1, <3>1 DEF Safe, Bookkeeping
    <3> QED
      BY <1>2, <2>1, <3>2, ThroughCovers
  <2> QED
    BY <1>2, <1>4, <1>6, <1>7, <2>1, <2>2, <2>3 DEF Safe, Bookkeeping
<1> QED
  BY <1>8, <1>9, <1>10

\* A kill, and what the user does to the two files between runs.
LEMMA SafeOutside ==
  ASSUME Disciplined, TypeInv, Safe, Killed \/ DeleteMap \/ LoseImage
  PROVE  Safe'
<1> USE DEF file, loop, retry, user
<1>1. /\ opts.start \in 0 .. N /\ opts.end \in 0 .. N /\ N \in Nat
      /\ size \in 0 .. N /\ map.pos \in -1 .. N
  BY OptionTypes DEF TypeInv, TypeOK, Maps
<1>2. pc' = "idle" /\ opts' = opts
  BY DEF Killed, DeleteMap, LoseImage
<1>3. CASE Killed
  <2>1. UNCHANGED <<size, map>> /\ outcome' = "killed"
    BY <1>3 DEF Killed, Disciplined
  <2>2. PICK n : img' = WrittenImage(abs, n) \/ img' = img
    BY <1>3 DEF Killed
  <2>3. CASE img' = img
    BY <1>2, <2>1, <2>3, SameFiles
    DEF Safe, FaithfulImage, PrefixFaithful, Bookkeeping
  <2>4. CASE img' = WrittenImage(abs, n)
    BY <1>2, <2>1, <2>4, WriteSafe, WriteKeepsMap
    DEF Safe, FaithfulImage, PrefixFaithful, Bookkeeping
  <2> QED
    BY <2>2, <2>3, <2>4
<1>4. CASE DeleteMap
  <2>1. UNCHANGED <<img, outcome, bad>> /\ map' = NoMap
    BY <1>4 DEF DeleteMap
  <2> QED
    BY <1>2, <2>1
    DEF Safe, NothingMisplaced, MapSound, FaithfulImage, InRange, Correct,
        PrefixFaithful, Bookkeeping
<1>5. CASE LoseImage
  <2>1. PICK n \in 0 .. size - 1 : img' = SetLen(img, n) /\ size' = n
    BY <1>5 DEF LoseImage
  <2>2. outcome' = "none" /\ map' = map
    BY <1>5 DEF LoseImage
  <2>3. NothingMisplaced'
    BY <1>2, <2>1 DEF Safe, NothingMisplaced, SetLen
  <2>4. MapSound'
    <3>1. SUFFICES ASSUME map # NoMap, n >= map.pos - opts.start,
                          NEW c \in opts.start .. map.pos - 1
                   PROVE  Correct(c)' \/ c \in map.bad
      BY <1>2, <2>1, <2>2 DEF MapSound
    <3>2. Correct(c) \/ c \in map.bad
      BY <1>1, <2>1, <3>1 DEF Safe, MapSound
    <3>3. c - opts.start \in Cells /\ c - opts.start < n
      BY <1>1, <2>1, <3>1 DEF Cells
    <3> QED
      BY <1>2, <2>1, <3>2, <3>3 DEF Correct, SetLen
  <2> QED
    BY <1>2, <2>2, <2>3, <2>4
    DEF Safe, FaithfulImage, PrefixFaithful, Bookkeeping
<1> QED
  BY <1>3, <1>4, <1>5

\* No step of a disciplined behaviour breaks the inductive invariant.
LEMMA SafeStep == Disciplined /\ TypeInv /\ Safe /\ [Next]_vars => Safe'
<1> SUFFICES ASSUME Disciplined, TypeInv, Safe, [Next]_vars PROVE Safe'
  OBVIOUS
<1>1. CASE UNCHANGED vars
  BY <1>1
  DEF Safe, NothingMisplaced, MapSound, FaithfulImage, InRange, Correct,
      PrefixFaithful, Front, Bookkeeping, Through, vars, file, loop, retry, user
<1>2. CASE \E o \in Options : Start(o)
  BY <1>2, SafeStart
<1>3. CASE Work \/ RequestCancel
  BY <1>3, SafeQuiet, SafeWriting, SafeRecord DEF Work
<1>4. CASE Killed \/ DeleteMap \/ LoseImage
  BY <1>4, SafeOutside
<1> QED
  BY <1>1, <1>2, <1>3, <1>4 DEF Next

\* The inductive invariant holds of every disciplined behaviour.
LEMMA SafeInvariant == ASSUME Disciplined PROVE Spec => []Safe
<1>1. Init => Safe
  BY SafeInit
<1>2. TypeInv /\ Safe /\ [Next]_vars => Safe'
  BY SafeStep
<1> QED
  BY <1>1, <1>2, TypeInvariant, PTL DEF Spec

\* image() never puts the bytes of one source cell where another's belong, in
\* whatever order runs, resumes, retry passes, cancels and kills come.
THEOREM NothingEverMisplaced == ASSUME Disciplined PROVE Spec => []NothingMisplaced
<1>1. Safe => NothingMisplaced
  BY DEF Safe
<1> QED
  BY <1>1, SafeInvariant, PTL

\* The map image() and retry_bad_regions leave on disk is one a resume may
\* trust: what it says was copied is in the image validate_map accepts.
THEOREM MapAlwaysSound == ASSUME Disciplined PROVE Spec => []MapSound
<1>1. Safe => MapSound
  BY DEF Safe
<1> QED
  BY <1>1, SafeInvariant, PTL

\* While image() runs, what it has passed is copied or kept as unreadable.
THEOREM PrefixAlwaysFaithful == ASSUME Disciplined PROVE Spec => []PrefixFaithful
<1>1. Safe => PrefixFaithful
  BY DEF Safe
<1> QED
  BY <1>1, SafeInvariant, PTL

\* A copy image() returns as done, after any number of interrupted runs, holds
\* every cell of its range that bad_regions does not list.
THEOREM DoneIsFaithful == ASSUME Disciplined PROVE Spec => []FaithfulImage
<1>1. Safe => FaithfulImage
  BY DEF Safe
<1> QED
  BY <1>1, SafeInvariant, PTL

-----------------------------------------------------------------------------
(* The counters.                                                           *)

\* What each counter rests on: a cell is recorded as unreadable once, behind
\* the front of the copy, so it is counted once; a map lists only cells below
\* its position, so that a resume starts from such a state.
Counted ==
  /\ \A c \in map.bad : c < map.pos
  /\ pc # "idle" =>
       /\ \A c \in bad \cup todo : c < Front
       /\ bad \cap todo = {}
       /\ pc # "retry" => todo = {}
       /\ stats.zeroed = Cardinality(bad \cup todo)
       /\ ~ opts.resume =>
            stats.copied + stats.sparse + stats.zeroed = Front - opts.start

\* Cells are numbers, and a set of them is finite.
LEMMA CellSets ==
  ASSUME TypeInv
  PROVE  /\ IsFiniteSet(bad) /\ IsFiniteSet(todo) /\ IsFiniteSet(bad \cup todo)
         /\ Cardinality(bad \cup todo) \in Nat
         /\ \A c \in bad \cup todo : c \in Nat
         /\ stats.copied \in Nat /\ stats.sparse \in Nat /\ stats.zeroed \in Nat
<1>0. IsFiniteSet(Cells)
  BY SizeAssumption, FS_Interval DEF Cells
<1>1. bad \subseteq Cells /\ todo \subseteq Cells
  BY DEF TypeInv, TypeOK
<1>2. IsFiniteSet(bad) /\ IsFiniteSet(todo) /\ IsFiniteSet(bad \cup todo)
  BY <1>0, <1>1, FS_Subset
<1>3. \A c \in bad \cup todo : c \in Nat
  BY <1>1, SizeAssumption DEF Cells
<1>4. Cardinality(bad \cup todo) \in Nat
  BY <1>2, FS_CardinalityType
<1>5. stats.copied \in Nat /\ stats.sparse \in Nat /\ stats.zeroed \in Nat
  BY DEF TypeInv, TypeOK
<1> QED
  BY <1>2, <1>3, <1>4, <1>5

\* write_region counts every cell it was given, as copied or as a hole.
CountsMore(s, t, n) ==
  /\ t \in StatsType /\ t.copied \in Nat /\ t.sparse \in Nat
  /\ t.zeroed = s.zeroed /\ t.copied + t.sparse = s.copied + s.sparse + n
LEMMA CountWriteSum ==
  ASSUME NEW s \in StatsType, NEW from \in Nat, NEW n \in Nat
  PROVE  CountsMore(s, CountWrite(s, from, n), n)
<1> DEFINE z == Cardinality(Skipped(from, n))
           t == CountWrite(s, from, n)
<1>1. z \in 0 .. n /\ s.copied \in Nat /\ s.sparse \in Nat
  BY SkippedBound DEF StatsType
<1>2. t \in StatsType
  BY CountWriteType
<1>3. \A a, b \in Nat : /\ [s EXCEPT !.sparse = a, !.copied = b].sparse = a
                        /\ [s EXCEPT !.sparse = a, !.copied = b].copied = b
                        /\ [s EXCEPT !.sparse = a, !.copied = b].zeroed = s.zeroed
  BY DEF StatsType
<1>4. s.sparse + z \in Nat /\ s.copied + n - z \in Nat
  BY <1>1
<1>5. t = [s EXCEPT !.sparse = s.sparse + z, !.copied = s.copied + n - z]
  BY DEF CountWrite
<1> HIDE DEF z, t
<1>6. /\ t.sparse = s.sparse + z /\ t.copied = s.copied + n - z
      /\ t.zeroed = s.zeroed
  BY <1>3, <1>4, <1>5, Zenon
<1>7. t.copied + t.sparse = s.copied + s.sparse + n /\ t.copied \in Nat /\ t.sparse \in Nat
  BY <1>1, <1>6
<1> QED
  BY <1>2, <1>6, <1>7 DEF t, CountsMore

\* No run yet, nothing counted, no map.
LEMMA CountedInit == Init => Counted
BY DEF Init, Counted, NoMap

\* A fresh run starts from zero; a resume counts what the map lists.
LEMMA CountedStart ==
  ASSUME TypeInv, Counted, NEW o \in Options, Start(o)
  PROVE  Counted'
<1>1. CASE MapVerdict(map, o) = "refuse"
  BY <1>1 DEF Start, Counted, file
<1>2. CASE MapVerdict(map, o) # "refuse"
  <2> DEFINE resuming == MapVerdict(map, o) = "resume"
             from == IF resuming THEN map.pos ELSE o.start
             carried == IF resuming THEN map.bad ELSE {}
  <2>1. /\ abs' = from /\ bad' = carried /\ todo' = {} /\ pc' = "copy"
        /\ stats' = ResumeStats(carried) /\ map' = map /\ opts' = o
    BY <1>2 DEF Start
  <2>2. ~ o.resume => ~ resuming
    BY DEF MapVerdict
  <2>3. \A c \in carried : c < from
    BY DEF Counted
  <2>4. /\ stats'.copied = 0 /\ stats'.sparse = 0
        /\ stats'.zeroed = Cardinality(carried)
    BY <2>1 DEF ResumeStats, NoStats
  <2>5. Cardinality({}) = 0 /\ o.start \in Nat
    BY FS_EmptySet, OptionTypes
  <2>6. ~ o.resume => from = o.start /\ carried = {}
    BY <2>2
  <2> HIDE DEF from, carried, resuming
  <2> QED
    BY <2>1, <2>3, <2>4, <2>5, <2>6 DEF Counted, Front
<1> QED
  BY <1>1, <1>2

\* Steps that count nothing: the front and the unreadable cells stay.
LEMMA CountedQuiet ==
  ASSUME TypeInv, Counted,
         \/ CopyEnd \/ CopyCancelled \/ CopyEof \/ CopyError \/ SectorEnd
         \/ PassBegin \/ PassesOver \/ RetryBad \/ RetryCancelled \/ RequestCancel
  PROVE  Counted'
<1> USE DEF file, loop, retry, user
<1>1. /\ UNCHANGED <<map, opts, stats>> /\ pc # "idle"
      /\ Front' = Front /\ bad' \cup todo' = bad \cup todo
      /\ bad' \cap todo' = {} /\ (pc' # "retry" => todo' = {})
  <2>1. CASE CopyEnd \/ CopyEof \/ CopyCancelled
    BY <2>1 DEF Counted, CopyEnd, CopyEof, CopyCancelled, AtLoopHead, LeaveLoop, Front
  <2>2. CASE CopyError \/ SectorEnd
    BY <2>2 DEF Counted, CopyError, SectorEnd, AtLoopHead, AfterBlock, Front
  <2>3. CASE PassBegin \/ PassesOver \/ RequestCancel
    BY <2>3 DEF Counted, PassBegin, PassesOver, RequestCancel, Front
  <2>4. CASE RetryBad
    BY <2>4 DEF Counted, RetryBad, Nearest, Front
  <2>5. CASE RetryCancelled
    BY <2>5 DEF Counted, RetryCancelled, Front
  <2> QED
    BY <2>1, <2>2, <2>3, <2>4, <2>5
<1> QED
  BY <1>1 DEF Counted

\* The main copy counts what it writes and what it cannot read.
LEMMA CountedCopy ==
  ASSUME TypeInv, Counted, CopyChunk \/ SectorGood \/ SectorBad
  PROVE  Counted'
<1> USE DEF file, loop, retry, user
<1>1. /\ abs \in Nat /\ pos \in Nat /\ opts.start \in Nat /\ stats \in StatsType
      /\ stats.copied \in Nat /\ stats.sparse \in Nat /\ stats.zeroed \in Nat
  BY OptionTypes DEF TypeInv, TypeOK, StatsType
<1>2. IsFiniteSet(bad \cup todo) /\ \A c \in bad \cup todo : c \in Nat
  BY CellSets
<1>3. CASE CopyChunk
  <2> DEFINE n == ReadLen(abs, Want)
  <2>1. /\ AtLoopHead /\ abs' = abs + n /\ UNCHANGED <<bad, todo, map, opts>>
        /\ stats' = CountWrite(stats, abs, n) /\ pc' \in {"copy", "flush"}
    BY <1>3 DEF CopyChunk, WriteRegion, AfterBlock
  <2>2. n \in Nat
    BY <2>1, ReadLenBounds DEF TypeInv
  <2> HIDE DEF n
  <2>3. /\ stats'.zeroed = stats.zeroed
        /\ stats'.copied + stats'.sparse = stats.copied + stats.sparse + n
        /\ stats'.copied \in Nat /\ stats'.sparse \in Nat
    <3>1. CountsMore(stats, CountWrite(stats, abs, n), n)
      BY <1>1, <2>2, CountWriteSum
    <3> QED BY <2>1, <3>1 DEF CountsMore
  <2>4. Front = abs /\ Front' = abs + n /\ pc # "idle" /\ pc # "retry"
    BY <2>1 DEF Front, AtLoopHead
  <2>5. stats.copied + stats.sparse + stats.zeroed = Front - opts.start
          => stats'.copied + stats'.sparse + stats'.zeroed = Front' - opts.start
    BY <1>1, <2>2, <2>3, <2>4
  <2>6. \A c \in bad \cup todo : c < Front => c < Front'
    BY <1>1, <1>2, <2>2, <2>4
  <2> QED
    BY <2>1, <2>3, <2>4, <2>5, <2>6 DEF Counted
<1>4. CASE SectorGood
  <2>1. /\ pc = "sector" /\ pos' = pos + 1 /\ UNCHANGED <<pc, bad, todo, map, opts>>
        /\ stats' = CountWrite(stats, pos, 1)
    BY <1>4 DEF SectorGood, WriteRegion
  <2>2. /\ stats'.zeroed = stats.zeroed
        /\ stats'.copied + stats'.sparse = stats.copied + stats.sparse + 1
        /\ stats'.copied \in Nat /\ stats'.sparse \in Nat
    <3>1. CountsMore(stats, CountWrite(stats, pos, 1), 1)
      BY <1>1, CountWriteSum
    <3> QED BY <2>1, <3>1 DEF CountsMore
  <2>3. Front = pos /\ Front' = pos + 1
    BY <2>1 DEF Front
  <2>4. stats.copied + stats.sparse + stats.zeroed = Front - opts.start
          => stats'.copied + stats'.sparse + stats'.zeroed = Front' - opts.start
    BY <1>1, <2>2, <2>3
  <2>5. \A c \in bad \cup todo : c < Front => c < Front'
    BY <1>1, <1>2, <2>3
  <2> QED
    BY <2>1, <2>2, <2>3, <2>4, <2>5 DEF Counted
<1>5. CASE SectorBad
  <2>1. /\ pc = "sector" /\ pos' = pos + 1 /\ bad' = bad \cup {pos}
        /\ UNCHANGED <<pc, todo, map, opts>> /\ todo = {}
        /\ stats' = [stats EXCEPT !.zeroed = @ + 1]
    BY <1>5 DEF SectorBad, Counted
  <2>2. pos \notin bad \cup todo /\ Front = pos /\ Front' = pos + 1
    BY <1>1, <2>1 DEF Counted, Front
  <2>3. Cardinality((bad \cup todo) \cup {pos}) = Cardinality(bad \cup todo) + 1
    BY <1>2, <2>2, FS_AddElement
  <2>4. bad' \cup todo' = (bad \cup todo) \cup {pos}
    BY <2>1
  <2>5. /\ stats'.zeroed = stats.zeroed + 1
        /\ stats'.copied = stats.copied /\ stats'.sparse = stats.sparse
    BY <2>1 DEF TypeInv, TypeOK
  <2>6. stats'.zeroed = Cardinality(bad' \cup todo')
    BY <2>1, <2>3, <2>4, <2>5 DEF Counted
  <2>7. stats.copied + stats.sparse + stats.zeroed = Front - opts.start
          => stats'.copied + stats'.sparse + stats'.zeroed = Front' - opts.start
    BY <1>1, <2>2, <2>5
  <2>8. \A c \in bad' \cup todo' : (c < Front \/ c = pos) => c < Front'
    BY <1>1, <1>2, <2>2, <2>4
  <2> QED
    BY <2>1, <2>2, <2>6, <2>7, <2>8 DEF Counted
<1> QED
  BY <1>3, <1>4, <1>5

\* A salvaged sector moves from the unreadable to the copied ones.
LEMMA CountedRetryGood ==
  ASSUME TypeInv, Counted, RetryGood
  PROVE  Counted'
<1> USE DEF file, loop, retry, user
<1>1. PICK c \in todo : RetryGood!(c)
  BY DEF RetryGood, Nearest
<1> DEFINE s == CountWrite(stats, c, 1)
           z == IF s.zeroed > 0 THEN s.zeroed - 1 ELSE 0
<1>2. /\ pc = "retry" /\ todo' = todo \ {c} /\ UNCHANGED <<loop, pc, bad, map, opts>>
      /\ stats' = [s EXCEPT !.zeroed = z, !.salvaged = s.salvaged + 1]
  BY <1>1 DEF WriteRegion
<1>3. /\ c \in Nat /\ IsFiniteSet(bad \cup todo) /\ opts.start \in Nat /\ abs \in Nat
      /\ stats \in StatsType
      /\ stats.copied \in Nat /\ stats.sparse \in Nat /\ stats.zeroed \in Nat
  BY CellSets, OptionTypes DEF TypeInv, TypeOK, StatsType
<1>4. /\ s \in StatsType /\ s.zeroed = stats.zeroed
      /\ s.copied + s.sparse = stats.copied + stats.sparse + 1
  <2>1. CountsMore(stats, CountWrite(stats, c, 1), 1)
    BY <1>3, CountWriteSum
  <2> QED BY <2>1 DEF CountsMore
<1>5. bad' \cup todo' = (bad \cup todo) \ {c}
  BY <1>1, <1>2 DEF Counted
<1>6. /\ Cardinality((bad \cup todo) \ {c}) = Cardinality(bad \cup todo) - 1
      /\ Cardinality((bad \cup todo) \ {c}) \in Nat
  <2>1. c \in bad \cup todo
    BY <1>1
  <2>2. IsFiniteSet((bad \cup todo) \ {c})
    BY <1>3, <2>1, FS_RemoveElement
  <2> QED
    BY <1>3, <2>1, <2>2, FS_RemoveElement, FS_CardinalityType
<1>7. stats.zeroed = Cardinality(bad \cup todo) /\ stats.zeroed > 0
  BY <1>2, <1>3, <1>6 DEF Counted
<1> HIDE DEF s, z
<1>8. s.copied \in Nat /\ s.sparse \in Nat
      /\ stats'.copied = s.copied /\ stats'.sparse = s.sparse /\ stats'.zeroed = z
  BY <1>2, <1>4 DEF StatsType
<1>9. z = stats.zeroed - 1
  BY <1>3, <1>4, <1>7 DEF z
<1>10. Front' = Front /\ Front = abs
  BY <1>2 DEF Front
<1>11. stats.copied + stats.sparse + stats.zeroed = Front - opts.start
         => stats'.copied + stats'.sparse + stats'.zeroed = Front' - opts.start
  BY <1>3, <1>4, <1>8, <1>9, <1>10
<1>12. stats'.zeroed = Cardinality(bad' \cup todo')
  BY <1>5, <1>6, <1>7, <1>8, <1>9
<1> QED
  BY <1>2, <1>10, <1>11, <1>12 DEF Counted

\* The map is written with no retry under way, and lists what is behind it.
LEMMA CountedRecord ==
  ASSUME TypeInv, Counted, FlushMap \/ PassEnd \/ Finish
  PROVE  Counted'
<1> USE DEF file, loop, retry, user
<1>1. /\ abs \in Nat /\ opts.end \in Nat /\ abs <= opts.end /\ \A c \in bad : c \in Nat
  BY CellSets, OptionTypes
  DEF TypeInv, TypeOK, FlushMap, PassEnd, Finish
<1>2. /\ UNCHANGED <<abs, bad, todo, opts>> /\ todo = {} /\ pc # "idle"
      /\ Front = abs /\ Front' = abs /\ pc' # "sector"
  BY DEF FlushMap, PassEnd, Finish, Counted, Front
<1>3. map'.bad = bad /\ map'.pos \in {abs, opts.end}
  BY DEF FlushMap, PassEnd, Finish, WriteMap
<1>4. \A c \in map'.bad : c < map'.pos
  BY <1>1, <1>2, <1>3 DEF Counted
<1>5. /\ stats'.copied = stats.copied /\ stats'.sparse = stats.sparse
      /\ stats'.zeroed = stats.zeroed
  BY DEF FlushMap, PassEnd, Finish, TypeInv, TypeOK
<1> QED
  BY <1>2, <1>4, <1>5 DEF Counted

\* A torn map lists some of the cells below its position, or none.
LEMMA CountedTorn ==
  ASSUME TypeInv, Counted, NEW m \in PendingMap, NEW t \in TornMaps(m)
  PROVE  \A c \in t.bad : c < t.pos
<1>1. /\ abs \in Nat /\ opts.end \in Nat /\ \A c \in bad : c \in Nat
      /\ pc # "idle" => abs <= opts.end
  BY CellSets, OptionTypes DEF TypeInv, TypeOK
<1>2. /\ m.bad = bad /\ m.pos \in {abs, opts.end}
      /\ pc \in {"flush", "retry", "final"}
      /\ m = [total |-> opts.end, pos |-> m.pos, bad |-> bad]
  BY DEF PendingMap
<1>3. \A c \in bad : c < m.pos
  BY <1>1, <1>2 DEF Counted, Front
<1>4. CASE t \in {[total |-> x, pos |-> 0, bad |-> {}] : x \in {NoTotal} \cup 0 .. m.total}
  BY <1>4
<1>5. CASE t \in {[total |-> m.total, pos |-> p, bad |-> {}] : p \in 0 .. m.pos}
  BY <1>5
<1>6. CASE t \in {[m EXCEPT !.bad = {c \in m.bad : c < k}] : k \in 0 .. N}
  <2>1. PICK k : t = [m EXCEPT !.bad = {c \in m.bad : c < k}]
    BY <1>6
  <2>2. t.pos = m.pos /\ t.bad = {c \in m.bad : c < k}
    BY <1>2, <2>1
  <2> QED
    BY <1>2, <1>3, <2>2
<1> QED
  BY <1>4, <1>5, <1>6 DEF TornMaps

\* A kill, and what the user does to the two files between runs.
LEMMA CountedOutside ==
  ASSUME TypeInv, Counted, Killed \/ DeleteMap \/ LoseImage
  PROVE  Counted'
<1>1. pc' = "idle"
  BY DEF Killed, DeleteMap, LoseImage
<1>2. CASE Killed
  BY <1>1, <1>2, CountedTorn DEF Killed, Counted
<1>3. CASE DeleteMap
  BY <1>1, <1>3 DEF DeleteMap, Counted, NoMap
<1>4. CASE LoseImage
  BY <1>1, <1>4 DEF LoseImage, Counted
<1> QED
  BY <1>2, <1>3, <1>4

\* No step of any behaviour loses count.
LEMMA CountedStep == TypeInv /\ Counted /\ [Next]_vars => Counted'
<1> SUFFICES ASSUME TypeInv, Counted, [Next]_vars PROVE Counted'
  OBVIOUS
<1>1. CASE UNCHANGED vars
  BY <1>1 DEF Counted, Front, vars, file, loop, retry, user
<1>2. CASE \E o \in Options : Start(o)
  BY <1>2, CountedStart
<1>3. CASE Work \/ RequestCancel
  BY <1>3, CountedQuiet, CountedCopy, CountedRetryGood, CountedRecord DEF Work
<1>4. CASE Killed \/ DeleteMap \/ LoseImage
  BY <1>4, CountedOutside
<1> QED
  BY <1>1, <1>2, <1>3, <1>4 DEF Next

\* The counters' invariant holds of every behaviour, torn maps included.
LEMMA CountedInvariant == Spec => []Counted
<1>1. Init => Counted
  BY CountedInit
<1>2. TypeInv /\ Counted /\ [Next]_vars => Counted'
  BY CountedStep
<1> QED
  BY <1>1, <1>2, TypeInvariant, PTL DEF Spec

\* ImageStats.bytes_zeroed is exactly the unreadable part, through resumes,
\* retry passes, cancels and kills: saturating_sub in retry_bad_regions never
\* saturates.
THEOREM ZeroedAlwaysMatchesBad == Spec => []ZeroedMatchesBad
<1>1. Counted => ZeroedMatchesBad
  BY DEF Counted, ZeroedMatchesBad
<1> QED
  BY <1>1, CountedInvariant, PTL

\* The ImageStats of a run that starts over account for each cell image() has
\* passed exactly once: copied, left as a hole, or zeroed.
THEOREM CountersAlwaysCoverCopy == Spec => []CountersCoverCopy
<1>1. Counted => CountersCoverCopy
  BY DEF Counted, CountersCoverCopy
<1> QED
  BY <1>1, CountedInvariant, PTL

-----------------------------------------------------------------------------
(* A resume, and the durable copy.                                         *)

\* image() up to its loop, with a map to resume from: what it will skip is in
\* the image it found, or listed as unreadable.
THEOREM ResumesOnlyOwnCopy == ASSUME Disciplined PROVE Spec => ResumeOnlyOwnCopy
<1>1. Safe' => (pc' = "copy" => \A c \in opts'.start .. abs' - 1 :
                   img'[c - opts'.start] = Content(c) \/ c \in bad')
  BY DEF Safe, Bookkeeping, PrefixFaithful, Front, Correct
<1>2. TypeInv /\ Safe /\ [Next]_vars
        => [(pc = "idle" /\ pc' = "copy") =>
              \A c \in opts'.start .. abs' - 1 :
                 img'[c - opts'.start] = Content(c) \/ c \in bad']_vars
  BY <1>1, SafeStep
<1> QED
  BY <1>2, TypeInvariant, SafeInvariant, PTL DEF Spec, ResumeOnlyOwnCopy

\* While a run is under way the image has its full length, and the map claims
\* only cells the run has passed and does not hold to be unreadable.
Claims ==
  pc # "idle" => /\ size = Total(opts)
                 /\ \A c \in Claimed : c < Front /\ c \notin bad \cup todo

\* The readable cells the image holds.
HeldCells == {c \in Readable : Correct(c)}

\* The readable cells are the same in every run of a disciplined user.
LEMMA ReadableTypes ==
  ASSUME TypeInv
  PROVE  \A c \in Readable : /\ c \in Nat /\ c \in Cells /\ c \in Held
                             /\ c < PhysEnd /\ opts.start <= c
                             /\ c - opts.start \in Cells
<1>1. /\ opts.start \in 0 .. N /\ N \in Nat /\ PhysEnd \in 0 .. N
  BY OptionTypes, SizeAssumption DEF TypeInv, TypeOK
<1> QED
  BY <1>1 DEF Readable, Held, Cells

\* What is claimed is held: the map is sound.
Backed == Claimed \subseteq HeldCells
LEMMA ClaimedHeld == TypeInv /\ Safe => Backed
<1> SUFFICES ASSUME TypeInv, Safe, NEW c \in Claimed PROVE c \in HeldCells
  BY DEF Backed
<1>1. /\ map # NoMap /\ size >= map.pos - opts.start /\ c \in Readable
      /\ c < map.pos /\ c \notin map.bad
  BY DEF Claimed
<1>2. map.pos \in -1 .. N /\ opts.start \in 0 .. N /\ N \in Nat
  BY OptionTypes DEF TypeInv, TypeOK, Maps
<1>3. c \in opts.start .. map.pos - 1
  BY <1>1, <1>2, ReadableTypes
<1> QED
  BY <1>1, <1>3 DEF Safe, MapSound, HeldCells

\* A file made shorter or longer holds no more than before.
LEMMA SetLenHolds ==
  ASSUME TypeInv, NothingMisplaced, NEW n, img' = SetLen(img, n), opts'.start = opts.start
  PROVE  HeldCells' \subseteq HeldCells
<1> SUFFICES ASSUME NEW c \in Readable, Correct(c)' PROVE Correct(c)
  BY DEF HeldCells, Readable
<1>1. c - opts.start \in Cells /\ (c - opts.start) + opts.start = c /\ c \in Cells
  <2>1. c \in Nat /\ opts.start \in Nat
    BY ReadableTypes, OptionTypes DEF TypeInv, TypeOK
  <2> QED
    BY <2>1, ReadableTypes
<1>2. img'[c - opts.start] = Content(c)
  BY DEF Correct
<1>3. img'[c - opts.start] \in {img[c - opts.start], Zero}
  BY <1>1 DEF SetLen
<1>4. img[c - opts.start] \in {Zero, Content(c)}
  BY <1>1 DEF NothingMisplaced
<1> QED
  BY <1>2, <1>3, <1>4 DEF Correct

\* Nothing is claimed before the first run.
LEMMA ClaimsInit == Init => Claims
BY DEF Init, Claims

\* A fresh run starts with no map; a resume starts where its map says, with
\* the unreadable cells its map lists.
LEMMA ClaimsStart ==
  ASSUME Disciplined, TypeInv, Safe, Claims, NEW o \in Options, Start(o)
  PROVE  /\ Claims'
         /\ \/ UNCHANGED <<HeldCells, Claimed>>
            \/ Claimed = {} /\ Claimed' = {}
            \/ Claimed' = Claimed /\ HeldCells' \subseteq HeldCells
<1>1. opts' = o /\ opts'.start = opts.start /\ pc = "idle"
  BY StartFixed DEF Start
<1>2. CASE MapVerdict(map, o) = "refuse"
  BY <1>1, <1>2 DEF Start, file, Claims, HeldCells, Readable, Correct, Claimed
<1>3. CASE MapVerdict(map, o) = "fresh"
  <2>1. map' = map /\ size' = Total(o)
    BY <1>3 DEF Start
  <2>2. map = NoMap
    BY <1>3 DEF Start, Disciplined, MapVerdict, Safe, Bookkeeping
  <2> QED
    BY <1>1, <2>1, <2>2 DEF Claims, Claimed
<1>4. CASE MapVerdict(map, o) = "resume"
  <2>1. /\ img' = SetLen(img, Total(o)) /\ size' = Total(o) /\ abs' = map.pos
        /\ bad' = map.bad /\ todo' = {} /\ pc' = "copy" /\ map' = map
    BY <1>4 DEF Start
  <2>2. /\ map # NoMap /\ size >= map.pos - o.start
        /\ map.pos >= o.start /\ map.pos <= o.end
    BY <1>4 DEF MapVerdict
  <2>3. /\ o.start \in 0 .. N /\ o.end \in 0 .. N /\ N \in Nat /\ map.pos \in -1 .. N
    BY OptionTypes DEF TypeInv, TypeOK, Maps
  <2>4. size' >= map'.pos - opts'.start
    BY <1>1, <2>1, <2>2, <2>3 DEF Total
  <2>5. Readable' = Readable
    BY <1>1 DEF Readable
  <2>6. Claimed = {c \in Readable : c < map.pos} \ map.bad
    BY <1>1, <2>2 DEF Claimed
  <2>7. Claimed' = {c \in Readable : c < map.pos} \ map.bad
    BY <1>1, <2>1, <2>2, <2>4, <2>5 DEF Claimed
  <2>8. Claims'
    BY <1>1, <2>1, <2>7 DEF Claims, Front
  <2>9. HeldCells' \subseteq HeldCells
    BY <1>1, <2>1, SetLenHolds DEF Safe
  <2> QED
    BY <2>6, <2>7, <2>8, <2>9
<1> QED
  BY <1>2, <1>3, <1>4 DEF MapVerdict

\* Steps that touch neither file claim and hold the same.
LEMMA ClaimsQuiet ==
  ASSUME TypeInv, Counted, Claims,
         \/ CopyEnd \/ CopyCancelled \/ CopyEof \/ CopyError \/ SectorBad \/ SectorEnd
         \/ PassBegin \/ PassesOver \/ RetryBad \/ RetryCancelled \/ RequestCancel
  PROVE  Claims' /\ UNCHANGED <<HeldCells, Claimed>>
<1> USE DEF file, loop, retry, user
<1>1. UNCHANGED <<file, opts>> /\ pc # "idle"
  BY DEF CopyEnd, CopyCancelled, CopyEof, CopyError, SectorBad, SectorEnd,
         PassBegin, PassesOver, RetryBad, RetryCancelled, RequestCancel, AtLoopHead
<1>2. Claimed' = Claimed /\ HeldCells' = HeldCells
  BY <1>1 DEF Claimed, HeldCells, Readable, Correct
<1>3. \/ bad' \cup todo' = bad \cup todo /\ Front' = Front
      \/ /\ Front = pos /\ Front' = pos + 1 /\ pos \in Nat
         /\ bad' \cup todo' = (bad \cup todo) \cup {pos}
  <2>1. CASE CopyEnd \/ CopyEof \/ CopyCancelled
    BY <2>1 DEF CopyEnd, CopyEof, CopyCancelled, AtLoopHead, LeaveLoop, Front
  <2>2. CASE CopyError \/ SectorEnd
    BY <2>2 DEF CopyError, SectorEnd, AtLoopHead, AfterBlock, Front
  <2>3. CASE SectorBad
    BY <2>3 DEF SectorBad, Front, TypeInv, TypeOK
  <2>4. CASE PassBegin \/ PassesOver \/ RequestCancel
    BY <2>4 DEF PassBegin, PassesOver, RequestCancel, Front, Counted
  <2>5. CASE RetryBad \/ RetryCancelled
    BY <2>5 DEF RetryBad, RetryCancelled, Nearest, Front
  <2> QED
    BY <2>1, <2>2, <2>3, <2>4, <2>5
<1>4. \A c \in Claimed : c < Front /\ c \notin bad \cup todo /\ c \in Nat
  BY <1>1, ReadableTypes DEF Claims, Claimed
<1>5. \A c \in Claimed : c < Front' /\ c \notin bad' \cup todo'
  BY <1>3, <1>4
<1> QED
  BY <1>1, <1>2, <1>5 DEF Claims, Total

\* Writing a span keeps every cell that was held, and claims nothing.
LEMMA ClaimsWriting ==
  ASSUME TypeInv, Safe, Claims, CopyChunk \/ SectorGood \/ RetryGood
  PROVE  Claims' /\ Claimed' = Claimed /\ HeldCells \subseteq HeldCells'
<1> USE DEF file, loop, retry, user
<1>1. /\ UNCHANGED <<opts, size, map>> /\ pc # "idle"
      /\ \E from, n : img' = WrittenImage(from, n)
  BY DEF CopyChunk, SectorGood, RetryGood, AtLoopHead, WriteRegion
<1>2. Claimed' = Claimed /\ Readable' = Readable
  BY <1>1 DEF Claimed, Readable
<1>3. \A c \in Readable : Correct(c) => Correct(c)'
  BY <1>1, WriteSafe, ReadableTypes DEF Safe
<1>4. \A c \in Claimed : c < Front /\ c \notin bad \cup todo /\ c \in Nat
  BY <1>1, ReadableTypes DEF Claims, Claimed
<1>5. abs \in Nat /\ pos \in Nat
  BY DEF TypeInv, TypeOK
<1>6. CASE CopyChunk
  <2>1. /\ ReadLen(abs, Want) \in Nat /\ abs' = abs + ReadLen(abs, Want)
        /\ pc = "copy" /\ pc' \in {"copy", "flush"} /\ UNCHANGED <<bad, todo>>
    BY <1>6, ReadLenBounds DEF CopyChunk, AfterBlock, AtLoopHead, TypeInv
  <2>2. Front = abs /\ Front' = abs + ReadLen(abs, Want)
    BY <2>1 DEF Front
  <2>3. \A c \in Claimed : c < Front'
    BY <1>4, <1>5, <2>1, <2>2
  <2> QED
    BY <1>1, <1>2, <1>3, <1>4, <2>1, <2>3 DEF Claims, Total, HeldCells
<1>7. CASE SectorGood
  <2>1. pc = "sector" /\ pos' = pos + 1 /\ UNCHANGED <<pc, bad, todo>>
    BY <1>7 DEF SectorGood
  <2>2. \A c \in Claimed : c < Front'
    BY <1>4, <1>5, <2>1 DEF Front
  <2> QED
    BY <1>1, <1>2, <1>3, <1>4, <2>1, <2>2 DEF Claims, Total, HeldCells
<1>8. CASE RetryGood
  <2>1. todo' \subseteq todo /\ UNCHANGED <<abs, pos, pc, bad>>
    BY <1>8 DEF RetryGood
  <2> QED
    BY <1>1, <1>2, <1>3, <1>4, <2>1 DEF Claims, Total, HeldCells, Front
<1> QED
  BY <1>6, <1>7, <1>8

\* A map written by a run claims no less than the one before it.
LEMMA ClaimsRecord ==
  ASSUME TypeInv, Safe, Claims, FlushMap \/ PassEnd \/ Finish
  PROVE  Claims' /\ HeldCells' = HeldCells /\ Claimed \subseteq Claimed'
<1> USE DEF file, loop, retry, user
<1>1. /\ opts.start \in 0 .. N /\ opts.end \in 0 .. N /\ abs \in 0 .. N
      /\ N \in Nat /\ PhysEnd \in 0 .. N
      /\ pc # "idle" => abs <= opts.end
  BY OptionTypes, SizeAssumption DEF TypeInv, TypeOK
<1>2. /\ UNCHANGED <<img, size, opts, bad, abs, todo>> /\ todo = {}
      /\ pc # "idle" /\ Front = abs /\ Front' = abs
  BY DEF FlushMap, PassEnd, Finish, Safe, Bookkeeping, Front
<1>3. HeldCells' = HeldCells /\ Readable' = Readable
  BY <1>2 DEF HeldCells, Readable, Correct
<1>4. /\ map' # NoMap /\ map'.bad = bad /\ map'.pos \in {abs, opts.end}
      /\ map'.pos # abs => Through
  BY <1>1, <1>2 DEF FlushMap, PassEnd, Finish, WriteMap, NoMap, NoTotal, Safe, Bookkeeping
<1>5. /\ map'.pos \in 0 .. N /\ map'.pos <= opts.end /\ map'.pos >= abs
      /\ map'.pos = abs \/ abs >= PhysEnd \/ abs >= opts.end
  BY <1>1, <1>2, <1>4 DEF Through
<1>6. Claimed' = {c \in Readable : c < map'.pos} \ bad
  <2>1. size' = opts.end - opts.start /\ opts' = opts
    BY <1>2 DEF Claims, Total
  <2>2. size' >= map'.pos - opts.start
    BY <1>1, <1>5, <2>1
  <2> QED
    BY <1>3, <1>4, <2>1, <2>2 DEF Claimed
<1>7. \A c \in Claimed : c \in Readable /\ c < abs /\ c \notin bad
  BY <1>2 DEF Claims, Claimed
<1>8. \A c \in Readable : c \in Nat /\ c < PhysEnd
  BY ReadableTypes
<1>9. ASSUME NEW c \in Claimed PROVE c \in Claimed'
  BY <1>1, <1>5, <1>6, <1>7, <1>8
<1>10. ASSUME NEW c \in Claimed' PROVE c < abs /\ c \notin bad
  BY <1>1, <1>5, <1>6, <1>8
<1> QED
  BY <1>2, <1>3, <1>9, <1>10 DEF Claims, Total

\* A kill keeps what is held and claimed; a lost file loses both.
LEMMA ClaimsOutside ==
  ASSUME Disciplined, TypeInv, Safe, Claims, Killed \/ DeleteMap \/ LoseImage
  PROVE  /\ Claims'
         /\ \/ Claimed' = Claimed /\ HeldCells \subseteq HeldCells'
            \/ Claimed' \subseteq Claimed /\ HeldCells' \subseteq HeldCells
<1>1. pc' = "idle" /\ opts' = opts /\ Readable' = Readable
  BY DEF Killed, DeleteMap, LoseImage, user, Readable
<1>2. CASE Killed
  <2>1. UNCHANGED <<size, map>>
    BY <1>2 DEF Killed, Disciplined
  <2>2. PICK n : img' = WrittenImage(abs, n) \/ img' = img
    BY <1>2 DEF Killed
  <2>3. \A c \in Readable : Correct(c) => Correct(c)'
    <3>1. CASE img' = img
      BY <1>1, <3>1 DEF Correct
    <3>2. CASE img' = WrittenImage(abs, n)
      BY <1>1, <3>2, WriteSafe, ReadableTypes DEF Safe
    <3> QED
      BY <2>2, <3>1, <3>2
  <2> QED
    BY <1>1, <2>1, <2>3 DEF Claims, Claimed, HeldCells
<1>3. CASE DeleteMap
  <2>1. map' = NoMap /\ img' = img
    BY <1>3 DEF DeleteMap
  <2> QED
    BY <1>1, <2>1 DEF Claims, Claimed, HeldCells, Correct
<1>4. CASE LoseImage
  <2>1. PICK n \in 0 .. size - 1 : img' = SetLen(img, n) /\ size' = n
    BY <1>4 DEF LoseImage
  <2>2. map' = map
    BY <1>4 DEF LoseImage
  <2>3. HeldCells' \subseteq HeldCells
    BY <1>1, <2>1, SetLenHolds DEF Safe
  <2>4. /\ size \in 0 .. N /\ map.pos \in -1 .. N /\ opts.start \in 0 .. N /\ N \in Nat
    BY OptionTypes DEF TypeInv, TypeOK, Maps
  <2>5. Claimed' \subseteq Claimed
    BY <1>1, <2>1, <2>2, <2>4 DEF Claimed
  <2> QED
    BY <1>1, <2>3, <2>5 DEF Claims
<1> QED
  BY <1>2, <1>3, <1>4

\* Every step of a disciplined behaviour keeps the claims, and is a step of
\* the durable copy or leaves it alone.
LEMMA DurableStep ==
  ASSUME Disciplined, TypeInv, Safe, Counted, Claims, Backed, Backed', [Next]_vars
  PROVE  Claims' /\ [Durable!Next]_(Durable!vars)
<1>1. Claimed' \subseteq HeldCells' /\ Claimed \subseteq HeldCells
  BY DEF Backed
<1>2. HeldCells' \subseteq Cells
  BY DEF HeldCells, Readable
<1> USE DEF Durable!Next, Durable!vars, HeldCells
<1>3. CASE UNCHANGED vars
  BY <1>3 DEF Claims, Claimed, Readable, Correct, Front, Total, vars, file, loop, retry, user
<1>4. CASE \E o \in Options : Start(o)
  BY <1>1, <1>2, <1>4, ClaimsStart DEF Durable!StartOver, Durable!Lose
<1>5. CASE Work \/ RequestCancel
  <2>1. CASE FlushMap \/ PassEnd \/ Finish
    BY <1>1, <2>1, ClaimsRecord DEF Durable!Record
  <2>2. CASE CopyChunk \/ SectorGood \/ RetryGood
    BY <1>2, <2>2, ClaimsWriting DEF Durable!Copy
  <2>3. CASE \/ CopyEnd \/ CopyCancelled \/ CopyEof \/ CopyError \/ SectorBad \/ SectorEnd
             \/ PassBegin \/ PassesOver \/ RetryBad \/ RetryCancelled \/ RequestCancel
    BY <2>3, ClaimsQuiet
  <2> QED
    BY <1>5, <2>1, <2>2, <2>3 DEF Work
<1>6. CASE Killed \/ DeleteMap \/ LoseImage
  BY <1>1, <1>2, <1>6, ClaimsOutside DEF Durable!Copy, Durable!Lose
<1> QED
  BY <1>3, <1>4, <1>5, <1>6 DEF Next

\* The image file with its map file is a durable copy: no step of a run, cancel
\* or kill withdraws a claim or loses a cell, and the map image() leaves never
\* claims a cell its image lacks.
THEOREM ImageIsDurable == ASSUME Disciplined PROVE Spec => ImplementsDurable
<1>1. Init => Claims /\ Durable!Init
  <2>1. Init => Durable!Init
    BY DEF Init, Durable!Init, Claimed, Readable
  <2> QED
    BY <2>1, ClaimsInit
<1>2. TypeInv /\ Safe => Backed
  BY ClaimedHeld
<1>3. TypeInv /\ Safe /\ Counted /\ Claims /\ Backed /\ Backed' /\ [Next]_vars
        => Claims' /\ [Durable!Next]_(Durable!vars)
  BY DurableStep
<1> QED
  BY <1>1, <1>2, <1>3, TypeInvariant, SafeInvariant, CountedInvariant, PTL
  DEF Spec, ImplementsDurable, Durable!Spec
=============================================================================
