---------------------------- MODULE NtfsUndelete ----------------------------
(***************************************************************************)
(* recover_deleted of src/src/ntfs.rs: every MFT record that is not in use *)
(* and describes a file is recovered through its data runs and placed by   *)
(* climbing its parent records.                                            *)
(***************************************************************************)
EXTENDS UndeleteRun

CONSTANTS Records, MaxPathDepth   \* the MFT has records 0 (the root) .. Records
ASSUME NtfsAssumption == Records \in Nat
Mft == 0 .. Records
Posix == 0
Dos   == 2
FileName(name, parent, namespace, len) ==
  [name |-> name, parent |-> parent, namespace |-> namespace, len |-> len]
NoData == [kind |-> "none", size |-> 0]
Blank == [in_use |-> FALSE, dir |-> FALSE, torn |-> FALSE, names |-> <<>>, data |-> NoData]
RecordOf(d) == IF d = Root THEN 0 ELSE lives[d].key

(* ----------------------- What Windows does to it ----------------------- *)

NtfsFormat ==
  /\ pc = "new" /\ fs = "ntfs" /\ pc' = "life"
  /\ meta' = [r \in Mft |-> IF r = 0 THEN [Blank EXCEPT !.in_use = TRUE, !.dir = TRUE] ELSE Blank]
  /\ UNCHANGED <<fs, disk, lives, alive, ops, options, w, reports, faults>>

\* A run is stored as its distance from the one before it that has a place.
Encode(runs) ==
  LET before(i) == LET js == {j \in 1 .. i - 1 : runs[j].at # 0}
                   IN  IF js = {} THEN 0 ELSE runs[Max(js)].at
  IN  [i \in DOMAIN runs |-> [sparse |-> runs[i].at = 0, n |-> runs[i].n,
                              delta |-> IF runs[i].at = 0 THEN 0 ELSE runs[i].at - before(i)]]
Runs(size, blocks) == [kind |-> "runs", size |-> size, list |-> Encode(RunsOf(blocks))]
Resident(bytes)    == [kind |-> "resident", size |-> Len(bytes), bytes |-> bytes]
FreeRecord == Min({r \in Mft : ~meta[r].in_use})

\* A new file takes the first free record, with a short name beside its own.
\* The disk may write the sectors of the record in any order: power lost in
\* between leaves the old names over the new data.
NtfsCreate ==
  /\ Doing("ntfs") /\ \E r \in Mft : ~meta[r].in_use
  /\ \E x \in Names \ Born, d \in LiveDirs, hand \in Hands, inside, cut \in BOOLEAN :
       LET n    == BlocksIn(x)
           bl   == IF inside THEN <<>> ELSE Allocate(hand, n)
           all  == IF bl = <<>> THEN <<>> ELSE Layout(x, bl)
           r    == FreeRecord
           data == IF x \in Dirs THEN NoData
                   ELSE IF inside THEN Resident(Content(x)) ELSE Runs(Size[x], all)
           new  == [in_use |-> TRUE, dir |-> x \in Dirs, torn |-> FALSE, data |-> data,
                    names |-> <<FileName("SHORT", RecordOf(d), Dos, 5),
                                FileName(x, RecordOf(d), Posix, 1)>>]
       IN  /\ inside => BlocksIn(x) <= 1
           /\ x \in Dirs => inside
           /\ ~inside => bl # <<>>
           /\ inside => hand = Min(Hands)
           /\ disk' = IF inside THEN disk ELSE Filled(x, all)
           /\ IF cut THEN /\ meta' = [meta EXCEPT ![r].data = data, ![r].torn = TRUE]
                          /\ ops + 1 = MaxOps /\ UNCHANGED <<lives, alive>>
              ELSE /\ meta' = [meta EXCEPT ![r] = new]
                   /\ lives' = [lives EXCEPT ![x] = [key |-> r, path |-> Append(PathOf(d), x),
                                                      blocks |-> all, since |-> Now]]
                   /\ alive' = alive \cup {x}
  /\ LifeOnly

\* Deleting clears one flag; the Linux driver drops the names as well.
NtfsDelete ==
  /\ Doing("ntfs")
  /\ \E x \in alive, strip \in BOOLEAN :
       /\ \A y \in alive : x \notin ToSet(Front(lives[y].path))    \* a folder: when empty
       /\ meta' = [meta EXCEPT ![lives[x].key].in_use = FALSE,
                               ![lives[x].key].names = IF strip THEN <<>> ELSE @]
       /\ alive' = alive \ {x}
  /\ UNCHANGED <<disk, lives>> /\ LifeOnly

(* ------------------------------ The recovery --------------------------- *)

\* read_record: a record whose fixups do not match is not trusted.
ReadRecord_torn(r) == r \in Mft
ReadRecord(r) == r \in Mft /\ ~meta[r].torn

\* parse_record: a Win32 name before a short one, then the longest.
Better(best, f) ==
  IF best = {} THEN {f}
  ELSE LET b == CHOOSE x \in best : TRUE
       IN  IF f.namespace # Dos /\ (b.namespace = Dos \/ f.len > b.len) THEN {f} ELSE best
BestName(rec) == FoldLeft(Better, {}, rec.names)

DecodeRun(acc, run) ==
  IF run.sparse THEN [acc EXCEPT !.runs = Append(@, [at |-> 0, n |-> run.n])]
  ELSE [prev |-> acc.prev + run.delta,
        runs |-> Append(acc.runs, [at |-> acc.prev + run.delta, n |-> run.n])]
DecodeDataRuns(list) == FoldLeft(DecodeRun, [prev |-> 0, runs |-> <<>>], list).runs

\* write_file, run by run, to the first that cannot be read in full.
CopyRun(acc, run) ==
  LET take == Min({run.n, acc.left})
      got  == ReadRun(run.at, take)
  IN  IF acc.stopped \/ acc.left = 0 THEN acc
      ELSE [out |-> acc.out \o got, left |-> acc.left - take, stopped |-> Len(got) < take]
NtfsData(data) ==
  IF data.kind = "resident" THEN data.bytes
  ELSE FoldLeft(CopyRun, [out |-> <<>>, left |-> data.size, stopped |-> FALSE],
                DecodeDataRuns(data.list)).out

NtfsRecover == Started("ntfs", [step |-> "record", at |-> 0])

NextRecord(r) == [step |-> "record", at |-> r + 1]
\* The next record of the MFT: passed over, or one to place.
NtfsRecord ==
  /\ Reading("ntfs", "record") /\ w.at \in Mft
  /\ LET rec  == meta[w.at]
         best == BestName(rec)
     IN  IF ~ReadRecord(w.at) \/ rec.in_use \/ rec.dir \/ rec.data.kind = "none"
              \/ (best = {} /\ rec.data.size = 0)
              \/ (best # {} /\ \E b \in best : b.name \notin wanted)
           THEN Walking(NextRecord(w.at))
         ELSE IF best = {}
           THEN Walking([step |-> "write", at |-> w.at, path |-> <<"_unnamed", "mft">>])
         ELSE LET b == CHOOSE x \in best : TRUE
              IN  Walking([step |-> "climb", at |-> w.at, path |-> <<b.name>>,
                           current |-> b.parent, seen |-> {}])

\* resolve_path, one parent record at a time.  A reference's sequence number
\* is not compared: the record may be another file's by now.
Climbs == w.current # 0 /\ w.current \notin w.seen /\ Cardinality(w.seen) < MaxPathDepth
NtfsClimb ==
  /\ Reading("ntfs", "climb")
  /\ LET best == IF Climbs /\ ReadRecord(w.current) THEN BestName(meta[w.current]) ELSE {}
     IN  IF best = {} THEN Walking([step |-> "write", at |-> w.at, path |-> w.path])
         ELSE LET b == CHOOSE x \in best : TRUE
              IN  Walking([w EXCEPT !.path = <<b.name>> \o @, !.current = b.parent,
                                    !.seen = @ \cup {w.current}])

\* A nameless file gets a name from its content, and a filter on names is
\* applied to that: the file just written is removed again.
NtfsWrite ==
  /\ Reading("ntfs", "write") /\ w' = NextRecord(w.at)
  /\ LET data == meta[w.at].data
         out  == NtfsData(data)
     IN  IF w.path[1] = "_unnamed" /\ ~dry_run /\ wanted # Files /\ out # <<>>
           THEN UNCHANGED <<reports, faults>>
         ELSE Deliver(w.at, w.path, data.size, out, out # <<>> \/ data.size = 0)
  /\ UNCHANGED <<volume, pc, options>>

NtfsEnd == Reading("ntfs", "record") /\ w.at \notin Mft /\ Stop

NtfsLife == NtfsFormat \/ NtfsCreate \/ NtfsDelete
NtfsStep == NtfsRecord \/ NtfsClimb \/ NtfsWrite \/ NtfsEnd

(* ------------------------------ Correctness ---------------------------- *)

\* The record of x is still x's: nameless, perhaps, but then nothing else's.
NtfsSurvives(x) ==
  LET r == lives[x].key
  IN  ~meta[r].torn /\ \A y \in Born : lives[y].key = r => lives[y].since <= lives[x].since
\* Its folders' records still say where it was.
Holds(x) == /\ ~meta[lives[x].key].torn
            /\ \E i \in DOMAIN meta[lives[x].key].names : meta[lives[x].key].names[i].name = x
NtfsPathSurvives(x) == \A y \in ToSet(lives[x].path) : Holds(y)
=============================================================================
