------------------------- MODULE JobRegistryProofs -------------------------
(***************************************************************************)
(* Proofs about JobRegistry, for every number of jobs, chunks and output   *)
(* directories: its types, that a reply marked done carries the stored     *)
(* result and is final, that a job cut short says so, and that a cancel is *)
(* heeded at the next chunk.  The per-job invariants are stated of the     *)
(* records a job has in the registry and in its worker, so that a step of  *)
(* one job is checked against its own records only.                        *)
(***************************************************************************)
EXTENDS JobRegistry, SetFacts

-----------------------------------------------------------------------------
(* The inductive invariant.                                                *)

Progress == [kind : Kinds, total : {0, Chunks}, scanned : 0 .. Chunks, done : BOOLEAN,
             cancel : BOOLEAN, result : Results]
Worker == [at : Places, path : Paths \cup {None}, place : 0 .. Chunks, moved : BOOLEAN,
           stopped : BOOLEAN, last : BOOLEAN, file : Inodes \cup {None}, answer : Results]
Reply == [done : BOOLEAN, result : Results]

\* What the place of a worker says of its records: only a scan has a
\* checkpoint to write, a chunk is one of the source's, a file being filled is
\* open, and at most one chunk was done since a cancel.
JobTyped(j, w, r, l) ==
  /\ j \in Progress /\ w \in Worker /\ r \in Reply /\ l \in 0 .. 1
  /\ j.kind = "scan" => w.path \in Paths
  /\ w.at \in {"create", "fill", "rename"} => j.kind = "scan"
  /\ w.at = "chunk" => w.place < Chunks
  /\ w.at = "fill" => w.file \in Inodes
  /\ l = 1 => j.cancel /\ w.at # "chunk"

\* The way of a result: the worker has it, then the registry, then the done
\* flag says so, then a client may have seen it; and what it says of a cancel.
JobSound(j, w, r) ==
  /\ w.at \notin {"flag", "exited"} => j.result = NoResult
  /\ w.at \in {"flag", "exited"} => j.result = w.answer
  /\ j.done => w.at = "exited"
  /\ w.at \in {"store", "flag", "exited"} => w.answer.status # "none"
  /\ w.stopped => j.cancel
  /\ w.answer.status = "ok" /\ ~ w.answer.complete => w.answer.cancelled
  /\ j.kind = "image" /\ w.answer.cancelled => ~ w.answer.complete
  /\ r.done => j.done /\ r.result = j.result

JobInv(id) == /\ JobTyped(jobs[id], worker[id], reply[id], late[id])
              /\ JobSound(jobs[id], worker[id], reply[id])

FilesInv ==
  /\ tmp \in [Paths -> Inodes \cup {None}] /\ ckpt \in [Paths -> Inodes \cup {None}]
  /\ pending \in [Inodes -> SUBSET Ids]

\* Half-way through a status call: a done flag that was read stays set, and no
\* client saw a result that the server then missed.
ServerInv ==
  \/ server.at = "idle"
  \/ /\ server.at = "result" /\ server.id \in Started /\ server.done \in BOOLEAN
     /\ server.done => jobs[server.id].done
     /\ reply[server.id].done => server.done

\* The registry's tables have one entry for each id handed out.
Tables ==
  /\ next \in 1 .. MaxJobs + 1 /\ DOMAIN jobs = 1 .. next - 1
  /\ jobs = [id \in Started |-> jobs[id]]
  /\ worker = [id \in Started |-> worker[id]]
  /\ reply = [id \in Started |-> reply[id]]
  /\ late = [id \in Started |-> late[id]]

Inv == /\ Tables /\ FilesInv /\ ServerInv /\ alive \in BOOLEAN
       /\ \A id \in Started : JobInv(id)

\* Ids are numbers, and there are no more started jobs than ids.
LEMMA StartedIds ==
  ASSUME Tables
  PROVE  /\ Started \subseteq Ids /\ next \notin Started /\ next \in Nat
         /\ IsFiniteSet(Started) /\ Cardinality(Started) <= MaxJobs
<1>1. MaxJobs \in Nat /\ next \in 1 .. MaxJobs + 1 /\ Started = 1 .. next - 1
  BY BoundAssumption DEF Tables, Started
<1>2. IsFiniteSet(1 .. next - 1) /\ Cardinality(1 .. next - 1) <= MaxJobs
  BY <1>1, FS_Interval
<1> QED
  BY <1>1, <1>2 DEF Ids

\* write_checkpoint finds an inode for a new temp file: fewer are in use than
\* the model has.
LEMMA FreshInode ==
  ASSUME Tables, FilesInv, NEW p \in Paths, tmp[p] = None
  PROVE  (CHOOSE i \in Inodes : i \notin Used) \in Inodes
<1> DEFINE A == {tmp[q] : q \in Paths \ {p}}
           B == {ckpt[q] : q \in Paths}
           C == {worker[i].file : i \in Started}
           f == [i \in Started |-> worker[i].file]
<1>1. /\ IsFiniteSet(Paths) /\ Cardinality(Paths) \in Nat /\ IsFiniteSet(Paths \ {p})
      /\ Cardinality(Paths \ {p}) = Cardinality(Paths) - 1
  BY PathAssumption, FS_RemoveElement, FS_CardinalityType
<1>2. IsFiniteSet(Started) /\ Cardinality(Started) <= MaxJobs /\ MaxJobs \in Nat
      /\ Cardinality(Started) \in Nat
  BY StartedIds, BoundAssumption, FS_CardinalityType
<1>3. IsFiniteSet(A) /\ Cardinality(A) <= Cardinality(Paths) - 1
  BY <1>1, RangeSize
<1>4. IsFiniteSet(B) /\ Cardinality(B) <= Cardinality(Paths)
  BY <1>1, RangeSize
<1>5. IsFiniteSet(C) /\ Cardinality(C) <= MaxJobs
  <2>1. C = {f[i] : i \in Started}
    OBVIOUS
  <2>2. IsFiniteSet({f[i] : i \in Started})
        /\ Cardinality({f[i] : i \in Started}) <= Cardinality(Started)
    BY <1>2, RangeSize
  <2> HIDE DEF f
  <2>3. Cardinality({f[i] : i \in Started}) <= MaxJobs
    <3>1. Cardinality({f[i] : i \in Started}) \in Nat
      BY <2>2, FS_CardinalityType
    <3> QED
      BY <1>2, <2>2, <3>1
  <2> QED
    BY <2>1, <2>2, <2>3
<1>6. Used \subseteq (A \cup (B \cup C)) \cup {None}
  BY DEF Used
<1> HIDE DEF A, B, C
<1>7. /\ Cardinality(A) \in Nat /\ Cardinality(B) \in Nat /\ Cardinality(C) \in Nat
      /\ IsFiniteSet(B \cup C) /\ Cardinality(B \cup C) <= Cardinality(B) + Cardinality(C)
  BY <1>3, <1>4, <1>5, UnionSize, FS_CardinalityType
<1>8. /\ Cardinality(B \cup C) \in Nat /\ IsFiniteSet(A \cup (B \cup C))
      /\ Cardinality(A \cup (B \cup C)) <= Cardinality(A) + Cardinality(B \cup C)
  BY <1>3, <1>7, UnionSize, FS_CardinalityType
<1>9. Cardinality(A \cup (B \cup C)) \in Nat
  BY <1>8, FS_CardinalityType
<1>10. IsFiniteSet(Inodes) /\ Cardinality(Inodes) = 2 * Cardinality(Paths) + MaxJobs
  <2>1. 2 * Cardinality(Paths) + MaxJobs \in Nat
    BY <1>1, <1>2
  <2> QED
    BY <2>1, FS_Interval DEF Inodes
<1>11. Cardinality(A \cup (B \cup C)) < Cardinality(Inodes)
  BY <1>1, <1>2, <1>3, <1>4, <1>5, <1>7, <1>8, <1>9, <1>10
<1>12. \E i \in Inodes : i \notin A \cup (B \cup C)
  BY <1>8, <1>10, <1>11, SomeLeftOut
<1> QED
  BY <1>6, <1>12, NoneAssumption

-----------------------------------------------------------------------------
(* One step of one job.                                                    *)

\* A step that rewrites the records of one job keeps the invariant if the new
\* records agree with each other and the done flag is not taken back.
LEMMA OneJob ==
  ASSUME Inv, NEW id \in Started, NEW j, NEW w, NEW l,
         jobs' = [jobs EXCEPT ![id] = j], worker' = [worker EXCEPT ![id] = w],
         late' = [late EXCEPT ![id] = l], UNCHANGED <<next, server, reply, alive>>,
         JobTyped(j, w, reply[id], l), JobSound(j, w, reply[id]),
         jobs[id].done => j.done, FilesInv'
  PROVE  Inv'
<1>1. Tables /\ Started = DOMAIN jobs /\ DOMAIN worker = Started /\ DOMAIN late = Started
  BY DEF Inv, Tables, Started
<1>2. Started' = Started /\ Tables'
  BY <1>1 DEF Tables, Started
<1>3. jobs'[id] = j /\ worker'[id] = w /\ late'[id] = l
  BY <1>1
<1>4. \A i \in Started \ {id} :
        jobs'[i] = jobs[i] /\ worker'[i] = worker[i] /\ late'[i] = late[i]
  BY <1>1
<1>5. \A i \in Started : JobInv(i)'
  BY <1>3, <1>4 DEF Inv, JobInv
<1>6. \A i \in Started : jobs[i].done => jobs'[i].done
  BY <1>3, <1>4
<1>7. ServerInv'
  BY <1>2, <1>6 DEF Inv, ServerInv
<1> QED
  BY <1>2, <1>5, <1>7 DEF Inv

\* A record of a table that a step leaves alone.
LEMMA Same ==
  ASSUME Tables, NEW id \in Started
  PROVE  /\ jobs = [jobs EXCEPT ![id] = jobs[id]]
         /\ worker = [worker EXCEPT ![id] = worker[id]]
         /\ late = [late EXCEPT ![id] = late[id]]
         /\ id \in DOMAIN jobs /\ id \in DOMAIN worker /\ id \in DOMAIN late
BY DEF Tables, Started

\* The records of a started job are as the invariant says.
LEMMA Records ==
  ASSUME Inv, NEW id \in Started
  PROVE  /\ JobInv(id) /\ Tables /\ FilesInv /\ Chunks \in Nat
         /\ jobs[id] \in Progress /\ worker[id] \in Worker /\ late[id] \in 0 .. 1
BY BoundAssumption DEF Inv, JobInv, JobTyped

\* From the start of the thread to the check before a chunk.
LEMMA WorkerBegins ==
  ASSUME Inv, NEW id \in Started, OpenFails(id) \/ ChunkFails(id) \/ Begin(id)
  PROVE  Inv'
<1> USE DEF Stands, Go, shared, fs
<1>1. /\ JobInv(id) /\ Tables /\ FilesInv /\ Chunks \in Nat
      /\ jobs[id] \in Progress /\ worker[id] \in Worker /\ late[id] \in 0 .. 1
  BY Records
<1>2. CASE OpenFails(id) \/ ChunkFails(id)
  <2> DEFINE w == [worker[id] EXCEPT !.at = "store", !.answer = Error]
  <2>1. /\ worker' = [worker EXCEPT ![id] = w] /\ worker[id].at \in {"spawned", "chunk"}
        /\ UNCHANGED <<shared, server, reply, alive, fs, late>>
    BY <1>1, <1>2, Same DEF OpenFails, ChunkFails, Fail
  <2>2. /\ w \in Worker /\ w.at = "store" /\ w.answer = Error
        /\ w.path = worker[id].path /\ w.stopped = worker[id].stopped
    BY <1>1 DEF Worker, Places, Error, Results
  <2> HIDE DEF w
  <2>3. JobTyped(jobs[id], w, reply[id], late[id])
    BY <1>1, <2>2 DEF JobInv, JobTyped
  <2>4. JobSound(jobs[id], w, reply[id])
    BY <1>1, <2>1, <2>2 DEF JobInv, JobSound, Error
  <2>5. FilesInv'
    BY <1>1, <2>1 DEF FilesInv
  <2> QED
    BY <1>1, <2>1, <2>3, <2>4, <2>5, Same, OneJob
<1>3. CASE Begin(id)
  <2> DEFINE n == IF IsScan(id) THEN worker[id].place ELSE 0
             j == [jobs[id] EXCEPT !.total = Chunks, !.scanned = n]
             w == [worker[id] EXCEPT !.at = "check"]
  <2>1. /\ jobs' = [jobs EXCEPT ![id] = j] /\ worker' = [worker EXCEPT ![id] = w]
        /\ worker[id].at = "spawned"
        /\ UNCHANGED <<next, server, reply, alive, fs, late>>
    BY <1>1, <1>3, Same DEF Begin
  <2>2. n \in 0 .. Chunks
    BY <1>1 DEF Worker
  <2> HIDE DEF n
  <2>3. /\ j \in Progress /\ w \in Worker /\ w.at = "check" /\ w.answer = worker[id].answer
        /\ w.path = worker[id].path /\ w.stopped = worker[id].stopped
        /\ j.kind = jobs[id].kind /\ j.cancel = jobs[id].cancel
        /\ j.done = jobs[id].done /\ j.result = jobs[id].result
    BY <1>1, <2>2 DEF Progress, Worker, Places
  <2> HIDE DEF j, w
  <2>4. JobTyped(j, w, reply[id], late[id])
    BY <1>1, <2>3 DEF JobInv, JobTyped
  <2>5. JobSound(j, w, reply[id])
    <3>1. JobSound(jobs[id], worker[id], reply[id])
      BY <1>1 DEF JobInv
    <3>2. jobs[id].result = NoResult /\ ~jobs[id].done
      BY <2>1, <3>1 DEF JobSound
    <3>3. ~reply[id].done
      BY <3>1, <3>2 DEF JobSound
    <3>4. /\ w.stopped => j.cancel
          /\ w.answer.status = "ok" /\ ~ w.answer.complete => w.answer.cancelled
          /\ j.kind = "image" /\ w.answer.cancelled => ~ w.answer.complete
      BY <2>3, <3>1 DEF JobSound
    <3> QED BY <2>3, <3>2, <3>3, <3>4 DEF JobSound
  <2>6. FilesInv'
    BY <1>1, <2>1 DEF FilesInv
  <2>7. /\ late' = [late EXCEPT ![id] = late[id]]
        /\ UNCHANGED <<next, server, reply, alive>>
    BY <1>1, <2>1, Same
  <2>8. jobs[id].done => j.done
    BY <2>3
  <2> QED
    BY <2>1, <2>4, <2>5, <2>6, <2>7, <2>8, OneJob
<1> QED
  BY <1>2, <1>3

\* The loop: a chunk is begun only if no cancel was seen, and done once begun.
LEMMA WorkerLoops ==
  ASSUME Inv, NEW id \in Started, CheckAndGo(id) \/ Panic(id) \/ DoChunk(id)
  PROVE  Inv'
<1> USE DEF Stands, Go, shared, fs
<1>1. /\ JobInv(id) /\ Tables /\ FilesInv /\ Chunks \in Nat
      /\ jobs[id] \in Progress /\ worker[id] \in Worker /\ late[id] \in 0 .. 1
  BY Records
<1>2. CASE CheckAndGo(id) \/ Panic(id)
  <2> DEFINE v(p) == [worker[id] EXCEPT !.at = p]
  <2>1. PICK p \in {"chunk", "panicked"} :
          /\ worker' = [worker EXCEPT ![id] = v(p)] /\ worker[id].at = "check"
          /\ ~ jobs[id].cancel /\ (p = "chunk" => worker[id].place < Chunks)
          /\ UNCHANGED <<shared, server, reply, alive, fs, late>>
    BY <1>1, <1>2, Same DEF CheckAndGo, Panic
  <2> DEFINE w == v(p)
  <2>2. /\ w \in Worker /\ w.at = p /\ w.answer = worker[id].answer
        /\ w.path = worker[id].path /\ w.stopped = worker[id].stopped
        /\ w.place = worker[id].place
    BY <1>1 DEF Worker, Places
  <2> HIDE DEF w
  <2>3. JobTyped(jobs[id], w, reply[id], late[id])
    BY <1>1, <2>1, <2>2 DEF JobInv, JobTyped
  <2>4. JobSound(jobs[id], w, reply[id])
    BY <1>1, <2>1, <2>2 DEF JobInv, JobSound
  <2>5. FilesInv'
    BY <1>1, <2>1 DEF FilesInv
  <2>6. worker' = [worker EXCEPT ![id] = w]
    BY <2>1 DEF w
  <2> QED
    BY <1>1, <2>1, <2>3, <2>4, <2>5, <2>6, Same, OneJob
<1>3. CASE DoChunk(id)
  <2> DEFINE to == IF IsScan(id) THEN "create" ELSE "check"
             j == [jobs[id] EXCEPT !.scanned = worker[id].place + 1]
             w == [worker[id] EXCEPT !.place = @ + 1, !.moved = TRUE, !.at = to]
             l == IF jobs[id].cancel THEN late[id] + 1 ELSE late[id]
  <2>1. /\ jobs' = [jobs EXCEPT ![id] = j] /\ worker[id].at = "chunk"
        /\ UNCHANGED <<next, server, reply, alive, fs>>
    BY <1>1, <1>3, Same DEF DoChunk
  <2>2. late' = [late EXCEPT ![id] = l]
    BY <1>1, <1>3, Same DEF DoChunk
  <2>3. worker' = [worker EXCEPT ![id] = w]
    BY <1>1, <1>3, Same DEF DoChunk
  <2>4. worker[id].place + 1 \in 0 .. Chunks /\ late[id] = 0 /\ l \in 0 .. 1
        /\ (l = 1 => jobs[id].cancel)
    BY <1>1, <2>1 DEF JobInv, JobTyped, Worker
  <2>5. to \in {"create", "check"} /\ (to = "create" => jobs[id].kind = "scan")
    BY DEF IsScan
  <2> HIDE DEF to, l
  <2>6. /\ w \in Worker /\ w.at = to /\ w.answer = worker[id].answer
        /\ w.path = worker[id].path /\ w.stopped = worker[id].stopped
    BY <1>1, <2>4, <2>5 DEF Worker, Places
  <2>7. /\ j \in Progress /\ j.kind = jobs[id].kind /\ j.cancel = jobs[id].cancel
        /\ j.done = jobs[id].done /\ j.result = jobs[id].result
    BY <1>1, <2>4 DEF Progress
  <2> HIDE DEF j, w
  <2>8. JobTyped(j, w, reply[id], l)
    BY <1>1, <2>4, <2>5, <2>6, <2>7 DEF JobInv, JobTyped
  <2>9. JobSound(j, w, reply[id])
    BY <1>1, <2>1, <2>5, <2>6, <2>7 DEF JobInv, JobSound
  <2>10. FilesInv'
    BY <1>1, <2>1 DEF FilesInv
  <2> QED
    BY <2>1, <2>2, <2>3, <2>7, <2>8, <2>9, <2>10, OneJob
<1> QED
  BY <1>2, <1>3

\* Out of the loop, at the end or because a cancel was seen.
LEMMA WorkerLeaves ==
  ASSUME Inv, NEW id \in Started, CheckAndStop(id) \/ AllDone(id)
  PROVE  Inv'
<1> USE DEF Stands, shared, fs
<1>1. /\ JobInv(id) /\ Tables /\ FilesInv /\ Chunks \in Nat
      /\ jobs[id] \in Progress /\ worker[id] \in Worker /\ late[id] \in 0 .. 1
  BY Records
<1>2. PICK s \in BOOLEAN : FinishChunks(id, s) /\ (s => jobs[id].cancel)
                          /\ worker[id].at = "check"
  BY DEF CheckAndStop, AllDone
<1> DEFINE to == IF IsScan(id) THEN "create" ELSE "answer"
           n == IF IsScan(id) /\ ~ worker[id].moved THEN 0 ELSE worker[id].place
           j == [jobs[id] EXCEPT !.scanned = n]
           w == [worker[id] EXCEPT !.stopped = s, !.last = TRUE, !.at = to]
<1>3. /\ jobs' = [jobs EXCEPT ![id] = j]
      /\ UNCHANGED <<next, server, reply, alive, fs, late>>
  BY <1>1, <1>2, Same DEF FinishChunks
<1>4. worker' = [worker EXCEPT ![id] = w]
  BY <1>1, <1>2, Same DEF FinishChunks
<1>5. n \in 0 .. Chunks
  BY <1>1 DEF Worker
<1>6. to \in {"create", "answer"} /\ (to = "create" => jobs[id].kind = "scan")
  BY DEF IsScan
<1> HIDE DEF to, n
<1>7. /\ w \in Worker /\ w.at = to /\ w.answer = worker[id].answer
      /\ w.path = worker[id].path /\ w.stopped = s
  BY <1>1, <1>6 DEF Worker, Places
<1>8. /\ j \in Progress /\ j.kind = jobs[id].kind /\ j.cancel = jobs[id].cancel
      /\ j.done = jobs[id].done /\ j.result = jobs[id].result
  BY <1>1, <1>5 DEF Progress
<1> HIDE DEF j, w
<1>9. JobTyped(j, w, reply[id], late[id])
  BY <1>1, <1>6, <1>7, <1>8 DEF JobInv, JobTyped
<1>10. JobSound(j, w, reply[id])
  BY <1>1, <1>2, <1>6, <1>7, <1>8 DEF JobInv, JobSound
<1>11. FilesInv'
  BY <1>1, <1>3 DEF FilesInv
<1> QED
  BY <1>1, <1>3, <1>4, <1>8, <1>9, <1>10, <1>11, Same, OneJob

\* write_checkpoint: only a scan is here, so its path is an output directory.
LEMMA WorkerCheckpoints ==
  ASSUME Inv, NEW id \in Started,
         CreateTmp(id) \/ FillTmp(id) \/ RenameTmp(id) \/ RenameFails(id)
  PROVE  Inv'
<1> USE DEF Stands, Go, shared, fs
<1>1. /\ JobInv(id) /\ Tables /\ FilesInv /\ Chunks \in Nat
      /\ jobs[id] \in Progress /\ worker[id] \in Worker /\ late[id] \in 0 .. 1
  BY Records
<1>2. id \in Ids
  BY <1>1, StartedIds
<1>3. CASE CreateTmp(id)
  <2> DEFINE inode == IF tmp[Path(id)] # None THEN tmp[Path(id)]
                      ELSE CHOOSE i \in Inodes : i \notin Used
             w == [worker[id] EXCEPT !.file = inode, !.at = "fill"]
  <2>1. /\ worker' = [worker EXCEPT ![id].file = inode, ![id].at = "fill"]
        /\ worker[id].at = "create" /\ UNCHANGED <<shared, server, reply, alive, late>>
    BY <1>3 DEF CreateTmp
  <2>2. Path(id) \in Paths /\ jobs[id].kind = "scan"
    BY <1>1, <2>1 DEF JobInv, JobTyped, Path
  <2>3. inode \in Inodes
    BY <1>1, <2>2, FreshInode DEF FilesInv
  <2>4. /\ tmp' = [tmp EXCEPT ![Path(id)] = inode] /\ ckpt' = ckpt
        /\ pending' = [pending EXCEPT ![inode] =
                         IF tmp[Path(id)] = None THEN {id} ELSE @ \cup {id}]
    BY <1>3 DEF CreateTmp
  <2> HIDE DEF inode
  <2>5. FilesInv'
    BY <1>1, <1>2, <2>3, <2>4 DEF FilesInv
  <2>6. /\ w \in Worker /\ w.at = "fill" /\ w.answer = worker[id].answer
        /\ w.path = worker[id].path /\ w.stopped = worker[id].stopped /\ w.file = inode
    BY <1>1, <2>3 DEF Worker, Places
  <2>9. worker' = [worker EXCEPT ![id] = w]
    BY <1>1, <2>1, Same
  <2> HIDE DEF w
  <2>7. JobTyped(jobs[id], w, reply[id], late[id])
    BY <1>1, <2>2, <2>3, <2>6 DEF JobInv, JobTyped
  <2>8. JobSound(jobs[id], w, reply[id])
    BY <1>1, <2>1, <2>6 DEF JobInv, JobSound
  <2> QED
    BY <1>1, <2>1, <2>5, <2>7, <2>8, <2>9, Same, OneJob
<1>4. CASE FillTmp(id)
  <2> DEFINE w == [worker[id] EXCEPT !.file = None, !.at = "rename"]
  <2>1. /\ worker' = [worker EXCEPT ![id] = w] /\ worker[id].at = "fill"
        /\ UNCHANGED <<shared, server, reply, alive, tmp, ckpt, late>>
    BY <1>1, <1>4, Same DEF FillTmp
  <2>2. jobs[id].kind = "scan" /\ worker[id].file \in Inodes
    BY <1>1, <2>1 DEF JobInv, JobTyped
  <2>3. FilesInv'
    BY <1>1, <1>4, <2>1, <2>2 DEF FilesInv, FillTmp
  <2>4. /\ w \in Worker /\ w.at = "rename" /\ w.answer = worker[id].answer
        /\ w.path = worker[id].path /\ w.stopped = worker[id].stopped
    BY <1>1 DEF Worker, Places
  <2> HIDE DEF w
  <2>5. JobTyped(jobs[id], w, reply[id], late[id])
    BY <1>1, <2>2, <2>4 DEF JobInv, JobTyped
  <2>6. JobSound(jobs[id], w, reply[id])
    BY <1>1, <2>1, <2>4 DEF JobInv, JobSound
  <2> QED
    BY <1>1, <2>1, <2>3, <2>5, <2>6, Same, OneJob
<1>5. CASE RenameTmp(id)
  <2> DEFINE to == IF worker[id].last THEN "answer" ELSE "check"
             w == [worker[id] EXCEPT !.at = to]
  <2>1. /\ worker' = [worker EXCEPT ![id] = w] /\ worker[id].at = "rename"
        /\ UNCHANGED <<shared, server, reply, alive, pending, late>>
    BY <1>1, <1>5, Same DEF RenameTmp
  <2>2. FilesInv'
    BY <1>1, <1>5, <2>1 DEF FilesInv, RenameTmp, JobInv, JobTyped, Path
  <2>3. to \in {"answer", "check"}
    OBVIOUS
  <2> HIDE DEF to
  <2>4. /\ w \in Worker /\ w.at = to /\ w.answer = worker[id].answer
        /\ w.path = worker[id].path /\ w.stopped = worker[id].stopped
    BY <1>1, <2>3 DEF Worker, Places
  <2> HIDE DEF w
  <2>5. JobTyped(jobs[id], w, reply[id], late[id])
    BY <1>1, <2>3, <2>4 DEF JobInv, JobTyped
  <2>6. JobSound(jobs[id], w, reply[id])
    BY <1>1, <2>1, <2>3, <2>4 DEF JobInv, JobSound
  <2> QED
    BY <1>1, <2>1, <2>2, <2>5, <2>6, Same, OneJob
<1>6. CASE RenameFails(id)
  <2> DEFINE w == [worker[id] EXCEPT !.at = "store", !.answer = Error]
  <2>1. /\ worker' = [worker EXCEPT ![id] = w] /\ worker[id].at = "rename"
        /\ UNCHANGED <<shared, server, reply, alive, fs, late>>
    BY <1>1, <1>6, Same DEF RenameFails, Fail
  <2>2. /\ w \in Worker /\ w.at = "store" /\ w.answer = Error
        /\ w.path = worker[id].path /\ w.stopped = worker[id].stopped
    BY <1>1 DEF Worker, Places, Error, Results
  <2> HIDE DEF w
  <2>3. JobTyped(jobs[id], w, reply[id], late[id])
    BY <1>1, <2>2 DEF JobInv, JobTyped
  <2>4. JobSound(jobs[id], w, reply[id])
    BY <1>1, <2>1, <2>2 DEF JobInv, JobSound, Error
  <2>5. FilesInv'
    BY <1>1, <2>1 DEF FilesInv
  <2> QED
    BY <1>1, <2>1, <2>3, <2>4, <2>5, Same, OneJob
<1> QED
  BY <1>3, <1>4, <1>5, <1>6

\* The end of the closure, and what job::start's thread does with its result.
LEMMA WorkerAnswers ==
  ASSUME Inv, NEW id \in Started, Answer(id) \/ StoreResult(id) \/ StoreDone(id)
  PROVE  Inv'
<1> USE DEF Stands, Go, shared, fs
<1>1. /\ JobInv(id) /\ Tables /\ FilesInv /\ Chunks \in Nat
      /\ jobs[id] \in Progress /\ worker[id] \in Worker /\ late[id] \in 0 .. 1
  BY Records
<1>2. CASE Answer(id)
  <2> DEFINE c == IF IsScan(id) THEN jobs[id].cancel ELSE worker[id].stopped
             r == [status |-> "ok", cancelled |-> c, complete |-> ~ worker[id].stopped]
             w == [worker[id] EXCEPT !.at = "store", !.answer = r]
  <2>1. /\ worker' = [worker EXCEPT ![id] = w] /\ worker[id].at = "answer"
        /\ UNCHANGED <<shared, server, reply, alive, fs, late>>
    BY <1>1, <1>2, Same DEF Answer
  <2>2. /\ c \in BOOLEAN /\ (worker[id].stopped => c) /\ worker[id].stopped \in BOOLEAN
        /\ (jobs[id].kind = "image" => c = worker[id].stopped)
    BY <1>1 DEF IsScan, Progress, Worker, JobInv, JobSound
  <2> HIDE DEF c
  <2>3. /\ r \in Results /\ r.status = "ok" /\ (~ r.complete => r.cancelled)
        /\ (jobs[id].kind = "image" /\ r.cancelled => ~ r.complete)
    BY <2>2 DEF Results
  <2> HIDE DEF r
  <2>4. /\ w \in Worker /\ w.at = "store" /\ w.answer = r
        /\ w.path = worker[id].path /\ w.stopped = worker[id].stopped
    BY <1>1, <2>3 DEF Worker, Places
  <2> HIDE DEF w
  <2>5. JobTyped(jobs[id], w, reply[id], late[id])
    BY <1>1, <2>4 DEF JobInv, JobTyped
  <2>6. JobSound(jobs[id], w, reply[id])
    BY <1>1, <2>1, <2>3, <2>4 DEF JobInv, JobSound
  <2>7. FilesInv'
    BY <1>1, <2>1 DEF FilesInv
  <2> QED
    BY <1>1, <2>1, <2>5, <2>6, <2>7, Same, OneJob
<1>3. CASE StoreResult(id)
  <2> DEFINE j == [jobs[id] EXCEPT !.result = worker[id].answer]
             w == [worker[id] EXCEPT !.at = "flag"]
  <2>1. /\ worker' = [worker EXCEPT ![id] = w] /\ jobs' = [jobs EXCEPT ![id] = j]
        /\ worker[id].at = "store" /\ UNCHANGED <<next, server, reply, alive, fs, late>>
    BY <1>1, <1>3, Same DEF StoreResult
  <2>2. /\ w \in Worker /\ w.at = "flag" /\ w.answer = worker[id].answer
        /\ w.path = worker[id].path /\ w.stopped = worker[id].stopped
    BY <1>1 DEF Worker, Places
  <2>3. /\ j \in Progress /\ j.kind = jobs[id].kind /\ j.cancel = jobs[id].cancel
        /\ j.done = jobs[id].done /\ j.result = worker[id].answer
    BY <1>1 DEF Progress, Worker
  <2> HIDE DEF j, w
  <2>4. JobTyped(j, w, reply[id], late[id])
    BY <1>1, <2>2, <2>3 DEF JobInv, JobTyped
  <2>5. JobSound(j, w, reply[id])
    BY <1>1, <2>1, <2>2, <2>3 DEF JobInv, JobSound
  <2>6. FilesInv'
    BY <1>1, <2>1 DEF FilesInv
  <2> QED
    BY <1>1, <2>1, <2>3, <2>4, <2>5, <2>6, Same, OneJob
<1>4. CASE StoreDone(id)
  <2> DEFINE j == [jobs[id] EXCEPT !.done = TRUE]
             w == [worker[id] EXCEPT !.at = "exited"]
  <2>1. /\ worker' = [worker EXCEPT ![id] = w] /\ jobs' = [jobs EXCEPT ![id] = j]
        /\ worker[id].at = "flag" /\ UNCHANGED <<next, server, reply, alive, fs, late>>
    BY <1>1, <1>4, Same DEF StoreDone
  <2>2. /\ w \in Worker /\ w.at = "exited" /\ w.answer = worker[id].answer
        /\ w.path = worker[id].path /\ w.stopped = worker[id].stopped
    BY <1>1 DEF Worker, Places
  <2>3. /\ j \in Progress /\ j.kind = jobs[id].kind /\ j.cancel = jobs[id].cancel
        /\ j.done = TRUE /\ j.result = jobs[id].result
    BY <1>1 DEF Progress
  <2> HIDE DEF j, w
  <2>4. JobTyped(j, w, reply[id], late[id])
    BY <1>1, <2>2, <2>3 DEF JobInv, JobTyped
  <2>5. JobSound(j, w, reply[id])
    BY <1>1, <2>1, <2>2, <2>3 DEF JobInv, JobSound
  <2>6. FilesInv'
    BY <1>1, <2>1 DEF FilesInv
  <2> QED
    BY <1>1, <2>1, <2>3, <2>4, <2>5, <2>6, Same, OneJob
<1> QED
  BY <1>2, <1>3, <1>4

\* A step of any worker thread.
LEMMA WorkerSteps ==
  ASSUME Inv, NEW id \in Started, WorkerStep(id)
  PROVE  Inv'
BY WorkerBegins, WorkerLoops, WorkerLeaves, WorkerCheckpoints, WorkerAnswers DEF WorkerStep

-----------------------------------------------------------------------------
(* The server thread.                                                      *)

\* job::start gives the next id its records; no other job notices.
LEMMA Starts ==
  ASSUME Inv, NEW kind \in Kinds, NEW path \in Outputs(kind), NEW from \in Froms,
         StartJob(kind, path, from)
  PROVE  Inv'
<1> DEFINE j == NewProgress(kind)
           w == [at |-> "spawned", path |-> path, place |-> from, moved |-> FALSE,
                 stopped |-> FALSE, last |-> FALSE, file |-> None, answer |-> NoResult]
<1>1. /\ next' = next + 1 /\ next <= MaxJobs /\ server.at = "idle"
      /\ jobs' = With(jobs, next, j) /\ worker' = With(worker, next, w)
      /\ reply' = With(reply, next, NoReply) /\ late' = With(late, next, 0)
      /\ UNCHANGED <<server, alive, fs>>
  BY DEF StartJob
<1>2. /\ Tables /\ FilesInv /\ next \notin Started /\ next \in Nat /\ MaxJobs \in Nat
      /\ next \in 1 .. MaxJobs + 1 /\ Started = 1 .. next - 1
  BY StartedIds, BoundAssumption DEF Inv, Tables, Started
<1>3. NoResult \in Results
  BY DEF NoResult, Results
<1>4. /\ j \in Progress /\ j.kind = kind /\ j.done = FALSE /\ j.cancel = FALSE
      /\ j.result = NoResult
  BY <1>3, BoundAssumption DEF NewProgress, Progress
<1>5. /\ w \in Worker /\ w.at = "spawned" /\ w.stopped = FALSE /\ w.answer = NoResult
      /\ w.path = path
  BY <1>3, BoundAssumption DEF Worker, Places, Outputs
<1>6. NoReply \in Reply /\ NoReply.done = FALSE
  BY <1>3 DEF NoReply, Reply
<1> HIDE DEF j, w
<1>7. JobTyped(j, w, NoReply, 0) /\ JobSound(j, w, NoReply)
  BY <1>4, <1>5, <1>6 DEF JobTyped, JobSound, Outputs, Kinds, NoResult
<1>8. /\ DOMAIN jobs = Started /\ DOMAIN worker = Started
      /\ DOMAIN reply = Started /\ DOMAIN late = Started
  BY <1>2 DEF Tables, Started
<1>9. /\ DOMAIN jobs' = Started \cup {next} /\ Started' = Started \cup {next}
      /\ jobs' = [id \in Started' |-> jobs'[id]]
      /\ worker' = [id \in Started' |-> worker'[id]]
      /\ reply' = [id \in Started' |-> reply'[id]]
      /\ late' = [id \in Started' |-> late'[id]]
  BY <1>1, <1>8 DEF With, Started
<1>10. Tables'
  <2>1. Started' = 1 .. next' - 1 /\ next' \in 1 .. MaxJobs + 1
    BY <1>1, <1>2, <1>9
  <2> QED
    BY <1>9, <2>1 DEF Tables, Started
<1>11. /\ jobs'[next] = j /\ worker'[next] = w /\ reply'[next] = NoReply /\ late'[next] = 0
       /\ \A id \in Started : /\ jobs'[id] = jobs[id] /\ worker'[id] = worker[id]
                              /\ reply'[id] = reply[id] /\ late'[id] = late[id]
  BY <1>1, <1>2, <1>8 DEF With
<1>12. \A id \in Started' : JobInv(id)'
  BY <1>7, <1>9, <1>11 DEF Inv, JobInv
<1>13. FilesInv' /\ ServerInv'
  BY <1>1, <1>2 DEF FilesInv, ServerInv, fs
<1> QED
  BY <1>1, <1>10, <1>12, <1>13 DEF Inv

\* job::cancel sets a flag that nothing clears.
LEMMA Cancels ==
  ASSUME Inv, NEW id \in Started, Cancel(id)
  PROVE  Inv'
<1> DEFINE j == [jobs[id] EXCEPT !.cancel = TRUE]
<1>1. /\ JobInv(id) /\ Tables /\ FilesInv /\ jobs[id] \in Progress
  BY Records
<1>2. jobs' = [jobs EXCEPT ![id] = j] /\ UNCHANGED <<next, worker, server, reply, alive, fs, late>>
  BY <1>1, Same DEF Cancel
<1>3. /\ j \in Progress /\ j.kind = jobs[id].kind /\ j.cancel = TRUE
      /\ j.done = jobs[id].done /\ j.result = jobs[id].result
  BY <1>1 DEF Progress
<1> HIDE DEF j
<1>4. JobTyped(j, worker[id], reply[id], late[id]) /\ JobSound(j, worker[id], reply[id])
  BY <1>1, <1>3 DEF JobInv, JobTyped, JobSound
<1>5. FilesInv'
  BY <1>1, <1>2 DEF FilesInv, fs
<1> QED
  BY <1>1, <1>2, <1>3, <1>4, <1>5, Same, OneJob

\* job::status reads the flag first, so a result it then reads is complete.
LEMMA Polls ==
  ASSUME Inv, (\E id \in Started : StatusDone(id)) \/ StatusResult
  PROVE  Inv'
<1>1. UNCHANGED <<shared, worker, alive, fs, late>>
  BY DEF StatusDone, StatusResult
<1>2. /\ Started' = Started /\ FilesInv'
      /\ \A i \in Started : jobs'[i] = jobs[i] /\ worker'[i] = worker[i] /\ late'[i] = late[i]
  BY <1>1 DEF Inv, FilesInv, Started, shared, fs
<1>3. CASE \E id \in Started : StatusDone(id)
  <2>1. PICK id \in Started : StatusDone(id)
    BY <1>3
  <2>2. reply' = reply /\ server' = [at |-> "result", id |-> id, done |-> jobs[id].done]
    BY <2>1 DEF StatusDone
  <2>3. JobInv(id) /\ jobs[id] \in Progress
    BY Records
  <2>4. ServerInv'
    BY <1>2, <2>2, <2>3 DEF ServerInv, JobInv, JobSound, Progress
  <2>5. \A i \in Started' : JobInv(i)'
    BY <1>2, <2>2 DEF Inv, JobInv
  <2>6. Tables'
    BY <1>1, <1>2, <2>2 DEF Inv, Tables, shared
  <2> QED
    BY <1>1, <1>2, <2>4, <2>5, <2>6 DEF Inv
<1>4. CASE StatusResult
  <2> DEFINE r == [done |-> server.done,
                   result |-> IF server.done THEN jobs[server.id].result ELSE NoResult]
  <2>1. /\ server.at = "result" /\ server' = [at |-> "idle"]
        /\ reply' = [reply EXCEPT ![server.id] = r]
    BY <1>4 DEF StatusResult
  <2>2. /\ server.id \in Started /\ server.done \in BOOLEAN
        /\ server.done => jobs[server.id].done
    BY <2>1 DEF Inv, ServerInv
  <2>3. JobInv(server.id) /\ Tables /\ jobs[server.id] \in Progress
    BY <2>2, Records
  <2>4. r \in Reply /\ (r.done => jobs[server.id].done /\ r.result = jobs[server.id].result)
    BY <2>2, <2>3 DEF Reply, Progress, NoResult, Results
  <2> HIDE DEF r
  <2>5. /\ reply'[server.id] = r /\ \A i \in Started \ {server.id} : reply'[i] = reply[i]
        /\ reply' = [i \in Started |-> reply'[i]]
    BY <2>1, <2>2, <2>3 DEF Tables
  <2>6. \A i \in Started : JobInv(i)'
    BY <1>2, <2>3, <2>4, <2>5 DEF Inv, JobInv, JobTyped, JobSound
  <2>7. Tables'
    BY <1>1, <1>2, <2>5 DEF Inv, Tables, shared
  <2>8. ServerInv'
    BY <2>1 DEF ServerInv
  <2> QED
    BY <1>1, <1>2, <2>6, <2>7, <2>8 DEF Inv
<1> QED
  BY <1>3, <1>4

\* With no job the tables are empty: at the start, and after the process ended.
LEMMA NoJobs ==
  ASSUME next = 1, jobs = <<>>, worker = <<>>, reply = <<>>, late = <<>>
  PROVE  Tables /\ Started = {}
<1>1. Started = {} /\ 1 .. next - 1 = {} /\ 1 \in 1 .. MaxJobs + 1
  BY BoundAssumption DEF Started
<1>2. \A f : f = <<>> => f = [id \in {} |-> f[id]]
  OBVIOUS
<1> QED
  BY <1>1, <1>2 DEF Tables, Started

\* The server starts with no job and no file.
LEMMA InitInv == Init => Inv
<1> SUFFICES ASSUME Init PROVE Inv
  OBVIOUS
<1>1. Tables /\ Started = {}
  BY NoJobs DEF Init
<1>2. FilesInv /\ ServerInv /\ alive \in BOOLEAN
  BY DEF Init, FilesInv, ServerInv
<1> QED
  BY <1>1, <1>2 DEF Inv

\* The process ends: the registry is gone, the files stay.
LEMMA Ends == ASSUME Inv, ProcessEnds PROVE Inv'
<1>1. /\ next' = 1 /\ jobs' = <<>> /\ worker' = <<>> /\ reply' = <<>> /\ late' = <<>>
      /\ server' = [at |-> "idle"] /\ alive' = FALSE /\ UNCHANGED fs
  BY DEF ProcessEnds
<1>2. Started' = {} /\ 1 .. next' - 1 = {} /\ 1 \in 1 .. MaxJobs + 1
  BY <1>1, BoundAssumption DEF Started
<1>3. \A f : f = <<>> => f = [id \in {} |-> f[id]]
  OBVIOUS
<1>4. Tables'
  BY <1>1, <1>2, <1>3 DEF Tables, Started
<1>5. FilesInv' /\ ServerInv'
  BY <1>1 DEF Inv, FilesInv, ServerInv, fs
<1> QED
  BY <1>1, <1>2, <1>4, <1>5 DEF Inv

\* Every step of the server or of a worker keeps the invariant.
LEMMA Step == Inv /\ [Next]_vars => Inv'
<1> SUFFICES ASSUME Inv, [Next]_vars PROVE Inv'
  OBVIOUS
<1>1. CASE UNCHANGED vars
  BY <1>1 DEF Inv, Tables, FilesInv, ServerInv, JobInv, Started, vars, shared, fs
<1>2. CASE \E kind \in Kinds : \E path \in Outputs(kind), from \in Froms :
             StartJob(kind, path, from)
  BY <1>2, Starts
<1>3. CASE \E id \in Started : Cancel(id) \/ StatusDone(id) \/ WorkerStep(id)
  BY <1>3, Cancels, Polls, WorkerSteps
<1>4. CASE StatusResult \/ ProcessEnds
  BY <1>4, Polls, Ends
<1> QED
  BY <1>1, <1>2, <1>3, <1>4 DEF Next

\* The inductive invariant holds of every behaviour.
LEMMA Invariant == Spec => []Inv
BY InitInv, Step, PTL DEF Spec

-----------------------------------------------------------------------------
(* What the invariant gives.                                               *)

\* Whatever requests come and however the threads interleave: ids are handed
\* out in order, no job counts past the end of its source, and there is always
\* an inode for the next temp file.
THEOREM TypeCorrect == Spec => []TypeOK
<1>1. Inv => TypeOK
  <2> SUFFICES ASSUME Inv PROVE TypeOK
    OBVIOUS
  <2>1. next \in 1 .. MaxJobs + 1 /\ Started = 1 .. next - 1
    BY DEF Inv, Tables, Started
  <2>2. ASSUME NEW id \in Started
        PROVE  /\ jobs[id].kind \in Kinds /\ jobs[id].result \in Results
               /\ jobs[id].total \in {0, Chunks} /\ jobs[id].scanned \in 0 .. Chunks
               /\ worker[id].at \in Places /\ worker[id].place \in 0 .. Chunks
               /\ reply[id].result \in Results
    BY DEF Inv, JobInv, JobTyped, Progress, Worker, Reply
  <2>3. /\ \A p \in Paths : {tmp[p], ckpt[p]} \subseteq Inodes \cup {None}
        /\ \A i \in Inodes : pending[i] \subseteq Ids
    BY DEF Inv, FilesInv
  <2> QED
    BY <2>1, <2>2, <2>3 DEF TypeOK
<1> QED
  BY <1>1, Invariant, PTL

\* scan_status answers "done" only with the result the worker stored: the done
\* flag is set after the result, and status reads it before.
THEOREM RepliesHaveResults == Spec => []DoneHasResult
<1>1. Inv => DoneHasResult
  BY DEF Inv, JobInv, JobSound, DoneHasResult
<1> QED
  BY <1>1, Invariant, PTL

\* A job that a cancel cut short is never stored as an uncancelled success.
THEOREM StopsAreReported == Spec => []StopIsReported
<1>1. Inv => StopIsReported
  BY DEF Inv, JobInv, JobSound, StopIsReported, NoResult
<1> QED
  BY <1>1, Invariant, PTL

\* An image job stored as cancelled was cut short.
THEOREM ImageCancelsAreReal == Spec => []ImageCancelIsReal
<1>1. Inv => ImageCancelIsReal
  BY DEF Inv, JobInv, JobSound, ImageCancelIsReal, NoResult
<1> QED
  BY <1>1, Invariant, PTL

\* After scan_cancel is acknowledged a worker finishes at most the chunk it is
\* in, however its steps fall between the requests.
THEOREM CancelsStop == Spec => []CancelStopsAtNextChunk
<1>1. Inv => CancelStopsAtNextChunk
  BY DEF Inv, JobInv, JobTyped, CancelStopsAtNextChunk
<1> QED
  BY <1>1, Invariant, PTL

\* What scan_status has reported as finished it never reports running again,
\* nor with another result, as long as the process lives.
THEOREM RepliesAreFinal == Spec => ReplyIsFinal
<1>1. ASSUME Inv, [Next]_vars
      PROVE  [\A id \in Started : alive' /\ reply[id].done =>
                reply'[id].done /\ reply'[id].result = reply[id].result]_vars
  <2> SUFFICES ASSUME Next, NEW id \in Started, alive', reply[id].done
               PROVE  reply'[id].done /\ reply'[id].result = reply[id].result
    BY <1>1
  <2>1. /\ JobInv(id) /\ Tables /\ next \notin Started
        /\ jobs[id].done /\ reply[id].result = jobs[id].result
    BY <1>1, Records, StartedIds DEF JobInv, JobSound
  <2>2. CASE \E kind \in Kinds : \E path \in Outputs(kind), from \in Froms :
               StartJob(kind, path, from)
    BY <2>1, <2>2 DEF StartJob, With, Tables
  <2>3. CASE \E i \in Started : Cancel(i) \/ StatusDone(i) \/ WorkerStep(i)
    <3>1. reply' = reply
      BY <2>3
      DEF Cancel, StatusDone, WorkerStep, OpenFails, Begin, CheckAndGo, CheckAndStop, AllDone,
          FinishChunks, DoChunk, ChunkFails, Panic, CreateTmp, FillTmp, RenameTmp,
          RenameFails, Answer, StoreResult, StoreDone
    <3> QED
      BY <3>1
  <2>4. CASE StatusResult
    <3> DEFINE r == [done |-> server.done,
                     result |-> IF server.done THEN jobs[server.id].result ELSE NoResult]
    <3>1. server.at = "result" /\ reply' = [reply EXCEPT ![server.id] = r]
      BY <2>4 DEF StatusResult
    <3>2. server.id \in Started /\ (reply[server.id].done => server.done)
      BY <1>1, <3>1 DEF Inv, ServerInv
    <3>3. CASE server.id = id
      BY <2>1, <3>1, <3>2, <3>3 DEF Tables
    <3>4. CASE server.id # id
      BY <2>1, <3>1, <3>4 DEF Tables
    <3> QED
      BY <3>3, <3>4
  <2>5. CASE ProcessEnds
    BY <2>5 DEF ProcessEnds
  <2> QED
    BY <2>2, <2>3, <2>4, <2>5 DEF Next
<1> QED
  BY <1>1, Invariant, PTL DEF Spec, ReplyIsFinal
=============================================================================
