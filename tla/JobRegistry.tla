----------------------------- MODULE JobRegistry -----------------------------
(***************************************************************************)
(* src/src/job.rs and the job tools of src/src/mcp.rs: one server thread   *)
(* answers requests in order, each scan or image job runs on a worker      *)
(* thread of its own, and the two share one Progress object per job (two   *)
(* flags, two counters and a mutex-protected result).                      *)
(*                                                                         *)
(* What a job does to its data is ImageCopy and CarveScan; here a job is a *)
(* number of chunks, and a scan writes its checkpoint (temp file + rename) *)
(* after each chunk and at its end.  A request's effect is one step, but   *)
(* scan_status reads the done flag and the result one after the other.     *)
(*                                                                         *)
(* A definition D_how is D with a plausible slip; no action uses it, and   *)
(* the property it breaks is named in PROJECT.json.                        *)
(***************************************************************************)
EXTENDS Integers, FiniteSets

CONSTANTS
  MaxJobs,      \* bound: jobs started in one behaviour
  Chunks,       \* chunks in a job's source
  Froms,        \* chunks done already where a job's checkpoint resumes it
  Paths,        \* output directories (each has one default checkpoint path)
  None          \* no file, no inode

ASSUME BoundAssumption == MaxJobs \in Nat /\ Chunks \in Nat /\ Froms \subseteq 0 .. Chunks
ASSUME PathAssumption == IsFiniteSet(Paths)

Ids == 1 .. MaxJobs
Kinds == {"scan", "image"}

VARIABLES
  next,     \* the registry's next job id
  jobs,     \* the registry: id -> Progress
  worker,   \* id -> where its thread stands, its place and its open file
  server,   \* what the server thread is doing: idle, or part-way in a status call
  reply,    \* the last scan_status reply given for each job
  alive,    \* the server process is running
  tmp, ckpt,\* path -> inode of the .checkpoint.tmp file and of the checkpoint
  pending,  \* inode -> jobs that have opened it and not written it out yet
  late      \* id -> chunks done since its cancel was acknowledged

shared == <<next, jobs>>
fs == <<tmp, ckpt, pending>>
vars == <<shared, worker, server, reply, alive, fs, late>>

Inodes == 1 .. 2 * Cardinality(Paths) + MaxJobs
ASSUME NoneAssumption == None \notin Inodes
\* What a worker returns; complete says that no cancel cut the job short, which
\* the program does not report but the properties speak of.
Results == [status : {"none", "ok", "error"}, cancelled : BOOLEAN, complete : BOOLEAN]
NoResult == [status |-> "none", cancelled |-> FALSE, complete |-> FALSE]
Error == [status |-> "error", cancelled |-> FALSE, complete |-> FALSE]
NoReply == [done |-> FALSE, result |-> NoResult]

NewProgress(kind) == [kind |-> kind, total |-> 0, scanned |-> 0, done |-> FALSE,
                      cancel |-> FALSE, result |-> NoResult]
Started == DOMAIN jobs
\* Only a scan has a checkpoint; an image's map is in ImageCopy.
Outputs(kind) == IF kind = "scan" THEN Paths ELSE {None}

\* One more entry in a function.
With(f, x, v) == [y \in DOMAIN f \cup {x} |-> IF y = x THEN v ELSE f[y]]

Init ==
  /\ next = 1 /\ jobs = <<>> /\ worker = <<>> /\ reply = <<>> /\ late = <<>>
  /\ server = [at |-> "idle"] /\ alive = TRUE
  /\ tmp = [p \in Paths |-> None] /\ ckpt = [p \in Paths |-> None]
  /\ pending = [i \in Inodes |-> {}]

-----------------------------------------------------------------------------
\* The server thread.

\* job::start, from the scan and image tools: register, then spawn.
StartJob(kind, path, from) ==
  /\ alive /\ server.at = "idle" /\ next <= MaxJobs
  /\ next' = next + 1
  /\ jobs' = With(jobs, next, NewProgress(kind))
  /\ worker' = With(worker, next,
                    [at |-> "spawned", path |-> path, place |-> from, moved |-> FALSE,
                     stopped |-> FALSE, last |-> FALSE, file |-> None,
                     answer |-> NoResult])
  /\ reply' = With(reply, next, NoReply) /\ late' = With(late, next, 0)
  /\ UNCHANGED <<server, alive, fs>>

\* job::cancel
Cancel(id) ==
  /\ alive /\ server.at = "idle" /\ id \in Started
  /\ jobs' = [jobs EXCEPT ![id].cancel = TRUE]
  /\ UNCHANGED <<next, worker, server, reply, alive, fs, late>>

\* job::status: `done` is read first, the result only if it was set.
StatusDone(id) ==
  /\ alive /\ server.at = "idle" /\ id \in Started
  /\ server' = [at |-> "result", id |-> id, done |-> jobs[id].done]
  /\ UNCHANGED <<shared, worker, reply, alive, fs, late>>

StatusResult_takes_it ==
  /\ alive /\ server.at = "result"
  /\ reply' = [reply EXCEPT ![server.id] =
       [done |-> server.done,
        result |-> IF server.done THEN jobs[server.id].result ELSE NoResult]]
  /\ jobs' = IF server.done THEN [jobs EXCEPT ![server.id].result = NoResult] ELSE jobs
  /\ server' = [at |-> "idle"]
  /\ UNCHANGED <<next, worker, alive, fs, late>>
StatusResult ==
  /\ alive /\ server.at = "result"
  /\ reply' = [reply EXCEPT ![server.id] =
       [done |-> server.done,
        result |-> IF server.done THEN jobs[server.id].result ELSE NoResult]]
  /\ server' = [at |-> "idle"]
  /\ UNCHANGED <<shared, worker, alive, fs, late>>

\* serve returns at the end of stdin, or the process is killed: its workers end
\* with it, and the registry, which is only in memory, is gone.
ProcessEnds ==
  /\ alive /\ alive' = FALSE
  /\ next' = 1 /\ jobs' = <<>> /\ worker' = <<>> /\ reply' = <<>> /\ late' = <<>>
  /\ server' = [at |-> "idle"]
  /\ UNCHANGED fs

-----------------------------------------------------------------------------
\* A worker thread: open the source, then chunk by chunk, checking for a cancel
\* before each.
Stands(id, place) == alive /\ id \in Started /\ worker[id].at = place
IsScan(id) == jobs[id].kind = "scan"
Go(id, place) == worker' = [worker EXCEPT ![id].at = place]
Fail_thread_returns(id) == Go(id, "exited")
\* The closure's `?`: the job's result is an error.
Fail(id) == worker' = [worker EXCEPT ![id].at = "store", ![id].answer = Error]

OpenFails(id) ==
  /\ Stands(id, "spawned") /\ Fail(id)
  /\ UNCHANGED <<shared, server, reply, alive, fs, late>>

\* ProgressSink::begin; a resumed scan also reports where it resumes.
Begin(id) ==
  /\ Stands(id, "spawned") /\ Go(id, "check")
  /\ jobs' = [jobs EXCEPT ![id].total = Chunks,
                          ![id].scanned = IF IsScan(id) THEN worker[id].place ELSE 0]
  /\ UNCHANGED <<next, server, reply, alive, fs, late>>

\* Out of the loop: ProgressSink::finish.  A scan that did no chunk has counted
\* no bytes, wherever it resumed.
FinishChunks(id, stopped) ==
  /\ jobs' = [jobs EXCEPT ![id].scanned =
                IF IsScan(id) /\ ~ worker[id].moved THEN 0 ELSE worker[id].place]
  /\ worker' = [worker EXCEPT ![id].stopped = stopped, ![id].last = TRUE,
                              ![id].at = IF IsScan(id) THEN "create" ELSE "answer"]
  /\ UNCHANGED <<next, server, reply, alive, fs, late>>

CheckAndGo_at_end(id) ==
  /\ Stands(id, "check") /\ worker[id].place <= Chunks /\ ~ jobs[id].cancel
  /\ Go(id, "chunk")
  /\ UNCHANGED <<shared, server, reply, alive, fs, late>>
CheckAndGo_unasked(id) ==
  /\ Stands(id, "check") /\ worker[id].place < Chunks
  /\ Go(id, "chunk")
  /\ UNCHANGED <<shared, server, reply, alive, fs, late>>
CheckAndGo(id) ==
  /\ Stands(id, "check") /\ worker[id].place < Chunks /\ ~ jobs[id].cancel
  /\ Go(id, "chunk")
  /\ UNCHANGED <<shared, server, reply, alive, fs, late>>

\* An image job also checks in its retry passes, after the last chunk.
CheckAndStop(id) ==
  /\ Stands(id, "check") /\ jobs[id].cancel
  /\ worker[id].place < Chunks \/ ~ IsScan(id)
  /\ FinishChunks(id, TRUE)

AllDone(id) ==
  /\ Stands(id, "check") /\ worker[id].place = Chunks
  /\ FinishChunks(id, FALSE)

\* One chunk, and ProgressSink::update.
DoChunk(id) ==
  /\ Stands(id, "chunk")
  /\ worker' = [worker EXCEPT ![id].place = @ + 1, ![id].moved = TRUE,
                              ![id].at = IF IsScan(id) THEN "create" ELSE "check"]
  /\ jobs' = [jobs EXCEPT ![id].scanned = worker[id].place + 1]
  /\ late' = IF jobs[id].cancel THEN [late EXCEPT ![id] = @ + 1] ELSE late
  /\ UNCHANGED <<next, server, reply, alive, fs>>

ChunkFails(id) ==
  /\ Stands(id, "chunk") /\ Fail(id)
  /\ UNCHANGED <<shared, server, reply, alive, fs, late>>

\* The retry passes of an image job slice a 4 MiB buffer by sector_size, so a
\* larger sector over a larger bad region is out of bounds: the thread unwinds
\* and is gone.
Panic(id) ==
  /\ Stands(id, "check") /\ worker[id].place = Chunks /\ ~ IsScan(id) /\ ~ jobs[id].cancel
  /\ Go(id, "panicked")
  /\ UNCHANGED <<shared, server, reply, alive, fs, late>>

\* write_checkpoint: open the temp file (truncating one that is there), fill it,
\* rename it.  An inode keeps its identity through the rename, so a writer that
\* opened it before still writes to it after.
Path(id) == worker[id].path
Used == {tmp[p] : p \in Paths} \cup {ckpt[p] : p \in Paths} \cup {worker[i].file : i \in Started}
CreateTmp(id) ==
  /\ Stands(id, "create")
  /\ LET inode == IF tmp[Path(id)] # None THEN tmp[Path(id)]
                  ELSE CHOOSE i \in Inodes : i \notin Used
     IN /\ tmp' = [tmp EXCEPT ![Path(id)] = inode]
        /\ pending' = [pending EXCEPT ![inode] = IF tmp[Path(id)] = None THEN {id} ELSE @ \cup {id}]
        /\ worker' = [worker EXCEPT ![id].file = inode, ![id].at = "fill"]
  /\ UNCHANGED <<shared, server, reply, alive, ckpt, late>>

FillTmp(id) ==
  /\ Stands(id, "fill")
  /\ pending' = [pending EXCEPT ![worker[id].file] = @ \ {id}]
  /\ worker' = [worker EXCEPT ![id].file = None, ![id].at = "rename"]
  /\ UNCHANGED <<shared, server, reply, alive, tmp, ckpt, late>>

RenameTmp(id) ==
  /\ Stands(id, "rename") /\ tmp[Path(id)] # None
  /\ ckpt' = [ckpt EXCEPT ![Path(id)] = tmp[Path(id)]]
  /\ tmp' = [tmp EXCEPT ![Path(id)] = None]
  /\ Go(id, IF worker[id].last THEN "answer" ELSE "check")
  /\ UNCHANGED <<shared, server, reply, alive, pending, late>>

\* Another job renamed the temp file away.
RenameFails(id) ==
  /\ Stands(id, "rename") /\ tmp[Path(id)] = None
  /\ Fail(id)
  /\ UNCHANGED <<shared, server, reply, alive, fs, late>>

Answer_never_cancelled(id) ==
  /\ Stands(id, "answer")
  /\ worker' = [worker EXCEPT ![id].at = "store", ![id].answer =
       [status |-> "ok", cancelled |-> FALSE, complete |-> ~ worker[id].stopped]]
  /\ UNCHANGED <<shared, server, reply, alive, fs, late>>
Answer_rereads_flag(id) ==
  /\ Stands(id, "answer")
  /\ worker' = [worker EXCEPT ![id].at = "store", ![id].answer =
       [status |-> "ok", cancelled |-> jobs[id].cancel, complete |-> ~ worker[id].stopped]]
  /\ UNCHANGED <<shared, server, reply, alive, fs, late>>

\* The closure's result.  An image job reports what image() saw of the cancel
\* flag, a scan job reads the flag again.
Answer(id) ==
  /\ Stands(id, "answer")
  /\ worker' = [worker EXCEPT ![id].at = "store", ![id].answer =
       [status |-> "ok",
        cancelled |-> IF IsScan(id) THEN jobs[id].cancel ELSE worker[id].stopped,
        complete |-> ~ worker[id].stopped]]
  /\ UNCHANGED <<shared, server, reply, alive, fs, late>>

StoreResult_flag_first(id) ==
  /\ Stands(id, "store") /\ Go(id, "flag")
  /\ jobs' = [jobs EXCEPT ![id].done = TRUE]
  /\ UNCHANGED <<next, server, reply, alive, fs, late>>
StoreResult(id) ==
  /\ Stands(id, "store") /\ Go(id, "flag")
  /\ jobs' = [jobs EXCEPT ![id].result = worker[id].answer]
  /\ UNCHANGED <<next, server, reply, alive, fs, late>>

StoreDone(id) ==
  /\ Stands(id, "flag") /\ Go(id, "exited")
  /\ jobs' = [jobs EXCEPT ![id].done = TRUE]
  /\ UNCHANGED <<next, server, reply, alive, fs, late>>

WorkerStep(id) ==
  \/ OpenFails(id) \/ Begin(id) \/ CheckAndGo(id) \/ CheckAndStop(id) \/ AllDone(id)
  \/ DoChunk(id) \/ ChunkFails(id) \/ Panic(id)
  \/ CreateTmp(id) \/ FillTmp(id) \/ RenameTmp(id) \/ RenameFails(id)
  \/ Answer(id) \/ StoreResult(id) \/ StoreDone(id)

Next ==
  \/ \E kind \in Kinds : \E path \in Outputs(kind), from \in Froms :
       StartJob(kind, path, from)
  \/ \E id \in Started : Cancel(id) \/ StatusDone(id) \/ WorkerStep(id)
  \/ StatusResult
  \/ ProcessEnds

Spec == Init /\ [][Next]_vars

\* Every thread keeps being scheduled; no request is promised, nor an end of
\* the process.
FairSpec ==
  /\ Spec
  /\ \A id \in Ids : WF_vars(id \in Started /\ WorkerStep(id))
  /\ WF_vars(StatusResult)

-----------------------------------------------------------------------------
\* Types.
Places == {"spawned", "check", "chunk", "create", "fill", "rename",
           "answer", "store", "flag", "exited", "panicked"}
TypeOK ==
  /\ next \in 1 .. MaxJobs + 1 /\ Started = 1 .. next - 1
  /\ \A id \in Started :
       /\ jobs[id].kind \in Kinds /\ jobs[id].result \in Results
       /\ jobs[id].total \in {0, Chunks} /\ jobs[id].scanned \in 0 .. Chunks
       /\ worker[id].at \in Places /\ worker[id].place \in 0 .. Chunks
       /\ reply[id].result \in Results
  /\ \A p \in Paths : {tmp[p], ckpt[p]} \subseteq Inodes \cup {None}
  /\ \A i \in Inodes : pending[i] \subseteq Ids

\* scan_status: "the full result once done".  A reply that says a job is no
\* longer running carries the result the worker stored, never none.
DoneHasResult ==
  \A id \in Started : reply[id].done =>
    /\ reply[id].result.status # "none"
    /\ reply[id].result = worker[id].answer

\* A cancelled job owns up to it: a result that is short of the whole source is
\* never reported as an uncancelled success.
StopIsReported ==
  \A id \in Started : LET r == jobs[id].result
    IN r.status = "ok" /\ ~ r.complete => r.cancelled

\* An image job reported as cancelled was in fact cut short, in its copy or in
\* its retry passes.  (A scan job is
\* not covered: it reads the flag after the scan has completed.)
ImageCancelIsReal ==
  \A id \in Started : LET r == jobs[id].result
    IN jobs[id].kind = "image" /\ r.cancelled => ~ r.complete

\* scan_cancel: "it stops at the next chunk".  Once a cancel is acknowledged a
\* job finishes the chunk it is in and starts no other.
CancelStopsAtNextChunk == \A id \in Started : late[id] <= 1

\* What a client sees of a job only moves one way: a job reported as finished
\* is never reported running again, nor with another result.
ReplyIsFinal ==
  [][\A id \in Started : alive' /\ reply[id].done =>
       reply'[id].done /\ reply'[id].result = reply[id].result]_vars

\* While the server runs, a job whose worker does not panic comes to an end that
\* a poll can see, whatever the other workers do: none of them can block it.
EverySurvivorReports ==
  \A id \in Ids : id \in Started ~>
    \/ id \in Started /\ (jobs[id].done \/ worker[id].at = "panicked")
    \/ ~ alive
=============================================================================
