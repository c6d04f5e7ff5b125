--------------------------- MODULE PipelineProofs ---------------------------
(***************************************************************************)
(* Proofs about Pipeline, for every set of torrents, number of rows, of    *)
(* coroutines and of crashes, every budget and every set of operations.    *)
(***************************************************************************)
EXTENDS Pipeline, TLAPS

-----------------------------------------------------------------------------
(* The inductive type invariant: TypeOK, and what the fields of a coroutine *)
(* and of the sweep are when its pc is what it is.  The parts are stated of *)
(* any table of rows, so that they can be used of jobs and of jobs'.        *)

RowsOK(rows) ==
  /\ rows \in [JobIds -> PipelineJob]
  /\ \A j \in JobIds : rows[j].status # "NONE" => rows[j].payload \in Hashes
  /\ \A j \in JobIds : rows[j].status = "NONE" => rows[j] = NoRow

Known(rows, j) == j \in JobIds /\ rows[j].status # "NONE"

TaskShape(rows, k) ==
  /\ k.pc \in RunPc \cup DeletePc \cup SubmitPc \cup ReadPc => Known(rows, k.job)
  /\ k.pc \in RunPc \cup DeletePc => k.payload \in Hashes
  /\ k.pc \in {"start", "STOP_SEEDING", "STOPPED"} \cup ReadPc => k.torrent \in Hashes
  /\ k.pc \in SubmitPc => k.pick \in Hashes
  /\ k.pc \in DeletePc /\ k.repl # NoJob => Known(rows, k.repl) /\ k.pick \in Hashes

TasksOK(rows, ts) ==
  /\ ts \in [Slots -> Task]
  /\ \A t \in Slots : TaskShape(rows, ts[t])

VerdictShape(rows, p, j) ==
  p.todo[j] # Pass =>
    /\ Known(rows, j)
    /\ p.todo[j].rule \in {"resume", "run", "retry"} => p.todo[j].hash \in Hashes
    /\ p.todo[j].rule = "resume" => p.todo[j].remediations < AutoResumeMax
    /\ p.pc \in {"resume", "resumed"} /\ (\A i \in JobIds : i > j => p.todo[i] = Pass)
         => p.todo[j].rule = "resume"

PollOK(rows, p) ==
  /\ p \in [pc : {"idle", "asked", "sweep", "resume", "resumed"},
            seen : [Hashes -> TransferState],
            todo : [JobIds -> Verdict]]
  /\ \A j \in JobIds : VerdictShape(rows, p, j)

OtherOK ==
  /\ saved \in BOOLEAN
  /\ submission \in [JobIds -> {"none", "submitted", "ignored"}]
  /\ DownloaderTypeOK
  /\ library \subseteq LibraryFile

TypeInv ==
  /\ RowsOK(jobs) /\ TasksOK(jobs, tasks) /\ PollOK(jobs, poll) /\ OtherOK
  /\ restarts \in 0 .. MaxRestarts

\* No row goes away.
Kept(rows, new) == \A j \in JobIds : rows[j].status # "NONE" => new[j].status # "NONE"

USE JobStoreAssumption, WorkerAssumption, PipelineAssumption

LEMMA TypeInvImpliesTypeOK == TypeInv => TypeOK
BY DEF TypeInv, TypeOK, RowsOK, TasksOK, PollOK, OtherOK, StoreTypeOK, WorkerTypeOK,
       PollTypeOK

LEMMA IdleIsTask == Idle \in Task /\ \A rows : TaskShape(rows, Idle)
BY DEF Idle, Task, TaskShape, Pc, RunPc, DeletePc, SubmitPc, ReadPc, PipelineStatus,
       Attempts, NoJob

LEMMA NoRowIsRow == NoRow \in PipelineJob
BY DEF NoRow, PipelineJob, Attempts, Media, NoJob

LEMMA PassIsVerdict == Pass \in Verdict
BY DEF Pass, Verdict, Rules

LEMMA TasksKept ==
  ASSUME NEW rows, NEW new, NEW ts, TasksOK(rows, ts), Kept(rows, new)
  PROVE  TasksOK(new, ts)
BY DEF TasksOK, TaskShape, Kept, Known

LEMMA PollKept ==
  ASSUME NEW rows, NEW new, NEW p, PollOK(rows, p), Kept(rows, new)
  PROVE  PollOK(new, p)
BY DEF PollOK, VerdictShape, Kept, Known

LEMMA TaskSet ==
  ASSUME NEW rows, NEW ts, TasksOK(rows, ts),
         NEW t \in Slots, NEW k \in Task, TaskShape(rows, k)
  PROVE  TasksOK(rows, [ts EXCEPT ![t] = k])
BY DEF TasksOK

LEMMA RunIsTask ==
  ASSUME NEW rows, RowsOK(rows), NEW j \in JobIds, rows[j].status # "NONE",
         NEW step \in PipelineStatus,
         step = "STOP_SEEDING" => rows[j].hash \in Hashes
  PROVE  RunAt(rows, j, step) \in Task /\ TaskShape(rows, RunAt(rows, j, step))
<1>1. rows[j] \in PipelineJob /\ rows[j].payload \in Hashes
  BY DEF RowsOK
<1>2. Idle \in Task
  BY IdleIsTask
<1>3. RunAt(rows, j, step) \in Task
  BY <1>1, <1>2 DEF RunAt, Task, Pc, RunPc, PipelineJob
<1>4. TaskShape(rows, RunAt(rows, j, step))
  BY <1>1, <1>2 DEF RunAt, Idle, TaskShape, Known, RunPc, DeletePc, SubmitPc, ReadPc, PipelineStatus, NoJob
<1> QED BY <1>3, <1>4

LEMMA InitTypeInv == Init => TypeInv
<1> SUFFICES ASSUME Init PROVE TypeInv OBVIOUS
<1>1. RowsOK(jobs)
  BY NoRowIsRow DEF Init, StoreInit, RowsOK, NoRow
<1>2. TasksOK(jobs, tasks)
  BY IdleIsTask DEF Init, WorkerInit, TasksOK
<1>3. PollOK(jobs, poll)
  BY PassIsVerdict DEF Init, PollInit, PollIdle, PollOK, VerdictShape, TransferState
<1>4. OtherOK
  BY DEF Init, StoreInit, DownloaderInit, WorkerInit, OtherOK, DownloaderTypeOK, TransferState, Content
<1> QED BY <1>1, <1>2, <1>3, <1>4 DEF TypeInv, Init

\* A change to one existing row.
LEMMA RowSet ==
  ASSUME NEW rows, RowsOK(rows), NEW j \in JobIds, NEW r \in PipelineJob,
         r.status # "NONE", r.payload \in Hashes
  PROVE  /\ RowsOK([rows EXCEPT ![j] = r])
         /\ Kept(rows, [rows EXCEPT ![j] = r])
BY DEF RowsOK, Kept

\* The same, when only a coroutine of the table's changes with it.
LEMMA RowAndTaskSet ==
  ASSUME NEW rows, RowsOK(rows), NEW ts, TasksOK(rows, ts),
         NEW new, RowsOK(new), Kept(rows, new),
         NEW t \in Slots, NEW k \in Task, TaskShape(new, k)
  PROVE  TasksOK(new, [ts EXCEPT ![t] = k])
BY TasksKept, TaskSet

LEMMA BumpType == \A n \in Attempts : Bump(n) \in Attempts
BY DEF Attempts, Bump

\* process, up to its first await.
LEMMA EnterOK ==
  ASSUME TasksOK(jobs, tasks), NEW rows, RowsOK(rows), Kept(jobs, rows),
         NEW t \in Slots, NEW h \in Hashes, Enter(t, h, rows)
  PROVE  RowsOK(jobs') /\ Kept(jobs, jobs') /\ TasksOK(jobs', tasks')
<1>0. TasksOK(rows, tasks)
  BY TasksKept
<1>1. CASE /\ jobs' = rows
           /\ tasks' = [tasks EXCEPT ![t] = Idle]
  BY <1>0, <1>1, IdleIsTask, TaskSet
<1>2. ASSUME NEW j \in JobIds, rows[j].hash = h, rows[j].status \in Reentry,
             jobs' = [rows EXCEPT ![j].status = "STOP_SEEDING"],
             tasks' = [tasks EXCEPT ![t] = RunAt(rows, j, "STOP_SEEDING")]
      PROVE  RowsOK(jobs') /\ Kept(jobs, jobs') /\ TasksOK(jobs', tasks')
  <2>1. rows[j].status # "NONE" /\ rows[j].payload \in Hashes /\ rows[j] \in PipelineJob
    BY <1>2 DEF RowsOK, Reentry, AwaitingDownload
  <2> DEFINE r == [rows[j] EXCEPT !.status = "STOP_SEEDING"]
  <2>2. r \in PipelineJob /\ r.status # "NONE" /\ r.payload \in Hashes
    BY <2>1 DEF PipelineJob, JobStatus, PipelineStatus
  <2>3. jobs' = [rows EXCEPT ![j] = r]
    BY <1>2
  <2>4. RowsOK(jobs') /\ Kept(rows, jobs')
    BY <2>2, <2>3, RowSet
  <2>5. /\ RunAt(rows, j, "STOP_SEEDING") \in Task
        /\ TaskShape(rows, RunAt(rows, j, "STOP_SEEDING"))
    BY <1>2, <2>1, RunIsTask DEF PipelineStatus
  <2>6. TasksOK(rows, tasks')
    BY <1>0, <1>2, <2>5, TaskSet
  <2> QED BY <2>4, <2>6, TasksKept DEF Kept
<1>3. ASSUME NEW j \in JobIds, rows[j].hash = h, rows[j].status \in PipelineStatus,
             jobs' = rows,
             tasks' = [tasks EXCEPT ![t] = RunAt(rows, j, rows[j].status)]
      PROVE  RowsOK(jobs') /\ Kept(jobs, jobs') /\ TasksOK(jobs', tasks')
  <2>1. /\ RunAt(rows, j, rows[j].status) \in Task
        /\ TaskShape(rows, RunAt(rows, j, rows[j].status))
    BY <1>3, RunIsTask DEF PipelineStatus
  <2> QED BY <1>0, <1>3, <2>1, TaskSet
<1>4. ASSUME NEW j \in JobIds, rows[j].hash = h, rows[j].status = "DISMISSED",
             jobs' = [rows EXCEPT ![j].status = "FAILED", ![j].attempts = Bump(@)],
             tasks' = [tasks EXCEPT ![t] = Idle]
      PROVE  RowsOK(jobs') /\ Kept(jobs, jobs') /\ TasksOK(jobs', tasks')
  <2>1. rows[j].payload \in Hashes /\ rows[j] \in PipelineJob
    BY <1>4 DEF RowsOK
  <2> DEFINE r == [rows[j] EXCEPT !.status = "FAILED", !.attempts = Bump(@)]
  <2>2. r \in PipelineJob /\ r.status # "NONE" /\ r.payload \in Hashes
    BY <2>1, BumpType DEF PipelineJob, JobStatus
  <2>3. jobs' = [rows EXCEPT ![j] = r]
    BY <1>4
  <2>4. RowsOK(jobs') /\ Kept(rows, jobs')
    BY <2>2, <2>3, RowSet
  <2>5. TasksOK(rows, tasks')
    BY <1>0, <1>4, IdleIsTask, TaskSet
  <2> QED BY <2>4, <2>5, TasksKept DEF Kept
<1> QED BY <1>1, <1>2, <1>3, <1>4 DEF Enter

-----------------------------------------------------------------------------
(* The steps of a run.                                                      *)

\* What every step of a coroutine leaves: the rows and the coroutines in order.
StepOK ==
  /\ RowsOK(jobs')
  /\ Kept(jobs, jobs')
  /\ TasksOK(jobs', tasks')

\* A step that writes one row and moves its coroutine on.
LEMMA WriteOK ==
  ASSUME RowsOK(jobs), TasksOK(jobs, tasks),
         NEW j \in JobIds, NEW r \in PipelineJob, r.status # "NONE", r.payload \in Hashes,
         jobs' = [jobs EXCEPT ![j] = r],
         NEW t \in Slots, NEW k \in Task, TaskShape(jobs', k),
         tasks' = [tasks EXCEPT ![t] = k]
  PROVE  StepOK
<1>1. RowsOK(jobs') /\ Kept(jobs, jobs')
  BY RowSet
<1> QED BY <1>1, RowAndTaskSet DEF StepOK

\* A step that only moves its coroutine on.
LEMMA MoveOK ==
  ASSUME RowsOK(jobs), TasksOK(jobs, tasks), jobs' = jobs,
         NEW t \in Slots, NEW k \in Task, TaskShape(jobs, k),
         tasks' = [tasks EXCEPT ![t] = k]
  PROVE  StepOK
BY TaskSet DEF StepOK, Kept

\* The row of a coroutine that has one.
LEMMA TaskRow ==
  ASSUME RowsOK(jobs), TasksOK(jobs, tasks), NEW t \in Slots,
         tasks[t].pc \in RunPc \cup DeletePc \cup SubmitPc \cup ReadPc
  PROVE  /\ tasks[t] \in Task
         /\ tasks[t].job \in JobIds
         /\ jobs[tasks[t].job] \in PipelineJob
         /\ jobs[tasks[t].job].status # "NONE"
         /\ jobs[tasks[t].job].payload \in Hashes
BY DEF RowsOK, TasksOK, TaskShape, Known

LEMMA CommitOK ==
  ASSUME RowsOK(jobs), TasksOK(jobs, tasks), NEW t \in Slots, tasks[t].pc \in RunPc,
         NEW step \in {"RESOLVE_META", "RENAME", "SCAN"},
         NEW r \in PipelineJob, r.status # "NONE", r.payload \in Hashes,
         Commit(t, [jobs EXCEPT ![tasks[t].job] = r], step)
  PROVE  StepOK
<1> DEFINE j == tasks[t].job
<1>1. j \in JobIds
  BY TaskRow
<1>2. jobs' = [jobs EXCEPT ![j] = r] /\ tasks' = [tasks EXCEPT ![t] = RunAt(jobs', j, step)]
  BY DEF Commit
<1>3. RowsOK(jobs') /\ Kept(jobs, jobs')
  BY <1>1, <1>2, RowSet
<1>4. jobs'[j].status # "NONE"
  BY <1>1, <1>2 DEF RowsOK
<1>5. RunAt(jobs', j, step) \in Task /\ TaskShape(jobs', RunAt(jobs', j, step))
  BY <1>1, <1>3, <1>4, RunIsTask DEF PipelineStatus
<1> QED BY <1>2, <1>3, <1>5, RowAndTaskSet DEF StepOK

LEMMA FailJobOK ==
  ASSUME RowsOK(jobs), TasksOK(jobs, tasks), NEW t \in Slots, tasks[t].pc \in RunPc,
         FailJob(t)
  PROVE  StepOK
<1> DEFINE j == tasks[t].job
           r == [jobs[j] EXCEPT !.status = "FAILED", !.attempts = Bump(tasks[t].attempts)]
<1>1. j \in JobIds /\ tasks[t].attempts \in Attempts
  BY TaskRow DEF Task
<1>2. r \in PipelineJob /\ r.status # "NONE" /\ r.payload \in Hashes
  BY ZenonT(60), <1>1, TaskRow, BumpType DEF PipelineJob, JobStatus
<1>3. jobs' = [jobs EXCEPT ![j] = r] /\ tasks' = [tasks EXCEPT ![t] = Idle]
  BY DEF FailJob
<1> QED BY <1>1, <1>2, <1>3, IdleIsTask, WriteOK

LEMMA TaskPlaced ==
  ASSUME NEW k \in Task, NEW pc \in Pc, NEW b \in BOOLEAN
  PROVE  [k EXCEPT !.pc = pc, !.placed = b] \in Task
BY DEF Task

LEMMA RowPlaced ==
  ASSUME NEW row \in PipelineJob, NEW b \in BOOLEAN
  PROVE  [row EXCEPT !.status = "SCAN", !.dest = TRUE, !.placed = b] \in PipelineJob
BY DEF PipelineJob, JobStatus, PipelineStatus

LEMMA RunStepOK ==
  ASSUME TypeInv, NEW t \in Slots, RunStep(t)
  PROVE  StepOK /\ OtherOK'
<1> USE DEF TypeInv
<1> DEFINE j == tasks[t].job
<1>0. tasks[t] \in Task /\ TaskShape(jobs, tasks[t])
  BY DEF TasksOK
<1>1. CASE RemoveTransfer(t)
  <2> DEFINE k == [tasks[t] EXCEPT
        !.pc = "STOPPED",
        !.payload = IF qbt[tasks[t].torrent] # "absent" THEN tasks[t].torrent ELSE @]
  <2>1. k \in Task
    BY ZenonT(60), <1>0, <1>1 DEF RemoveTransfer, Task, Pc, RunPc
  <2>2. TaskShape(jobs, k)
    BY <1>0, <1>1 DEF RemoveTransfer, Task, TaskShape, RunPc, DeletePc, SubmitPc, ReadPc,
                      PipelineStatus
  <2>3. tasks' = [tasks EXCEPT ![t] = k] /\ jobs' = jobs
    BY <1>0, <1>1 DEF RemoveTransfer, storeVars, TasksOK, Task
  <2>4. OtherOK'
    BY <1>1 DEF RemoveTransfer, Remove, OtherOK, storeVars, DownloaderTypeOK, TransferState
  <2> QED BY <2>1, <2>2, <2>3, <2>4, MoveOK
<1>2. CASE CommitStopped(t)
  <2> DEFINE r == [jobs[j] EXCEPT !.status = "RESOLVE_META", !.seedingRemoved = TRUE,
                                  !.payload = tasks[t].payload]
  <2>1. r \in PipelineJob /\ r.status # "NONE" /\ r.payload \in Hashes
    BY ZenonT(60), <1>0, <1>2, TaskRow
       DEF CommitStopped, TaskShape, RunPc, PipelineJob, JobStatus, PipelineStatus
  <2>2. Commit(t, [jobs EXCEPT ![j] = r], "RESOLVE_META")
    BY <1>2 DEF CommitStopped
  <2> QED BY <1>2, <2>1, <2>2, CommitOK
          DEF CommitStopped, RunPc, OtherOK, downloaderVars, DownloaderTypeOK
<1>3. CASE ResolveMeta(t)
  <2> DEFINE r == [jobs[j] EXCEPT !.status = "RENAME"]
  <2>1. r \in PipelineJob /\ r.status # "NONE" /\ r.payload \in Hashes
    BY <1>3, TaskRow DEF ResolveMeta, RunPc, PipelineJob, JobStatus, PipelineStatus
  <2>2. Commit(t, [jobs EXCEPT ![j] = r], "RENAME")
    BY <1>3 DEF ResolveMeta
  <2> QED BY <1>3, <2>1, <2>2, CommitOK
          DEF ResolveMeta, RunPc, PipelineStatus, OtherOK, downloaderVars, DownloaderTypeOK
<1>4. CASE ListFiles(t)
  <2> DEFINE k == [tasks[t] EXCEPT !.pc = "LISTED",
                     !.saw = Folder(jobs[j].media, tasks[t].payload) # "none"]
  <2>1. k \in Task
    BY ZenonT(60), <1>0, <1>4 DEF ListFiles, Task, Pc, RunPc
  <2>2. TaskShape(jobs, k)
    BY <1>0, <1>4 DEF ListFiles, Task, TaskShape, RunPc, DeletePc, SubmitPc, ReadPc,
                      PipelineStatus
  <2>3. tasks' = [tasks EXCEPT ![t] = k] /\ jobs' = jobs
    BY <1>0, <1>4 DEF ListFiles, storeVars, TasksOK
  <2>4. OtherOK'
    BY <1>4 DEF ListFiles, OtherOK, storeVars, downloaderVars, DownloaderTypeOK
  <2> QED BY <2>1, <2>2, <2>3, <2>4, MoveOK
<1> DEFINE h == tasks[t].payload
           m == jobs[j].media
<1>p. ASSUME tasks[t].pc \in RunPc
      PROVE  /\ h \in Hashes
             /\ m \in Media
             /\ Folder(m, h) # "none" => MovedTo(m, h) \subseteq LibraryFile
  <2>1. h \in Hashes
    BY <1>0, <1>p DEF TaskShape
  <2>2. m \in Media
    BY <1>p, TaskRow DEF PipelineJob
  <2> SUFFICES ASSUME Folder(m, h) # "none" PROVE MovedTo(m, h) \subseteq LibraryFile
    BY <2>1, <2>2
  <2>3. staged[h] \in {"partial", "full"}
    BY <2>1, <2>2 DEF Folder, OtherOK, DownloaderTypeOK, Content
  <2>4. [media |-> m, torrent |-> h, content |-> staged[h]] \in LibraryFile
    BY <2>1, <2>2, <2>3 DEF LibraryFile
  <2> QED BY <2>4 DEF MovedTo, OtherOK
<1>5. CASE Place(t)
  <2> DEFINE k == [tasks[t] EXCEPT !.pc = "PLACED", !.placed = TRUE]
  <2>1. k \in Task
    BY <1>0, <1>5 DEF Place, Task, Pc, RunPc
  <2>2. TaskShape(jobs, k)
    BY <1>0, <1>5 DEF Place, Task, TaskShape, RunPc, DeletePc, SubmitPc, ReadPc,
                      PipelineStatus
  <2>3. tasks' = [tasks EXCEPT ![t] = k] /\ jobs' = jobs
    BY <1>0, <1>5 DEF Place, storeVars, TasksOK
  <2>4. OtherOK'
    BY <1>5, <1>p DEF Place, OtherOK, storeVars, DownloaderTypeOK, Content, RunPc
  <2> QED BY <2>1, <2>2, <2>3, <2>4, MoveOK
<1>6. CASE PlaceNothing(t)
  <2> DEFINE k == [tasks[t] EXCEPT !.pc = "PLACED",
                                   !.placed = tasks[t].saw /\ SameFiles(m, h) # {}]
  <2>1. k \in Task
    <3>1. "PLACED" \in Pc
      BY DEF Pc, RunPc
    <3>2. (tasks[t].saw /\ SameFiles(m, h) # {}) \in BOOLEAN
      OBVIOUS
    <3> QED BY <1>0, <3>1, <3>2, TaskPlaced
  <2>2. TaskShape(jobs, k)
    BY <1>0, <1>6 DEF PlaceNothing, Task, TaskShape, RunPc, DeletePc, SubmitPc, ReadPc,
                      PipelineStatus
  <2>3. tasks' = [tasks EXCEPT ![t] = k] /\ jobs' = jobs
    BY <1>0, <1>6 DEF PlaceNothing, storeVars, TasksOK
  <2>4. OtherOK'
    BY <1>6 DEF PlaceNothing, OtherOK, storeVars, downloaderVars, DownloaderTypeOK
  <2> QED BY <2>1, <2>2, <2>3, <2>4, MoveOK
<1>7. CASE CommitPlaced(t)
  <2> DEFINE r == [jobs[j] EXCEPT !.status = "SCAN", !.dest = TRUE,
                                  !.placed = tasks[t].placed]
  <2>1. r \in PipelineJob /\ r.status # "NONE" /\ r.payload \in Hashes
    <3>1. tasks[t].pc \in RunPc
      BY <1>7 DEF CommitPlaced, RunPc
    <3>2. tasks[t].placed \in BOOLEAN
      BY <1>0 DEF Task
    <3>3. jobs[j] \in PipelineJob /\ jobs[j].payload \in Hashes
      BY <3>1, TaskRow
    <3>4. r \in PipelineJob
      BY <3>2, <3>3, RowPlaced
    <3> QED BY <3>3, <3>4 DEF PipelineJob
  <2>2. Commit(t, [jobs EXCEPT ![j] = r], "SCAN")
    BY <1>7 DEF CommitPlaced
  <2> QED BY <1>7, <2>1, <2>2, CommitOK
          DEF CommitPlaced, RunPc, OtherOK, downloaderVars, DownloaderTypeOK
<1>8. CASE Scan(t)
  <2> DEFINE r == [jobs[j] EXCEPT !.status = "DONE"]
  <2>1. tasks[t].pc \in RunPc
    BY <1>8 DEF Scan, RunPc, PipelineStatus
  <2>2. r \in PipelineJob /\ r.status # "NONE" /\ r.payload \in Hashes
    BY <2>1, TaskRow DEF PipelineJob, JobStatus
  <2>3. jobs' = [jobs EXCEPT ![j] = r] /\ tasks' = [tasks EXCEPT ![t] = Idle]
    BY <1>8 DEF Scan
  <2>4. OtherOK'
    BY <1>8 DEF Scan, OtherOK, downloaderVars, DownloaderTypeOK
  <2> QED BY <2>1, <2>2, <2>3, <2>4, TaskRow, IdleIsTask, WriteOK
<1>9. CASE StepFails(t)
  <2>1. tasks[t].pc \in RunPc /\ FailJob(t)
    BY <1>9 DEF StepFails, RunPc, PipelineStatus
  <2>2. OtherOK'
    BY <1>9 DEF StepFails, OtherOK, downloaderVars, DownloaderTypeOK
  <2> QED BY <2>1, <2>2, FailJobOK
<1>10. CASE PlaceLocked(t)
  <2>1. tasks[t].pc \in RunPc /\ FailJob(t)
    BY <1>10 DEF PlaceLocked, RunPc
  <2>2. OtherOK'
    BY <1>10, <2>1, <1>p DEF PlaceLocked, OtherOK, downloaderVars, DownloaderTypeOK
  <2> QED BY <2>1, <2>2, FailJobOK
<1> QED BY <1>1, <1>2, <1>3, <1>4, <1>5, <1>6, <1>7, <1>8, <1>9, <1>10 DEF RunStep

-----------------------------------------------------------------------------
(* Submissions and deletions.                                               *)

\* create_submitted_job and the webhook's orphan.
LEMMA NewRowIsRow ==
  ASSUME NEW media \in Media, NEW orphan \in BOOLEAN, NEW hash \in Hashes \cup {NoHash},
         NEW payload \in Hashes, NEW old \in JobIds \cup {NoJob}
  PROVE  /\ Row(media, orphan, hash, payload, old) \in PipelineJob
         /\ Row(media, orphan, hash, payload, old).status # "NONE"
         /\ Row(media, orphan, hash, payload, old).payload \in Hashes
BY NoRowIsRow DEF Row, NoRow, PipelineJob, JobStatus, AwaitingDownload

LEMMA SubmitIsTask ==
  ASSUME NEW rows, NEW j \in JobIds, rows[j].status # "NONE", NEW h \in Hashes,
         NEW follow \in BOOLEAN
  PROVE  SubmitAt(j, h, follow) \in Task /\ TaskShape(rows, SubmitAt(j, h, follow))
<1>1. SubmitAt(j, h, follow) \in Task
  BY IdleIsTask DEF SubmitAt, Task, Pc, SubmitPc
<1>2. TaskShape(rows, SubmitAt(j, h, follow))
  BY DEF SubmitAt, Idle, TaskShape, Known, RunPc, DeletePc, SubmitPc, ReadPc, PipelineStatus
<1> QED BY <1>1, <1>2

LEMMA SubmitOK ==
  ASSUME TypeInv, NEW t \in Slots, NEW h \in Hashes, NEW follow \in BOOLEAN,
         Submit(t, h, follow)
  PROVE  StepOK /\ OtherOK'
<1>1. PICK j \in JobIds : /\ Create(j, MediaOf[h], FALSE, h, NoJob)
                          /\ tasks' = [tasks EXCEPT ![t] = SubmitAt(j, h, follow)]
  BY DEF Submit
<1> DEFINE r == Row(MediaOf[h], FALSE, NoHash, h, NoJob)
<1>2. r \in PipelineJob /\ r.status # "NONE" /\ r.payload \in Hashes
  BY NewRowIsRow DEF Media
<1>3. jobs' = [jobs EXCEPT ![j] = r]
  BY <1>1 DEF Create
<1>4. jobs'[j].status # "NONE"
  BY <1>2, <1>3 DEF TypeInv, RowsOK
<1>5. /\ SubmitAt(j, h, follow) \in Task
      /\ TaskShape(jobs', SubmitAt(j, h, follow))
  BY <1>4, SubmitIsTask
<1>6. OtherOK'
  BY DEF Submit, TypeInv, OtherOK, downloaderVars, DownloaderTypeOK
<1> QED BY <1>1, <1>2, <1>3, <1>5, <1>6, WriteOK DEF TypeInv

LEMMA SubmitStepOK ==
  ASSUME TypeInv, NEW t \in Slots, SubmitStep(t)
  PROVE  StepOK /\ OtherOK'
<1> USE DEF TypeInv
<1> DEFINE j == tasks[t].job
<1>0. tasks[t] \in Task /\ TaskShape(jobs, tasks[t])
  BY DEF TasksOK
<1>1. CASE Forward(t)
  <2>1. PICK known \in BOOLEAN :
          tasks' = [tasks EXCEPT ![t].pc = "downloaded", ![t].saw = known]
    BY <1>1 DEF Forward
  <2> DEFINE k == [tasks[t] EXCEPT !.pc = "downloaded", !.saw = known]
  <2>2. k \in Task
    BY <1>0 DEF Task, Pc, SubmitPc
  <2>3. TaskShape(jobs, k)
    BY <1>0, <1>1 DEF Forward, Task, TaskShape, RunPc, DeletePc, SubmitPc, ReadPc, PipelineStatus
  <2>4. tasks' = [tasks EXCEPT ![t] = k] /\ jobs' = jobs
    BY <1>1, <2>1 DEF Forward, storeVars, TasksOK
  <2>5. OtherOK'
    BY <1>1 DEF Forward, Add, OtherOK, storeVars, DownloaderTypeOK, TransferState
  <2> QED BY <2>2, <2>3, <2>4, <2>5, MoveOK
<1>2. CASE Answer(t)
  <2>1. tasks[t].pc \in SubmitPc /\ tasks[t].pick \in Hashes
    BY <1>0, <1>2 DEF Answer, SubmitPc, TaskShape
  <2>2. PICK r \in PipelineJob : /\ r.status # "NONE"
                                 /\ r.payload \in Hashes
                                 /\ jobs' = [jobs EXCEPT ![j] = r]
    <3>1. CASE jobs' = jobs
      BY <2>1, <3>1, TaskRow DEF RowsOK
    <3>2. CASE jobs' = [jobs EXCEPT ![j].status = "FAILED"]
      <4> DEFINE r == [jobs[j] EXCEPT !.status = "FAILED"]
      <4>1. r \in PipelineJob /\ r.status # "NONE" /\ r.payload \in Hashes
        BY <2>1, TaskRow DEF PipelineJob, JobStatus
      <4> QED BY <3>2, <4>1
    <3>3. CASE jobs' = [jobs EXCEPT ![j].hash = tasks[t].pick]
      <4> DEFINE r == [jobs[j] EXCEPT !.hash = tasks[t].pick]
      <4>1. r \in PipelineJob /\ r.status # "NONE" /\ r.payload \in Hashes
        BY <2>1, TaskRow DEF PipelineJob
      <4> QED BY <3>3, <4>1
    <3> QED BY <1>2, <3>1, <3>2, <3>3 DEF Answer, Stamped
  <2>3. tasks' = [tasks EXCEPT ![t] = Idle]
    BY <1>2 DEF Answer
  <2>4. OtherOK'
    BY <1>2 DEF Answer, OtherOK, downloaderVars, DownloaderTypeOK
  <2> QED BY <2>1, <2>2, <2>3, <2>4, TaskRow, IdleIsTask, WriteOK
<1>3. CASE SubmitFails(t)
  <2>1. OtherOK'
    BY <1>3 DEF SubmitFails, OtherOK, storeVars, downloaderVars, DownloaderTypeOK
  <2> QED BY <1>3, <2>1, IdleIsTask, MoveOK DEF SubmitFails, storeVars
<1> QED BY <1>1, <1>2, <1>3 DEF SubmitStep

LEMMA DeleteIsTask ==
  ASSUME RowsOK(jobs), NEW rows, Kept(jobs, rows),
         NEW j \in JobIds, jobs[j].status # "NONE",
         NEW repl \in JobIds \cup {NoJob}, NEW pick \in Hashes \cup {NoHash},
         repl # NoJob => rows[repl].status # "NONE" /\ pick \in Hashes
  PROVE  DeleteAt(j, repl, pick) \in Task /\ TaskShape(rows, DeleteAt(j, repl, pick))
<1> DEFINE pc == IF PlanTorrent(jobs[j]) THEN "del_torrent" ELSE "del_folder"
           k == [Idle EXCEPT !.pc = pc, !.job = j, !.torrent = jobs[j].hash,
                             !.payload = jobs[j].payload, !.repl = repl, !.pick = pick]
           b == PlanPlaced(jobs[j])
<1>1. jobs[j] \in PipelineJob /\ jobs[j].payload \in Hashes /\ rows[j].status # "NONE"
  BY DEF RowsOK, Kept
<1>2. pc \in DeletePc
  BY DEF DeletePc
<1>3. k \in Task
  BY ZenonT(60), <1>1, <1>2, IdleIsTask DEF Task, Pc, PipelineJob
<1>4. TaskShape(rows, k) /\ k.pc = pc
  BY <1>1, <1>2 DEF Idle, TaskShape, Known, RunPc, DeletePc, SubmitPc, ReadPc,
                    PipelineStatus, NoJob
<1>5. DeleteAt(j, repl, pick) = [k EXCEPT !.pc = pc, !.placed = b]
  BY ZenonT(60), <1>3, <1>4 DEF DeleteAt, Idle, Task
<1>6. b \in BOOLEAN /\ pc \in Pc
  BY <1>2 DEF PlanPlaced, Pc
<1>7. DeleteAt(j, repl, pick) \in Task
  <2> HIDE DEF pc, k, b
  <2>1. [k EXCEPT !.pc = pc, !.placed = b] \in Task
    BY <1>3, <1>6, TaskPlaced
  <2> QED BY <1>5, <2>1, Zenon
<1>8. TaskShape(rows, DeleteAt(j, repl, pick))
  BY <1>3, <1>4, <1>5 DEF TaskShape, Task
<1> QED BY <1>7, <1>8

\* A step of a deletion that moves the coroutine on to another step of it.
LEMMA DeleteMove ==
  ASSUME TypeInv, NEW t \in Slots, tasks[t].pc \in DeletePc, NEW pc \in DeletePc,
         jobs' = jobs, tasks' = [tasks EXCEPT ![t].pc = pc]
  PROVE  StepOK
<1> DEFINE k == [tasks[t] EXCEPT !.pc = pc]
<1>0. tasks[t] \in Task /\ TaskShape(jobs, tasks[t])
  BY DEF TypeInv, TasksOK
<1>1. k \in Task
  BY <1>0 DEF Task, Pc
<1>2. TaskShape(jobs, k)
  BY <1>0 DEF Task, TaskShape, RunPc, DeletePc, SubmitPc, ReadPc, PipelineStatus
<1>3. tasks' = [tasks EXCEPT ![t] = k]
  BY DEF TypeInv, TasksOK
<1> QED BY <1>1, <1>2, <1>3, MoveOK DEF TypeInv

LEMMA DeleteStepOK ==
  ASSUME TypeInv, NEW t \in Slots, DeleteStep(t)
  PROVE  StepOK /\ OtherOK'
<1> USE DEF TypeInv
<1> DEFINE j == tasks[t].job
<1>0. tasks[t] \in Task /\ TaskShape(jobs, tasks[t])
  BY DEF TasksOK
<1>1. CASE DeleteTorrent(t)
  <2>1. StepOK
    BY <1>1, DeleteMove DEF DeleteTorrent, DeletePc, storeVars
  <2>2. OtherOK'
    BY <1>1 DEF DeleteTorrent, Remove, OtherOK, storeVars, DownloaderTypeOK, TransferState, Content
  <2> QED BY <2>1, <2>2
<1>2. CASE DeleteFolder(t)
  <2>1. StepOK
    BY <1>2, DeleteMove DEF DeleteFolder, DeletePc, storeVars
  <2>2. OtherOK'
    BY <1>2 DEF DeleteFolder, OtherOK, storeVars, DownloaderTypeOK, Content
  <2> QED BY <2>1, <2>2
<1>3. CASE DeletePlaced(t)
  <2>1. StepOK
    BY <1>3, DeleteMove DEF DeletePlaced, DeletePc, storeVars
  <2>2. OtherOK'
    BY <1>3 DEF DeletePlaced, OtherOK, storeVars, downloaderVars, DownloaderTypeOK
  <2> QED BY <2>1, <2>2
<1>4. CASE CommitDeleted(t)
  <2>1. tasks[t].pc \in DeletePc
    BY <1>4 DEF CommitDeleted, DeletePc
  <2> DEFINE r == [jobs[j] EXCEPT !.status = "DELETED", !.hash = NoHash]
  <2>2. r \in PipelineJob /\ r.status # "NONE" /\ r.payload \in Hashes
    BY ZenonT(60), <2>1, TaskRow DEF PipelineJob, JobStatus
  <2>3. jobs' = [jobs EXCEPT ![j] = r]
    BY <1>4 DEF CommitDeleted, Deleted
  <2>4. RowsOK(jobs') /\ Kept(jobs, jobs')
    BY <2>1, <2>2, <2>3, RowSet, TaskRow
  <2>5. OtherOK'
    BY <1>4 DEF CommitDeleted, IgnoreSubmission, OtherOK, downloaderVars, DownloaderTypeOK
  <2>6. CASE tasks' = [tasks EXCEPT ![t] = Idle]
    BY <2>1, <2>2, <2>3, <2>5, <2>6, TaskRow, IdleIsTask, WriteOK
  <2>7. CASE /\ tasks[t].repl # NoJob
             /\ tasks' = [tasks EXCEPT ![t] = SubmitAt(tasks[t].repl, tasks[t].pick, FALSE)]
    <3>1. Known(jobs', tasks[t].repl) /\ tasks[t].pick \in Hashes
      BY <1>0, <2>1, <2>4, <2>7 DEF TaskShape, Known, Kept
    <3> QED BY <2>1, <2>2, <2>3, <2>5, <2>7, <3>1, TaskRow, SubmitIsTask, WriteOK DEF Known
  <2> QED BY <1>4, <2>6, <2>7 DEF CommitDeleted
<1>5. CASE DeleteFails(t)
  <2>1. OtherOK'
    BY <1>5 DEF DeleteFails, OtherOK, storeVars, downloaderVars, DownloaderTypeOK
  <2> QED BY <1>5, <2>1, IdleIsTask, MoveOK DEF DeleteFails, storeVars
<1> QED BY <1>1, <1>2, <1>3, <1>4, <1>5 DEF DeleteStep

LEMMA DeleteJobOK ==
  ASSUME TypeInv, NEW t \in Slots, NEW j \in JobIds, DeleteJob(t, j)
  PROVE  StepOK /\ OtherOK'
<1>1. OtherOK'
  BY DEF DeleteJob, TypeInv, OtherOK, storeVars, downloaderVars, DownloaderTypeOK
<1>2. Kept(jobs, jobs)
  BY DEF Kept
<1>3. /\ DeleteAt(j, NoJob, NoHash) \in Task
      /\ TaskShape(jobs, DeleteAt(j, NoJob, NoHash))
  BY <1>2, DeleteIsTask DEF DeleteJob, Exists, TypeInv
<1> QED BY <1>1, <1>3, MoveOK DEF DeleteJob, TypeInv, storeVars

LEMMA RedoJobOK ==
  ASSUME TypeInv, NEW t \in Slots, NEW j \in JobIds, NEW h \in Hashes, RedoJob(t, j, h)
  PROVE  StepOK /\ OtherOK'
<1>1. PICK i \in JobIds :
        /\ \/ FindReplacement(i, j) /\ UNCHANGED jobs
           \/ Create(i, jobs[j].media, jobs[j].orphan, h, j)
        /\ RepointSubmission(j, i)
        /\ tasks' = [tasks EXCEPT ![t] = DeleteAt(j, i, h)]
  BY DEF RedoJob
<1>2. jobs[j].status # "NONE" /\ jobs[j] \in PipelineJob
  BY DEF RedoJob, Redoable, TypeInv, RowsOK
<1>3. RowsOK(jobs') /\ Kept(jobs, jobs') /\ jobs'[i].status # "NONE"
  <2>1. CASE FindReplacement(i, j) /\ UNCHANGED jobs
    BY <2>1 DEF FindReplacement, Waiting, TypeInv, Kept
  <2>2. CASE Create(i, jobs[j].media, jobs[j].orphan, h, j)
    <3> DEFINE r == Row(jobs[j].media, jobs[j].orphan, NoHash, h, j)
    <3>0. jobs[j].media \in Media /\ jobs[j].orphan \in BOOLEAN
      BY <1>2 DEF PipelineJob
    <3>1. r \in PipelineJob /\ r.status # "NONE" /\ r.payload \in Hashes
      BY <3>0, NewRowIsRow
    <3>2. jobs' = [jobs EXCEPT ![i] = r]
      BY <2>2 DEF Create
    <3>3. jobs'[i] = r
      BY <3>2 DEF TypeInv, RowsOK
    <3> HIDE DEF r
    <3> QED BY <3>1, <3>2, <3>3, RowSet DEF TypeInv
  <2> QED BY <1>1, <2>1, <2>2
<1>4. DeleteAt(j, i, h) \in Task /\ TaskShape(jobs', DeleteAt(j, i, h))
  BY <1>2, <1>3, DeleteIsTask DEF TypeInv
<1>5. StepOK
  BY <1>1, <1>3, <1>4, RowAndTaskSet DEF StepOK, TypeInv
<1>6. submission' \in [JobIds -> {"none", "submitted", "ignored"}]
  BY <1>1 DEF RepointSubmission, TypeInv, OtherOK
<1>7. OtherOK'
  BY <1>6 DEF RedoJob, TypeInv, OtherOK, downloaderVars, DownloaderTypeOK
<1> QED BY <1>5, <1>7

-----------------------------------------------------------------------------
(* The webhook, the human requests and the reads.                           *)

LEMMA WebhookOK ==
  ASSUME TypeInv, NEW t \in Slots, NEW h \in Hashes, Webhook(t, h)
  PROVE  StepOK /\ OtherOK'
<1> DEFINE k == [Idle EXCEPT !.pc = "start", !.torrent = h]
<1>1. k \in Task /\ \A rows : TaskShape(rows, k)
  BY IdleIsTask DEF Idle, Task, Pc, TaskShape, RunPc, DeletePc, SubmitPc, ReadPc, PipelineStatus
<1>2. tasks' = [tasks EXCEPT ![t] = k]
  BY DEF Webhook
<1>3. OtherOK'
  BY DEF Webhook, TypeInv, OtherOK, DownloaderTypeOK
<1>4. ASSUME NEW j \in JobIds, jobs[j].hash = h, jobs' = [jobs EXCEPT ![j].payload = h]
      PROVE  StepOK
  <2> DEFINE r == [jobs[j] EXCEPT !.payload = h]
  <2>1. jobs[j] \in PipelineJob /\ jobs[j].status # "NONE"
    BY <1>4 DEF TypeInv, RowsOK, NoRow
  <2>2. r \in PipelineJob /\ r.status # "NONE" /\ r.payload \in Hashes
    BY <2>1 DEF PipelineJob
  <2>3. jobs' = [jobs EXCEPT ![j] = r]
    BY <1>4
  <2> QED BY <1>1, <1>2, <2>2, <2>3, WriteOK DEF TypeInv
<1>5. ASSUME NEW j \in JobIds, jobs' = [jobs EXCEPT ![j] = Row("MOVIE", TRUE, h, h, NoJob)]
      PROVE  StepOK
  <2> DEFINE r == Row("MOVIE", TRUE, h, h, NoJob)
  <2>1. r \in PipelineJob /\ r.status # "NONE" /\ r.payload \in Hashes
    BY NewRowIsRow DEF Media
  <2> QED BY <1>1, <1>2, <1>5, <2>1, WriteOK DEF TypeInv
<1> QED BY <1>3, <1>4, <1>5 DEF Webhook

LEMMA StartRunOK ==
  ASSUME TypeInv, NEW t \in Slots, StartRun(t)
  PROVE  StepOK /\ OtherOK'
<1>1. tasks[t].torrent \in Hashes
  BY DEF StartRun, TypeInv, TasksOK, TaskShape
<1>2. Kept(jobs, jobs)
  BY DEF Kept
<1>3. StepOK
  BY <1>1, <1>2, EnterOK DEF StartRun, StepOK, TypeInv
<1>4. OtherOK'
  BY DEF StartRun, TypeInv, OtherOK, downloaderVars, DownloaderTypeOK
<1> QED BY <1>3, <1>4

LEMMA RetryOK ==
  ASSUME TypeInv, NEW t \in Slots, NEW j \in JobIds, Retry(t, j)
  PROVE  StepOK /\ OtherOK'
<1> DEFINE r == [jobs[j] EXCEPT !.attempts = 0, !.remediations = 0]
           rows == [jobs EXCEPT ![j].attempts = 0, ![j].remediations = 0]
<1>1. /\ jobs[j] \in PipelineJob /\ jobs[j].status # "NONE"
      /\ jobs[j].payload \in Hashes /\ jobs[j].hash \in Hashes
  BY DEF Retry, TypeInv, RowsOK, PipelineJob, ActiveStatus, AttentionStatus, AwaitingDownload,
         PipelineStatus
<1>2. 0 \in Attempts /\ 0 \in 0 .. AutoResumeMax
  BY DEF Attempts
<1>3. r \in PipelineJob /\ r.status # "NONE" /\ r.payload \in Hashes
  BY <1>1, <1>2 DEF PipelineJob
<1>4. rows = [jobs EXCEPT ![j] = r]
  OBVIOUS
<1>5. RowsOK(rows) /\ Kept(jobs, rows)
  BY <1>3, <1>4, RowSet DEF TypeInv
<1>6. Enter(t, jobs[j].hash, rows)
  BY DEF Retry
<1>7. StepOK
  <2> HIDE DEF rows
  <2> QED BY <1>1, <1>5, <1>6, EnterOK DEF StepOK, TypeInv
<1>8. OtherOK'
  BY DEF Retry, TypeInv, OtherOK, downloaderVars, DownloaderTypeOK
<1> QED BY <1>7, <1>8

LEMMA DismissOK ==
  ASSUME TypeInv, NEW j \in JobIds, Dismiss(j)
  PROVE  StepOK /\ OtherOK'
<1> DEFINE r == [jobs[j] EXCEPT !.status = "DISMISSED"]
<1>1. jobs[j] \in PipelineJob /\ jobs[j].status # "NONE" /\ jobs[j].payload \in Hashes
  BY DEF Dismiss, AttentionStatus, TypeInv, RowsOK
<1>2. r \in PipelineJob /\ r.status # "NONE" /\ r.payload \in Hashes
  BY <1>1 DEF PipelineJob, JobStatus
<1>3. jobs' = [jobs EXCEPT ![j] = r]
  BY DEF Dismiss
<1>4. RowsOK(jobs') /\ Kept(jobs, jobs')
  BY <1>2, <1>3, RowSet DEF TypeInv
<1>5. StepOK
  BY <1>4, TasksKept DEF StepOK, Dismiss, workerVars, TypeInv
<1>6. OtherOK'
  BY DEF Dismiss, IgnoreSubmission, TypeInv, OtherOK, downloaderVars, workerVars, DownloaderTypeOK
<1> QED BY <1>5, <1>6

LEMMA ReadJobOK ==
  ASSUME TypeInv, NEW t \in Slots, NEW j \in JobIds, ReadJob(t, j)
  PROVE  StepOK /\ OtherOK'
<1> DEFINE k == [Idle EXCEPT !.pc = "read", !.job = j, !.torrent = jobs[j].hash]
<1>1. jobs[j].hash \in Hashes /\ jobs[j].status # "NONE"
  BY DEF ReadJob, TypeInv, RowsOK, PipelineJob
<1>2. k \in Task /\ TaskShape(jobs, k)
  BY <1>1, IdleIsTask DEF Idle, Task, Pc, TaskShape, Known, RunPc, DeletePc, SubmitPc, ReadPc,
                          PipelineStatus
<1>3. OtherOK'
  BY DEF ReadJob, TypeInv, OtherOK, storeVars, downloaderVars, DownloaderTypeOK
<1> QED BY <1>2, <1>3, MoveOK DEF ReadJob, TypeInv, storeVars

LEMMA AdvanceRow ==
  ASSUME RowsOK(jobs), NEW j \in JobIds, jobs[j].status # "NONE", AdvanceToDownloading(j)
  PROVE  \E r \in PipelineJob : /\ r.status # "NONE"
                                /\ r.payload \in Hashes
                                /\ jobs' = [jobs EXCEPT ![j] = r]
<1> DEFINE r == [jobs[j] EXCEPT !.status = "DOWNLOADING"]
<1>1. jobs[j] \in PipelineJob /\ jobs[j].payload \in Hashes
  BY DEF RowsOK
<1>2. r \in PipelineJob /\ r.status # "NONE" /\ r.payload \in Hashes
  BY <1>1 DEF PipelineJob, JobStatus, AwaitingDownload
<1>3. jobs' = [jobs EXCEPT ![j] = r]
  BY DEF AdvanceToDownloading
<1> QED BY <1>2, <1>3

LEMMA ReadStepOK ==
  ASSUME TypeInv, NEW t \in Slots, ReadStep(t)
  PROVE  StepOK /\ OtherOK'
<1> USE DEF TypeInv
<1>0. tasks[t] \in Task /\ TaskShape(jobs, tasks[t])
  BY DEF TasksOK
<1>1. CASE ReadTransfers(t)
  <2> DEFINE k == [tasks[t] EXCEPT !.pc = "observed"]
  <2>1. k \in Task
    BY <1>0 DEF Task, Pc, ReadPc
  <2>2. TaskShape(jobs, k)
    BY <1>0, <1>1 DEF ReadTransfers, Task, TaskShape, RunPc, DeletePc, SubmitPc, ReadPc,
                      PipelineStatus
  <2>3. jobs' = jobs /\ \/ tasks' = [tasks EXCEPT ![t] = k]
                        \/ tasks' = [tasks EXCEPT ![t] = Idle]
    BY <1>1 DEF ReadTransfers, storeVars
  <2>4. OtherOK'
    BY <1>1 DEF ReadTransfers, OtherOK, storeVars, downloaderVars, DownloaderTypeOK
  <2> QED BY <2>1, <2>2, <2>3, <2>4, IdleIsTask, MoveOK
<1>2. CASE Advance(t)
  <2>1. tasks[t].pc \in ReadPc
    BY <1>2 DEF Advance, ReadPc
  <2>2. PICK r \in PipelineJob : /\ r.status # "NONE"
                                 /\ r.payload \in Hashes
                                 /\ jobs' = [jobs EXCEPT ![tasks[t].job] = r]
    BY <1>2, <2>1, TaskRow, AdvanceRow DEF Advance
  <2>3. OtherOK'
    BY <1>2 DEF Advance, OtherOK, downloaderVars, DownloaderTypeOK
  <2> QED BY <1>2, <2>1, <2>2, <2>3, TaskRow, IdleIsTask, WriteOK DEF Advance
<1>3. CASE ReadFails(t)
  <2>1. OtherOK'
    BY <1>3 DEF ReadFails, OtherOK, storeVars, downloaderVars, DownloaderTypeOK
  <2> QED BY <1>3, <2>1, IdleIsTask, MoveOK DEF ReadFails, storeVars
<1> QED BY <1>1, <1>2, <1>3 DEF ReadStep

-----------------------------------------------------------------------------
(* The sweep.                                                               *)

LEMMA PollIdleOK == \A rows : PollOK(rows, PollIdle)
BY PassIsVerdict DEF PollIdle, PollOK, VerdictShape, TransferState

\* One rule done: the others stay as they are.
LEMMA HandledOK ==
  ASSUME NEW rows, PollOK(rows, poll), NEW j \in JobIds, Handled(j)
  PROVE  PollOK(rows, poll')
<1>1. poll' = [poll EXCEPT !.pc = "sweep", !.todo[j] = Pass]
  BY DEF Handled
<1>2. poll'.pc = "sweep" /\ poll'.todo = [poll.todo EXCEPT ![j] = Pass]
  BY <1>1 DEF PollOK
<1>3. poll' \in [pc : {"idle", "asked", "sweep", "resume", "resumed"},
                 seen : [Hashes -> TransferState],
                 todo : [JobIds -> Verdict]]
  BY <1>1, PassIsVerdict DEF PollOK
<1>4. \A i \in JobIds : VerdictShape(rows, poll', i)
  BY <1>2 DEF PollOK, VerdictShape
<1> QED BY <1>3, <1>4 DEF PollOK

\* The sweep at one row moves within its rule.
LEMMA PollMoveOK ==
  ASSUME NEW rows, PollOK(rows, poll), NEW j \in JobIds, NEW pc \in {"resume", "resumed"},
         poll.todo[j].rule = "resume", poll.todo[j] # Pass,
         \A i \in JobIds : i > j => poll.todo[i] = Pass,
         poll' = [poll EXCEPT !.pc = pc]
  PROVE  PollOK(rows, poll')
<1>1. poll'.pc = pc /\ poll'.todo = poll.todo
  BY DEF PollOK
<1>2. poll' \in [pc : {"idle", "asked", "sweep", "resume", "resumed"},
                 seen : [Hashes -> TransferState],
                 todo : [JobIds -> Verdict]]
  BY DEF PollOK
<1>3. ASSUME NEW i \in JobIds PROVE VerdictShape(rows, poll', i)
  <2>1. CASE i = j
    BY <1>1, <2>1 DEF PollOK, VerdictShape
  <2>2. CASE i # j
    <3>1. poll.todo[i] = Pass \/ j > i
      BY <2>2 DEF JobIds
    <3> QED BY <1>1, <3>1 DEF PollOK, VerdictShape
  <2> QED BY <2>1, <2>2
<1> QED BY <1>2, <1>3 DEF PollOK

LEMMA JudgeOK ==
  ASSUME NEW row \in PipelineJob, NEW seen \in [Hashes -> TransferState]
  PROVE  /\ Judge(row, seen) \in Verdict
         /\ Judge(row, seen) # Pass =>
              /\ row.status # "NONE"
              /\ Judge(row, seen).rule \in {"resume", "run", "retry"} =>
                   Judge(row, seen).hash \in Hashes
              /\ Judge(row, seen).rule = "resume" =>
                   Judge(row, seen).remediations < AutoResumeMax
<1> DEFINE rule == Rule(row, seen)
<1>1. rule \in Rules
  BY DEF Rule, FailedRule, TransferRule, Rules
<1>2. rule # "pass" => row.status # "NONE"
  BY DEF Rule, AwaitingDownload
<1>3. rule \in {"resume", "run", "retry"} => row.hash \in Hashes
  BY DEF Rule, FailedRule, TransferRule, PipelineJob
<1>4. rule = "resume" => row.remediations < AutoResumeMax
  BY DEF Rule, FailedRule, TransferRule, PipelineJob
<1>5. CASE rule = "pass"
  BY <1>5, PassIsVerdict DEF Judge
<1>6. CASE rule # "pass"
  <2>1. Judge(row, seen) =
          [rule |-> rule, hash |-> row.hash, remediations |-> row.remediations]
    BY <1>6 DEF Judge
  <2> HIDE DEF rule
  <2> QED BY <1>1, <1>2, <1>3, <1>4, <1>6, <2>1 DEF Verdict, PipelineJob
<1> QED BY <1>5, <1>6

\* A step of the poll that leaves the rows and the coroutines alone.
LEMMA StillOK ==
  ASSUME TypeInv, jobs' = jobs, tasks' = tasks
  PROVE  StepOK
BY DEF TypeInv, StepOK, Kept

LEMMA PollStepOK ==
  ASSUME TypeInv, PollStep
  PROVE  StepOK /\ PollOK(jobs', poll') /\ OtherOK'
<1> USE DEF TypeInv
<1>0. Poller \in Slots
  BY DEF Slots
<1>1. CASE PollAsk
  <2>1. PollOK(jobs, poll')
    BY <1>1, PassIsVerdict DEF PollAsk, PollIdle, PollOK, VerdictShape, OtherOK, DownloaderTypeOK
  <2> QED BY <1>1, <2>1, StillOK
          DEF PollAsk, storeVars, workerVars, downloaderVars, OtherOK, DownloaderTypeOK
<1>2. CASE PollSkip \/ PollEnd
  BY <1>2, PollIdleOK, StillOK
     DEF PollSkip, PollEnd, storeVars, workerVars, downloaderVars, OtherOK, DownloaderTypeOK
<1>3. CASE PollList
  <2> DEFINE todo == [j \in JobIds |-> Judge(jobs[j], poll.seen)]
  <2>1. poll.seen \in [Hashes -> TransferState]
    BY DEF PollOK
  <2>2. \A j \in JobIds : jobs[j] \in PipelineJob
    BY DEF RowsOK
  <2>3. todo \in [JobIds -> Verdict]
    BY <2>1, <2>2, JudgeOK
  <2>4. poll' = [PollIdle EXCEPT !.pc = "sweep", !.todo = todo]
    BY <1>3 DEF PollList
  <2>5. poll'.pc = "sweep" /\ poll'.todo = todo
    BY <2>4 DEF PollIdle
  <2>6. \A j \in JobIds : VerdictShape(jobs, poll', j)
    BY <2>1, <2>2, <2>5, JudgeOK DEF VerdictShape, Known
  <2>7. poll' \in [pc : {"idle", "asked", "sweep", "resume", "resumed"},
                   seen : [Hashes -> TransferState],
                   todo : [JobIds -> Verdict]]
    BY <2>3, <2>4 DEF PollIdle, TransferState
  <2>8. PollOK(jobs, poll')
    BY <2>6, <2>7 DEF PollOK
  <2> QED BY <1>3, <2>8, StillOK
          DEF PollList, storeVars, workerVars, downloaderVars, OtherOK, DownloaderTypeOK
<1>4. ASSUME NEW j \in JobIds, ApplyRule(j)
      PROVE  StepOK /\ PollOK(jobs', poll') /\ OtherOK'
  <2>1. CASE PollFlag(j)
    <3> DEFINE r == [jobs[j] EXCEPT !.status = "NEEDS_ATTENTION"]
    <3>1. jobs[j] \in PipelineJob /\ jobs[j].status # "NONE" /\ jobs[j].payload \in Hashes
      BY <2>1 DEF PollFlag, At, PollOK, VerdictShape, Known, RowsOK
    <3>2. r \in PipelineJob /\ r.status # "NONE" /\ r.payload \in Hashes
      BY <3>1 DEF PipelineJob, JobStatus
    <3>3. jobs' = [jobs EXCEPT ![j] = r]
      BY <2>1 DEF PollFlag
    <3>4. RowsOK(jobs') /\ Kept(jobs, jobs')
      BY <3>2, <3>3, RowSet
    <3>5. StepOK
      BY <2>1, <3>4, TasksKept DEF PollFlag, workerVars, StepOK
    <3>6. PollOK(jobs', poll')
      BY <2>1, <3>4, HandledOK, PollKept DEF PollFlag
    <3> QED BY <2>1, <3>5, <3>6
            DEF PollFlag, workerVars, downloaderVars, OtherOK, DownloaderTypeOK
  <2>2. CASE PollProcess(j)
    <3>1. poll.todo[j].hash \in Hashes
      BY <2>2 DEF PollProcess, At, PollOK, VerdictShape
    <3>2. Kept(jobs, jobs)
      BY DEF Kept
    <3>3. StepOK
      BY <1>0, <2>2, <3>1, <3>2, EnterOK DEF PollProcess, StepOK
    <3>4. PollOK(jobs', poll')
      BY <2>2, <3>3, HandledOK, PollKept DEF PollProcess, StepOK
    <3> QED BY <2>2, <3>3, <3>4 DEF PollProcess, downloaderVars, OtherOK, DownloaderTypeOK
  <2>3. CASE PollAdvance(j)
    <3>1. jobs[j].status # "NONE"
      BY <2>3 DEF PollAdvance, At, PollOK, VerdictShape, Known
    <3>2. PICK r \in PipelineJob : /\ r.status # "NONE"
                                   /\ r.payload \in Hashes
                                   /\ jobs' = [jobs EXCEPT ![j] = r]
      BY <2>3, <3>1, AdvanceRow DEF PollAdvance
    <3>3. RowsOK(jobs') /\ Kept(jobs, jobs')
      BY <3>2, RowSet
    <3>4. StepOK
      BY <2>3, <3>3, TasksKept DEF PollAdvance, workerVars, StepOK
    <3>5. PollOK(jobs', poll')
      BY <2>3, <3>3, HandledOK, PollKept DEF PollAdvance
    <3> QED BY <2>3, <3>4, <3>5
            DEF PollAdvance, workerVars, downloaderVars, OtherOK, DownloaderTypeOK
  <2>4. CASE PollResume(j)
    <3>1. PollOK(jobs, poll')
      BY <2>4, PollMoveOK DEF PollResume, At
    <3> QED BY <2>4, <3>1, StillOK
            DEF PollResume, storeVars, workerVars, downloaderVars, OtherOK, DownloaderTypeOK
  <2>5. CASE ResumeTransfer(j)
    <3>1. poll.todo[j].rule = "resume"
      BY <2>5 DEF ResumeTransfer, At, PollOK, VerdictShape
    <3>2. PollOK(jobs, poll')
      BY <2>5, <3>1, PollMoveOK DEF ResumeTransfer, At
    <3>3. OtherOK'
      BY <2>5 DEF ResumeTransfer, Resume, storeVars, workerVars, OtherOK, DownloaderTypeOK,
                  TransferState
    <3> QED BY <2>5, <3>2, <3>3, StillOK DEF ResumeTransfer, storeVars, workerVars
  <2>6. CASE CountResume(j)
    <3> DEFINE r == [jobs[j] EXCEPT !.remediations = poll.todo[j].remediations + 1]
    <3>1. /\ jobs[j] \in PipelineJob /\ jobs[j].status # "NONE" /\ jobs[j].payload \in Hashes
          /\ poll.todo[j] \in Verdict
          /\ poll.todo[j].remediations < AutoResumeMax
      BY <2>6 DEF CountResume, At, PollOK, VerdictShape, Known, RowsOK
    <3>2. poll.todo[j].remediations + 1 \in 0 .. AutoResumeMax
      BY <3>1 DEF Verdict
    <3>3. r \in PipelineJob /\ r.status # "NONE" /\ r.payload \in Hashes
      BY <3>1, <3>2 DEF PipelineJob
    <3>4. jobs' = [jobs EXCEPT ![j] = r]
      BY <2>6 DEF CountResume
    <3>5. RowsOK(jobs') /\ Kept(jobs, jobs')
      BY <3>3, <3>4, RowSet
    <3>6. StepOK
      BY <2>6, <3>5, TasksKept DEF CountResume, workerVars, StepOK
    <3>7. PollOK(jobs', poll')
      BY <2>6, <3>5, HandledOK, PollKept DEF CountResume
    <3> QED BY <2>6, <3>6, <3>7
            DEF CountResume, workerVars, downloaderVars, OtherOK, DownloaderTypeOK
  <2>7. CASE ResumeFails(j)
    <3>1. PollOK(jobs, poll')
      BY <2>7, HandledOK DEF ResumeFails
    <3> QED BY <2>7, <3>1, StillOK
            DEF ResumeFails, storeVars, workerVars, downloaderVars, OtherOK, DownloaderTypeOK
  <2> QED BY <1>4, <2>1, <2>2, <2>3, <2>4, <2>5, <2>6, <2>7 DEF ApplyRule
<1> QED BY <1>1, <1>2, <1>3, <1>4 DEF PollStep

-----------------------------------------------------------------------------
(* The whole pipeline.                                                      *)

LEMMA TransfersOK ==
  ASSUME TypeInv, NEW h \in Hashes, Transfers(h)
  PROVE  StepOK /\ OtherOK'
<1> USE DEF TypeInv
<1>1. jobs' = jobs /\ saved' = saved /\ submission' = submission
  BY DEF Transfers, TransferStarts, TransferErrors, TransferCompletes, HookLost, AddedByHand,
         RemovedByHand, storeVars
<1>2. tasks' = tasks /\ library' = library
  BY DEF Transfers, workerVars
<1>3. DownloaderTypeOK'
  BY DEF Transfers, TransferStarts, TransferErrors, TransferCompletes, HookLost, AddedByHand,
         RemovedByHand, Add, Remove, OtherOK, DownloaderTypeOK, TransferState, Content
<1> QED BY <1>1, <1>2, <1>3, StillOK DEF OtherOK

LEMMA RestartOK ==
  ASSUME TypeInv, Restart
  PROVE  TypeInv'
<1> USE DEF TypeInv
<1>1. \A j \in JobIds :
        /\ [jobs[j] EXCEPT !.hash = NoHash] \in PipelineJob
        /\ [jobs[j] EXCEPT !.hash = NoHash].status = jobs[j].status
        /\ [jobs[j] EXCEPT !.hash = NoHash].payload = jobs[j].payload
  BY DEF RowsOK, PipelineJob
<1>2. RowsOK(jobs')
  BY <1>1 DEF Restart, ReleaseDeletedHashes, RowsOK
<1>3. TasksOK(jobs', tasks')
  BY IdleIsTask DEF Restart, TasksOK
<1>4. PollOK(jobs', poll')
  BY PollIdleOK DEF Restart
<1>5. OtherOK'
  BY DEF Restart, OtherOK, downloaderVars, DownloaderTypeOK
<1>6. restarts' \in 0 .. MaxRestarts
  BY DEF Restart
<1> QED BY <1>2, <1>3, <1>4, <1>5, <1>6

\* A step of a coroutine or of qBittorrent, as it appears in Next.
LEMMA OutsidePoll ==
  ASSUME TypeInv, StepOK, OtherOK', UNCHANGED <<poll, restarts>>
  PROVE  TypeInv'
BY PollKept DEF TypeInv, StepOK

LEMMA NextTypeInv == TypeInv /\ [Next]_vars => TypeInv'
<1> SUFFICES ASSUME TypeInv, [Next]_vars PROVE TypeInv' OBVIOUS
<1>1. ASSUME NEW h \in Hashes, Transfers(h) PROVE TypeInv'
  BY <1>1, TransfersOK, OutsidePoll DEF Transfers
<1>2. ASSUME NEW t \in Tasks, Request(t) PROVE TypeInv'
  <2>1. t \in Slots
    BY DEF Slots
  <2>2. StepOK /\ OtherOK'
    BY <1>2, <2>1, SubmitOK, RetryOK, DeleteJobOK, ReadJobOK, RedoJobOK DEF Request
  <2> QED BY <1>2, <2>2, OutsidePoll DEF Request
<1>3. ASSUME NEW t \in Tasks, HookArrives(t) PROVE TypeInv'
  BY <1>3, WebhookOK, OutsidePoll DEF HookArrives, Slots
<1>4. ASSUME NEW t \in Slots, Resumes(t) PROVE TypeInv'
  <2>1. StepOK /\ OtherOK'
    BY <1>4, StartRunOK, RunStepOK, SubmitStepOK, DeleteStepOK, ReadStepOK DEF Resumes
  <2> QED BY <1>4, <2>1, OutsidePoll DEF Resumes
<1>5. CASE DismissJob
  BY <1>5, DismissOK, OutsidePoll DEF DismissJob
<1>6. CASE Tick
  BY <1>6, PollStepOK DEF Tick, TypeInv, StepOK
<1>7. CASE Restart
  BY <1>7, RestartOK
<1>8. CASE UNCHANGED vars
  BY <1>8 DEF vars, storeVars, downloaderVars, workerVars, TypeInv, OtherOK, DownloaderTypeOK
<1> QED BY <1>1, <1>2, <1>3, <1>4, <1>5, <1>6, <1>7, <1>8 DEF Next

\* Every coroutine and every rule of a sweep names a row that exists and the hash it
\* needs: no step of the program meets a row or a hash that is missing.
THEOREM TypeInvariant == Spec => []TypeInv
BY InitTypeInv, NextTypeInv, PTL DEF Spec

\* Every variable keeps its type: no row, coroutine, sweep or folder takes a value the
\* program has no name for, at any interleaving.
THEOREM TypeCorrect == Spec => []TypeOK
BY TypeInvariant, TypeInvImpliesTypeOK, PTL
=============================================================================
