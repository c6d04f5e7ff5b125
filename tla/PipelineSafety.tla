--------------------------- MODULE PipelineSafety ---------------------------
(***************************************************************************)
(* The safety properties of Pipeline, proved from its type invariant.      *)
(***************************************************************************)
EXTENDS PipelineProofs

USE JobStoreAssumption, WorkerAssumption, PipelineAssumption

-----------------------------------------------------------------------------
(* What a step does to a row, apart from the steps that create a row, stamp *)
(* a hash or delete a job: it patches other columns.                        *)

SameKeys(old, new) ==
  /\ new.hash = old.hash
  /\ new.redoOf = old.redoOf
  /\ old.seedingRemoved => new.seedingRemoved
  /\ old.dest => new.dest

Patched(old, new) ==
  /\ SameKeys(old, new)
  /\ new.status = "DOWNLOAD_SUBMITTED" => old.status = "DOWNLOAD_SUBMITTED"

AllPatched == \A i \in JobIds : Patched(jobs[i], jobs'[i])

LEMMA SamePatched == ASSUME jobs' = jobs PROVE AllPatched
BY DEF AllPatched, Patched, SameKeys

LEMMA RunPatched ==
  ASSUME TypeInv, NEW t \in Slots, RunStep(t)
  PROVE  AllPatched
<1> USE DEF TypeInv, RowsOK, PipelineJob, AllPatched, Patched, SameKeys
<1> DEFINE j == tasks[t].job
<1>a. ASSUME NEW r, Patched(jobs[j], r), jobs' = [jobs EXCEPT ![j] = r]
      PROVE  AllPatched
  <2> USE <1>a
  <2>1. \A i \in JobIds : (jobs'[i] = r /\ i = j) \/ jobs'[i] = jobs[i]
    OBVIOUS
  <2> QED BY <2>1
<1>1. CASE CommitStopped(t)
  <2> DEFINE r == [jobs[j] EXCEPT !.status = "RESOLVE_META", !.seedingRemoved = TRUE,
                                  !.payload = tasks[t].payload]
  <2>1. jobs' = [jobs EXCEPT ![j] = r]
    BY <1>1 DEF CommitStopped, Commit
  <2>2. CASE j \in JobIds
    <3>1. Patched(jobs[j], r)
      BY <2>2
    <3> QED BY <1>a, <2>1, <3>1
  <2>3. CASE j \notin JobIds
    BY <2>1, <2>3, SamePatched
  <2> QED BY <2>2, <2>3
<1>2. CASE ResolveMeta(t)
  BY <1>2 DEF ResolveMeta, Commit
<1>3. CASE CommitPlaced(t)
  <2> DEFINE r == [jobs[j] EXCEPT !.status = "SCAN", !.dest = TRUE,
                                  !.placed = tasks[t].placed]
  <2>1. jobs' = [jobs EXCEPT ![j] = r]
    BY <1>3 DEF CommitPlaced, Commit
  <2>2. CASE j \in JobIds
    <3>1. Patched(jobs[j], r)
      BY <2>2
    <3> QED BY <1>a, <2>1, <3>1
  <2>3. CASE j \notin JobIds
    BY <2>1, <2>3, SamePatched
  <2> QED BY <2>2, <2>3
<1>4. CASE Scan(t)
  BY <1>4 DEF Scan
<1>5. CASE StepFails(t) \/ PlaceLocked(t)
  BY <1>5 DEF StepFails, PlaceLocked, FailJob
<1>6. CASE RemoveTransfer(t) \/ ListFiles(t) \/ Place(t) \/ PlaceNothing(t)
  BY <1>6, SamePatched DEF RemoveTransfer, ListFiles, Place, PlaceNothing, storeVars
<1> QED BY <1>1, <1>2, <1>3, <1>4, <1>5, <1>6 DEF RunStep

LEMMA EnterPatched ==
  ASSUME NEW rows, RowsOK(rows), NEW t \in Slots, NEW h, Enter(t, h, rows)
  PROVE  \A i \in JobIds : Patched(rows[i], jobs'[i])
<1> USE DEF RowsOK, PipelineJob, Patched, SameKeys
<1>1. CASE jobs' = rows
  BY <1>1
<1>2. CASE \E j \in JobIds : jobs' = [rows EXCEPT ![j].status = "STOP_SEEDING"]
  BY <1>2
<1>3. CASE \E j \in JobIds :
             jobs' = [rows EXCEPT ![j].status = "FAILED", ![j].attempts = Bump(@)]
  BY <1>3
<1> QED BY <1>1, <1>2, <1>3 DEF Enter

\* A retry enters process on a table that differs in budgets only.
LEMMA RetryEnters ==
  ASSUME TypeInv, NEW t \in Slots, NEW j \in JobIds, Retry(t, j)
  PROVE  /\ jobs[j].hash \in Hashes
         /\ \E rows : /\ RowsOK(rows)
                      /\ Enter(t, jobs[j].hash, rows)
                      /\ \A i \in JobIds : /\ rows[i].status = jobs[i].status
                                           /\ Patched(jobs[i], rows[i])
                                           /\ Patched(rows[i], jobs[i])
<1> DEFINE r == [jobs[j] EXCEPT !.attempts = 0, !.remediations = 0]
           rows == [jobs EXCEPT ![j].attempts = 0, ![j].remediations = 0]
<1>1. /\ jobs[j] \in PipelineJob /\ jobs[j].status # "NONE"
      /\ jobs[j].payload \in Hashes /\ jobs[j].hash \in Hashes
  BY DEF Retry, TypeInv, RowsOK, PipelineJob, ActiveStatus, AttentionStatus, AwaitingDownload,
         PipelineStatus
<1>2. r \in PipelineJob /\ r.status # "NONE" /\ r.payload \in Hashes
  <2>1. 0 \in Attempts /\ 0 \in 0 .. AutoResumeMax
    BY DEF Attempts
  <2> QED BY <1>1, <2>1 DEF PipelineJob
<1>3. rows = [jobs EXCEPT ![j] = r]
  OBVIOUS
<1>4. RowsOK(rows)
  BY <1>2, <1>3, RowSet DEF TypeInv
<1>5. Enter(t, jobs[j].hash, rows)
  BY DEF Retry
<1>6. \A i \in JobIds : /\ rows[i].status = jobs[i].status
                       /\ Patched(jobs[i], rows[i])
                       /\ Patched(rows[i], jobs[i])
  BY DEF TypeInv, RowsOK, PipelineJob, Patched, SameKeys
<1> HIDE DEF rows
<1> QED BY <1>1, <1>4, <1>5, <1>6

LEMMA RetryPatched ==
  ASSUME TypeInv, NEW t \in Slots, NEW j \in JobIds, Retry(t, j)
  PROVE  AllPatched
<1>1. PICK rows : /\ RowsOK(rows)
                  /\ Enter(t, jobs[j].hash, rows)
                  /\ \A i \in JobIds : Patched(jobs[i], rows[i])
  BY RetryEnters
<1>2. \A i \in JobIds : Patched(rows[i], jobs'[i])
  BY <1>1, EnterPatched
<1> QED BY <1>1, <1>2 DEF AllPatched, Patched, SameKeys

LEMMA PollPatched ==
  ASSUME TypeInv, PollStep
  PROVE  AllPatched
<1> USE DEF TypeInv
<1>1. CASE PollAsk \/ PollSkip \/ PollList \/ PollEnd
  BY <1>1, SamePatched DEF PollAsk, PollSkip, PollList, PollEnd, storeVars
<1>2. ASSUME NEW j \in JobIds, ApplyRule(j) PROVE AllPatched
  <2>1. CASE PollFlag(j) \/ PollAdvance(j) \/ CountResume(j)
    BY <2>1 DEF PollFlag, PollAdvance, AdvanceToDownloading, CountResume, RowsOK, PipelineJob,
                AllPatched, Patched, SameKeys
  <2>2. CASE PollProcess(j)
    BY <2>2, EnterPatched DEF PollProcess, Slots, AllPatched
  <2>3. CASE PollResume(j) \/ ResumeTransfer(j) \/ ResumeFails(j)
    BY <2>3, SamePatched DEF PollResume, ResumeTransfer, ResumeFails, storeVars
  <2> QED BY <1>2, <2>1, <2>2, <2>3 DEF ApplyRule
<1> QED BY <1>1, <1>2 DEF PollStep

\* The steps that do more than patch.
CreatesOrphan(j, h) ==
  /\ \A i \in JobIds : jobs[i].hash # h
  /\ NextSeq(j)
  /\ jobs' = [jobs EXCEPT ![j] = Row("MOVIE", TRUE, h, h, NoJob)]

LEMMA StepOnRows ==
  ASSUME TypeInv, [Next]_vars
  PROVE  \/ AllPatched
         \/ \E t \in Tasks, h \in Hashes : Submit(t, h, FALSE) \/ Submit(t, h, TRUE)
         \/ \E t \in Tasks, h \in Hashes, j \in JobIds : RedoJob(t, j, h)
         \/ \E h \in Hashes, j \in JobIds : CreatesOrphan(j, h)
         \/ \E t \in Slots : Answer(t)
         \/ \E t \in Slots : CommitDeleted(t)
         \/ Restart
<1>1. ASSUME NEW h \in Hashes, Transfers(h) PROVE AllPatched
  BY <1>1, SamePatched
     DEF Transfers, TransferStarts, TransferErrors, TransferCompletes, HookLost, AddedByHand,
         RemovedByHand, storeVars
<1>2. ASSUME NEW t \in Tasks, NEW j \in JobIds, Retry(t, j) PROVE AllPatched
  BY <1>2, RetryPatched DEF Slots
<1>3. ASSUME NEW t \in Tasks, NEW j \in JobIds, DeleteJob(t, j) \/ ReadJob(t, j)
      PROVE  AllPatched
  BY <1>3, SamePatched DEF DeleteJob, ReadJob, storeVars
<1>4. ASSUME NEW t \in Tasks, NEW h \in Hashes, Webhook(t, h)
      PROVE  AllPatched \/ \E j \in JobIds : CreatesOrphan(j, h)
  <2>1. ASSUME NEW j \in JobIds, jobs' = [jobs EXCEPT ![j].payload = h] PROVE AllPatched
    BY <2>1 DEF TypeInv, RowsOK, PipelineJob, AllPatched, Patched, SameKeys
  <2> QED BY <1>4, <2>1 DEF Webhook, CreatesOrphan
<1>5. ASSUME NEW t \in Slots, RunStep(t) PROVE AllPatched
  BY <1>5, RunPatched
<1>6. ASSUME NEW t \in Slots, StartRun(t) PROVE AllPatched
  BY <1>6, EnterPatched DEF StartRun, TypeInv, AllPatched
<1>7. ASSUME NEW t \in Slots, SubmitStep(t) PROVE AllPatched \/ Answer(t)
  BY <1>7, SamePatched DEF SubmitStep, Forward, SubmitFails, storeVars
<1>8. ASSUME NEW t \in Slots, DeleteStep(t) PROVE AllPatched \/ CommitDeleted(t)
  BY <1>8, SamePatched
     DEF DeleteStep, DeleteTorrent, DeleteFolder, DeletePlaced, DeleteFails, storeVars
<1>9. ASSUME NEW t \in Slots, ReadStep(t) PROVE AllPatched
  <2>1. CASE Advance(t)
    <3>1. jobs' = [jobs EXCEPT ![tasks[t].job].status = "DOWNLOADING"]
      BY <2>1 DEF Advance, AdvanceToDownloading
    <3> QED BY <3>1 DEF TypeInv, RowsOK, PipelineJob, AllPatched, Patched, SameKeys
  <2>2. CASE ReadTransfers(t) \/ ReadFails(t)
    BY <2>2, SamePatched DEF ReadTransfers, ReadFails, storeVars
  <2> QED BY <1>9, <2>1, <2>2 DEF ReadStep
<1>10. CASE DismissJob
  <2>1. PICK j \in JobIds : jobs' = [jobs EXCEPT ![j].status = "DISMISSED"]
    BY <1>10 DEF DismissJob, Dismiss
  <2> QED BY ZenonT(60), <2>1 DEF TypeInv, RowsOK, PipelineJob, AllPatched, Patched, SameKeys
<1>11. CASE Tick
  BY <1>11, PollPatched DEF Tick
<1>12. CASE UNCHANGED vars
  BY <1>12, SamePatched DEF vars, storeVars
<1> QED BY <1>1, <1>2, <1>3, <1>4, <1>5, <1>6, <1>7, <1>8, <1>9, <1>10, <1>11, <1>12
        DEF Next, Request, HookArrives, Resumes

-----------------------------------------------------------------------------
(* One live job per torrent, one waiting replacement per job.  Both follow  *)
(* from what each kind of step does to the hash and redo_of columns.        *)

LEMMA CreateRow ==
  ASSUME TypeInv, NEW j \in JobIds, NEW media, NEW orphan, NEW h, NEW old,
         Create(j, media, orphan, h, old)
  PROVE  /\ jobs[j] = NoRow
         /\ jobs'[j].hash = NoHash /\ jobs'[j].redoOf = old
         /\ \A i \in JobIds \ {j} : jobs'[i] = jobs[i]
<1>1. jobs[j] = NoRow
  BY DEF Create, NextSeq, Exists, TypeInv, RowsOK
<1>2. jobs'[j] = Row(media, orphan, NoHash, h, old)
  BY DEF Create, TypeInv, RowsOK
<1>3. \A i \in JobIds \ {j} : jobs'[i] = jobs[i]
  BY DEF Create, TypeInv, RowsOK
<1> QED BY <1>1, <1>2, <1>3 DEF Row, NoRow

LEMMA AnswerRow ==
  ASSUME TypeInv, NEW t \in Slots, Answer(t)
  PROVE  /\ tasks[t].job \in JobIds /\ tasks[t].pick \in Hashes
         /\ \A i \in JobIds \ {tasks[t].job} : jobs'[i] = jobs[i]
         /\ jobs'[tasks[t].job].redoOf = jobs[tasks[t].job].redoOf
         /\ jobs'[tasks[t].job].status \in {jobs[tasks[t].job].status, "FAILED"}
         /\ \/ jobs'[tasks[t].job].hash = jobs[tasks[t].job].hash
            \/ /\ jobs'[tasks[t].job].hash = tasks[t].pick
               /\ ~OwnedByOther(tasks[t].job, tasks[t].pick)
<1> DEFINE j == tasks[t].job
<1>1. j \in JobIds /\ tasks[t].pick \in Hashes
  BY TaskRow DEF Answer, SubmitPc, TypeInv, TasksOK, TaskShape
<1>2. \/ jobs' = jobs
      \/ jobs' = [jobs EXCEPT ![j].status = "FAILED"]
      \/ ~OwnedByOther(j, tasks[t].pick) /\ jobs' = [jobs EXCEPT ![j].hash = tasks[t].pick]
  BY DEF Answer, Stamped
<1> QED BY <1>1, <1>2 DEF TypeInv, RowsOK, PipelineJob

LEMMA DeletedRow ==
  ASSUME TypeInv, NEW t \in Slots, CommitDeleted(t)
  PROVE  /\ tasks[t].job \in JobIds
         /\ jobs'[tasks[t].job].status = "DELETED" /\ jobs'[tasks[t].job].hash = NoHash
         /\ SameKeys([jobs[tasks[t].job] EXCEPT !.hash = NoHash], jobs'[tasks[t].job])
         /\ \A i \in JobIds \ {tasks[t].job} : jobs'[i] = jobs[i]
<1>1. tasks[t].job \in JobIds
  BY TaskRow DEF CommitDeleted, DeletePc, TypeInv
<1> DEFINE j == tasks[t].job
           r == [jobs[j] EXCEPT !.status = "DELETED", !.hash = NoHash]
<1>2. jobs[j] \in PipelineJob /\ jobs \in [JobIds -> PipelineJob]
  BY <1>1 DEF TypeInv, RowsOK
<1>3. jobs' = [jobs EXCEPT ![j] = r]
  BY DEF CommitDeleted, Deleted
<1>4. r.status = "DELETED" /\ r.hash = NoHash /\ SameKeys([jobs[j] EXCEPT !.hash = NoHash], r)
  BY <1>2 DEF PipelineJob, SameKeys
<1> HIDE DEF r
<1> QED BY <1>1, <1>2, <1>3, <1>4

LEMMA NextHashUnique == TypeInv /\ HashUnique /\ [Next]_vars => HashUnique'
<1> SUFFICES ASSUME TypeInv, HashUnique, [Next]_vars PROVE HashUnique' OBVIOUS
<1>1. CASE AllPatched
  BY <1>1 DEF AllPatched, Patched, SameKeys, HashUnique
<1>2. ASSUME NEW j \in JobIds, NEW media, NEW orphan, NEW h, NEW old,
             Create(j, media, orphan, h, old)
      PROVE  HashUnique'
  BY <1>2, CreateRow DEF HashUnique
<1>3. ASSUME NEW t \in Tasks, NEW h \in Hashes, Submit(t, h, FALSE) \/ Submit(t, h, TRUE)
      PROVE  HashUnique'
  BY <1>2, <1>3 DEF Submit
<1>4. ASSUME NEW t \in Tasks, NEW h \in Hashes, NEW j \in JobIds, RedoJob(t, j, h)
      PROVE  HashUnique'
  BY <1>2, <1>4 DEF RedoJob, HashUnique
<1>5. ASSUME NEW h \in Hashes, NEW j \in JobIds, CreatesOrphan(j, h)
      PROVE  HashUnique'
  <2>1. jobs'[j].hash = h /\ \A i \in JobIds \ {j} : jobs'[i] = jobs[i]
    BY <1>5 DEF CreatesOrphan, Row, NoRow, TypeInv, RowsOK
  <2> QED BY ZenonT(60), <1>5, <2>1 DEF CreatesOrphan, HashUnique
<1>6. ASSUME NEW t \in Slots, Answer(t) PROVE HashUnique'
  BY <1>6, AnswerRow DEF HashUnique, OwnedByOther
<1>7. ASSUME NEW t \in Slots, CommitDeleted(t) PROVE HashUnique'
  BY ZenonT(60), <1>7, DeletedRow DEF HashUnique
<1>8. CASE Restart
  <2>1. \A i \in JobIds : jobs'[i].hash \in {jobs[i].hash, NoHash}
    BY <1>8 DEF Restart, ReleaseDeletedHashes, TypeInv, RowsOK, PipelineJob
  <2> QED BY <2>1 DEF HashUnique
<1> QED BY <1>1, <1>3, <1>4, <1>5, <1>6, <1>7, <1>8, StepOnRows

\* No two live jobs ever own one torrent: stamping, orphan creation and deletion keep
\* the hash column unique (torrent_hash UNIQUE and the checks before it, store/jobs.py).
THEOREM HashIsUnique == Spec => []HashUnique
<1>1. Init => HashUnique
  BY DEF Init, StoreInit, HashUnique, NoRow
<1> QED BY <1>1, TypeInvariant, NextHashUnique, PTL DEF Spec

LEMMA NextOneReplacement == TypeInv /\ OneReplacement /\ [Next]_vars => OneReplacement'
<1> SUFFICES ASSUME TypeInv, OneReplacement, [Next]_vars PROVE OneReplacement' OBVIOUS
<1>0. ASSUME \A i, old \in JobIds : Waiting(i, old)' => Waiting(i, old)
      PROVE  OneReplacement'
  BY <1>0 DEF OneReplacement
<1>1. CASE AllPatched
  BY <1>0, <1>1 DEF AllPatched, Patched, SameKeys, Waiting
<1>2. ASSUME NEW t \in Tasks, NEW h \in Hashes, Submit(t, h, FALSE) \/ Submit(t, h, TRUE)
      PROVE  OneReplacement'
  <2>1. ASSUME NEW j \in JobIds, NEW media, NEW orphan, NEW p, Create(j, media, orphan, p, NoJob)
        PROVE  OneReplacement'
    <3>1. jobs'[j].redoOf = NoJob /\ \A i \in JobIds \ {j} : jobs'[i] = jobs[i]
      BY <2>1, CreateRow
    <3> QED BY <1>0, <3>1 DEF Waiting, NoJob, JobIds
  <2> QED BY <1>2, <2>1 DEF Submit
<1>3. ASSUME NEW t \in Tasks, NEW h \in Hashes, NEW j \in JobIds, RedoJob(t, j, h)
      PROVE  OneReplacement'
  <2>1. CASE UNCHANGED jobs
    BY <1>0, <2>1 DEF Waiting
  <2>2. ASSUME NEW r \in JobIds, \A i \in JobIds : ~Waiting(i, j),
               Create(r, jobs[j].media, jobs[j].orphan, h, j)
        PROVE  OneReplacement'
    <3>1. jobs'[r].redoOf = j /\ \A i \in JobIds \ {r} : jobs'[i] = jobs[i]
      BY <2>2, CreateRow
    <3> QED BY <2>2, <3>1 DEF OneReplacement, Waiting
  <2> QED BY <1>3, <2>1, <2>2 DEF RedoJob
<1>4. ASSUME NEW h \in Hashes, NEW j \in JobIds, CreatesOrphan(j, h)
      PROVE  OneReplacement'
  <2>1. jobs'[j].hash = h /\ \A i \in JobIds \ {j} : jobs'[i] = jobs[i]
    BY <1>4 DEF CreatesOrphan, Row, NoRow, TypeInv, RowsOK
  <2> QED BY <1>0, <2>1 DEF Waiting
<1>5. ASSUME NEW t \in Slots, Answer(t) PROVE OneReplacement'
  BY <1>0, <1>5, AnswerRow DEF Waiting
<1>6. ASSUME NEW t \in Slots, CommitDeleted(t) PROVE OneReplacement'
  BY <1>0, <1>6, DeletedRow DEF Waiting
<1>7. CASE Restart
  <2>1. \A i \in JobIds : /\ jobs'[i].status = jobs[i].status
                          /\ jobs'[i].redoOf = jobs[i].redoOf
                          /\ jobs[i].status # "DELETED" => jobs'[i] = jobs[i]
    BY <1>7 DEF Restart, ReleaseDeletedHashes, TypeInv, RowsOK, PipelineJob
  <2> QED BY <1>0, <2>1 DEF Waiting
<1> QED BY <1>1, <1>2, <1>3, <1>4, <1>5, <1>6, <1>7, StepOnRows

\* A job never has two replacements waiting for their download, however often its redo
\* is repeated after a failed deletion and whoever repeats it (services/redo.py).
THEOREM OneReplacementWaits == Spec => []OneReplacement
<1>1. Init => OneReplacement
  BY DEF Init, StoreInit, OneReplacement, Waiting, NoRow
<1> QED BY <1>1, TypeInvariant, NextOneReplacement, PTL DEF Spec

-----------------------------------------------------------------------------
(* A finished job was placed.  A run holds its row while other runs write   *)
(* it, so the flags are followed in the row and in every coroutine at a     *)
(* step behind them; nothing ever clears one.                               *)

RowStages(row) ==
  /\ row.status \in {"RESOLVE_META", "RENAME", "SCAN", "DONE"} => row.seedingRemoved
  /\ row.status \in {"SCAN", "DONE"} => row.dest

TaskStages(rows, k) ==
  /\ k.pc \in {"RESOLVE_META", "RENAME", "LISTED", "PLACED", "SCAN"} =>
       rows[k.job].seedingRemoved
  /\ k.pc = "SCAN" => rows[k.job].dest

Stages ==
  /\ \A j \in JobIds : RowStages(jobs[j])
  /\ \A t \in Slots : TaskStages(jobs, tasks[t])

\* What a row has recorded it keeps.
FlagsKept ==
  \A j \in JobIds : jobs[j].status # "NONE" =>
    /\ jobs[j].seedingRemoved => jobs'[j].seedingRemoved
    /\ jobs[j].dest => jobs'[j].dest

LEMMA NextFlagsKept ==
  ASSUME TypeInv, [Next]_vars
  PROVE  FlagsKept
<1>1. CASE AllPatched
  BY <1>1 DEF AllPatched, Patched, SameKeys, FlagsKept
<1>2. ASSUME NEW j \in JobIds, NEW media, NEW orphan, NEW h, NEW old,
             Create(j, media, orphan, h, old)
      PROVE  FlagsKept
  BY <1>2, CreateRow DEF FlagsKept, NoRow
<1>3. ASSUME NEW t \in Tasks, NEW h \in Hashes, Submit(t, h, FALSE) \/ Submit(t, h, TRUE)
      PROVE  FlagsKept
  BY <1>2, <1>3 DEF Submit
<1>4. ASSUME NEW t \in Tasks, NEW h \in Hashes, NEW j \in JobIds, RedoJob(t, j, h)
      PROVE  FlagsKept
  BY <1>2, <1>4 DEF RedoJob, FlagsKept
<1>5. ASSUME NEW h \in Hashes, NEW j \in JobIds, CreatesOrphan(j, h) PROVE FlagsKept
  BY <1>5 DEF CreatesOrphan, NextSeq, Exists, FlagsKept, TypeInv, RowsOK
<1>6. ASSUME NEW t \in Slots, Answer(t) PROVE FlagsKept
  BY <1>6, SamePatched DEF Answer, Stamped, FlagsKept, TypeInv, RowsOK, PipelineJob
<1>7. ASSUME NEW t \in Slots, CommitDeleted(t) PROVE FlagsKept
  BY <1>7 DEF CommitDeleted, Deleted, FlagsKept, TypeInv, RowsOK, PipelineJob
<1>8. CASE Restart
  BY <1>8 DEF Restart, ReleaseDeletedHashes, FlagsKept, TypeInv, RowsOK, PipelineJob
<1> QED BY <1>1, <1>3, <1>4, <1>5, <1>6, <1>7, <1>8, StepOnRows

\* The coroutines that do not move keep their stage.
LEMMA OthersStage ==
  ASSUME TypeInv, Stages, FlagsKept, NEW s \in Slots, tasks'[s] = tasks[s]
  PROVE  TaskStages(jobs', tasks'[s])
<1>1. TaskShape(jobs, tasks[s])
  BY DEF TypeInv, TasksOK
<1> QED BY <1>1 DEF Stages, TaskStages, FlagsKept, TaskShape, Known, RunPc, PipelineStatus

LEMMA EnterStages ==
  ASSUME TypeInv, Stages, FlagsKept, NEW rows, RowsOK(rows),
         \A i \in JobIds : /\ rows[i].status = jobs[i].status
                           /\ rows[i].seedingRemoved = jobs[i].seedingRemoved
                           /\ rows[i].dest = jobs[i].dest,
         NEW t \in Slots, NEW h \in Hashes, Enter(t, h, rows)
  PROVE  Stages'
<1> USE DEF TypeInv
<1>0. \A j \in JobIds : RowStages(rows[j])
  BY DEF Stages, RowStages
<1>1. CASE jobs' = rows /\ tasks' = [tasks EXCEPT ![t] = Idle]
  <2>1. \A j \in JobIds : RowStages(jobs'[j])
    BY <1>0, <1>1
  <2>2. \A s \in Slots : TaskStages(jobs', tasks'[s])
    BY <1>1, OthersStage DEF Idle, TaskStages, TasksOK
  <2> QED BY <2>1, <2>2 DEF Stages
<1>2. ASSUME NEW j \in JobIds, rows[j].hash = h, rows[j].status \in Reentry,
             jobs' = [rows EXCEPT ![j].status = "STOP_SEEDING"],
             tasks' = [tasks EXCEPT ![t] = RunAt(rows, j, "STOP_SEEDING")]
      PROVE  Stages'
  <2>1. \A i \in JobIds : RowStages(jobs'[i])
    BY <1>0, <1>2 DEF RowStages, RowsOK, PipelineJob
  <2>2. TaskStages(jobs', RunAt(rows, j, "STOP_SEEDING"))
    BY DEF RunAt, Idle, TaskStages
  <2>3. \A s \in Slots : TaskStages(jobs', tasks'[s])
    BY <1>2, <2>2, OthersStage DEF TasksOK
  <2> QED BY <2>1, <2>3 DEF Stages
<1>3. ASSUME NEW j \in JobIds, rows[j].hash = h, rows[j].status \in PipelineStatus,
             jobs' = rows,
             tasks' = [tasks EXCEPT ![t] = RunAt(rows, j, rows[j].status)]
      PROVE  Stages'
  <2>1. \A i \in JobIds : RowStages(jobs'[i])
    BY <1>0, <1>3
  <2>2. TaskStages(jobs', RunAt(rows, j, rows[j].status))
    BY <1>0, <1>3 DEF RunAt, Idle, TaskStages, RowStages, PipelineStatus
  <2>3. \A s \in Slots : TaskStages(jobs', tasks'[s])
    BY <1>3, <2>2, OthersStage DEF TasksOK
  <2> QED BY <2>1, <2>3 DEF Stages
<1>4. ASSUME NEW j \in JobIds, rows[j].hash = h, rows[j].status = "DISMISSED",
             jobs' = [rows EXCEPT ![j].status = "FAILED", ![j].attempts = Bump(@)],
             tasks' = [tasks EXCEPT ![t] = Idle]
      PROVE  Stages'
  <2>1. \A i \in JobIds : RowStages(jobs'[i])
    BY <1>0, <1>4 DEF RowStages, RowsOK, PipelineJob
  <2>2. \A s \in Slots : TaskStages(jobs', tasks'[s])
    BY <1>4, OthersStage DEF Idle, TaskStages, TasksOK
  <2> QED BY <2>1, <2>2 DEF Stages
<1> QED BY <1>1, <1>2, <1>3, <1>4 DEF Enter

LEMMA RunStages ==
  ASSUME TypeInv, Stages, FlagsKept, NEW t \in Slots, RunStep(t)
  PROVE  Stages'
<1> USE DEF TypeInv
<1> DEFINE j == tasks[t].job
<1>0. TaskStages(jobs, tasks[t])
  BY DEF Stages
<1>r. ASSUME tasks[t].pc \in RunPc PROVE j \in JobIds /\ jobs[j] \in PipelineJob
  BY <1>r, TaskRow
<1>1. CASE RemoveTransfer(t)
  <2>1. jobs' = jobs /\ tasks'[t].pc = "STOPPED" /\ \A s \in Slots \ {t} : tasks'[s] = tasks[s]
    BY <1>1 DEF RemoveTransfer, storeVars, TasksOK, Task
  <2> QED BY <2>1, OthersStage DEF Stages, TaskStages
<1>2. CASE CommitStopped(t)
  <2>1. /\ j \in JobIds
        /\ jobs'[j].status = "RESOLVE_META" /\ jobs'[j].seedingRemoved
        /\ \A i \in JobIds \ {j} : jobs'[i] = jobs[i]
        /\ tasks' = [tasks EXCEPT ![t] = RunAt(jobs', j, "RESOLVE_META")]
    BY <1>2, <1>r DEF CommitStopped, Commit, RowsOK, PipelineJob, RunPc
  <2>2. \A i \in JobIds : RowStages(jobs'[i])
    BY <2>1 DEF Stages, RowStages
  <2>3. TaskStages(jobs', RunAt(jobs', j, "RESOLVE_META"))
    BY <2>1 DEF RunAt, Idle, TaskStages
  <2> QED BY <2>1, <2>2, <2>3, OthersStage DEF Stages, TasksOK
<1>3. CASE ResolveMeta(t)
  <2>1. /\ j \in JobIds
        /\ jobs'[j].status = "RENAME" /\ jobs'[j].seedingRemoved
        /\ \A i \in JobIds \ {j} : jobs'[i] = jobs[i]
        /\ tasks' = [tasks EXCEPT ![t] = RunAt(jobs', j, "RENAME")]
    BY <1>0, <1>3, <1>r
       DEF ResolveMeta, Commit, RowsOK, PipelineJob, RunPc, PipelineStatus, TaskStages
  <2>2. \A i \in JobIds : RowStages(jobs'[i])
    BY <2>1 DEF Stages, RowStages
  <2>3. TaskStages(jobs', RunAt(jobs', j, "RENAME"))
    BY <2>1 DEF RunAt, Idle, TaskStages
  <2> QED BY <2>1, <2>2, <2>3, OthersStage DEF Stages, TasksOK
<1>4. CASE ListFiles(t) \/ Place(t) \/ PlaceNothing(t)
  <2>1. /\ jobs' = jobs
        /\ tasks[t].pc \in {"RENAME", "LISTED"} /\ tasks'[t].pc \in {"LISTED", "PLACED"}
        /\ tasks'[t].job = tasks[t].job
        /\ \A s \in Slots \ {t} : tasks'[s] = tasks[s]
    BY <1>4 DEF ListFiles, Place, PlaceNothing, storeVars, TasksOK, Task
  <2>2. TaskStages(jobs', tasks'[t])
    BY <1>0, <2>1 DEF TaskStages
  <2> QED BY <2>1, <2>2, OthersStage DEF Stages
<1>5. CASE CommitPlaced(t)
  <2>1. /\ j \in JobIds
        /\ jobs'[j].status = "SCAN" /\ jobs'[j].seedingRemoved /\ jobs'[j].dest
        /\ \A i \in JobIds \ {j} : jobs'[i] = jobs[i]
        /\ tasks' = [tasks EXCEPT ![t] = RunAt(jobs', j, "SCAN")]
    BY <1>0, <1>5, <1>r DEF CommitPlaced, Commit, RowsOK, PipelineJob, RunPc, TaskStages
  <2>2. \A i \in JobIds : RowStages(jobs'[i])
    BY <2>1 DEF Stages, RowStages
  <2>3. TaskStages(jobs', RunAt(jobs', j, "SCAN"))
    BY <2>1 DEF RunAt, Idle, TaskStages
  <2> QED BY <2>1, <2>2, <2>3, OthersStage DEF Stages, TasksOK
<1>6. CASE Scan(t)
  <2>1. /\ j \in JobIds
        /\ jobs'[j].status = "DONE" /\ jobs'[j].seedingRemoved /\ jobs'[j].dest
        /\ \A i \in JobIds \ {j} : jobs'[i] = jobs[i]
        /\ tasks' = [tasks EXCEPT ![t] = Idle]
    BY <1>0, <1>6, <1>r DEF Scan, RowsOK, PipelineJob, RunPc, PipelineStatus, TaskStages
  <2>2. \A i \in JobIds : RowStages(jobs'[i])
    BY <2>1 DEF Stages, RowStages
  <2> QED BY <2>1, <2>2, OthersStage DEF Stages, TasksOK, TaskStages, Idle
<1>7. CASE StepFails(t) \/ PlaceLocked(t)
  <2>1. /\ jobs'[j].status = "FAILED"
        /\ \A i \in JobIds \ {j} : jobs'[i] = jobs[i]
        /\ tasks' = [tasks EXCEPT ![t] = Idle]
    BY <1>7, <1>r
       DEF StepFails, PlaceLocked, FailJob, RunPc, PipelineStatus, RowsOK, PipelineJob
  <2>2. \A i \in JobIds : RowStages(jobs'[i])
    BY <2>1 DEF Stages, RowStages
  <2> QED BY <2>1, <2>2, OthersStage DEF Stages, TasksOK, TaskStages, Idle
<1> QED BY <1>1, <1>2, <1>3, <1>4, <1>5, <1>6, <1>7 DEF RunStep

\* Where a submission and a deletion begin.
LEMMA SubmitBegins ==
  ASSUME NEW j, NEW h, NEW follow
  PROVE  SubmitAt(j, h, follow).pc = "download"
BY DEF SubmitAt, Idle

LEMMA DeleteBegins ==
  ASSUME NEW j, NEW repl, NEW pick
  PROVE  DeleteAt(j, repl, pick).pc \in {"del_torrent", "del_folder"}
<1> DEFINE pc == IF PlanTorrent(jobs[j]) THEN "del_torrent" ELSE "del_folder"
           b == PlanPlaced(jobs[j])
<1>1. pc \in {"del_torrent", "del_folder"}
  OBVIOUS
<1>2. DeleteAt(j, repl, pick).pc = pc
  <2> HIDE DEF b
  <2>1. DeleteAt(j, repl, pick) =
          [Idle EXCEPT !.pc = pc, !.job = j, !.torrent = jobs[j].hash,
                       !.payload = jobs[j].payload, !.placed = b, !.repl = repl,
                       !.pick = pick]
    BY Zenon DEF DeleteAt, b
  <2> HIDE DEF pc
  <2> QED BY <2>1 DEF Idle
<1> QED BY <1>1, <1>2

LEMMA NextStages == TypeInv /\ Stages /\ [Next]_vars => Stages'
<1> SUFFICES ASSUME TypeInv, Stages, [Next]_vars PROVE Stages' OBVIOUS
<1> USE DEF TypeInv
<1>f. FlagsKept
  BY NextFlagsKept
<1> DEFINE Staged == {"RESOLVE_META", "RENAME", "LISTED", "PLACED", "SCAN"}
<1>n. ASSUME \A j \in JobIds :
               \/ jobs'[j].status \notin {"RESOLVE_META", "RENAME", "SCAN", "DONE"}
               \/ jobs'[j] = jobs[j],
             \A s \in Slots : tasks'[s].pc \notin Staged \/ tasks'[s] = tasks[s]
      PROVE  Stages'
  <2>1. \A j \in JobIds : RowStages(jobs'[j])
    BY <1>n DEF Stages, RowStages
  <2>2. \A s \in Slots : TaskStages(jobs', tasks'[s])
    BY <1>f, <1>n, OthersStage DEF TaskStages
  <2> QED BY <2>1, <2>2 DEF Stages
<1>1. ASSUME NEW h \in Hashes, Transfers(h) PROVE Stages'
  <2>1. jobs' = jobs /\ tasks' = tasks
    BY <1>1 DEF Transfers, TransferStarts, TransferErrors, TransferCompletes, HookLost,
                AddedByHand, RemovedByHand, storeVars, workerVars
  <2> QED BY <1>n, <2>1
<1>2. ASSUME NEW t \in Tasks, Request(t) PROVE Stages'
  <2>0. t \in Slots
    BY DEF Slots
  <2>1. ASSUME NEW j \in JobIds, NEW media, NEW orphan, NEW h, NEW old,
               Create(j, media, orphan, h, old)
        PROVE  \A i \in JobIds : \/ jobs'[i].status = "DOWNLOAD_SUBMITTED"
                                 \/ jobs'[i] = jobs[i]
    <3>1. jobs' = [jobs EXCEPT ![j] = Row(media, orphan, NoHash, h, old)]
      BY <2>1 DEF Create
    <3>2. Row(media, orphan, NoHash, h, old).status = "DOWNLOAD_SUBMITTED"
      BY DEF Row, NoRow
    <3> QED BY <3>1, <3>2 DEF RowsOK
  <2>2. ASSUME NEW h \in Hashes, Submit(t, h, FALSE) \/ Submit(t, h, TRUE) PROVE Stages'
    <3>1. \A i \in JobIds : \/ jobs'[i].status = "DOWNLOAD_SUBMITTED"
                            \/ jobs'[i] = jobs[i]
      BY <2>1, <2>2 DEF Submit
    <3>2. \A s \in Slots : tasks'[s].pc = "download" \/ tasks'[s] = tasks[s]
      BY ZenonT(60), <2>2 DEF Submit, SubmitAt, Idle, TasksOK
    <3> QED BY <1>n, <3>1, <3>2
  <2>3. ASSUME NEW j \in JobIds, Retry(t, j) PROVE Stages'
    <3>1. jobs[j].hash \in Hashes
      BY <2>0, <2>3, RetryEnters
    <3>2. PICK rows : /\ RowsOK(rows)
                      /\ Enter(t, jobs[j].hash, rows)
                      /\ \A i \in JobIds : /\ rows[i].status = jobs[i].status
                                           /\ Patched(jobs[i], rows[i])
                                           /\ Patched(rows[i], jobs[i])
      BY <2>0, <2>3, RetryEnters
    <3>3. \A i \in JobIds : /\ rows[i].seedingRemoved = jobs[i].seedingRemoved
                           /\ rows[i].dest = jobs[i].dest
      BY <3>2 DEF RowsOK, PipelineJob, Patched, SameKeys
    <3> QED BY <1>f, <2>0, <3>1, <3>2, <3>3, EnterStages
  <2>4. ASSUME NEW j \in JobIds, DeleteJob(t, j) \/ ReadJob(t, j) PROVE Stages'
    <3>1. jobs' = jobs
      BY <2>4 DEF DeleteJob, ReadJob, storeVars
    <3>2. \A s \in Slots : \/ tasks'[s].pc \in {"del_torrent", "del_folder", "read"}
                           \/ tasks'[s] = tasks[s]
      <4>1. CASE DeleteJob(t, j)
        BY <4>1, DeleteBegins DEF DeleteJob, TasksOK
      <4>2. CASE ReadJob(t, j)
        BY <4>2 DEF ReadJob, Idle, TasksOK
      <4> QED BY <2>4, <4>1, <4>2
    <3> QED BY <1>n, <3>1, <3>2
  <2>5. ASSUME NEW j \in JobIds, NEW h \in Hashes, RedoJob(t, j, h) PROVE Stages'
    <3> DEFINE orphan == jobs[j].orphan
    <3>0. PICK r \in JobIds :
            /\ jobs' = jobs \/ Create(r, jobs[j].media, orphan, h, j)
            /\ tasks' = [tasks EXCEPT ![t] = DeleteAt(j, r, h)]
      BY <2>5 DEF RedoJob
    <3> HIDE DEF orphan
    <3>1. \A i \in JobIds : \/ jobs'[i].status = "DOWNLOAD_SUBMITTED"
                            \/ jobs'[i] = jobs[i]
      BY <2>1, <3>0
    <3>2. \A s \in Slots : \/ tasks'[s].pc \in {"del_torrent", "del_folder"}
                           \/ tasks'[s] = tasks[s]
      BY <3>0, DeleteBegins DEF TasksOK
    <3> QED BY <1>n, <3>1, <3>2
  <2> QED BY <1>2, <2>2, <2>3, <2>4, <2>5 DEF Request
<1>3. ASSUME NEW t \in Tasks, HookArrives(t) PROVE Stages'
  <2>0. t \in Slots
    BY DEF Slots
  <2>1. PICK h \in Hashes : Webhook(t, h)
    BY <1>3 DEF HookArrives
  <2>2. /\ tasks'[t].pc = "start"
        /\ \A s \in Slots \ {t} : tasks'[s] = tasks[s]
    BY <2>0, <2>1 DEF Webhook, Idle, TasksOK
  <2>3. \A s \in Slots : TaskStages(jobs', tasks'[s])
    BY <1>f, <2>2, OthersStage DEF TaskStages
  <2>4. ASSUME NEW j \in JobIds, jobs' = [jobs EXCEPT ![j].payload = h]
        PROVE  \A i \in JobIds : RowStages(jobs'[i])
    BY <2>4 DEF Stages, RowStages, RowsOK, PipelineJob
  <2>5. ASSUME NEW j \in JobIds, jobs' = [jobs EXCEPT ![j] = Row("MOVIE", TRUE, h, h, NoJob)]
        PROVE  \A i \in JobIds : RowStages(jobs'[i])
    BY <2>5 DEF Stages, RowStages, RowsOK, Row, NoRow
  <2> QED BY <2>1, <2>3, <2>4, <2>5 DEF Webhook, Stages
<1>4. ASSUME NEW t \in Slots, Resumes(t) PROVE Stages'
  <2>1. CASE StartRun(t)
    <3>1. tasks[t].torrent \in Hashes
      BY <2>1 DEF StartRun, TasksOK, TaskShape
    <3> QED BY <1>f, <2>1, <3>1, EnterStages DEF StartRun
  <2>2. CASE RunStep(t)
    BY <1>f, <2>2, RunStages
  <2>3. CASE SubmitStep(t)
    <3>1. tasks[t].pc \in SubmitPc => tasks[t].job \in JobIds
      BY TaskRow
    <3>2. \A i \in JobIds :
            \/ jobs'[i].status \notin {"RESOLVE_META", "RENAME", "SCAN", "DONE"}
            \/ RowStages(jobs'[i])
      <4>1. CASE jobs' = jobs
        BY <4>1 DEF Stages
      <4>2. CASE Answer(t)
        BY <3>1, <4>2
           DEF Answer, Stamped, SubmitPc, Stages, RowStages, RowsOK, PipelineJob
      <4> QED BY <2>3, <4>1, <4>2 DEF SubmitStep, Forward, SubmitFails, storeVars
    <3>3. \A s \in Slots : tasks'[s].pc \in {"downloaded", "idle"} \/ tasks'[s] = tasks[s]
      BY <2>3 DEF SubmitStep, Forward, Answer, SubmitFails, Idle, TasksOK, Task
    <3>4. \A s \in Slots : TaskStages(jobs', tasks'[s])
      BY <1>f, <3>3, OthersStage DEF TaskStages
    <3> QED BY <3>2, <3>4 DEF Stages, RowStages
  <2>4. CASE DeleteStep(t)
    <3>1. CASE CommitDeleted(t)
      <4>1. \A i \in JobIds : jobs'[i].status = "DELETED" \/ jobs'[i] = jobs[i]
        BY <3>1, DeletedRow
      <4>2. \A s \in Slots : tasks'[s].pc \in {"download", "idle"} \/ tasks'[s] = tasks[s]
        <5>1. \/ tasks' = [tasks EXCEPT ![t] = Idle]
              \/ tasks' = [tasks EXCEPT ![t] = SubmitAt(tasks[t].repl, tasks[t].pick, FALSE)]
          BY <3>1, Zenon DEF CommitDeleted
        <5>2. \A follow : SubmitAt(tasks[t].repl, tasks[t].pick, follow).pc = "download"
          BY SubmitBegins
        <5>3. PICK k : tasks' = [tasks EXCEPT ![t] = k] /\ k.pc \in {"download", "idle"}
          <6>1. Idle.pc = "idle"
            BY DEF Idle
          <6> QED BY <5>1, <5>2, <6>1, Zenon
        <5> QED BY <5>3 DEF TasksOK
      <4> QED BY <1>n, <4>1, <4>2
    <3>2. ASSUME DeleteTorrent(t) \/ DeleteFolder(t) \/ DeletePlaced(t) PROVE Stages'
      <4>1. jobs' = jobs
        BY <3>2 DEF DeleteTorrent, DeleteFolder, DeletePlaced, storeVars
      <4>2. \A s \in Slots : tasks'[s].pc \in DeletePc \/ tasks'[s] = tasks[s]
        BY <3>2 DEF DeleteTorrent, DeleteFolder, DeletePlaced, TasksOK, Task, DeletePc
      <4> QED BY <1>n, <4>1, <4>2 DEF DeletePc
    <3>3. CASE DeleteFails(t)
      <4>1. jobs' = jobs /\ tasks' = [tasks EXCEPT ![t] = Idle]
        BY <3>3 DEF DeleteFails, storeVars
      <4>2. \A s \in Slots : tasks'[s].pc = "idle" \/ tasks'[s] = tasks[s]
        BY <4>1 DEF Idle, TasksOK
      <4> QED BY <1>n, <4>1, <4>2
    <3> QED BY <2>4, <3>1, <3>2, <3>3 DEF DeleteStep
  <2>5. CASE ReadStep(t)
    <3>1. \A i \in JobIds : jobs'[i].status = "DOWNLOADING" \/ jobs'[i] = jobs[i]
      BY <2>5 DEF ReadStep, ReadTransfers, Advance, AdvanceToDownloading, ReadFails, storeVars,
                  RowsOK, PipelineJob
    <3>2. \A s \in Slots : tasks'[s].pc \in {"observed", "idle"} \/ tasks'[s] = tasks[s]
      BY <2>5 DEF ReadStep, ReadTransfers, Advance, ReadFails, Idle, TasksOK, Task
    <3> QED BY <1>n, <3>1, <3>2
  <2> QED BY <1>4, <2>1, <2>2, <2>3, <2>4, <2>5 DEF Resumes
<1>5. CASE DismissJob
  <2>1. \A i \in JobIds : jobs'[i].status = "DISMISSED" \/ jobs'[i] = jobs[i]
    BY <1>5 DEF DismissJob, Dismiss, RowsOK, PipelineJob
  <2>2. tasks' = tasks
    BY <1>5 DEF DismissJob, Dismiss, workerVars
  <2> QED BY <1>n, <2>1, <2>2
<1>6. CASE Tick
  <2>1. CASE \E j \in JobIds : PollProcess(j)
    <3>1. PICK j \in JobIds : PollProcess(j)
      BY <2>1
    <3>2. poll.todo[j].hash \in Hashes
      BY <3>1 DEF PollProcess, At, PollOK, VerdictShape
    <3> QED BY <1>f, <3>1, <3>2, EnterStages DEF PollProcess, Slots
  <2>2. CASE \E j \in JobIds : CountResume(j)
    <3>1. PICK j \in JobIds :
            jobs' = [jobs EXCEPT ![j].remediations = poll.todo[j].remediations + 1]
      BY <2>2 DEF CountResume
    <3>2. \A i \in JobIds : RowStages(jobs'[i])
      BY <3>1 DEF Stages, RowStages, RowsOK, PipelineJob
    <3>3. \A s \in Slots : TaskStages(jobs', tasks'[s])
      BY <1>f, <2>2, OthersStage DEF CountResume, workerVars
    <3> QED BY <3>2, <3>3 DEF Stages
  <2>3. CASE ~\E j \in JobIds : PollProcess(j) \/ CountResume(j)
    <3>1. \A i \in JobIds : \/ jobs'[i].status \in {"NEEDS_ATTENTION", "DOWNLOADING"}
                            \/ jobs'[i] = jobs[i]
      BY <1>6, <2>3
         DEF Tick, PollStep, PollAsk, PollSkip, PollList, PollEnd, ApplyRule, PollFlag,
             PollAdvance, AdvanceToDownloading, PollResume, ResumeTransfer, ResumeFails,
             storeVars, RowsOK, PipelineJob
    <3>2. tasks' = tasks
      BY <1>6, <2>3
         DEF Tick, PollStep, PollAsk, PollSkip, PollList, PollEnd, ApplyRule, PollFlag,
             PollAdvance, PollResume, ResumeTransfer, ResumeFails, workerVars
    <3> QED BY <1>n, <3>1, <3>2
  <2> QED BY <2>1, <2>2, <2>3
<1>7. CASE Restart
  <2>1. \A i \in JobIds : RowStages(jobs'[i])
    BY <1>7 DEF Restart, ReleaseDeletedHashes, Stages, RowStages, RowsOK, PipelineJob
  <2>2. \A s \in Slots : TaskStages(jobs', tasks'[s])
    BY <1>7 DEF Restart, TaskStages, Idle
  <2> QED BY <2>1, <2>2 DEF Stages
<1>8. CASE UNCHANGED vars
  BY <1>8, <1>n DEF vars, storeVars, workerVars
<1> QED BY <1>1, <1>2, <1>3, <1>4, <1>5, <1>6, <1>7, <1>8 DEF Next

\* A run past a step holds a row that recorded the step, even when another run, a
\* deletion or a stale read has since written the row's status back.
THEOREM StagesHold == Spec => []Stages
<1>1. Init => Stages
  BY DEF Init, StoreInit, WorkerInit, Stages, RowStages, TaskStages, NoRow, Idle
<1> QED BY <1>1, TypeInvariant, NextStages, PTL DEF Spec

\* A job at SCAN or DONE recorded its library folder and gave its torrent up, whichever
\* of its overlapping runs finished it: the deletion plan of a finished job never touches
\* qBittorrent (plan_deletion, services/deletion.py).
THEOREM DoneJobsWerePlaced == Spec => []DoneWasPlaced
<1>1. Stages => DoneWasPlaced
  BY DEF Stages, RowStages, DoneWasPlaced
<1> QED BY <1>1, StagesHold, PTL
=============================================================================
