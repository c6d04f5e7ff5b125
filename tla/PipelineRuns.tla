---------------------------- MODULE PipelineRuns ----------------------------
(***************************************************************************)
(* What the runs of a job, the sweep and a deleted or flagged row are to   *)
(* one another: the proofs of NoStrandedJob, FlaggedIsLeftAlone and        *)
(* DeletedStaysClosed.                                                     *)
(***************************************************************************)
EXTENDS PipelineSafety

USE JobStoreAssumption, WorkerAssumption, PipelineAssumption

-----------------------------------------------------------------------------
(* A step starts a run, goes on with one, or leaves the runs alone.  The    *)
(* invariant NoStrandedJob is inductive over these three.                   *)

\* Runs stay where they are, and no row is moved to a pipeline step.
RunsAlone ==
  /\ \A j \in JobIds : \/ jobs'[j].status = jobs[j].status
                       \/ jobs'[j].status \notin PipelineStatus
  /\ \A s \in Slots : tasks'[s] = tasks[s] \/ tasks[s].pc \notin RunPc

\* Coroutine t takes up row j at its step.
RunStarts(t, j) ==
  /\ tasks[t].pc \notin RunPc
  /\ \A s \in Slots \ {t} : tasks'[s] = tasks[s]
  /\ \A i \in JobIds \ {j} : jobs'[i].status = jobs[i].status
  /\ jobs'[j].status \in PipelineStatus
  /\ tasks'[t].pc = jobs'[j].status /\ tasks'[t].job = j

\* The run of coroutine t goes on, to the next await or to its end.
RunGoesOn(t) ==
  LET j == tasks[t].job IN
  /\ \A s \in Slots \ {t} : tasks'[s] = tasks[s]
  /\ \A i \in JobIds \ {j} : jobs'[i].status = jobs[i].status
  /\ \/ jobs'[j].status \notin PipelineStatus
     \/ /\ tasks'[t].pc \in RunPc /\ tasks'[t].job = j
        /\ \/ StatusAt(tasks'[t].pc) = jobs'[j].status
           \/ /\ jobs'[j].status = jobs[j].status
              /\ StatusAt(tasks'[t].pc) = StatusAt(tasks[t].pc)

LEMMA EnterRuns ==
  ASSUME TypeInv, NEW t \in Slots, tasks[t].pc \notin RunPc, NEW h, NEW rows, RowsOK(rows),
         \A i \in JobIds : rows[i].status = jobs[i].status,
         Enter(t, h, rows)
  PROVE  RunsAlone \/ \E j \in JobIds : RunStarts(t, j)
<1> USE DEF TypeInv
<1>1. CASE jobs' = rows /\ tasks' = [tasks EXCEPT ![t] = Idle]
  BY <1>1 DEF RunsAlone, TasksOK
<1>2. ASSUME NEW j \in JobIds,
             jobs' = [rows EXCEPT ![j].status = "STOP_SEEDING"],
             tasks' = [tasks EXCEPT ![t] = RunAt(rows, j, "STOP_SEEDING")]
      PROVE  RunStarts(t, j)
  <2>1. /\ jobs'[j].status = "STOP_SEEDING"
        /\ \A i \in JobIds \ {j} : jobs'[i].status = jobs[i].status
    BY <1>2 DEF RowsOK, PipelineJob
  <2>2. RunAt(rows, j, "STOP_SEEDING").pc = "STOP_SEEDING"
        /\ RunAt(rows, j, "STOP_SEEDING").job = j
    BY DEF RunAt, Idle
  <2> QED BY <1>2, <2>1, <2>2 DEF RunStarts, TasksOK, PipelineStatus
<1>3. ASSUME NEW j \in JobIds, rows[j].status \in PipelineStatus, jobs' = rows,
             tasks' = [tasks EXCEPT ![t] = RunAt(rows, j, rows[j].status)]
      PROVE  RunStarts(t, j)
  <2>1. RunAt(rows, j, rows[j].status).pc = rows[j].status
        /\ RunAt(rows, j, rows[j].status).job = j
    BY DEF RunAt, Idle
  <2> QED BY <1>3, <2>1 DEF RunStarts, TasksOK
<1>4. ASSUME NEW j \in JobIds,
             jobs' = [rows EXCEPT ![j].status = "FAILED", ![j].attempts = Bump(@)],
             tasks' = [tasks EXCEPT ![t] = Idle]
      PROVE  RunsAlone
  <2>1. \A i \in JobIds : jobs'[i].status \in {"FAILED", jobs[i].status}
    BY <1>4 DEF RowsOK, PipelineJob
  <2> QED BY <1>4, <2>1 DEF RunsAlone, TasksOK, PipelineStatus
<1> QED BY <1>1, <1>2, <1>3, <1>4 DEF Enter

LEMMA RunRuns ==
  ASSUME TypeInv, NEW t \in Slots, RunStep(t)
  PROVE  RunGoesOn(t)
<1> USE DEF TypeInv
<1> DEFINE j == tasks[t].job
<1>r. ASSUME tasks[t].pc \in RunPc PROVE j \in JobIds /\ jobs[j] \in PipelineJob
  BY <1>r, TaskRow
<1>1. CASE RemoveTransfer(t) \/ ListFiles(t) \/ Place(t) \/ PlaceNothing(t)
  <2>1. /\ jobs' = jobs /\ tasks'[t].job = j
        /\ tasks'[t].pc \in RunPc /\ StatusAt(tasks'[t].pc) = StatusAt(tasks[t].pc)
        /\ \A s \in Slots \ {t} : tasks'[s] = tasks[s]
    BY <1>1 DEF RemoveTransfer, ListFiles, Place, PlaceNothing, storeVars, TasksOK, Task,
                StatusAt, RunPc
  <2> QED BY <2>1 DEF RunGoesOn
<1>2. ASSUME NEW step \in PipelineStatus, j \in JobIds, jobs'[j].status = step,
             \A i \in JobIds \ {j} : jobs'[i] = jobs[i],
             tasks' = [tasks EXCEPT ![t] = RunAt(jobs', j, step)]
      PROVE  RunGoesOn(t)
  <2>1. RunAt(jobs', j, step).pc = step /\ RunAt(jobs', j, step).job = j
    BY DEF RunAt, Idle
  <2>2. step \in RunPc /\ StatusAt(step) = step
    BY DEF RunPc, StatusAt, PipelineStatus
  <2> QED BY <1>2, <2>1, <2>2 DEF RunGoesOn, TasksOK
<1>3. CASE CommitStopped(t)
  <2>1. /\ j \in JobIds /\ jobs'[j].status = "RESOLVE_META"
        /\ \A i \in JobIds \ {j} : jobs'[i] = jobs[i]
        /\ tasks' = [tasks EXCEPT ![t] = RunAt(jobs', j, "RESOLVE_META")]
    BY <1>3, <1>r DEF CommitStopped, Commit, RowsOK, PipelineJob, RunPc
  <2> QED BY <1>2, <2>1 DEF PipelineStatus
<1>4. CASE ResolveMeta(t)
  <2>1. /\ j \in JobIds /\ jobs'[j].status = "RENAME"
        /\ \A i \in JobIds \ {j} : jobs'[i] = jobs[i]
        /\ tasks' = [tasks EXCEPT ![t] = RunAt(jobs', j, "RENAME")]
    BY <1>4, <1>r DEF ResolveMeta, Commit, RowsOK, PipelineJob, RunPc, PipelineStatus
  <2> QED BY <1>2, <2>1 DEF PipelineStatus
<1>5. CASE CommitPlaced(t)
  <2>1. /\ j \in JobIds /\ jobs'[j].status = "SCAN"
        /\ \A i \in JobIds \ {j} : jobs'[i] = jobs[i]
        /\ tasks' = [tasks EXCEPT ![t] = RunAt(jobs', j, "SCAN")]
    BY <1>5, <1>r DEF CommitPlaced, Commit, RowsOK, PipelineJob, RunPc
  <2> QED BY <1>2, <2>1 DEF PipelineStatus
<1>6. CASE Scan(t) \/ StepFails(t) \/ PlaceLocked(t)
  <2>1. /\ jobs'[j].status \in {"DONE", "FAILED"}
        /\ \A i \in JobIds \ {j} : jobs'[i] = jobs[i]
        /\ tasks' = [tasks EXCEPT ![t] = Idle]
    BY <1>6, <1>r
       DEF Scan, StepFails, PlaceLocked, FailJob, RunPc, PipelineStatus, RowsOK, PipelineJob
  <2> QED BY <2>1 DEF RunGoesOn, TasksOK, PipelineStatus
<1> QED BY <1>1, <1>3, <1>4, <1>5, <1>6 DEF RunStep

LEMMA StepOnRuns ==
  ASSUME TypeInv, [Next]_vars
  PROVE  \/ RunsAlone
         \/ \E t \in Slots, j \in JobIds : RunStarts(t, j)
         \/ \E t \in Slots : RunGoesOn(t)
         \/ restarts' = restarts + 1
<1> USE DEF TypeInv
<1>i. Idle.pc \notin RunPc
  BY DEF Idle, RunPc, PipelineStatus
<1>1. ASSUME NEW h \in Hashes, Transfers(h) PROVE RunsAlone
  BY <1>1 DEF Transfers, TransferStarts, TransferErrors, TransferCompletes, HookLost,
              AddedByHand, RemovedByHand, storeVars, workerVars, RunsAlone
<1>2. ASSUME NEW j \in JobIds, NEW media, NEW orphan, NEW h, NEW old,
             Create(j, media, orphan, h, old)
      PROVE  \A i \in JobIds : \/ jobs'[i].status = jobs[i].status
                               \/ jobs'[i].status \notin PipelineStatus
  <2>1. jobs' = [jobs EXCEPT ![j] = Row(media, orphan, NoHash, h, old)]
    BY <1>2 DEF Create
  <2>2. Row(media, orphan, NoHash, h, old).status = "DOWNLOAD_SUBMITTED"
    BY DEF Row, NoRow
  <2> QED BY <2>1, <2>2 DEF RowsOK, PipelineStatus
<1>3. ASSUME NEW t \in Tasks, NEW h \in Hashes, Submit(t, h, FALSE) \/ Submit(t, h, TRUE)
      PROVE  RunsAlone
  <2>1. \A i \in JobIds : \/ jobs'[i].status = jobs[i].status
                          \/ jobs'[i].status \notin PipelineStatus
    BY <1>2, <1>3 DEF Submit
  <2>2. \A s \in Slots : tasks'[s] = tasks[s] \/ tasks[s].pc \notin RunPc
    BY <1>i, <1>3 DEF Submit, TasksOK
  <2> QED BY <2>1, <2>2 DEF RunsAlone
<1>4. ASSUME NEW t \in Tasks, NEW j \in JobIds, Retry(t, j)
      PROVE  RunsAlone \/ \E i \in JobIds : RunStarts(t, i)
  <2>1. PICK rows : /\ RowsOK(rows)
                    /\ Enter(t, jobs[j].hash, rows)
                    /\ \A i \in JobIds : rows[i].status = jobs[i].status
    BY <1>4, RetryEnters DEF Slots
  <2>2. tasks[t] = Idle
    BY <1>4 DEF Retry
  <2> QED BY <1>i, <2>1, <2>2, EnterRuns DEF Slots
<1>5. ASSUME NEW t \in Tasks, NEW j \in JobIds, DeleteJob(t, j) \/ ReadJob(t, j)
      PROVE  RunsAlone
  BY <1>i, <1>5 DEF DeleteJob, ReadJob, storeVars, RunsAlone, TasksOK
<1>6. ASSUME NEW t \in Tasks, NEW j \in JobIds, NEW h \in Hashes, RedoJob(t, j, h)
      PROVE  RunsAlone
  <2> DEFINE orphan == jobs[j].orphan
  <2>1. /\ jobs' = jobs \/ \E r \in JobIds : Create(r, jobs[j].media, orphan, h, j)
        /\ \E r \in JobIds : tasks' = [tasks EXCEPT ![t] = DeleteAt(j, r, h)]
        /\ tasks[t] = Idle
    BY <1>6 DEF RedoJob
  <2> HIDE DEF orphan
  <2>2. \A i \in JobIds : \/ jobs'[i].status = jobs[i].status
                          \/ jobs'[i].status \notin PipelineStatus
    BY <1>2, <2>1
  <2>3. \A s \in Slots : tasks'[s] = tasks[s] \/ tasks[s].pc \notin RunPc
    BY <1>i, <2>1 DEF TasksOK
  <2> QED BY <2>2, <2>3 DEF RunsAlone
<1>7. ASSUME NEW t \in Tasks, NEW h \in Hashes, Webhook(t, h) PROVE RunsAlone
  <2>1. ASSUME NEW j \in JobIds, jobs' = [jobs EXCEPT ![j].payload = h]
        PROVE  \A i \in JobIds : jobs'[i].status = jobs[i].status
    BY <2>1 DEF RowsOK, PipelineJob
  <2>2. ASSUME NEW j \in JobIds, jobs' = [jobs EXCEPT ![j] = Row("MOVIE", TRUE, h, h, NoJob)]
        PROVE  \A i \in JobIds : \/ jobs'[i].status = jobs[i].status
                                 \/ jobs'[i].status \notin PipelineStatus
    BY <2>2 DEF RowsOK, Row, NoRow, PipelineStatus
  <2>3. \A s \in Slots : tasks'[s] = tasks[s] \/ tasks[s].pc \notin RunPc
    BY <1>i, <1>7 DEF Webhook, TasksOK
  <2> QED BY <1>7, <2>1, <2>2, <2>3 DEF Webhook, RunsAlone
<1>8. ASSUME NEW t \in Slots, StartRun(t)
      PROVE  RunsAlone \/ \E j \in JobIds : RunStarts(t, j)
  <2>1. tasks[t].pc \notin RunPc /\ Enter(t, tasks[t].torrent, jobs)
    BY <1>8 DEF StartRun, RunPc, PipelineStatus
  <2> QED BY <2>1, EnterRuns
<1>9. ASSUME NEW t \in Slots, SubmitStep(t) PROVE RunsAlone
  <2>1. tasks[t].pc \in SubmitPc /\ \A s \in Slots \ {t} : tasks'[s] = tasks[s]
    BY <1>9 DEF SubmitStep, Forward, Answer, SubmitFails, SubmitPc, TasksOK
  <2>2. \A i \in JobIds : \/ jobs'[i].status = jobs[i].status
                          \/ jobs'[i].status \notin PipelineStatus
    <3>1. CASE Answer(t)
      BY <2>1, <3>1, TaskRow DEF Answer, Stamped, RowsOK, PipelineJob, PipelineStatus
    <3>2. CASE Forward(t) \/ SubmitFails(t)
      BY <3>2 DEF Forward, SubmitFails, storeVars
    <3> QED BY <1>9, <3>1, <3>2 DEF SubmitStep
  <2> QED BY <2>1, <2>2 DEF RunsAlone, SubmitPc, RunPc, PipelineStatus
<1>10. ASSUME NEW t \in Slots, DeleteStep(t) PROVE RunsAlone
  <2>1. tasks[t].pc \in DeletePc /\ \A s \in Slots \ {t} : tasks'[s] = tasks[s]
    BY <1>10, Zenon DEF DeleteStep, DeleteTorrent, DeleteFolder, DeletePlaced, CommitDeleted,
                        DeleteFails, DeletePc, TasksOK
  <2>2. \A i \in JobIds : jobs'[i] = jobs[i] \/ jobs'[i].status = "DELETED"
    BY <1>10, DeletedRow
       DEF DeleteStep, DeleteTorrent, DeleteFolder, DeletePlaced, DeleteFails, storeVars
  <2> QED BY <2>1, <2>2 DEF RunsAlone, DeletePc, RunPc, PipelineStatus
<1>11. ASSUME NEW t \in Slots, ReadStep(t) PROVE RunsAlone
  <2>1. tasks[t].pc \in ReadPc /\ \A s \in Slots \ {t} : tasks'[s] = tasks[s]
    BY <1>11 DEF ReadStep, ReadTransfers, Advance, ReadFails, ReadPc, TasksOK
  <2>2. \A i \in JobIds : jobs'[i] = jobs[i] \/ jobs'[i].status = "DOWNLOADING"
    BY <1>11 DEF ReadStep, ReadTransfers, Advance, AdvanceToDownloading, ReadFails, storeVars,
                 RowsOK, PipelineJob
  <2> QED BY <2>1, <2>2 DEF RunsAlone, ReadPc, RunPc, PipelineStatus
<1>12. CASE DismissJob
  <2>1. \A i \in JobIds : jobs'[i] = jobs[i] \/ jobs'[i].status = "DISMISSED"
    BY <1>12 DEF DismissJob, Dismiss, RowsOK, PipelineJob
  <2> QED BY <1>12, <2>1 DEF DismissJob, Dismiss, workerVars, RunsAlone, PipelineStatus
<1>13. CASE Tick
  <2>1. ASSUME NEW j \in JobIds, PollProcess(j)
        PROVE  RunsAlone \/ \E i \in JobIds : RunStarts(Poller, i)
    <3>1. tasks[Poller] = Idle /\ Enter(Poller, poll.todo[j].hash, jobs)
      BY <2>1 DEF PollProcess, At
    <3> QED BY <1>i, <3>1, EnterRuns DEF Slots
  <2>2. CASE ~\E j \in JobIds : PollProcess(j)
    <3>1. \A i \in JobIds : \/ jobs'[i].status = jobs[i].status
                            \/ jobs'[i].status \in {"NEEDS_ATTENTION", "DOWNLOADING"}
      BY <1>13, <2>2
         DEF Tick, PollStep, PollAsk, PollSkip, PollList, PollEnd, ApplyRule, PollFlag,
             PollAdvance, AdvanceToDownloading, PollResume, ResumeTransfer, CountResume,
             ResumeFails, storeVars, RowsOK, PipelineJob
    <3>2. tasks' = tasks
      BY <1>13, <2>2
         DEF Tick, PollStep, PollAsk, PollSkip, PollList, PollEnd, ApplyRule, PollFlag,
             PollAdvance, PollResume, ResumeTransfer, CountResume, ResumeFails, workerVars
    <3> QED BY <3>1, <3>2 DEF RunsAlone, PipelineStatus
  <2> QED BY <2>1, <2>2 DEF Slots
<1>14. CASE Restart
  BY <1>14 DEF Restart
<1>15. CASE UNCHANGED vars
  BY <1>15 DEF vars, storeVars, workerVars, RunsAlone
<1>16. ASSUME NEW t \in Tasks, Request(t)
       PROVE  RunsAlone \/ \E j \in JobIds : RunStarts(t, j)
  BY <1>3, <1>4, <1>5, <1>6, <1>16 DEF Request
<1>17. ASSUME NEW t \in Slots, Resumes(t)
       PROVE  RunsAlone \/ RunGoesOn(t) \/ \E j \in JobIds : RunStarts(t, j)
  BY <1>8, <1>9, <1>10, <1>11, <1>17, RunRuns DEF Resumes
<1> QED BY <1>1, <1>7, <1>12, <1>13, <1>14, <1>15, <1>16, <1>17 DEF Next, HookArrives, Slots

LEMMA NextNoStrandedJob == TypeInv /\ NoStrandedJob /\ [Next]_vars => NoStrandedJob'
<1> SUFFICES ASSUME TypeInv, NoStrandedJob, [Next]_vars, restarts' = 0,
                    NEW j \in JobIds, jobs'[j].status \in PipelineStatus
             PROVE  \E s \in Slots : /\ tasks'[s].pc \in RunPc
                                     /\ tasks'[s].job = j
                                     /\ StatusAt(tasks'[s].pc) = jobs'[j].status
  BY DEF NoStrandedJob
<1>0. restarts = 0 /\ restarts' # restarts + 1
  <2>1. restarts' \in {restarts, restarts + 1}
    BY DEF Next, Transfers, Request, HookArrives, DismissJob, Resumes, Tick, Restart, vars
  <2> QED BY <2>1 DEF TypeInv
<1>1. ASSUME jobs'[j].status = jobs[j].status
      PROVE  \E s \in Slots : /\ tasks[s].pc \in RunPc
                              /\ tasks[s].job = j
                              /\ StatusAt(tasks[s].pc) = jobs'[j].status
  BY <1>0, <1>1 DEF NoStrandedJob
<1>2. CASE RunsAlone
  <2>1. jobs'[j].status = jobs[j].status
    BY <1>2 DEF RunsAlone
  <2> QED BY <1>1, <1>2, <2>1 DEF RunsAlone
<1>3. ASSUME NEW t \in Slots, NEW i \in JobIds, RunStarts(t, i)
      PROVE  \E s \in Slots : /\ tasks'[s].pc \in RunPc
                              /\ tasks'[s].job = j
                              /\ StatusAt(tasks'[s].pc) = jobs'[j].status
  <2>1. CASE i = j
    BY <1>3, <2>1 DEF RunStarts, StatusAt, RunPc, PipelineStatus
  <2>2. CASE i # j
    <3>1. jobs'[j].status = jobs[j].status
      BY <1>3, <2>2 DEF RunStarts
    <3> QED BY <1>1, <1>3, <3>1 DEF RunStarts
  <2> QED BY <2>1, <2>2
<1>4. ASSUME NEW t \in Slots, RunGoesOn(t)
      PROVE  \E s \in Slots : /\ tasks'[s].pc \in RunPc
                              /\ tasks'[s].job = j
                              /\ StatusAt(tasks'[s].pc) = jobs'[j].status
  <2>1. CASE tasks[t].job # j
    <3>1. jobs'[j].status = jobs[j].status
      BY <1>4, <2>1 DEF RunGoesOn
    <3> QED BY <1>1, <1>4, <2>1, <3>1 DEF RunGoesOn
  <2>2. CASE tasks[t].job = j
    <3>1. CASE StatusAt(tasks'[t].pc) = jobs'[j].status
      BY <1>4, <2>2, <3>1 DEF RunGoesOn
    <3>2. CASE StatusAt(tasks'[t].pc) # jobs'[j].status
      <4>1. /\ jobs'[j].status = jobs[j].status
            /\ StatusAt(tasks'[t].pc) = StatusAt(tasks[t].pc)
        BY <1>4, <2>2, <3>2 DEF RunGoesOn
      <4>2. PICK s \in Slots : /\ tasks[s].pc \in RunPc
                               /\ tasks[s].job = j
                               /\ StatusAt(tasks[s].pc) = jobs'[j].status
        BY <1>1, <4>1
      <4>3. s # t
        BY <3>2, <4>1, <4>2
      <4> QED BY <1>4, <4>2, <4>3 DEF RunGoesOn
    <3> QED BY <3>1, <3>2
  <2> QED BY <2>1, <2>2
<1> QED BY <1>0, <1>2, <1>3, <1>4, StepOnRuns

\* While the process lives every row at a pipeline step has a run at that step, whatever
\* else writes the row: process and its except branch (services/worker.py) leave no job
\* in the middle.
THEOREM RunsAreAlive == Spec => []NoStrandedJob
<1>1. Init => NoStrandedJob
  BY DEF Init, StoreInit, NoStrandedJob, NoRow, PipelineStatus
<1> QED BY <1>1, TypeInvariant, NextNoStrandedJob, PTL DEF Spec

-----------------------------------------------------------------------------
(* A deleted job is left closed by everything but what already held it.     *)

LEMMA EnterLeavesDeleted ==
  ASSUME NEW rows, RowsOK(rows), NEW t \in Slots, NEW h, Enter(t, h, rows),
         NEW j \in JobIds, rows[j].status = "DELETED"
  PROVE  jobs'[j].status = "DELETED"
BY DEF Enter, RowsOK, PipelineJob, Reentry, PipelineStatus, AwaitingDownload

LEMMA NextDeletedStaysClosed ==
  ASSUME TypeInv, [Next]_vars, NEW j \in JobIds,
         jobs[j].status = "DELETED", jobs'[j].status # "DELETED"
  PROVE  (\E t \in Slots : InFlight(t, j)) \/ poll.todo[j] # Pass
<1> USE DEF TypeInv
<1>0. jobs' # jobs
  OBVIOUS
<1>1. ASSUME NEW i \in JobIds, NEW media, NEW orphan, NEW h, NEW old,
             Create(i, media, orphan, h, old)
      PROVE  FALSE
  <2>1. jobs[i] = NoRow /\ \A k \in JobIds \ {i} : jobs'[k] = jobs[k]
    BY <1>1, CreateRow
  <2> QED BY <2>1 DEF NoRow
<1>2. ASSUME NEW t \in Tasks, Request(t) PROVE FALSE
  <2>1. ASSUME NEW i \in JobIds, Retry(t, i) PROVE FALSE
    <3>1. PICK rows : /\ RowsOK(rows)
                      /\ Enter(t, jobs[i].hash, rows)
                      /\ \A k \in JobIds : rows[k].status = jobs[k].status
      BY <2>1, RetryEnters DEF Slots
    <3> QED BY <3>1, EnterLeavesDeleted DEF Slots
  <2>2. ASSUME NEW i \in JobIds, NEW h \in Hashes, RedoJob(t, i, h) PROVE FALSE
    <3> DEFINE orphan == jobs[i].orphan
    <3>1. jobs' = jobs \/ \E r \in JobIds : Create(r, jobs[i].media, orphan, h, i)
      BY <2>2 DEF RedoJob
    <3> HIDE DEF orphan
    <3> QED BY <1>0, <1>1, <3>1
  <2>3. ASSUME NEW i \in JobIds, DeleteJob(t, i) \/ ReadJob(t, i) PROVE FALSE
    BY <1>0, <2>3 DEF DeleteJob, ReadJob, storeVars
  <2>4. ASSUME NEW h \in Hashes, Submit(t, h, FALSE) \/ Submit(t, h, TRUE) PROVE FALSE
    BY <1>1, <2>4 DEF Submit
  <2> QED BY <1>2, <2>1, <2>2, <2>3, <2>4 DEF Request
<1>3. ASSUME NEW t \in Tasks, NEW h \in Hashes, Webhook(t, h) PROVE FALSE
  <2>1. PICK i \in JobIds : \/ jobs' = [jobs EXCEPT ![i].payload = h]
                            \/ NextSeq(i) /\ \A k \in JobIds \ {i} : jobs'[k] = jobs[k]
    BY <1>3 DEF Webhook, RowsOK
  <2> QED BY <2>1 DEF NextSeq, Exists, RowsOK, PipelineJob
<1>4. ASSUME NEW t \in Slots, Resumes(t) PROVE InFlight(t, j)
  <2>1. CASE StartRun(t)
    BY <2>1, EnterLeavesDeleted DEF StartRun
  <2>2. CASE RunStep(t)
    <3>1. tasks[t].pc \in RunPc /\ \A i \in JobIds \ {tasks[t].job} : jobs'[i] = jobs[i]
      BY <2>2 DEF RunStep, RemoveTransfer, CommitStopped, ResolveMeta, ListFiles, Place,
                  PlaceNothing, CommitPlaced, Commit, Scan, StepFails, PlaceLocked, FailJob,
                  storeVars, RunPc, PipelineStatus, RowsOK
    <3> QED BY <3>1 DEF InFlight
  <2>3. CASE SubmitStep(t)
    <3>1. Answer(t)
      BY <1>0, <2>3 DEF SubmitStep, Forward, SubmitFails, storeVars
    <3>2. tasks[t].pc \in SubmitPc /\ \A i \in JobIds \ {tasks[t].job} : jobs'[i] = jobs[i]
      BY <3>1 DEF Answer, Stamped, SubmitPc, RowsOK
    <3> QED BY <3>2 DEF InFlight
  <2>4. CASE DeleteStep(t)
    <3>1. CommitDeleted(t)
      BY <1>0, <2>4 DEF DeleteStep, DeleteTorrent, DeleteFolder, DeletePlaced, DeleteFails,
                        storeVars
    <3> QED BY <3>1, DeletedRow
  <2>5. CASE ReadStep(t)
    <3>1. Advance(t)
      BY <1>0, <2>5 DEF ReadStep, ReadTransfers, ReadFails, storeVars
    <3>2. tasks[t].pc \in ReadPc /\ \A i \in JobIds \ {tasks[t].job} : jobs'[i] = jobs[i]
      BY <3>1 DEF Advance, AdvanceToDownloading, ReadPc, RowsOK
    <3> QED BY <3>2 DEF InFlight
  <2> QED BY <1>4, <2>1, <2>2, <2>3, <2>4, <2>5 DEF Resumes
<1>5. CASE DismissJob
  BY <1>5 DEF DismissJob, Dismiss, AttentionStatus, RowsOK, PipelineJob
<1>6. CASE Tick
  <2>1. PICK i \in JobIds : PollFlag(i) \/ PollProcess(i) \/ PollAdvance(i) \/ CountResume(i)
    BY <1>0, <1>6 DEF Tick, PollStep, PollAsk, PollSkip, PollList, PollEnd, ApplyRule,
                      PollResume, ResumeTransfer, ResumeFails, storeVars
  <2>2. CASE PollProcess(i)
    BY <2>2, EnterLeavesDeleted DEF PollProcess, Slots
  <2>3. CASE PollFlag(i) \/ PollAdvance(i) \/ CountResume(i)
    <3>1. poll.todo[i] # Pass /\ \A k \in JobIds \ {i} : jobs'[k] = jobs[k]
      BY <2>3 DEF PollFlag, PollAdvance, AdvanceToDownloading, CountResume, At, RowsOK
    <3> QED BY <3>1
  <2> QED BY <2>1, <2>2, <2>3
<1>7. CASE Restart
  BY <1>7 DEF Restart, ReleaseDeletedHashes, RowsOK, PipelineJob
<1>8. ASSUME NEW h \in Hashes, Transfers(h) PROVE FALSE
  BY <1>0, <1>8 DEF Transfers, TransferStarts, TransferErrors, TransferCompletes, HookLost,
                    AddedByHand, RemovedByHand, storeVars
<1>9. CASE UNCHANGED vars
  BY <1>0, <1>9 DEF vars, storeVars
<1> QED BY <1>2, <1>3, <1>4, <1>5, <1>6, <1>7, <1>8, <1>9 DEF Next, HookArrives

\* Only a coroutine or a sweep that held the row when it was deleted can reopen it: no
\* webhook, retry, dismissal, redo, read or tick that comes later does.
THEOREM DeletedIsClosed == Spec => DeletedStaysClosed
<1>1. TypeInv /\ [Next]_vars =>
        [\A j \in JobIds : jobs[j].status = "DELETED" /\ jobs'[j].status # "DELETED" =>
           (\E t \in Slots : InFlight(t, j)) \/ poll.todo[j] # Pass]_vars
  BY NextDeletedStaysClosed
<1> QED BY <1>1, TypeInvariant, PTL DEF Spec, DeletedStaysClosed

-----------------------------------------------------------------------------
(* The poll stops touching a flagged job.  Only the poll flags, and it does *)
(* so between two pipelines of its own, so the strengthening needed is that *)
(* its coroutine is never anything but a run.                               *)

PollerRuns == tasks[Poller].pc \in RunPc \cup {"idle"}

Flagged(j) == jobs[j].status = "NEEDS_ATTENTION"

FlagInv == FlaggedIsLeftAlone /\ PollerRuns

\* No row becomes flagged, the sweep drops rules at most, the poll's coroutine stays.
LeavesFlags ==
  /\ \A j \in JobIds : Flagged(j)' => Flagged(j)
  /\ \A j \in JobIds : poll'.todo[j] \in {Pass, poll.todo[j]}
  /\ tasks'[Poller] = tasks[Poller]

\* No row becomes flagged, the poll stays, its run goes on or ends.
PollerMoves ==
  /\ \A j \in JobIds : Flagged(j)' => Flagged(j)
  /\ poll' = poll
  /\ tasks'[Poller].pc \in RunPc \cup {"idle"}
  /\ tasks'[Poller].job \in {NoJob, tasks[Poller].job}

LEMMA FlagsLeft ==
  ASSUME FlagInv, LeavesFlags \/ PollerMoves
  PROVE  FlagInv'
BY DEF FlagInv, FlaggedIsLeftAlone, PollerRuns, LeavesFlags, PollerMoves, Flagged, JobIds,
       NoJob

\* What process does of a row, seen from the flag: no run is at a flagged row.
LEMMA EnterFlags ==
  ASSUME NEW rows, RowsOK(rows), TasksOK(jobs, tasks), NEW t \in Slots, NEW h,
         Enter(t, h, rows)
  PROVE  /\ \A j \in JobIds : Flagged(j)' => rows[j].status = "NEEDS_ATTENTION"
         /\ \A j \in JobIds : Flagged(j)' => tasks'[t].job # j
         /\ tasks'[t].pc \in RunPc \cup {"idle"}
         /\ \A s \in Slots \ {t} : tasks'[s] = tasks[s]
<1>1. CASE jobs' = rows /\ tasks' = [tasks EXCEPT ![t] = Idle]
  BY <1>1 DEF Flagged, TasksOK, Idle, JobIds, NoJob
<1>2. ASSUME NEW j \in JobIds,
             jobs' = [rows EXCEPT ![j].status = "STOP_SEEDING"],
             tasks' = [tasks EXCEPT ![t] = RunAt(rows, j, "STOP_SEEDING")]
      PROVE  /\ \A i \in JobIds : Flagged(i)' => rows[i].status = "NEEDS_ATTENTION"
             /\ \A i \in JobIds : Flagged(i)' => tasks'[t].job # i
             /\ tasks'[t].pc \in RunPc \cup {"idle"}
             /\ \A s \in Slots \ {t} : tasks'[s] = tasks[s]
  <2>1. jobs'[j].status = "STOP_SEEDING" /\ \A i \in JobIds \ {j} : jobs'[i] = rows[i]
    BY <1>2 DEF RowsOK, PipelineJob
  <2>2. tasks'[t].pc = "STOP_SEEDING" /\ tasks'[t].job = j
    BY <1>2 DEF RunAt, Idle, TasksOK
  <2> QED BY <1>2, <2>1, <2>2 DEF Flagged, TasksOK, RunPc, PipelineStatus
<1>3. ASSUME NEW j \in JobIds, rows[j].status \in PipelineStatus, jobs' = rows,
             tasks' = [tasks EXCEPT ![t] = RunAt(rows, j, rows[j].status)]
      PROVE  /\ \A i \in JobIds : Flagged(i)' => rows[i].status = "NEEDS_ATTENTION"
             /\ \A i \in JobIds : Flagged(i)' => tasks'[t].job # i
             /\ tasks'[t].pc \in RunPc \cup {"idle"}
             /\ \A s \in Slots \ {t} : tasks'[s] = tasks[s]
  <2>1. tasks'[t].pc = rows[j].status /\ tasks'[t].job = j
    BY <1>3 DEF RunAt, Idle, TasksOK
  <2> QED BY <1>3, <2>1 DEF Flagged, TasksOK, RunPc, PipelineStatus
<1>4. ASSUME NEW j \in JobIds,
             jobs' = [rows EXCEPT ![j].status = "FAILED", ![j].attempts = Bump(@)],
             tasks' = [tasks EXCEPT ![t] = Idle]
      PROVE  /\ \A i \in JobIds : Flagged(i)' => rows[i].status = "NEEDS_ATTENTION"
             /\ \A i \in JobIds : Flagged(i)' => tasks'[t].job # i
             /\ tasks'[t].pc \in RunPc \cup {"idle"}
             /\ \A s \in Slots \ {t} : tasks'[s] = tasks[s]
  <2>1. jobs'[j].status = "FAILED" /\ \A i \in JobIds \ {j} : jobs'[i] = rows[i]
    BY <1>4 DEF RowsOK, PipelineJob
  <2>2. tasks'[t].pc = "idle" /\ tasks'[t].job = NoJob
    BY <1>4 DEF Idle, TasksOK
  <2>3. \A s \in Slots \ {t} : tasks'[s] = tasks[s]
    BY <1>4 DEF TasksOK
  <2>4. \A i \in JobIds : Flagged(i)' => rows[i].status = "NEEDS_ATTENTION"
    BY <2>1 DEF Flagged
  <2>5. \A i \in JobIds : tasks'[t].job # i
    BY <2>2 DEF JobIds, NoJob
  <2> QED BY <2>2, <2>3, <2>4, <2>5
<1> QED BY <1>1, <1>2, <1>3, <1>4 DEF Enter

\* A step of a run flags nothing and keeps to its row.
LEMMA RunFlags ==
  ASSUME TypeInv, NEW t \in Slots, RunStep(t)
  PROVE  /\ \A j \in JobIds : Flagged(j)' => Flagged(j)
         /\ tasks'[t].pc \in RunPc \cup {"idle"}
         /\ tasks'[t].job \in {NoJob, tasks[t].job}
         /\ \A s \in Slots \ {t} : tasks'[s] = tasks[s]
<1> USE DEF TypeInv
<1>1. tasks[t].pc \in RunPc
  BY DEF RunStep, RemoveTransfer, CommitStopped, ResolveMeta, ListFiles, Place,
         PlaceNothing, CommitPlaced, Scan, StepFails, PlaceLocked, RunPc, PipelineStatus
<1>2. tasks[t].job \in JobIds /\ \A s \in Slots \ {t} : tasks'[s] = tasks[s]
  BY <1>1, TaskRow, RunRuns DEF RunGoesOn
<1>3. CASE RemoveTransfer(t) \/ ListFiles(t) \/ Place(t) \/ PlaceNothing(t)
  <2>1. jobs' = jobs
    BY <1>3 DEF RemoveTransfer, ListFiles, Place, PlaceNothing, storeVars
  <2>2. tasks'[t].pc \in RunPc /\ tasks'[t].job = tasks[t].job
    BY <1>3 DEF RemoveTransfer, ListFiles, Place, PlaceNothing, TasksOK, Task, RunPc
  <2> QED BY <1>2, <2>1, <2>2 DEF Flagged
<1>4. ASSUME NEW rows, NEW step \in PipelineStatus,
             tasks' = [tasks EXCEPT ![t] = RunAt(rows, tasks[t].job, step)]
      PROVE  tasks'[t].pc \in RunPc /\ tasks'[t].job = tasks[t].job
  <2>1. /\ RunAt(rows, tasks[t].job, step).pc = step
        /\ RunAt(rows, tasks[t].job, step).job = tasks[t].job
    BY DEF RunAt, Idle
  <2> QED BY <1>4, <2>1 DEF TasksOK, RunPc
<1>5. ASSUME CommitStopped(t) \/ ResolveMeta(t) \/ CommitPlaced(t)
      PROVE  /\ \A j \in JobIds : Flagged(j)' => Flagged(j)
             /\ tasks'[t].pc \in RunPc /\ tasks'[t].job = tasks[t].job
  <2>1. /\ jobs'[tasks[t].job].status # "NEEDS_ATTENTION"
        /\ \A i \in JobIds \ {tasks[t].job} : jobs'[i] = jobs[i]
    <3> DEFINE j == tasks[t].job
    <3>1. jobs[j] \in PipelineJob
      BY <1>2 DEF RowsOK
    <3>2. ASSUME NEW r, r.status # "NEEDS_ATTENTION", jobs' = [jobs EXCEPT ![j] = r]
          PROVE  /\ jobs'[j].status # "NEEDS_ATTENTION"
                 /\ \A i \in JobIds \ {j} : jobs'[i] = jobs[i]
      BY <1>2, <3>2 DEF RowsOK
    <3>3. CASE CommitStopped(t)
      <4> DEFINE new == [jobs[j] EXCEPT !.status = "RESOLVE_META", !.seedingRemoved = TRUE,
                                    !.payload = tasks[t].payload]
      <4>1. jobs' = [jobs EXCEPT ![j] = new]
        BY <3>3 DEF CommitStopped, Commit
      <4>2. new.status # "NEEDS_ATTENTION"
        BY <3>1 DEF PipelineJob
      <4> HIDE DEF new
      <4> QED BY <3>2, <4>1, <4>2
    <3>4. CASE ResolveMeta(t)
      <4> DEFINE new == [jobs[j] EXCEPT !.status = "RENAME"]
      <4>1. jobs' = [jobs EXCEPT ![j] = new]
        BY <3>4 DEF ResolveMeta, Commit
      <4>2. new.status # "NEEDS_ATTENTION"
        BY <3>1 DEF PipelineJob
      <4> HIDE DEF new
      <4> QED BY <3>2, <4>1, <4>2
    <3>5. CASE CommitPlaced(t)
      <4> DEFINE new == [jobs[j] EXCEPT !.status = "SCAN", !.dest = TRUE,
                                    !.placed = tasks[t].placed]
      <4>1. jobs' = [jobs EXCEPT ![j] = new]
        BY <3>5 DEF CommitPlaced, Commit
      <4>2. new.status # "NEEDS_ATTENTION"
        BY <3>1 DEF PipelineJob
      <4> HIDE DEF new
      <4> QED BY <3>2, <4>1, <4>2
    <3> QED BY <1>5, <3>3, <3>4, <3>5
  <2>2. \E step \in PipelineStatus :
          tasks' = [tasks EXCEPT ![t] = RunAt(jobs', tasks[t].job, step)]
    BY <1>5 DEF CommitStopped, ResolveMeta, CommitPlaced, Commit, PipelineStatus
  <2> QED BY <1>2, <1>4, <2>1, <2>2 DEF Flagged
<1>6. CASE Scan(t) \/ StepFails(t) \/ PlaceLocked(t)
  <2>1. /\ jobs'[tasks[t].job].status # "NEEDS_ATTENTION"
        /\ \A i \in JobIds \ {tasks[t].job} : jobs'[i] = jobs[i]
        /\ tasks' = [tasks EXCEPT ![t] = Idle]
    BY <1>2, <1>6 DEF Scan, StepFails, PlaceLocked, FailJob, RowsOK, PipelineJob
  <2>2. tasks'[t].pc = "idle" /\ tasks'[t].job = NoJob
    BY <2>1 DEF Idle, TasksOK
  <2> QED BY <1>2, <2>1, <2>2 DEF Flagged
<1> QED BY <1>2, <1>3, <1>5, <1>6 DEF RunStep

LEMMA NextFlagInv == TypeInv /\ FlagInv /\ [Next]_vars => FlagInv'
<1> SUFFICES ASSUME TypeInv, FlagInv, [Next]_vars PROVE FlagInv' OBVIOUS
<1> USE DEF TypeInv
<1> DEFINE NoneFlagged == \A j \in JobIds : Flagged(j)' => Flagged(j)
<1>a. ASSUME NEW t \in Slots, t # Poller, NoneFlagged, poll' = poll,
             \A s \in Slots \ {t} : tasks'[s] = tasks[s]
      PROVE  FlagInv'
  BY <1>a, FlagsLeft DEF LeavesFlags, Slots
<1>b. Poller \in Slots /\ \A t \in Tasks : t \in Slots /\ t # Poller
  BY DEF Slots
<1>c. ASSUME NEW j \in JobIds, NEW media, NEW orphan, NEW h, NEW old,
             Create(j, media, orphan, h, old)
      PROVE  NoneFlagged
  <2>1. jobs' = [jobs EXCEPT ![j] = Row(media, orphan, NoHash, h, old)]
    BY <1>c DEF Create
  <2>2. Row(media, orphan, NoHash, h, old).status = "DOWNLOAD_SUBMITTED"
    BY DEF Row, NoRow
  <2> QED BY <2>1, <2>2 DEF RowsOK, Flagged
<1>1. ASSUME NEW h \in Hashes, Transfers(h) PROVE FlagInv'
  <2>1. jobs' = jobs /\ tasks' = tasks /\ poll' = poll
    BY <1>1 DEF Transfers, TransferStarts, TransferErrors, TransferCompletes, HookLost,
                AddedByHand, RemovedByHand, storeVars, workerVars
  <2> QED BY <2>1, FlagsLeft DEF LeavesFlags, Flagged
<1>2. ASSUME NEW t \in Tasks, Request(t) PROVE FlagInv'
  <2>0. poll' = poll
    BY <1>2 DEF Request
  <2>1. ASSUME NEW j \in JobIds, Retry(t, j) PROVE FlagInv'
    <3>1. PICK rows : /\ RowsOK(rows)
                      /\ Enter(t, jobs[j].hash, rows)
                      /\ \A i \in JobIds : rows[i].status = jobs[i].status
      BY <1>b, <2>1, RetryEnters
    <3> QED BY <1>a, <1>b, <2>0, <3>1, EnterFlags DEF Flagged
  <2>2. ASSUME NEW j \in JobIds, NEW h \in Hashes, RedoJob(t, j, h) PROVE FlagInv'
    <3> DEFINE orphan == jobs[j].orphan
    <3>1. /\ jobs' = jobs \/ \E r \in JobIds : Create(r, jobs[j].media, orphan, h, j)
          /\ \E r \in JobIds : tasks' = [tasks EXCEPT ![t] = DeleteAt(j, r, h)]
      BY <2>2 DEF RedoJob
    <3> HIDE DEF orphan
    <3>2. NoneFlagged
      BY <1>c, <3>1 DEF Flagged
    <3>3. \A s \in Slots \ {t} : tasks'[s] = tasks[s]
      BY <3>1 DEF TasksOK
    <3> QED BY <1>a, <1>b, <2>0, <3>2, <3>3
  <2>3. ASSUME NEW j \in JobIds, DeleteJob(t, j) \/ ReadJob(t, j) PROVE FlagInv'
    <3>1. jobs' = jobs /\ \A s \in Slots \ {t} : tasks'[s] = tasks[s]
      BY <2>3 DEF DeleteJob, ReadJob, storeVars, TasksOK
    <3> QED BY <1>a, <1>b, <2>0, <3>1 DEF Flagged
  <2>4. ASSUME NEW h \in Hashes, Submit(t, h, FALSE) \/ Submit(t, h, TRUE) PROVE FlagInv'
    <3>1. NoneFlagged /\ \A s \in Slots \ {t} : tasks'[s] = tasks[s]
      BY <1>c, <2>4 DEF Submit, TasksOK
    <3> QED BY <1>a, <1>b, <2>0, <3>1
  <2> QED BY <1>2, <2>1, <2>2, <2>3, <2>4 DEF Request
<1>3. ASSUME NEW t \in Tasks, HookArrives(t) PROVE FlagInv'
  <2>1. PICK h \in Hashes : Webhook(t, h) /\ poll' = poll
    BY <1>3 DEF HookArrives
  <2>2. ASSUME NEW j \in JobIds, jobs' = [jobs EXCEPT ![j].payload = h] PROVE NoneFlagged
    BY <2>2 DEF RowsOK, PipelineJob, Flagged
  <2>3. ASSUME NEW j \in JobIds, jobs' = [jobs EXCEPT ![j] = Row("MOVIE", TRUE, h, h, NoJob)]
        PROVE  NoneFlagged
    BY <2>3 DEF RowsOK, Row, NoRow, Flagged
  <2>4. NoneFlagged /\ \A s \in Slots \ {t} : tasks'[s] = tasks[s]
    BY <2>1, <2>2, <2>3 DEF Webhook, TasksOK
  <2> QED BY <1>a, <1>b, <2>1, <2>4
<1>4. ASSUME NEW t \in Slots, Resumes(t) PROVE FlagInv'
  <2>0. poll' = poll
    BY <1>4 DEF Resumes
  <2>1. CASE RunStep(t)
    <3>1. CASE t = Poller
      BY <2>0, <2>1, <3>1, RunFlags, FlagsLeft DEF PollerMoves
    <3>2. CASE t # Poller
      BY <1>a, <2>0, <2>1, <3>2, RunFlags
    <3> QED BY <3>1, <3>2
  <2>2. ASSUME tasks[t].pc \in {"start"} \cup SubmitPc \cup DeletePc \cup ReadPc
        PROVE  t # Poller
    BY <2>2 DEF FlagInv, PollerRuns, SubmitPc, DeletePc, ReadPc, RunPc, PipelineStatus
  <2>3. CASE StartRun(t)
    <3>1. t # Poller
      BY <2>2, <2>3 DEF StartRun
    <3> QED BY <1>a, <2>0, <2>3, <3>1, EnterFlags DEF StartRun, Flagged
  <2>4. CASE SubmitStep(t)
    <3>1. tasks[t].pc \in SubmitPc /\ \A s \in Slots \ {t} : tasks'[s] = tasks[s]
      BY <2>4 DEF SubmitStep, Forward, Answer, SubmitFails, SubmitPc, TasksOK
    <3>2. NoneFlagged
      <4>1. CASE Answer(t)
        BY <3>1, <4>1, TaskRow DEF Answer, Stamped, RowsOK, PipelineJob, Flagged
      <4>2. CASE Forward(t) \/ SubmitFails(t)
        BY <4>2 DEF Forward, SubmitFails, storeVars, Flagged
      <4> QED BY <2>4, <4>1, <4>2 DEF SubmitStep
    <3> QED BY <1>a, <2>0, <2>2, <3>1, <3>2
  <2>5. CASE DeleteStep(t)
    <3>1. tasks[t].pc \in DeletePc /\ \A s \in Slots \ {t} : tasks'[s] = tasks[s]
      BY <2>5, Zenon DEF DeleteStep, DeleteTorrent, DeleteFolder, DeletePlaced, CommitDeleted,
                         DeleteFails, DeletePc, TasksOK
    <3>2. \A i \in JobIds : jobs'[i] = jobs[i] \/ jobs'[i].status = "DELETED"
      BY <2>5, DeletedRow
         DEF DeleteStep, DeleteTorrent, DeleteFolder, DeletePlaced, DeleteFails, storeVars
    <3> QED BY <1>a, <2>0, <2>2, <3>1, <3>2 DEF Flagged
  <2>6. CASE ReadStep(t)
    <3>1. tasks[t].pc \in ReadPc /\ \A s \in Slots \ {t} : tasks'[s] = tasks[s]
      BY <2>6 DEF ReadStep, ReadTransfers, Advance, ReadFails, ReadPc, TasksOK
    <3>2. \A i \in JobIds : jobs'[i] = jobs[i] \/ jobs'[i].status = "DOWNLOADING"
      BY <2>6 DEF ReadStep, ReadTransfers, Advance, AdvanceToDownloading, ReadFails, storeVars,
                  RowsOK, PipelineJob
    <3> QED BY <1>a, <2>0, <2>2, <3>1, <3>2 DEF Flagged
  <2> QED BY <1>4, <2>1, <2>3, <2>4, <2>5, <2>6 DEF Resumes
<1>5. CASE DismissJob
  <2>1. /\ \A i \in JobIds : jobs'[i] = jobs[i] \/ jobs'[i].status = "DISMISSED"
        /\ tasks' = tasks /\ poll' = poll
    BY <1>5 DEF DismissJob, Dismiss, workerVars, RowsOK, PipelineJob
  <2> QED BY <2>1, FlagsLeft DEF LeavesFlags, Flagged
<1>6. CASE PollStep
  <2>1. CASE PollAsk \/ PollSkip \/ PollEnd
    <3>1. /\ jobs' = jobs /\ tasks' = tasks
          /\ \A j \in JobIds : poll'.todo[j] = Pass
      <4>1. jobs' = jobs /\ tasks' = tasks
        BY <2>1 DEF PollAsk, PollSkip, PollEnd, storeVars, workerVars
      <4>2. \/ poll' = PollIdle
            \/ poll' = [PollIdle EXCEPT !.pc = "asked", !.seen = qbt]
        BY <2>1 DEF PollAsk, PollSkip, PollEnd
      <4>3. poll'.todo = [i \in JobIds |-> Pass]
        <5> DEFINE none == [h \in Hashes |-> "absent"]
                   todo == [i \in JobIds |-> Pass]
        <5>1. PollIdle = [pc |-> "idle", seen |-> none, todo |-> todo]
          BY DEF PollIdle
        <5> HIDE DEF none, todo
        <5>2. PollIdle.todo = todo /\ [PollIdle EXCEPT !.pc = "asked", !.seen = qbt].todo = todo
          BY <5>1
        <5> QED BY <4>2, <5>2 DEF todo
      <4> QED BY <4>1, <4>3
    <3> QED BY <3>1, FlagsLeft DEF LeavesFlags, Flagged
  <2>2. CASE PollList
    <3>1. /\ jobs' = jobs /\ tasks' = tasks
          /\ \A j \in JobIds : poll'.todo[j] = Judge(jobs[j], poll.seen)
      BY <2>2 DEF PollList, PollIdle, storeVars, workerVars
    <3>2. \A j \in JobIds : Flagged(j) => Judge(jobs[j], poll.seen) = Pass
      BY DEF Flagged, Judge, Rule, Terminal
    <3> QED BY <3>1, <3>2 DEF FlagInv, FlaggedIsLeftAlone, PollerRuns, Flagged
  <2>3. ASSUME NEW j \in JobIds, ApplyRule(j) PROVE FlagInv'
    <3>1. /\ tasks[Poller] = Idle
          /\ \A i \in JobIds : poll'.todo[i] \in {Pass, poll.todo[i]}
      <4>1. tasks[Poller] = Idle
        BY <2>3 DEF ApplyRule, PollFlag, PollProcess, PollAdvance, PollResume, ResumeTransfer,
                    CountResume, ResumeFails, At
      <4>2. \/ Handled(j)
            \/ \E pc : poll' = [poll EXCEPT !.pc = pc]
        BY <2>3 DEF ApplyRule, PollFlag, PollProcess, PollAdvance, PollResume, ResumeTransfer,
                    CountResume, ResumeFails
      <4>3. CASE Handled(j)
        BY <4>1, <4>3 DEF Handled, PollOK
      <4>4. ASSUME NEW pc, poll' = [poll EXCEPT !.pc = pc] PROVE poll'.todo = poll.todo
        BY <4>4 DEF PollOK
      <4> QED BY <4>1, <4>2, <4>3, <4>4
    <3>2. CASE PollFlag(j)
      <4>1. /\ \A i \in JobIds \ {j} : jobs'[i] = jobs[i]
            /\ poll'.todo[j] = Pass /\ tasks' = tasks
        BY <3>2 DEF PollFlag, Handled, workerVars, RowsOK, PollOK
      <4> QED BY <3>1, <4>1
              DEF FlagInv, FlaggedIsLeftAlone, PollerRuns, Idle, JobIds, NoJob
    <3>3. CASE PollProcess(j)
      <4>1. Enter(Poller, poll.todo[j].hash, jobs)
        BY <3>3 DEF PollProcess
      <4> QED BY <1>b, <3>1, <4>1, EnterFlags
              DEF FlagInv, FlaggedIsLeftAlone, PollerRuns, Flagged
    <3>4. CASE PollAdvance(j) \/ CountResume(j)
      <4>1. NoneFlagged /\ tasks' = tasks
        BY <3>4 DEF PollAdvance, AdvanceToDownloading, CountResume, workerVars, RowsOK,
                    PipelineJob, Flagged
      <4> QED BY <3>1, <4>1, FlagsLeft DEF LeavesFlags
    <3>5. CASE PollResume(j) \/ ResumeTransfer(j) \/ ResumeFails(j)
      <4>1. jobs' = jobs /\ tasks' = tasks
        BY <3>5 DEF PollResume, ResumeTransfer, ResumeFails, storeVars, workerVars
      <4> QED BY <3>1, <4>1, FlagsLeft DEF LeavesFlags, Flagged
    <3> QED BY <2>3, <3>2, <3>3, <3>4, <3>5 DEF ApplyRule
  <2> QED BY <1>6, <2>1, <2>2, <2>3 DEF PollStep
<1>7. CASE Restart
  <2>1. \A j \in JobIds : poll'.todo[j] = Pass
    BY <1>7 DEF Restart, PollIdle
  <2>2. tasks'[Poller].pc = "idle" /\ tasks'[Poller].job = NoJob
    BY <1>b, <1>7 DEF Restart, Idle
  <2> QED BY <2>1, <2>2 DEF FlagInv, FlaggedIsLeftAlone, PollerRuns, JobIds, NoJob
<1>8. CASE UNCHANGED vars
  BY <1>8, FlagsLeft DEF vars, storeVars, workerVars, LeavesFlags, Flagged
<1> QED BY <1>1, <1>2, <1>3, <1>4, <1>5, <1>6, <1>7, <1>8 DEF Next, Tick

\* Once a job is flagged for a human the poll has no rule waiting for it and no pipeline
\* of its own under way on it, whatever was judged of the row before.
THEOREM FlaggedJobsAreLeftAlone == Spec => []FlaggedIsLeftAlone
<1>1. Init => FlagInv
  <2>1. ASSUME Init PROVE \A j \in JobIds : ~Flagged(j)
    BY <2>1 DEF Init, StoreInit, NoRow, Flagged
  <2>2. ASSUME Init PROVE tasks[Poller].pc = "idle"
    BY <2>2 DEF Init, WorkerInit, Idle, Slots
  <2> QED BY <2>1, <2>2 DEF FlagInv, FlaggedIsLeftAlone, PollerRuns, Flagged
<1>2. FlagInv => FlaggedIsLeftAlone
  BY DEF FlagInv
<1> QED BY <1>1, <1>2, TypeInvariant, NextFlagInv, PTL DEF Spec
=============================================================================
