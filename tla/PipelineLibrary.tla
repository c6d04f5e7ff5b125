-------------------------- MODULE PipelineLibrary --------------------------
(***************************************************************************)
(* A finished job is in the library: the proof of DoneIsInLibrary, for     *)
(* every number of torrents, rows, coroutines and crashes.  Three things   *)
(* are followed: whose torrent a row and a coroutine are about; that a run *)
(* is only ever begun of a torrent that was fetched to its end, once; and  *)
(* where its files are from then on.                                       *)
(***************************************************************************)
EXTENDS PipelineSafety

USE JobStoreAssumption, WorkerAssumption, PipelineAssumption

\* What is asked of an instance.  A retry may run a job whose torrent is still fetched, a
\* delete takes files away, and a torrent added again is fetched again.  One movie file
\* replaces another; and where a title has files, a run that finds its download gone goes
\* on without.
LeftAlone ==
  /\ Allowed \cap {"retry", "delete", "redo", "added_by_hand"} = {}
  /\ \A g, h \in Hashes : g # h =>
       MediaOf[g] = "SHOW" /\ "removed_by_hand" \notin Allowed

-----------------------------------------------------------------------------
(* Whose torrent a row, a coroutine and the sweep are about.                *)

Help == {"FAILED", "NEEDS_ATTENTION", "DISMISSED"}

RowPlain(row) ==
  row.status # "NONE" =>
    /\ row.status # "DELETED"
    /\ row.hash \in {NoHash, row.payload}
    /\ row.hash = NoHash => row.status \in {"DOWNLOAD_SUBMITTED"} \cup Help
    /\ row.media = IF row.orphan THEN "MOVIE" ELSE MediaOf[row.payload]

Waits(row, h) ==
  /\ row.status = "DOWNLOAD_SUBMITTED" /\ row.hash = NoHash
  /\ row.payload = h /\ ~row.orphan

TaskPlain(rows, k) ==
  /\ k.pc \notin DeletePc
  /\ k.pc \in SubmitPc => Waits(rows[k.job], k.pick)
  /\ k.pc \in RunPc => k.payload = k.torrent /\ rows[k.job].hash = k.torrent
  /\ k.pc \in ReadPc => rows[k.job].hash # NoHash

\* A row has one submission under way.
SubmitsApart ==
  \A s, t \in Slots : s # t /\ tasks[s].pc \in SubmitPc /\ tasks[t].pc \in SubmitPc =>
    tasks[s].job # tasks[t].job

VerdictPlain(row, v) ==
  v # Pass => row.hash # NoHash \/ (v.rule = "flag" /\ row.status \in Help)

Plain ==
  /\ \A j \in JobIds : RowPlain(jobs[j])
  /\ \A t \in Slots : TaskPlain(jobs, tasks[t])
  /\ SubmitsApart
  /\ \A j \in JobIds : VerdictPlain(jobs[j], poll.todo[j])

\* What most steps leave of a row.
RowKept(old, new) ==
  /\ new.payload = old.payload /\ new.media = old.media /\ new.orphan = old.orphan
  /\ new.hash = old.hash
  /\ old.status = "NONE" => new.status = "NONE"
  /\ old.status # "NONE" => new.status \notin {"NONE", "DELETED"}
  /\ old.hash = NoHash =>
       new.status = old.status \/ (old.status \in Help /\ new.status \in Help)

RowsKept == \A i \in JobIds : RowKept(jobs[i], jobs'[i])

LEMMA SameRows ==
  ASSUME Plain, jobs' = jobs
  PROVE  RowsKept
BY DEF Plain, RowPlain, RowsKept, RowKept

\* A step that writes one row.
LEMMA OneRow ==
  ASSUME TypeInv, Plain, NEW j \in JobIds, NEW r, RowKept(jobs[j], r),
         jobs' = [jobs EXCEPT ![j] = r]
  PROVE  RowsKept
<1>1. \A i \in JobIds : jobs'[i] = IF i = j THEN r ELSE jobs[i]
  BY DEF TypeInv, RowsOK
<1>2. \A i \in JobIds : RowKept(jobs[i], jobs[i])
  BY DEF Plain, RowPlain, RowKept
<1> QED BY <1>1, <1>2 DEF RowsKept

\* A row that owns a torrent may be set to any status but the two.
LEMMA StatusKept ==
  ASSUME NEW row \in PipelineJob, row.hash # NoHash, row.status # "NONE",
         NEW status \in JobStatus \ {"DELETED"}
  PROVE  /\ RowKept(row, [row EXCEPT !.status = status])
         /\ \A n : RowKept(row, [row EXCEPT !.status = status, !.attempts = n])
BY DEF PipelineJob, RowKept, JobStatus, AwaitingDownload, PipelineStatus

LEMMA EnterKept ==
  ASSUME TypeInv, Plain, NEW t \in Slots, NEW h \in Hashes, Enter(t, h, jobs)
  PROVE  RowsKept
<1>1. CASE jobs' = jobs
  BY <1>1, SameRows
<1>2. ASSUME NEW j \in JobIds, jobs[j].hash = h, jobs[j].status # "NONE",
             \/ jobs' = [jobs EXCEPT ![j].status = "STOP_SEEDING"]
             \/ jobs' = [jobs EXCEPT ![j].status = "FAILED", ![j].attempts = Bump(@)]
      PROVE  RowsKept
  <2>1. jobs[j] \in PipelineJob /\ jobs[j].hash # NoHash
    BY <1>2 DEF TypeInv, RowsOK
  <2> DEFINE r == [jobs[j] EXCEPT !.status = "STOP_SEEDING"]
             q == [jobs[j] EXCEPT !.status = "FAILED", !.attempts = Bump(@)]
  <2>2. RowKept(jobs[j], r) /\ RowKept(jobs[j], q)
    BY <1>2, <2>1, StatusKept DEF JobStatus, PipelineStatus
  <2>3. jobs' = [jobs EXCEPT ![j] = r] \/ jobs' = [jobs EXCEPT ![j] = q]
    BY <1>2
  <2> HIDE DEF r, q
  <2> QED BY <2>2, <2>3, OneRow
<1>3. ASSUME NEW j \in JobIds, jobs[j].status \in Reentry \/ jobs[j].status = "DISMISSED"
      PROVE  jobs[j].status # "NONE"
  BY <1>3 DEF Reentry, AwaitingDownload
<1> QED BY <1>1, <1>2, <1>3 DEF Enter

\* The row and the torrent of a run.
LEMMA RunRow ==
  ASSUME TypeInv, Plain, NEW t \in Slots, tasks[t].pc \in RunPc
  PROVE  /\ tasks[t] \in Task /\ tasks[t].job \in JobIds
         /\ jobs[tasks[t].job] \in PipelineJob /\ jobs[tasks[t].job].status # "NONE"
         /\ tasks[t].torrent \in Hashes /\ tasks[t].payload = tasks[t].torrent
         /\ jobs[tasks[t].job].hash = tasks[t].torrent
         /\ jobs[tasks[t].job].payload = tasks[t].torrent
         /\ jobs[tasks[t].job].hash # NoHash
<1>1. /\ tasks[t] \in Task /\ tasks[t].job \in JobIds
      /\ jobs[tasks[t].job] \in PipelineJob /\ jobs[tasks[t].job].status # "NONE"
  BY TaskRow DEF TypeInv
<1>2. tasks[t].payload \in Hashes
  BY DEF TypeInv, TasksOK, TaskShape
<1>3. tasks[t].payload = tasks[t].torrent /\ jobs[tasks[t].job].hash = tasks[t].torrent
  BY DEF Plain, TaskPlain
<1>4. jobs[tasks[t].job].hash \in {NoHash, jobs[tasks[t].job].payload}
  BY <1>1 DEF Plain, RowPlain
<1> QED BY <1>1, <1>2, <1>3, <1>4

LEMMA RunKept ==
  ASSUME TypeInv, Plain, NEW t \in Slots, RunStep(t)
  PROVE  RowsKept
<1> DEFINE j == tasks[t].job
<1>1. tasks[t].pc \in RunPc
  BY DEF RunStep, RemoveTransfer, CommitStopped, ResolveMeta, ListFiles, Place, PlaceNothing,
         CommitPlaced, Scan, StepFails, PlaceLocked, RunPc, PipelineStatus
<1>2. /\ j \in JobIds /\ jobs[j] \in PipelineJob /\ jobs[j].status # "NONE"
      /\ jobs[j].hash # NoHash /\ tasks[t].payload = jobs[j].payload
  BY <1>1, RunRow
<1>3. ASSUME NEW r, RowKept(jobs[j], r), jobs' = [jobs EXCEPT ![j] = r] PROVE RowsKept
  BY <1>2, <1>3, OneRow
<1>4. CASE CommitStopped(t)
  <2> DEFINE r == [jobs[j] EXCEPT !.status = "RESOLVE_META", !.seedingRemoved = TRUE,
                                  !.payload = tasks[t].payload]
  <2>1. RowKept(jobs[j], r)
    BY <1>2 DEF RowKept, PipelineJob
  <2>2. jobs' = [jobs EXCEPT ![j] = r]
    BY <1>4 DEF CommitStopped, Commit
  <2> QED BY <1>3, <2>1, <2>2
<1>5. CASE CommitPlaced(t)
  <2> DEFINE r == [jobs[j] EXCEPT !.status = "SCAN", !.dest = TRUE,
                                  !.placed = tasks[t].placed]
  <2>1. RowKept(jobs[j], r)
    BY <1>2 DEF RowKept, PipelineJob
  <2>2. jobs' = [jobs EXCEPT ![j] = r]
    BY <1>5 DEF CommitPlaced, Commit
  <2> QED BY <1>3, <2>1, <2>2
<1>6. CASE ResolveMeta(t) \/ Scan(t)
  <2>1. PICK status \in {"RENAME", "DONE"} : jobs' = [jobs EXCEPT ![j].status = status]
    BY <1>6 DEF ResolveMeta, Commit, Scan
  <2> DEFINE r == [jobs[j] EXCEPT !.status = status]
  <2>2. RowKept(jobs[j], r)
    BY <1>2, StatusKept DEF JobStatus, PipelineStatus
  <2>3. jobs' = [jobs EXCEPT ![j] = r]
    BY <2>1
  <2> HIDE DEF r
  <2> QED BY <1>3, <2>2, <2>3
<1>7. CASE StepFails(t) \/ PlaceLocked(t)
  <2> DEFINE r == [jobs[j] EXCEPT !.status = "FAILED", !.attempts = Bump(tasks[t].attempts)]
  <2>1. RowKept(jobs[j], r)
    BY <1>2, StatusKept DEF JobStatus
  <2>2. jobs' = [jobs EXCEPT ![j] = r]
    BY <1>7 DEF StepFails, PlaceLocked, FailJob
  <2> HIDE DEF r
  <2> QED BY <1>3, <2>1, <2>2
<1>8. CASE RemoveTransfer(t) \/ ListFiles(t) \/ Place(t) \/ PlaceNothing(t)
  BY <1>8, SameRows DEF RemoveTransfer, ListFiles, Place, PlaceNothing, storeVars
<1> QED BY <1>4, <1>5, <1>6, <1>7, <1>8 DEF RunStep

LEMMA SweepKept ==
  ASSUME TypeInv, Plain, PollStep
  PROVE  RowsKept
<1>1. CASE PollAsk \/ PollSkip \/ PollList \/ PollEnd
  BY <1>1, SameRows DEF PollAsk, PollSkip, PollList, PollEnd, storeVars
<1>2. ASSUME NEW j \in JobIds, ApplyRule(j) PROVE RowsKept
  <2>0. /\ jobs[j] \in PipelineJob /\ VerdictPlain(jobs[j], poll.todo[j])
        /\ RowPlain(jobs[j])
    BY DEF TypeInv, RowsOK, Plain
  <2>a. poll.todo[j] # Pass => jobs[j].status # "NONE"
    BY DEF TypeInv, PollOK, VerdictShape, Known
  <2>1. CASE PollFlag(j)
    <3> DEFINE r == [jobs[j] EXCEPT !.status = "NEEDS_ATTENTION"]
    <3>1. poll.todo[j] # Pass /\ jobs' = [jobs EXCEPT ![j] = r]
      BY <2>1 DEF PollFlag, At
    <3>2. RowKept(jobs[j], r)
      BY <2>0, <2>a, <3>1 DEF VerdictPlain, RowKept, PipelineJob, Help
    <3> HIDE DEF r
    <3> QED BY <3>1, <3>2, OneRow
  <2>2. CASE PollAdvance(j)
    <3> DEFINE r == [jobs[j] EXCEPT !.status = "DOWNLOADING"]
    <3>1. /\ poll.todo[j] # Pass /\ poll.todo[j].rule = "advance"
          /\ jobs' = [jobs EXCEPT ![j] = r]
      BY <2>2 DEF PollAdvance, AdvanceToDownloading, At
    <3>2. RowKept(jobs[j], r)
      BY <2>0, <2>a, <3>1, StatusKept DEF VerdictPlain, JobStatus, AwaitingDownload
    <3> HIDE DEF r
    <3> QED BY <3>1, <3>2, OneRow
  <2>3. CASE CountResume(j)
    <3> DEFINE r == [jobs[j] EXCEPT !.remediations = poll.todo[j].remediations + 1]
    <3>1. poll.todo[j] # Pass /\ jobs' = [jobs EXCEPT ![j] = r]
      BY <2>3 DEF CountResume, At
    <3>2. RowKept(jobs[j], r)
      BY <2>0, <2>a, <3>1 DEF RowKept, RowPlain, PipelineJob
    <3> HIDE DEF r
    <3> QED BY <3>1, <3>2, OneRow
  <2>4. CASE PollProcess(j)
    <3>1. poll.todo[j].hash \in Hashes
      BY <2>4 DEF PollProcess, At, TypeInv, PollOK, VerdictShape
    <3> QED BY <2>4, <3>1, EnterKept DEF PollProcess, Slots
  <2>5. CASE PollResume(j) \/ ResumeTransfer(j) \/ ResumeFails(j)
    BY <2>5, SameRows DEF PollResume, ResumeTransfer, ResumeFails, storeVars
  <2> QED BY <1>2, <2>1, <2>2, <2>3, <2>4, <2>5 DEF ApplyRule
<1> QED BY <1>1, <1>2 DEF PollStep

\* What a step does to the rows, when nobody retries, deletes or redoes.
LEMMA StepRows ==
  ASSUME TypeInv, Plain, LeftAlone, [Next]_vars
  PROVE  \/ RowsKept
         \/ \E t \in Tasks, h \in Hashes : Submit(t, h, FALSE) \/ Submit(t, h, TRUE)
         \/ \E h \in Hashes, j \in JobIds : CreatesOrphan(j, h)
         \/ \E t \in Slots : Answer(t)
<1>1. ASSUME NEW h \in Hashes, Transfers(h) PROVE RowsKept
  BY <1>1, SameRows
     DEF Transfers, TransferStarts, TransferErrors, TransferCompletes, HookLost, AddedByHand,
         RemovedByHand, storeVars
<1>2. ASSUME NEW t \in Tasks, NEW j \in JobIds, ReadJob(t, j) PROVE RowsKept
  BY <1>2, SameRows DEF ReadJob, storeVars
<1>3. ASSUME NEW t \in Tasks, NEW h \in Hashes, Webhook(t, h)
      PROVE  RowsKept \/ \E j \in JobIds : CreatesOrphan(j, h)
  <2>1. ASSUME NEW j \in JobIds, jobs[j].hash = h, jobs' = [jobs EXCEPT ![j].payload = h]
        PROVE  RowsKept
    <3> DEFINE r == [jobs[j] EXCEPT !.payload = h]
    <3>1. /\ jobs[j] \in PipelineJob /\ RowPlain(jobs[j]) /\ h # NoHash
          /\ jobs[j].status = "NONE" => jobs[j] = NoRow
      BY DEF TypeInv, RowsOK, Plain
    <3>2. RowKept(jobs[j], r)
      BY <2>1, <3>1 DEF RowKept, RowPlain, PipelineJob, NoRow
    <3>3. jobs' = [jobs EXCEPT ![j] = r]
      BY <2>1
    <3> HIDE DEF r
    <3> QED BY <3>2, <3>3, OneRow
  <2> QED BY <1>3, <2>1 DEF Webhook, CreatesOrphan
<1>4. ASSUME NEW t \in Slots, RunStep(t) PROVE RowsKept
  BY <1>4, RunKept
<1>5. ASSUME NEW t \in Slots, StartRun(t) PROVE RowsKept
  <2>1. tasks[t].torrent \in Hashes
    BY <1>5 DEF StartRun, TypeInv, TasksOK, TaskShape
  <2> QED BY <1>5, <2>1, EnterKept DEF StartRun
<1>6. ASSUME NEW t \in Slots, SubmitStep(t) PROVE RowsKept \/ Answer(t)
  BY <1>6, SameRows DEF SubmitStep, Forward, SubmitFails, storeVars
<1>7. ASSUME NEW t \in Slots PROVE ~DeleteStep(t)
  BY DEF Plain, TaskPlain, DeletePc, DeleteStep, DeleteTorrent, DeleteFolder, DeletePlaced,
         CommitDeleted, DeleteFails
<1>8. ASSUME NEW t \in Slots, ReadStep(t) PROVE RowsKept
  <2>1. CASE Advance(t)
    <3> DEFINE j == tasks[t].job
               r == [jobs[j] EXCEPT !.status = "DOWNLOADING"]
    <3>1. /\ j \in JobIds /\ jobs[j] \in PipelineJob /\ jobs[j].status # "NONE"
          /\ jobs[j].hash # NoHash
      BY <2>1, TaskRow DEF Advance, ReadPc, TypeInv, Plain, TaskPlain
    <3>2. RowKept(jobs[j], r)
      BY <3>1, StatusKept DEF JobStatus, AwaitingDownload
    <3>3. jobs' = [jobs EXCEPT ![j] = r]
      BY <2>1 DEF Advance, AdvanceToDownloading
    <3> HIDE DEF r
    <3> QED BY <3>1, <3>2, <3>3, OneRow
  <2>2. CASE ReadTransfers(t) \/ ReadFails(t)
    BY <2>2, SameRows DEF ReadTransfers, ReadFails, storeVars
  <2> QED BY <1>8, <2>1, <2>2 DEF ReadStep
<1>9. CASE DismissJob
  <2>1. PICK j \in JobIds : Dismiss(j)
    BY <1>9 DEF DismissJob
  <2> DEFINE r == [jobs[j] EXCEPT !.status = "DISMISSED"]
  <2>2. jobs[j] \in PipelineJob /\ jobs[j].status \in {"FAILED", "NEEDS_ATTENTION"}
    BY <2>1 DEF Dismiss, AttentionStatus, TypeInv, RowsOK
  <2>3. RowKept(jobs[j], r)
    BY <2>2 DEF RowKept, PipelineJob, Help
  <2>4. jobs' = [jobs EXCEPT ![j] = r]
    BY <2>1 DEF Dismiss
  <2> HIDE DEF r
  <2> QED BY <2>3, <2>4, OneRow
<1>10. CASE Tick
  BY <1>10, SweepKept DEF Tick
<1>11. CASE Restart
  <2>1. \A j \in JobIds : jobs'[j] = jobs[j]
    <3>1. \A j \in JobIds : jobs[j].status # "DELETED"
      BY DEF Plain, RowPlain
    <3> QED BY <1>11, <3>1 DEF Restart, ReleaseDeletedHashes
  <2> QED BY <2>1 DEF Plain, RowPlain, RowsKept, RowKept
<1>12. CASE UNCHANGED vars
  BY <1>12, SameRows DEF vars, storeVars
<1>13. ASSUME NEW t \in Tasks, Request(t)
       PROVE  \/ \E h \in Hashes : Submit(t, h, FALSE) \/ Submit(t, h, TRUE)
              \/ \E j \in JobIds : ReadJob(t, j)
  BY <1>13 DEF Request, LeftAlone
<1> QED BY <1>1, <1>2, <1>3, <1>4, <1>5, <1>6, <1>7, <1>8, <1>9, <1>10, <1>11, <1>12, <1>13
        DEF Next, HookArrives, Resumes

-----------------------------------------------------------------------------
(* A run is begun of a torrent whose download was seen complete: by the     *)
(* hook, by the poll, or by a run of it before.                             *)

Runs(k, h) == k.pc \in {"start"} \cup RunPc /\ k.torrent = h
RowBegun(row, h) == row.hash = h /\ row.status \in PipelineStatus \cup {"DONE", "FAILED"}
VerdictBegun(v, h) == v.rule \in {"run", "retry"} /\ v.hash = h

Begun(h) ==
  \/ h \in hooks
  \/ qbt[h] = "complete" \/ poll.seen[h] = "complete"
  \/ \E t \in Slots : Runs(tasks[t], h)
  \/ \E j \in JobIds : RowBegun(jobs[j], h) \/ VerdictBegun(poll.todo[j], h)

\* Coroutine t goes on: about the row and torrent it was about, or one that was begun.
Proceeds(t) ==
  /\ \A s \in Slots \ {t} : tasks'[s] = tasks[s]
  /\ TaskPlain(jobs', tasks'[t])
  /\ tasks'[t].pc \in SubmitPc => tasks[t].pc \in SubmitPc /\ tasks'[t].job = tasks[t].job
  /\ \A h \in Hashes : Runs(tasks'[t], h) => Begun(h)

RowsBegunBefore == \A i \in JobIds : \A h \in Hashes : RowBegun(jobs'[i], h) => Begun(h)

LEMMA IdlePlain == \A rows : TaskPlain(rows, Idle) /\ \A h : ~Runs(Idle, h)
BY DEF Idle, TaskPlain, Runs, DeletePc, SubmitPc, RunPc, ReadPc, PipelineStatus

\* The coroutine is done.
LEMMA Leaves ==
  ASSUME TypeInv, NEW t \in Slots, tasks' = [tasks EXCEPT ![t] = Idle]
  PROVE  Proceeds(t)
<1>1. tasks'[t] = Idle /\ \A s \in Slots \ {t} : tasks'[s] = tasks[s]
  BY DEF TypeInv, TasksOK
<1>2. TaskPlain(jobs', Idle) /\ \A h : ~Runs(Idle, h)
  BY IdlePlain
<1>3. Idle.pc \notin SubmitPc
  BY DEF Idle, SubmitPc
<1> QED BY <1>1, <1>2, <1>3 DEF Proceeds

\* No row is written.
LEMMA RowsBegunSame == ASSUME jobs' = jobs PROVE RowsBegunBefore
BY DEF RowsBegunBefore, Begun

\* One row is written, of a torrent that was begun.
LEMMA RowsBegunOne ==
  ASSUME TypeInv, NEW j \in JobIds, NEW r, jobs' = [jobs EXCEPT ![j] = r],
         \A h \in Hashes : jobs'[j].hash = h => Begun(h)
  PROVE  RowsBegunBefore
<1>1. \A i \in JobIds \ {j} : jobs'[i] = jobs[i]
  BY DEF TypeInv, RowsOK
<1> QED BY <1>1 DEF RowsBegunBefore, RowBegun, Begun

\* What stays true of coroutines as rows are kept.
LEMMA TaskStaysPlain ==
  ASSUME TypeInv, RowsKept, NEW k, TaskShape(jobs, k), TaskPlain(jobs, k)
  PROVE  TaskPlain(jobs', k)
<1>1. k.pc \in RunPc \cup SubmitPc \cup ReadPc =>
        k.job \in JobIds /\ RowKept(jobs[k.job], jobs'[k.job])
  BY DEF TaskShape, Known, RowsKept
<1> QED BY <1>1 DEF TaskPlain, Waits, RowKept, Help

LEMMA RunAtPlain ==
  ASSUME NEW rows, NEW j, NEW step \in PipelineStatus, NEW h, rows[j].hash = h,
         rows[j].payload = h, jobs'[j].hash = h
  PROVE  /\ TaskPlain(jobs', RunAt(rows, j, step))
         /\ RunAt(rows, j, step).pc \notin SubmitPc
         /\ \A g : Runs(RunAt(rows, j, step), g) => g = h
BY DEF RunAt, Idle, TaskPlain, Runs, DeletePc, SubmitPc, RunPc, ReadPc, PipelineStatus

LEMMA EnterProceeds ==
  ASSUME TypeInv, Plain, NEW t \in Slots, NEW h \in Hashes, Begun(h), Enter(t, h, jobs)
  PROVE  Proceeds(t) /\ RowsBegunBefore
<1>1. CASE jobs' = jobs /\ tasks' = [tasks EXCEPT ![t] = Idle]
  BY <1>1, Leaves, RowsBegunSame
<1>2. ASSUME NEW j \in JobIds, jobs[j].hash = h, jobs[j].status # "NONE",
             NEW step \in PipelineStatus, tasks' = [tasks EXCEPT ![t] = RunAt(jobs, j, step)]
      PROVE  Proceeds(t)
  <2>1. jobs[j].payload = h /\ jobs'[j].hash = h
    BY <1>2, EnterKept DEF Plain, RowPlain, RowsKept, RowKept
  <2>2. tasks'[t] = RunAt(jobs, j, step) /\ \A s \in Slots \ {t} : tasks'[s] = tasks[s]
    BY <1>2 DEF TypeInv, TasksOK
  <2> QED BY <1>2, <2>1, <2>2, RunAtPlain DEF Proceeds
<1>3. ASSUME NEW j \in JobIds, jobs[j].hash = h, NEW status, NEW n,
             \/ jobs' = [jobs EXCEPT ![j].status = status]
             \/ jobs' = [jobs EXCEPT ![j].status = status, ![j].attempts = n]
      PROVE  RowsBegunBefore
  <2> DEFINE r == [jobs[j] EXCEPT !.status = status]
             q == [jobs[j] EXCEPT !.status = status, !.attempts = n]
  <2>1. jobs'[j].hash = h
    BY <1>3 DEF TypeInv, RowsOK, PipelineJob
  <2>2. jobs' = [jobs EXCEPT ![j] = r] \/ jobs' = [jobs EXCEPT ![j] = q]
    BY <1>3
  <2> HIDE DEF r, q
  <2> QED BY <2>1, <2>2, RowsBegunOne
<1>4. ASSUME NEW j \in JobIds, jobs[j].hash = h, jobs[j].status \in Reentry,
             jobs' = [jobs EXCEPT ![j].status = "STOP_SEEDING"],
             tasks' = [tasks EXCEPT ![t] = RunAt(jobs, j, "STOP_SEEDING")]
      PROVE  Proceeds(t) /\ RowsBegunBefore
  <2>1. jobs[j].status # "NONE" /\ "STOP_SEEDING" \in PipelineStatus
    BY <1>4 DEF Reentry, AwaitingDownload, PipelineStatus
  <2> QED BY <1>2, <1>3, <1>4, <2>1
<1>5. ASSUME NEW j \in JobIds, jobs[j].hash = h, jobs[j].status \in PipelineStatus,
             jobs' = jobs, tasks' = [tasks EXCEPT ![t] = RunAt(jobs, j, jobs[j].status)]
      PROVE  Proceeds(t) /\ RowsBegunBefore
  BY <1>2, <1>5, RowsBegunSame DEF PipelineStatus
<1>6. ASSUME NEW j \in JobIds, jobs[j].hash = h,
             jobs' = [jobs EXCEPT ![j].status = "FAILED", ![j].attempts = Bump(@)],
             tasks' = [tasks EXCEPT ![t] = Idle]
      PROVE  Proceeds(t) /\ RowsBegunBefore
  BY <1>3, <1>6, Leaves
<1> QED BY <1>1, <1>4, <1>5, <1>6 DEF Enter

\* A coroutine of a run that moves on with what it holds.
LEMMA RunGoesOn ==
  ASSUME TypeInv, Plain, NEW t \in Slots, tasks[t].pc \in RunPc, jobs' = jobs,
         NEW k, tasks' = [tasks EXCEPT ![t] = k], k.pc \in RunPc, k.job = tasks[t].job,
         k.torrent = tasks[t].torrent, k.payload = tasks[t].payload
  PROVE  Proceeds(t)
<1>1. tasks'[t] = k /\ \A s \in Slots \ {t} : tasks'[s] = tasks[s]
  BY DEF TypeInv, TasksOK
<1>2. TaskPlain(jobs, tasks[t])
  BY DEF Plain
<1>3. TaskPlain(jobs', k) /\ k.pc \notin SubmitPc
  BY <1>2 DEF TaskPlain, RunPc, DeletePc, SubmitPc, ReadPc, PipelineStatus
<1>4. \A h \in Hashes : Runs(k, h) => Begun(h)
  BY DEF Runs, Begun
<1> QED BY <1>1, <1>3, <1>4 DEF Proceeds

LEMMA RunProceeds ==
  ASSUME TypeInv, Plain, NEW t \in Slots, RunStep(t)
  PROVE  Proceeds(t) /\ RowsBegunBefore
<1> DEFINE j == tasks[t].job  h == tasks[t].torrent
<1>1. tasks[t].pc \in RunPc
  BY DEF RunStep, RemoveTransfer, CommitStopped, ResolveMeta, ListFiles, Place, PlaceNothing,
         CommitPlaced, Scan, StepFails, PlaceLocked, RunPc, PipelineStatus
<1>2. /\ tasks[t] \in Task /\ j \in JobIds /\ h \in Hashes
      /\ jobs[j] \in PipelineJob /\ jobs[j].status # "NONE"
      /\ jobs[j].hash = h /\ jobs[j].payload = h /\ tasks[t].payload = h
  BY <1>1, RunRow
<1>3. Begun(h)
  BY <1>1 DEF Begun, Runs
<1>4. jobs'[j].hash = h /\ jobs'[j].payload = h
  BY <1>2, RunKept DEF RowsKept, RowKept
<1>5. ASSUME NEW step \in PipelineStatus, tasks' = [tasks EXCEPT ![t] = RunAt(jobs', j, step)]
      PROVE  Proceeds(t)
  <2>1. tasks'[t] = RunAt(jobs', j, step) /\ \A s \in Slots \ {t} : tasks'[s] = tasks[s]
    BY <1>5 DEF TypeInv, TasksOK
  <2> QED BY <1>3, <1>4, <2>1, RunAtPlain DEF Proceeds
<1>6. CASE RemoveTransfer(t) \/ ListFiles(t) \/ Place(t) \/ PlaceNothing(t)
  <2>1. jobs' = jobs
    BY <1>6 DEF RemoveTransfer, ListFiles, Place, PlaceNothing, storeVars
  <2>2. PICK k : /\ tasks' = [tasks EXCEPT ![t] = k] /\ k.pc \in RunPc /\ k.job = j
                 /\ k.torrent = h /\ k.payload = h
    <3>1. CASE RemoveTransfer(t)
      <4> DEFINE k == [tasks[t] EXCEPT !.pc = "STOPPED",
                         !.payload = IF qbt[tasks[t].torrent] # "absent"
                                     THEN tasks[t].torrent ELSE @]
      <4>1. k.pc \in RunPc /\ k.job = j /\ k.torrent = h /\ k.payload = h
        BY <1>2 DEF Task, RunPc
      <4>2. tasks' = [tasks EXCEPT ![t] = k]
        BY <3>1 DEF RemoveTransfer
      <4> HIDE DEF k
      <4> QED BY <4>1, <4>2
    <3>2. CASE ListFiles(t)
      <4> DEFINE k == [tasks[t] EXCEPT !.pc = "LISTED",
                         !.saw = Folder(jobs[j].media, tasks[t].payload) # "none"]
      <4>1. k.pc \in RunPc /\ k.job = j /\ k.torrent = h /\ k.payload = h
        BY <1>2 DEF Task, RunPc
      <4>2. tasks' = [tasks EXCEPT ![t] = k]
        BY <3>2 DEF ListFiles
      <4> HIDE DEF k
      <4> QED BY <4>1, <4>2
    <3>3. ASSUME NEW b, tasks' = [tasks EXCEPT ![t].pc = "PLACED", ![t].placed = b]
          PROVE  \E k : /\ tasks' = [tasks EXCEPT ![t] = k] /\ k.pc \in RunPc /\ k.job = j
                        /\ k.torrent = h /\ k.payload = h
      <4> DEFINE k == [tasks[t] EXCEPT !.pc = "PLACED", !.placed = b]
      <4>1. k.pc \in RunPc /\ k.job = j /\ k.torrent = h /\ k.payload = h
        BY <1>2 DEF Task, RunPc
      <4>2. tasks' = [tasks EXCEPT ![t] = k]
        BY <3>3
      <4> HIDE DEF k
      <4> QED BY <4>1, <4>2
    <3>4. CASE Place(t)
      BY <3>3, <3>4 DEF Place
    <3>5. CASE PlaceNothing(t)
      BY <3>3, <3>5 DEF PlaceNothing
    <3> QED BY <1>6, <3>1, <3>2, <3>4, <3>5
  <2> QED BY <1>1, <1>2, <2>1, <2>2, RunGoesOn, RowsBegunSame
<1>7. RowsBegunBefore
  <2>1. CASE jobs' = jobs
    BY <2>1, RowsBegunSame
  <2>2. CASE \E r : jobs' = [jobs EXCEPT ![j] = r]
    <3>1. PICK r : jobs' = [jobs EXCEPT ![j] = r]
      BY <2>2
    <3> QED BY <1>2, <1>3, <1>4, <3>1, RowsBegunOne
  <2> QED BY <2>1, <2>2
       DEF RunStep, RemoveTransfer, CommitStopped, ResolveMeta, ListFiles, Place, PlaceNothing,
           CommitPlaced, Scan, StepFails, PlaceLocked, FailJob, Commit, storeVars
<1>8. CASE CommitStopped(t) \/ ResolveMeta(t) \/ CommitPlaced(t)
  <2>1. PICK step \in PipelineStatus : tasks' = [tasks EXCEPT ![t] = RunAt(jobs', j, step)]
    BY <1>8 DEF CommitStopped, ResolveMeta, CommitPlaced, Commit, PipelineStatus
  <2> QED BY <1>5, <1>7, <2>1
<1>9. CASE Scan(t) \/ StepFails(t) \/ PlaceLocked(t)
  BY <1>7, <1>9, Leaves DEF Scan, StepFails, PlaceLocked, FailJob
<1> QED BY <1>6, <1>7, <1>8, <1>9 DEF RunStep

-----------------------------------------------------------------------------
(* So nothing is begun by any step but the completion of a download.        *)

NoneBegun == \A h \in Hashes : Begun(h)' => Begun(h)

\* The sweep holds no verdict it did not.
SweepLess ==
  /\ \A j \in JobIds : poll'.todo[j] \in {Pass, poll.todo[j]}
  /\ \A h \in Hashes : poll'.seen[h] \in {"absent", poll.seen[h], qbt[h]}

\* A step of a coroutine that keeps the rows, of the sweep, or of neither.
LEMMA StepPlain ==
  ASSUME TypeInv, Plain, RowsKept, RowsBegunBefore, SweepLess,
         \/ \E t \in Slots : Proceeds(t)
         \/ \A s \in Slots : tasks'[s] \in {Idle, tasks[s]},
         \A h \in Hashes : (h \in hooks' \/ qbt'[h] = "complete") => Begun(h)
  PROVE  Plain' /\ NoneBegun
<1>1. \A j \in JobIds : RowPlain(jobs'[j])
  BY DEF Plain, RowPlain, RowsKept, RowKept, Help
<1>2. \A j \in JobIds : VerdictPlain(jobs'[j], poll'.todo[j])
  BY DEF Plain, VerdictPlain, RowsKept, RowKept, SweepLess
<1>3. ASSUME NEW s \in Slots, tasks'[s] = tasks[s] PROVE TaskPlain(jobs', tasks'[s])
  BY <1>3, TaskStaysPlain DEF Plain, TypeInv, TasksOK
<1>4. \A s \in Slots : TaskPlain(jobs', tasks'[s])
  BY <1>3, IdlePlain DEF Proceeds
<1>5. \A s \in Slots : tasks'[s].pc \in SubmitPc =>
        tasks[s].pc \in SubmitPc /\ tasks'[s].job = tasks[s].job
  BY DEF Proceeds, Idle, SubmitPc
<1>6. SubmitsApart'
  BY <1>5 DEF Plain, SubmitsApart
<1>7. \A s \in Slots : \A h \in Hashes : Runs(tasks'[s], h) => Begun(h)
  BY IdlePlain DEF Proceeds, Begun
<1>8. \A j \in JobIds : \A h \in Hashes : VerdictBegun(poll'.todo[j], h) => Begun(h)
  BY DEF SweepLess, VerdictBegun, Pass, Begun
<1>9. \A h \in Hashes : poll'.seen[h] = "complete" => Begun(h)
  BY DEF SweepLess, Begun
<1>10. NoneBegun
  BY <1>7, <1>8, <1>9 DEF NoneBegun, Begun, RowsBegunBefore
<1> QED BY <1>1, <1>2, <1>4, <1>6, <1>10 DEF Plain

\* What the sweep decides of a row.
LEMMA JudgeRow ==
  ASSUME NEW row \in PipelineJob, NEW seen
  PROVE  LET v == Judge(row, seen) IN
         /\ VerdictPlain(row, v)
         /\ v.rule \in {"run", "retry"} => v.hash = row.hash
         /\ v.rule = "retry" => row.status = "FAILED"
         /\ v.rule = "run" => seen[row.hash] = "complete"
<1> DEFINE v == Judge(row, seen)
<1>1. CASE Rule(row, seen) = "pass"
  BY <1>1 DEF Judge, Pass, VerdictPlain
<1>2. CASE Rule(row, seen) # "pass"
  <2>1. v.rule = Rule(row, seen) /\ v.hash = row.hash
    BY <1>2 DEF Judge
  <2>2. /\ v.rule = "retry" => row.status = "FAILED"
        /\ v.rule = "run" => seen[row.hash] = "complete"
        /\ row.hash # NoHash \/ (v.rule = "flag" /\ row.status = "FAILED")
    BY <1>2, <2>1 DEF Rule, FailedRule, TransferRule
  <2> QED BY <2>1, <2>2 DEF VerdictPlain, Help
<1> QED BY <1>1, <1>2

LEMMA SweepPlain ==
  ASSUME TypeInv, Plain, PollStep
  PROVE  Plain' /\ NoneBegun
<1>0. RowsKept
  BY SweepKept
<1>1. ASSUME UNCHANGED tasks, jobs' = jobs, SweepLess,
             \A h \in Hashes : (h \in hooks' \/ qbt'[h] = "complete") => Begun(h)
      PROVE  Plain' /\ NoneBegun
  BY <1>0, <1>1, RowsBegunSame, StepPlain
<1>2. CASE PollAsk
  BY <1>1, <1>2 DEF PollAsk, PollIdle, SweepLess, downloaderVars, workerVars, storeVars, Begun
<1>3. CASE PollSkip \/ PollEnd
  <2>1. poll' = PollIdle /\ UNCHANGED <<downloaderVars, workerVars, storeVars>>
    BY <1>3 DEF PollSkip, PollEnd
  <2> QED BY <1>1, <2>1 DEF PollIdle, SweepLess, downloaderVars, workerVars, storeVars, Begun
<1>4. CASE PollList
  <2>1. UNCHANGED <<jobs, tasks, qbt, hooks>>
    BY <1>4 DEF PollList, downloaderVars, workerVars, storeVars
  <2>2. /\ \A j \in JobIds : poll'.todo[j] = Judge(jobs[j], poll.seen)
        /\ \A h \in Hashes : poll'.seen[h] = "absent"
    BY <1>4 DEF PollList, PollIdle
  <2>3. \A j \in JobIds : /\ VerdictPlain(jobs[j], poll'.todo[j])
                          /\ \A h \in Hashes : VerdictBegun(poll'.todo[j], h) => Begun(h)
    <3> SUFFICES ASSUME NEW j \in JobIds
                 PROVE  /\ VerdictPlain(jobs[j], poll'.todo[j])
                        /\ \A h \in Hashes : VerdictBegun(poll'.todo[j], h) => Begun(h)
      OBVIOUS
    <3> DEFINE v == Judge(jobs[j], poll.seen)
    <3>1. jobs[j] \in PipelineJob
      BY DEF TypeInv, RowsOK
    <3>2. /\ VerdictPlain(jobs[j], v)
          /\ v.rule \in {"run", "retry"} => v.hash = jobs[j].hash
          /\ v.rule = "retry" => jobs[j].status = "FAILED"
          /\ v.rule = "run" => poll.seen[jobs[j].hash] = "complete"
      BY <3>1, JudgeRow
    <3> HIDE DEF v
    <3>3. \A h \in Hashes : VerdictBegun(v, h) => Begun(h)
      BY <3>2 DEF VerdictBegun, RowBegun, Begun
    <3> QED BY <2>2, <3>2, <3>3 DEF v
  <2>4. Plain'
    BY <2>1, <2>3 DEF Plain, SubmitsApart
  <2>5. NoneBegun
    BY <2>1, <2>2, <2>3 DEF NoneBegun, Begun
  <2> QED BY <2>4, <2>5
<1>5. ASSUME NEW j \in JobIds, ApplyRule(j) PROVE Plain' /\ NoneBegun
  <2>1. SweepLess
    <3>1. \/ poll' = [poll EXCEPT !.pc = "sweep", !.todo[j] = Pass]
          \/ \E pc : poll' = [poll EXCEPT !.pc = pc]
      BY <1>5 DEF ApplyRule, PollFlag, PollProcess, PollAdvance, PollResume, ResumeTransfer,
                  CountResume, ResumeFails, Handled
    <3>2. /\ \A i \in JobIds : poll'.todo[i] \in {Pass, poll.todo[i]}
          /\ poll'.seen = poll.seen
      <4>0. \E todo : DOMAIN todo = JobIds /\ poll.todo = todo
        BY DEF TypeInv, PollOK
      <4>1. CASE poll' = [poll EXCEPT !.pc = "sweep", !.todo[j] = Pass]
        BY <4>0, <4>1 DEF TypeInv, PollOK
      <4>2. CASE \E pc : poll' = [poll EXCEPT !.pc = pc]
        BY <4>2 DEF TypeInv, PollOK
      <4> QED BY <3>1, <4>1, <4>2
    <3> QED BY <3>2 DEF SweepLess
  <2>2. \A h \in Hashes : (h \in hooks' \/ qbt'[h] = "complete") => Begun(h)
    <3>1. CASE ResumeTransfer(j)
      BY <3>1 DEF ResumeTransfer, Resume, Begun, TypeInv, OtherOK, DownloaderTypeOK
    <3>2. CASE ~ResumeTransfer(j)
      <4>1. UNCHANGED <<qbt, hooks>>
        BY <1>5, <3>2 DEF ApplyRule, PollFlag, PollProcess, PollAdvance, PollResume,
                          CountResume, ResumeFails, downloaderVars
      <4> QED BY <4>1 DEF Begun
    <3> QED BY <3>1, <3>2
  <2>3. CASE PollProcess(j)
    <3>1. poll.todo[j].hash \in Hashes
      BY <2>3 DEF PollProcess, At, TypeInv, PollOK, VerdictShape
    <3>2. Begun(poll.todo[j].hash)
      BY <2>3 DEF PollProcess, Begun, VerdictBegun
    <3>3. Poller \in Slots /\ Enter(Poller, poll.todo[j].hash, jobs)
      BY <2>3 DEF PollProcess, Slots
    <3>4. Proceeds(Poller) /\ RowsBegunBefore
      BY <3>1, <3>2, <3>3, EnterProceeds
    <3> QED BY <1>0, <2>1, <2>2, <3>3, <3>4, StepPlain
  <2>4. ASSUME NEW r, jobs' = [jobs EXCEPT ![j] = r], UNCHANGED tasks,
               \/ jobs'[j].status \notin PipelineStatus \cup {"DONE", "FAILED"}
               \/ jobs'[j].status = jobs[j].status
        PROVE  Plain' /\ NoneBegun
    <3>1. \A i \in JobIds \ {j} : jobs'[i] = jobs[i]
      BY <2>4 DEF TypeInv, RowsOK
    <3>2. jobs'[j].hash = jobs[j].hash
      BY <1>0 DEF RowsKept, RowKept
    <3>3. RowsBegunBefore
      BY <2>4, <3>1, <3>2 DEF RowsBegunBefore, RowBegun, Begun
    <3> QED BY <1>0, <2>1, <2>2, <2>4, <3>3, StepPlain
  <2>5. CASE PollFlag(j) \/ PollAdvance(j)
    <3>1. PICK status \in {"NEEDS_ATTENTION", "DOWNLOADING"} :
            jobs' = [jobs EXCEPT ![j] = [jobs[j] EXCEPT !.status = status]]
      BY <2>5 DEF PollFlag, PollAdvance, AdvanceToDownloading
    <3>2. jobs'[j].status = status
      BY <3>1 DEF TypeInv, RowsOK, PipelineJob
    <3>3. UNCHANGED tasks
      BY <2>5 DEF PollFlag, PollAdvance, workerVars
    <3> QED BY <2>4, <3>1, <3>2, <3>3 DEF PipelineStatus
  <2>6. CASE CountResume(j)
    <3> DEFINE r == [jobs[j] EXCEPT !.remediations = poll.todo[j].remediations + 1]
    <3>1. jobs' = [jobs EXCEPT ![j] = r] /\ UNCHANGED tasks
      BY <2>6 DEF CountResume, workerVars
    <3>2. jobs'[j].status = jobs[j].status
      BY <3>1 DEF TypeInv, RowsOK, PipelineJob
    <3> HIDE DEF r
    <3> QED BY <2>4, <3>1, <3>2
  <2>7. CASE PollResume(j) \/ ResumeTransfer(j) \/ ResumeFails(j)
    BY <1>1, <2>1, <2>2, <2>7 DEF PollResume, ResumeTransfer, ResumeFails, workerVars, storeVars
  <2> QED BY <1>5, <2>3, <2>5, <2>6, <2>7 DEF ApplyRule
<1> QED BY <1>2, <1>3, <1>4, <1>5 DEF PollStep

\* A row is added: nobody was about it.
LEMMA NewRow ==
  ASSUME TypeInv, Plain, NEW j \in JobIds, jobs[j].status = "NONE", NEW r, RowPlain(r),
         r.status = "DOWNLOAD_SUBMITTED", jobs' = [jobs EXCEPT ![j] = r]
  PROVE  /\ \A i \in JobIds : RowPlain(jobs'[i])
         /\ \A i \in JobIds : VerdictPlain(jobs'[i], poll.todo[i])
         /\ \A s \in Slots : TaskPlain(jobs', tasks[s])
         /\ \A s \in Slots : tasks[s].pc \in SubmitPc => tasks[s].job # j
         /\ RowsBegunBefore
         /\ jobs'[j] = r
<1>1. \A i \in JobIds : jobs'[i] = IF i = j THEN r ELSE jobs[i]
  BY DEF TypeInv, RowsOK
<1>2. \A i \in JobIds : VerdictPlain(jobs'[i], poll.todo[i])
  <2>1. poll.todo[j] = Pass
    BY DEF TypeInv, PollOK, VerdictShape, Known
  <2> QED BY <1>1, <2>1 DEF Plain, VerdictPlain
<1>3. ASSUME NEW s \in Slots
      PROVE  TaskPlain(jobs', tasks[s]) /\ (tasks[s].pc \in SubmitPc => tasks[s].job # j)
  <2>1. TaskShape(jobs, tasks[s]) /\ TaskPlain(jobs, tasks[s])
    BY DEF TypeInv, TasksOK, Plain
  <2>2. tasks[s].pc \in RunPc \cup SubmitPc \cup ReadPc =>
          tasks[s].job \in JobIds /\ tasks[s].job # j
    BY <2>1 DEF TaskShape, Known
  <2> QED BY <1>1, <2>1, <2>2 DEF TaskPlain
<1>4. RowsBegunBefore
  BY <1>1 DEF RowsBegunBefore, RowBegun, Begun, PipelineStatus
<1> QED BY <1>1, <1>2, <1>3, <1>4 DEF Plain

LEMMA SubmitPlain ==
  ASSUME TypeInv, Plain, NEW t \in Tasks, NEW h \in Hashes, NEW follow \in BOOLEAN,
         Submit(t, h, follow), UNCHANGED poll
  PROVE  Plain' /\ NoneBegun
<1>1. PICK j \in JobIds : /\ Create(j, MediaOf[h], FALSE, h, NoJob)
                          /\ tasks' = [tasks EXCEPT ![t] = SubmitAt(j, h, follow)]
  BY DEF Submit
<1> DEFINE r == Row(MediaOf[h], FALSE, NoHash, h, NoJob)
           k == SubmitAt(j, h, follow)
<1>2. /\ jobs[j].status = "NONE" /\ jobs' = [jobs EXCEPT ![j] = r]
      /\ UNCHANGED <<qbt, hooks>>
  BY <1>1 DEF Create, NextSeq, Exists, Submit, downloaderVars
<1>3. RowPlain(r) /\ Waits(r, h) /\ r.status = "DOWNLOAD_SUBMITTED"
  BY DEF Row, NoRow, RowPlain, Waits
<1> HIDE DEF r
<1>4. /\ \A i \in JobIds : RowPlain(jobs'[i])
      /\ \A i \in JobIds : VerdictPlain(jobs'[i], poll.todo[i])
      /\ \A s \in Slots : TaskPlain(jobs', tasks[s])
      /\ \A s \in Slots : tasks[s].pc \in SubmitPc => tasks[s].job # j
      /\ RowsBegunBefore
      /\ jobs'[j] = r
  BY <1>2, <1>3, NewRow
<1>5. k.pc = "download" /\ k.job = j /\ k.pick = h /\ \A g : ~Runs(k, g)
  BY DEF SubmitAt, Idle, Runs, RunPc, PipelineStatus
<1>6. tasks'[t] = k /\ \A s \in Slots \ {t} : tasks'[s] = tasks[s]
  BY <1>1 DEF TypeInv, TasksOK, Slots
<1> HIDE DEF k
<1>7. TaskPlain(jobs', k)
  BY <1>3, <1>4, <1>5 DEF TaskPlain, DeletePc, SubmitPc, RunPc, ReadPc, PipelineStatus
<1>8. \A s \in Slots : TaskPlain(jobs', tasks'[s])
  BY <1>4, <1>6, <1>7
<1>9. SubmitsApart'
  BY <1>4, <1>5, <1>6 DEF Plain, SubmitsApart
<1>10. Plain'
  BY <1>4, <1>8, <1>9 DEF Plain
<1>11. NoneBegun
  BY <1>2, <1>4, <1>5, <1>6 DEF NoneBegun, Begun, RowsBegunBefore
<1> QED BY <1>10, <1>11

LEMMA WebhookPlain ==
  ASSUME TypeInv, Plain, LeftAlone, NEW t \in Tasks, NEW h \in Hashes, Webhook(t, h),
         UNCHANGED poll
  PROVE  Plain' /\ NoneBegun
<1> DEFINE k == [Idle EXCEPT !.pc = "start", !.torrent = h]
<1>1. t \in Slots /\ Begun(h) /\ tasks' = [tasks EXCEPT ![t] = k] /\ qbt' = qbt
  BY DEF Slots, Webhook, Begun
<1>2. hooks' = hooks \ {h}
  BY DEF Webhook
<1>3. /\ \A rows : TaskPlain(rows, k)
      /\ k.pc \notin SubmitPc /\ \A g : Runs(k, g) => g = h
  BY DEF Idle, TaskPlain, Runs, DeletePc, SubmitPc, RunPc, ReadPc, PipelineStatus
<1>4. tasks'[t] = k /\ \A s \in Slots \ {t} : tasks'[s] = tasks[s]
  BY <1>1 DEF TypeInv, TasksOK
<1> HIDE DEF k
<1>5. Proceeds(t)
  BY <1>1, <1>3, <1>4 DEF Proceeds
<1>6. \A g \in Hashes : (g \in hooks' \/ qbt'[g] = "complete") => Begun(g)
  BY <1>1, <1>2 DEF Begun
<1>7. SweepLess
  BY DEF SweepLess
<1>8. ASSUME NEW j \in JobIds, jobs[j].hash = h, jobs' = [jobs EXCEPT ![j].payload = h]
      PROVE  Plain' /\ NoneBegun
  <2> DEFINE r == [jobs[j] EXCEPT !.payload = h]
  <2>1. jobs' = [jobs EXCEPT ![j] = r]
    BY <1>8
  <2>2. r.hash = h
    BY <1>8 DEF TypeInv, RowsOK, PipelineJob
  <2>3. RowKept(jobs[j], r)
    <3>1. /\ jobs[j] \in PipelineJob /\ RowPlain(jobs[j]) /\ h # NoHash
          /\ jobs[j].status = "NONE" => jobs[j] = NoRow
      BY DEF TypeInv, RowsOK, Plain
    <3> QED BY <1>8, <3>1 DEF RowKept, RowPlain, PipelineJob, NoRow
  <2> HIDE DEF r
  <2>4. RowsKept
    BY <2>1, <2>3, OneRow
  <2>5. jobs'[j].hash = h
    BY <1>8, <2>4 DEF RowsKept, RowKept
  <2>6. RowsBegunBefore
    BY <1>1, <2>1, <2>5, RowsBegunOne
  <2> QED BY <1>1, <1>5, <1>6, <1>7, <2>4, <2>6, StepPlain
<1>9. ASSUME NEW j \in JobIds, CreatesOrphan(j, h) PROVE Plain' /\ NoneBegun
  <2> DEFINE r == Row("MOVIE", TRUE, h, h, NoJob)
  <2>1. jobs[j].status = "NONE" /\ jobs' = [jobs EXCEPT ![j] = r]
    BY <1>9 DEF CreatesOrphan, NextSeq, Exists
  <2>2. RowPlain(r) /\ r.status = "DOWNLOAD_SUBMITTED"
    BY DEF Row, NoRow, RowPlain
  <2> HIDE DEF r
  <2>3. /\ \A i \in JobIds : RowPlain(jobs'[i])
        /\ \A i \in JobIds : VerdictPlain(jobs'[i], poll.todo[i])
        /\ \A s \in Slots : TaskPlain(jobs', tasks[s])
        /\ RowsBegunBefore
    BY <2>1, <2>2, NewRow
  <2>4. \A s \in Slots : TaskPlain(jobs', tasks'[s])
    BY <1>3, <1>4, <2>3
  <2>5. SubmitsApart'
    BY <1>3, <1>4 DEF Plain, SubmitsApart
  <2>6. NoneBegun
    BY <1>1, <1>3, <1>4, <1>6, <2>3 DEF NoneBegun, Begun, RowsBegunBefore
  <2> QED BY <2>3, <2>4, <2>5, <2>6 DEF Plain
<1> QED BY <1>8, <1>9 DEF Webhook, CreatesOrphan

\* The answer of a submission: its row gets its torrent, or fails without one.
LEMMA AnswerPlain ==
  ASSUME TypeInv, Plain, NEW t \in Slots, Answer(t), UNCHANGED poll
  PROVE  Plain' /\ NoneBegun
<1> DEFINE j == tasks[t].job  h == tasks[t].pick
<1>1. /\ j \in JobIds /\ h \in Hashes /\ jobs[j] \in PipelineJob
      /\ Waits(jobs[j], h) /\ RowPlain(jobs[j])
      /\ tasks[t].pc \in SubmitPc
  BY TaskRow DEF Answer, SubmitPc, TypeInv, TasksOK, TaskShape, Plain, TaskPlain
<1>2. /\ tasks' = [tasks EXCEPT ![t] = Idle]
      /\ UNCHANGED <<qbt, hooks>>
  BY DEF Answer, downloaderVars
<1>3. tasks'[t] = Idle /\ \A s \in Slots \ {t} : tasks'[s] = tasks[s]
  BY <1>2 DEF TypeInv, TasksOK
<1>4. ASSUME jobs' = jobs PROVE Plain' /\ NoneBegun
  <2>1. SweepLess
    BY DEF SweepLess
  <2> QED BY <1>2, <1>4, <2>1, SameRows, RowsBegunSame, Leaves, StepPlain DEF Begun
<1>5. ASSUME NEW r, jobs' = [jobs EXCEPT ![j] = r], RowPlain(r),
             r.hash = NoHash \/ r.status = "DOWNLOAD_SUBMITTED"
      PROVE  Plain' /\ NoneBegun
  <2>1. \A i \in JobIds : jobs'[i] = IF i = j THEN r ELSE jobs[i]
    BY <1>5 DEF TypeInv, RowsOK
  <2>2. \A i \in JobIds : RowPlain(jobs'[i])
    BY <1>5, <2>1 DEF Plain
  <2>3. \A i \in JobIds : VerdictPlain(jobs'[i], poll'.todo[i])
    <3>1. poll.todo[j] = Pass
      BY <1>1 DEF Plain, VerdictPlain, Waits, Help
    <3> QED BY <2>1, <3>1 DEF Plain, VerdictPlain
  <2>4. ASSUME NEW s \in Slots \ {t} PROVE TaskPlain(jobs', tasks'[s])
    <3>1. TaskShape(jobs, tasks[s]) /\ TaskPlain(jobs, tasks[s])
      BY DEF TypeInv, TasksOK, Plain
    <3>2. tasks[s].pc \in RunPc \cup SubmitPc \cup ReadPc =>
            tasks[s].job \in JobIds /\ tasks[s].job # j
      <4>1. CASE tasks[s].pc \in SubmitPc
        BY <1>1, <3>1, <4>1 DEF Plain, SubmitsApart, TaskShape, Known
      <4>2. CASE tasks[s].pc \in RunPc
        BY <1>1, <4>2, RunRow DEF Waits
      <4>3. CASE tasks[s].pc \in ReadPc
        BY <1>1, <3>1, <4>3 DEF Waits, TaskPlain, TaskShape, Known
      <4> QED BY <4>1, <4>2, <4>3
    <3> QED BY <1>3, <2>1, <3>1, <3>2 DEF TaskPlain
  <2>5. \A s \in Slots : TaskPlain(jobs', tasks'[s])
    BY <1>3, <2>4, IdlePlain
  <2>6. SubmitsApart'
    BY <1>3 DEF Plain, SubmitsApart, Idle, SubmitPc
  <2>7. \A i \in JobIds : \A g \in Hashes : RowBegun(jobs'[i], g) => RowBegun(jobs[i], g)
    BY <1>5, <2>1 DEF RowBegun, PipelineStatus
  <2>8. \A s \in Slots : \A g : Runs(tasks'[s], g) => Runs(tasks[s], g)
    BY <1>3, IdlePlain
  <2>9. NoneBegun
    BY <1>2, <2>7, <2>8 DEF NoneBegun, Begun
  <2> QED BY <2>2, <2>3, <2>5, <2>6, <2>9 DEF Plain
<1>6. CASE jobs' = [jobs EXCEPT ![j].status = "FAILED"]
  <2> DEFINE r == [jobs[j] EXCEPT !.status = "FAILED"]
  <2>1. RowPlain(r) /\ r.hash = NoHash
    BY <1>1 DEF RowPlain, Waits, PipelineJob, Help
  <2>2. jobs' = [jobs EXCEPT ![j] = r]
    BY <1>6
  <2> HIDE DEF r
  <2> QED BY <1>5, <2>1, <2>2
<1>7. CASE jobs' = [jobs EXCEPT ![j].hash = h]
  <2> DEFINE r == [jobs[j] EXCEPT !.hash = h]
  <2>1. RowPlain(r) /\ r.status = "DOWNLOAD_SUBMITTED"
    BY <1>1 DEF RowPlain, Waits, PipelineJob
  <2>2. jobs' = [jobs EXCEPT ![j] = r]
    BY <1>7
  <2> HIDE DEF r
  <2> QED BY <1>5, <2>1, <2>2
<1> QED BY <1>4, <1>6, <1>7 DEF Answer, Stamped

\* Only the end of a download begins a torrent, and nothing takes a row from its own.
LEMMA NextPlain ==
  ASSUME TypeInv, Plain, LeftAlone, [Next]_vars
  PROVE  Plain' /\ \A h \in Hashes : Begun(h)' => Begun(h) \/ TransferCompletes(h)
<1>0. UNCHANGED poll => SweepLess
  BY DEF SweepLess
<1>1. (UNCHANGED <<qbt, hooks>>) =>
        \A h \in Hashes : (h \in hooks' \/ qbt'[h] = "complete") => Begun(h)
  BY DEF Begun
<1>2. ASSUME UNCHANGED <<qbt, hooks, poll>>, RowsKept, RowsBegunBefore,
             \/ \E t \in Slots : Proceeds(t)
             \/ \A s \in Slots : tasks'[s] \in {Idle, tasks[s]}
      PROVE  Plain' /\ NoneBegun
  BY <1>0, <1>1, <1>2, StepPlain
<1>3. ASSUME NEW g \in Hashes, Transfers(g)
      PROVE  Plain' /\ \A h \in Hashes : Begun(h)' => Begun(h) \/ TransferCompletes(h)
  <2>1. UNCHANGED <<tasks, library, poll, jobs>>
    BY <1>3 DEF Transfers, TransferStarts, TransferErrors, TransferCompletes, HookLost,
                AddedByHand, RemovedByHand, storeVars, workerVars
  <2>2. Plain'
    BY <2>1 DEF Plain, SubmitsApart
  <2>3. CASE TransferCompletes(g)
    <3>1. \A h \in Hashes \ {g} : qbt'[h] = qbt[h] /\ (h \in hooks' => h \in hooks)
      BY <2>3 DEF TransferCompletes, TypeInv, OtherOK, DownloaderTypeOK
    <3>2. \A h \in Hashes \ {g} : Begun(h)' => Begun(h)
      BY <2>1, <3>1 DEF Begun
    <3> QED BY <2>2, <2>3, <3>2
  <2>4. CASE ~TransferCompletes(g)
    <3>1. \A h \in Hashes : /\ qbt'[h] = "complete" => qbt[h] = "complete"
                            /\ h \in hooks' => h \in hooks
      BY <1>3, <2>4 DEF Transfers, TransferStarts, TransferErrors, HookLost, AddedByHand, Add,
           RemovedByHand, Remove, TypeInv, OtherOK, DownloaderTypeOK
    <3> QED BY <2>1, <2>2, <3>1 DEF Begun
  <2> QED BY <2>3, <2>4
<1>4. ASSUME NEW t \in Tasks, Request(t) PROVE Plain' /\ NoneBegun
  <2>1. CASE \E h \in Hashes : Submit(t, h, FALSE) \/ Submit(t, h, TRUE)
    BY <1>4, <2>1, SubmitPlain DEF Request
  <2>2. ASSUME NEW j \in JobIds, ReadJob(t, j) PROVE Plain' /\ NoneBegun
    <3> DEFINE k == [Idle EXCEPT !.pc = "read", !.job = j, !.torrent = jobs[j].hash]
    <3>1. /\ t \in Slots /\ UNCHANGED <<jobs, qbt, hooks, poll>> /\ jobs[j].hash # NoHash
          /\ tasks' = [tasks EXCEPT ![t] = k]
      BY <1>4, <2>2 DEF Request, ReadJob, Slots, storeVars, downloaderVars
    <3>2. k.pc = "read" /\ k.job = j
      BY DEF Idle
    <3> HIDE DEF k
    <3>3. tasks'[t] = k /\ \A s \in Slots \ {t} : tasks'[s] = tasks[s]
      BY <3>1 DEF TypeInv, TasksOK
    <3>4. Proceeds(t)
      BY <3>1, <3>2, <3>3
         DEF Proceeds, TaskPlain, Runs, DeletePc, SubmitPc, RunPc, ReadPc, PipelineStatus
    <3> QED BY <1>2, <3>1, <3>4, SameRows, RowsBegunSame
  <2> QED BY <1>4, <2>1, <2>2 DEF Request, LeftAlone
<1>5. ASSUME NEW t \in Tasks, HookArrives(t) PROVE Plain' /\ NoneBegun
  BY <1>5, WebhookPlain DEF HookArrives
<1>6. ASSUME NEW t \in Slots, Resumes(t) PROVE Plain' /\ NoneBegun
  <2>0. UNCHANGED poll
    BY <1>6 DEF Resumes
  <2>1. CASE StartRun(t)
    <3> DEFINE h == tasks[t].torrent
    <3>1. h \in Hashes /\ Begun(h)
      BY <2>1 DEF StartRun, TypeInv, TasksOK, TaskShape, Begun, Runs
    <3>2. Enter(t, h, jobs) /\ UNCHANGED <<qbt, hooks>>
      BY <2>1 DEF StartRun, downloaderVars
    <3>3. Proceeds(t) /\ RowsBegunBefore /\ RowsKept
      BY <3>1, <3>2, EnterProceeds, EnterKept
    <3> QED BY <1>2, <2>0, <3>2, <3>3
  <2>2. CASE RunStep(t)
    <3>1. Proceeds(t) /\ RowsBegunBefore /\ RowsKept
      BY <2>2, RunProceeds, RunKept
    <3>2. \A h \in Hashes : (h \in hooks' \/ qbt'[h] = "complete") => Begun(h)
      BY <2>2 DEF RunStep, RemoveTransfer, CommitStopped, ResolveMeta, ListFiles, Place,
           PlaceNothing, CommitPlaced, Scan, StepFails, PlaceLocked, downloaderVars, Remove,
           Begun, TypeInv, OtherOK, DownloaderTypeOK
    <3> QED BY <1>0, <2>0, <3>1, <3>2, StepPlain
  <2>3. CASE Forward(t)
    <3>1. PICK known \in BOOLEAN :
            tasks' = [tasks EXCEPT ![t] = [tasks[t] EXCEPT !.pc = "downloaded", !.saw = known]]
      BY <2>3 DEF Forward
    <3> DEFINE k == [tasks[t] EXCEPT !.pc = "downloaded", !.saw = known]
    <3>2. /\ k.pc = "downloaded" /\ k.job = tasks[t].job /\ k.pick = tasks[t].pick
          /\ tasks[t].pc = "download" /\ jobs' = jobs
      BY <2>3 DEF Forward, TypeInv, TasksOK, TaskShape, Task, storeVars
    <3>3. tasks'[t] = k /\ \A s \in Slots \ {t} : tasks'[s] = tasks[s]
      BY <3>1 DEF TypeInv, TasksOK
    <3> HIDE DEF k
    <3>4. Proceeds(t)
      BY <3>2, <3>3
         DEF Proceeds, TaskPlain, Runs, DeletePc, SubmitPc, RunPc, ReadPc, PipelineStatus, Plain
    <3>5. \A h \in Hashes : (h \in hooks' \/ qbt'[h] = "complete") => Begun(h)
      BY <2>3 DEF Forward, Add, Begun, TypeInv, OtherOK, DownloaderTypeOK
    <3> QED BY <1>0, <2>0, <3>2, <3>4, <3>5, SameRows, RowsBegunSame, StepPlain
  <2>4. CASE SubmitFails(t)
    BY <1>2, <2>0, <2>4, SameRows, RowsBegunSame, Leaves
       DEF SubmitFails, downloaderVars, storeVars
  <2>5. CASE Answer(t)
    BY <2>0, <2>5, AnswerPlain
  <2>6. ~DeleteStep(t)
    BY DEF Plain, TaskPlain, DeletePc, DeleteStep, DeleteTorrent, DeleteFolder, DeletePlaced,
           CommitDeleted, DeleteFails
  <2>7. CASE ReadStep(t)
    <3>1. UNCHANGED <<qbt, hooks>>
      BY <2>7 DEF ReadStep, ReadTransfers, Advance, ReadFails, downloaderVars
    <3>2. CASE tasks' = [tasks EXCEPT ![t] = Idle] /\ jobs' = jobs
      BY <1>2, <2>0, <3>1, <3>2, Leaves, SameRows, RowsBegunSame
    <3>3. CASE ReadTransfers(t) /\ qbt[tasks[t].torrent] = "downloading"
      <4> DEFINE k == [tasks[t] EXCEPT !.pc = "observed"]
      <4>1. /\ k.pc = "observed" /\ k.job = tasks[t].job /\ tasks[t].pc = "read"
            /\ tasks' = [tasks EXCEPT ![t] = k] /\ jobs' = jobs
        BY <3>3 DEF ReadTransfers, TypeInv, TasksOK, TaskShape, Task, storeVars
      <4> HIDE DEF k
      <4>2. tasks'[t] = k /\ \A s \in Slots \ {t} : tasks'[s] = tasks[s]
        BY <4>1 DEF TypeInv, TasksOK
      <4>3. Proceeds(t)
        BY <4>1, <4>2
           DEF Proceeds, TaskPlain, Runs, DeletePc, SubmitPc, RunPc, ReadPc, PipelineStatus, Plain
      <4> QED BY <1>2, <2>0, <3>1, <4>1, <4>3, SameRows, RowsBegunSame
    <3>4. CASE Advance(t)
      <4> DEFINE j == tasks[t].job  r == [jobs[j] EXCEPT !.status = "DOWNLOADING"]
      <4>1. /\ j \in JobIds /\ jobs[j] \in PipelineJob /\ jobs[j].status # "NONE"
            /\ jobs[j].hash # NoHash
        BY <3>4, TaskRow DEF Advance, ReadPc, TypeInv, Plain, TaskPlain
      <4>2. RowKept(jobs[j], r) /\ r.status = "DOWNLOADING"
        BY <4>1, StatusKept DEF JobStatus, AwaitingDownload, PipelineJob
      <4>3. jobs' = [jobs EXCEPT ![j] = r] /\ tasks' = [tasks EXCEPT ![t] = Idle]
        BY <3>4 DEF Advance, AdvanceToDownloading
      <4> HIDE DEF r
      <4>4. \A i \in JobIds : jobs'[i] = IF i = j THEN r ELSE jobs[i]
        BY <4>3 DEF TypeInv, RowsOK
      <4>5. RowsBegunBefore
        BY <4>2, <4>4 DEF RowsBegunBefore, RowBegun, Begun, PipelineStatus
      <4> QED BY <1>2, <2>0, <3>1, <4>1, <4>2, <4>3, <4>5, OneRow, Leaves
    <3> QED BY <2>7, <3>2, <3>3, <3>4 DEF ReadStep, ReadTransfers, ReadFails, storeVars
  <2> QED BY <1>6, <2>1, <2>2, <2>3, <2>4, <2>5, <2>6, <2>7 DEF Resumes, SubmitStep
<1>7. ASSUME DismissJob PROVE Plain' /\ NoneBegun
  <2>1. PICK j \in JobIds : Dismiss(j)
    BY <1>7 DEF DismissJob
  <2> DEFINE r == [jobs[j] EXCEPT !.status = "DISMISSED"]
  <2>2. jobs[j] \in PipelineJob /\ jobs[j].status \in {"FAILED", "NEEDS_ATTENTION"}
    BY <2>1 DEF Dismiss, AttentionStatus, TypeInv, RowsOK
  <2>3. RowKept(jobs[j], r) /\ r.status = "DISMISSED"
    BY <2>2 DEF RowKept, PipelineJob, Help
  <2>4. jobs' = [jobs EXCEPT ![j] = r] /\ UNCHANGED <<qbt, hooks, tasks, poll>>
    BY <1>7, <2>1 DEF DismissJob, Dismiss, downloaderVars, workerVars
  <2> HIDE DEF r
  <2>5. \A i \in JobIds : jobs'[i] = IF i = j THEN r ELSE jobs[i]
    BY <2>4 DEF TypeInv, RowsOK
  <2>6. RowsBegunBefore
    BY <2>3, <2>5 DEF RowsBegunBefore, RowBegun, Begun, PipelineStatus
  <2> QED BY <1>2, <2>3, <2>4, <2>6, OneRow
<1>8. ASSUME Tick PROVE Plain' /\ NoneBegun
  BY <1>8, SweepPlain DEF Tick
<1>9. ASSUME Restart PROVE Plain' /\ NoneBegun
  <2>1. \A j \in JobIds : jobs'[j] = jobs[j]
    <3>1. \A j \in JobIds : jobs[j].status # "DELETED"
      BY DEF Plain, RowPlain
    <3> QED BY <1>9, <3>1 DEF Restart, ReleaseDeletedHashes
  <2>2. RowsKept /\ RowsBegunBefore
    BY <2>1 DEF Plain, RowPlain, RowsKept, RowKept, RowsBegunBefore, Begun
  <2>3. UNCHANGED <<qbt, hooks>> /\ SweepLess /\ \A s \in Slots : tasks'[s] = Idle
    BY <1>9 DEF Restart, downloaderVars, PollIdle, SweepLess
  <2> QED BY <1>1, <2>2, <2>3, StepPlain
<1>10. ASSUME UNCHANGED vars PROVE Plain' /\ NoneBegun
  <2>1. UNCHANGED <<qbt, hooks, poll, jobs, tasks>>
    BY <1>10 DEF vars, downloaderVars, storeVars, workerVars
  <2> QED BY <1>2, <2>1, SameRows, RowsBegunSame
<1> QED BY <1>3, <1>4, <1>5, <1>6, <1>7, <1>8, <1>9, <1>10 DEF Next, NoneBegun

-----------------------------------------------------------------------------
(* What a step does to the disk, the pipeline statuses and the runs.        *)

RowsStay == \A j \in JobIds : jobs'[j].status \in PipelineStatus \cup {"DONE"} =>
  /\ jobs'[j].status = jobs[j].status
  /\ jobs'[j].payload = jobs[j].payload /\ jobs'[j].media = jobs[j].media

TasksStay == \A s \in Slots :
  tasks'[s].pc \in RunPc => tasks'[s] = tasks[s] /\ tasks[s].job \in JobIds
                            /\ jobs'[tasks[s].job].media = jobs[tasks[s].job].media

SubmitsStay == \A s \in Slots : tasks'[s].pc = "download" => tasks'[s] = tasks[s]

DiskStays == UNCHANGED <<qbt, staged, library>> /\ hooks' \subseteq hooks

Downloads(t, h) == Submit(t, h, FALSE) \/ Submit(t, h, TRUE)

\* No row is written at its status, and no coroutine becomes a run.
LEMMA RowsStayKept ==
  ASSUME TypeInv, Plain, RowsKept,
         \A j \in JobIds : jobs'[j].status = jobs[j].status
                           \/ jobs'[j].status \notin PipelineStatus \cup {"DONE"},
         \A s \in Slots : tasks'[s] = tasks[s] \/ tasks'[s].pc \notin RunPc
  PROVE  RowsStay /\ TasksStay
<1>1. \A s \in Slots : tasks[s].pc \in RunPc => tasks[s].job \in JobIds
  BY RunRow
<1> QED BY <1>1 DEF RowsStay, TasksStay, RowsKept, RowKept

LEMMA RowsStayNew ==
  ASSUME TypeInv, Plain, NEW j \in JobIds, NEW r, jobs' = [jobs EXCEPT ![j] = r],
         r.status \notin PipelineStatus \cup {"DONE"},
         jobs[j].status = "NONE" \/ jobs[j].hash = NoHash,
         \A s \in Slots : tasks'[s] = tasks[s] \/ tasks'[s].pc \notin RunPc
  PROVE  RowsStay /\ TasksStay
<1>1. \A i \in JobIds : jobs'[i] = IF i = j THEN r ELSE jobs[i]
  BY DEF TypeInv, RowsOK
<1>2. \A s \in Slots : tasks[s].pc \in RunPc => tasks[s].job \in JobIds \ {j}
  BY RunRow
<1> QED BY <1>1, <1>2 DEF RowsStay, TasksStay

LEMMA StepKinds ==
  ASSUME TypeInv, Plain, LeftAlone, [Next]_vars
  PROVE  \/ RowsStay /\ TasksStay /\ SubmitsStay /\ DiskStays
         \/ /\ RowsStay /\ TasksStay /\ DiskStays
            /\ \E t \in Tasks, h \in Hashes : Downloads(t, h)
         \/ /\ RowsStay /\ TasksStay /\ SubmitsStay /\ UNCHANGED library
            /\ \/ \E h \in Hashes : Transfers(h)
               \/ \E t \in Slots : Forward(t)
               \/ \E j \in JobIds : ResumeTransfer(j)
         \/ /\ SubmitsStay /\ DiskStays
            /\ \E t \in Slots, h \in Hashes : Enter(t, h, jobs) /\ Begun(h)
         \/ SubmitsStay /\ UNCHANGED hooks /\ \E t \in Slots : RunStep(t)
<1> DEFINE Stay == RowsStay /\ TasksStay
           Apart == RowsStay /\ TasksStay /\ SubmitsStay /\ DiskStays
<1>0. "download" \notin RunPc /\ "idle" \notin RunPc /\ Idle.pc = "idle"
  BY DEF RunPc, PipelineStatus, Idle
<1>1. ASSUME jobs' = jobs, \A s \in Slots : tasks'[s] = tasks[s] \/ tasks'[s].pc \notin RunPc
      PROVE  Stay
  BY <1>1, SameRows, RowsStayKept
<1>2. ASSUME NEW h \in Hashes, Transfers(h) PROVE Stay /\ SubmitsStay /\ UNCHANGED library
  <2>1. UNCHANGED <<tasks, library, jobs>>
    BY <1>2 DEF Transfers, TransferStarts, TransferErrors, TransferCompletes, HookLost,
                AddedByHand, RemovedByHand, storeVars, workerVars
  <2> QED BY <1>1, <2>1 DEF SubmitsStay
<1>3. ASSUME NEW t \in Tasks, Request(t)
      PROVE  Apart \/ (Stay /\ DiskStays /\ \E h \in Hashes : Downloads(t, h))
  <2>1. ASSUME NEW h \in Hashes, Downloads(t, h) PROVE Stay /\ DiskStays
    <3>1. PICK j \in JobIds, follow \in BOOLEAN :
                   /\ Create(j, MediaOf[h], FALSE, h, NoJob)
                   /\ tasks' = [tasks EXCEPT ![t] = SubmitAt(j, h, follow)]
      BY <2>1 DEF Downloads, Submit
    <3> DEFINE r == Row(MediaOf[h], FALSE, NoHash, h, NoJob)
    <3>2. jobs[j].status = "NONE" /\ jobs' = [jobs EXCEPT ![j] = r]
      BY <3>1 DEF Create, NextSeq, Exists
    <3>3. r.status = "DOWNLOAD_SUBMITTED" /\ SubmitAt(j, h, follow).pc = "download"
      BY DEF Row, NoRow, SubmitAt, Idle
    <3> HIDE DEF r
    <3>4. \A s \in Slots : tasks'[s] = tasks[s] \/ tasks'[s].pc \notin RunPc
      BY <1>0, <3>1, <3>3 DEF TypeInv, TasksOK
    <3>5. Stay
      BY <3>2, <3>3, <3>4, RowsStayNew DEF PipelineStatus
    <3>6. DiskStays
      BY <2>1 DEF Downloads, Submit, DiskStays, downloaderVars
    <3> QED BY <3>5, <3>6
  <2>2. ASSUME NEW j \in JobIds, ReadJob(t, j) PROVE Apart
    <3> DEFINE k == [Idle EXCEPT !.pc = "read", !.job = j, !.torrent = jobs[j].hash]
    <3>1. k.pc = "read"
      BY DEF Idle
    <3>2. tasks' = [tasks EXCEPT ![t] = k] /\ jobs' = jobs /\ DiskStays
      BY <2>2 DEF ReadJob, DiskStays, storeVars, downloaderVars
    <3> HIDE DEF k
    <3>3. \A s \in Slots : tasks'[s] = tasks[s] \/ tasks'[s].pc \notin RunPc \cup {"download"}
      BY <3>1, <3>2 DEF TypeInv, TasksOK, RunPc, PipelineStatus
    <3> QED BY <1>1, <3>2, <3>3 DEF SubmitsStay
  <2> QED BY <1>3, <2>1, <2>2 DEF Request, LeftAlone, Downloads
<1>4. ASSUME NEW t \in Tasks, HookArrives(t) PROVE Apart
  <2>1. PICK h \in Hashes : Webhook(t, h)
    BY <1>4 DEF HookArrives
  <2> DEFINE k == [Idle EXCEPT !.pc = "start", !.torrent = h]
  <2>2. k.pc = "start"
    BY DEF Idle
  <2>3. tasks' = [tasks EXCEPT ![t] = k] /\ DiskStays
    BY <2>1 DEF Webhook, DiskStays
  <2> HIDE DEF k
  <2>4. \A s \in Slots : tasks'[s] = tasks[s] \/ tasks'[s].pc \notin RunPc \cup {"download"}
    BY <2>2, <2>3 DEF TypeInv, TasksOK, RunPc, PipelineStatus
  <2>5. ASSUME NEW j \in JobIds, jobs[j].hash = h, jobs' = [jobs EXCEPT ![j].payload = h]
        PROVE  Stay
    <3> DEFINE r == [jobs[j] EXCEPT !.payload = h]
    <3>1. /\ jobs[j] \in PipelineJob /\ RowPlain(jobs[j]) /\ h # NoHash
          /\ jobs[j].status = "NONE" => jobs[j] = NoRow
      BY DEF TypeInv, RowsOK, Plain
    <3>2. RowKept(jobs[j], r) /\ r.status = jobs[j].status
      BY <2>5, <3>1 DEF RowKept, RowPlain, PipelineJob, NoRow
    <3>3. jobs' = [jobs EXCEPT ![j] = r]
      BY <2>5
    <3> HIDE DEF r
    <3>4. \A i \in JobIds : jobs'[i] = IF i = j THEN r ELSE jobs[i]
      BY <3>3 DEF TypeInv, RowsOK
    <3> QED BY <2>4, <3>2, <3>3, <3>4, OneRow, RowsStayKept
  <2>6. ASSUME NEW j \in JobIds, NextSeq(j),
               jobs' = [jobs EXCEPT ![j] = Row("MOVIE", TRUE, h, h, NoJob)]
        PROVE  Stay
    <3> DEFINE r == Row("MOVIE", TRUE, h, h, NoJob)
    <3>1. r.status = "DOWNLOAD_SUBMITTED" /\ jobs[j].status = "NONE"
      BY <2>6 DEF Row, NoRow, NextSeq, Exists
    <3>2. jobs' = [jobs EXCEPT ![j] = r]
      BY <2>6
    <3> HIDE DEF r
    <3> QED BY <2>4, <3>1, <3>2, RowsStayNew DEF PipelineStatus
  <2> QED BY <2>1, <2>3, <2>4, <2>5, <2>6 DEF Webhook, SubmitsStay
<1>5. ASSUME NEW t \in Slots, Resumes(t)
      PROVE  \/ Apart
             \/ Stay /\ SubmitsStay /\ UNCHANGED library /\ Forward(t)
             \/ /\ SubmitsStay /\ DiskStays
                /\ \E h \in Hashes : Enter(t, h, jobs) /\ Begun(h)
             \/ SubmitsStay /\ UNCHANGED hooks /\ RunStep(t)
  <2>0. ASSUME tasks' = [tasks EXCEPT ![t] = Idle]
        PROVE  SubmitsStay /\ \A s \in Slots : tasks'[s] = tasks[s] \/ tasks'[s].pc \notin RunPc
    BY <1>0, <2>0 DEF TypeInv, TasksOK, SubmitsStay
  <2>1. CASE StartRun(t)
    <3> DEFINE h == tasks[t].torrent
    <3>1. h \in Hashes /\ Begun(h)
      BY <2>1 DEF StartRun, TypeInv, TasksOK, TaskShape, Begun, Runs
    <3>2. Enter(t, h, jobs) /\ DiskStays
      BY <2>1 DEF StartRun, downloaderVars, DiskStays
    <3>3. PICK k : k.pc # "download" /\ tasks' = [tasks EXCEPT ![t] = k]
      <4>1. \A j, step : RunAt(jobs, j, step).pc = step
        BY DEF RunAt, Idle
      <4> QED BY <1>0, <3>2, <4>1 DEF Enter, PipelineStatus
    <3>4. SubmitsStay
      BY <3>3 DEF TypeInv, TasksOK, SubmitsStay
    <3> QED BY <3>1, <3>2, <3>4
  <2>2. CASE RunStep(t)
    <3>1. UNCHANGED hooks
      BY <2>2 DEF RunStep, RemoveTransfer, CommitStopped, ResolveMeta, ListFiles, Place,
           PlaceNothing, CommitPlaced, Scan, StepFails, PlaceLocked, downloaderVars
    <3>2. tasks[t].pc \in RunPc
      BY <2>2 DEF RunStep, RemoveTransfer, CommitStopped, ResolveMeta, ListFiles, Place,
           PlaceNothing, CommitPlaced, Scan, StepFails, PlaceLocked, RunPc, PipelineStatus
    <3>3. tasks'[t].pc \notin SubmitPc /\ \A s \in Slots \ {t} : tasks'[s] = tasks[s]
      BY <2>2, <3>2, RunProceeds DEF Proceeds, RunPc, SubmitPc, PipelineStatus
    <3> QED BY <2>2, <3>1, <3>3 DEF SubmitsStay, SubmitPc
  <2>3. CASE Forward(t)
    <3>1. PICK known \in BOOLEAN :
            tasks' = [tasks EXCEPT ![t] = [tasks[t] EXCEPT !.pc = "downloaded", !.saw = known]]
      BY <2>3 DEF Forward
    <3> DEFINE k == [tasks[t] EXCEPT !.pc = "downloaded", !.saw = known]
    <3>2. k.pc = "downloaded" /\ jobs' = jobs /\ library' = library
      BY <2>3 DEF Forward, TypeInv, TasksOK, TaskShape, Task, storeVars
    <3>3. tasks'[t] = k /\ \A s \in Slots \ {t} : tasks'[s] = tasks[s]
      BY <3>1 DEF TypeInv, TasksOK
    <3> HIDE DEF k
    <3> QED BY <1>1, <2>3, <3>2, <3>3 DEF SubmitsStay, RunPc, PipelineStatus
  <2>4. CASE SubmitFails(t)
    BY <1>1, <2>0, <2>4 DEF SubmitFails, downloaderVars, storeVars, DiskStays
  <2>5. CASE Answer(t)
    <3> DEFINE j == tasks[t].job  h == tasks[t].pick
    <3>1. /\ j \in JobIds /\ jobs[j] \in PipelineJob /\ Waits(jobs[j], h)
      BY <2>5, TaskRow DEF Answer, SubmitPc, TypeInv, TasksOK, TaskShape, Plain, TaskPlain
    <3>2. tasks' = [tasks EXCEPT ![t] = Idle] /\ DiskStays
      BY <2>5 DEF Answer, downloaderVars, DiskStays
    <3>3. ASSUME jobs' = jobs PROVE Apart
      BY <1>1, <2>0, <3>2, <3>3
    <3>4. ASSUME NEW r, jobs' = [jobs EXCEPT ![j] = r],
                 r.status \in {"FAILED", "DOWNLOAD_SUBMITTED"}
          PROVE  Apart
      BY <2>0, <3>1, <3>2, <3>4, RowsStayNew DEF Waits, PipelineStatus
    <3>5. CASE jobs' = [jobs EXCEPT ![j].status = "FAILED"]
      <4> DEFINE r == [jobs[j] EXCEPT !.status = "FAILED"]
      <4>1. r.status = "FAILED" /\ jobs' = [jobs EXCEPT ![j] = r]
        BY <3>1, <3>5 DEF PipelineJob
      <4> HIDE DEF r
      <4> QED BY <3>4, <4>1
    <3>6. CASE jobs' = [jobs EXCEPT ![j].hash = h]
      <4> DEFINE r == [jobs[j] EXCEPT !.hash = h]
      <4>1. r.status = "DOWNLOAD_SUBMITTED" /\ jobs' = [jobs EXCEPT ![j] = r]
        BY <3>1, <3>6 DEF PipelineJob, Waits
      <4> HIDE DEF r
      <4> QED BY <3>4, <4>1
    <3> QED BY <2>5, <3>3, <3>5, <3>6 DEF Answer, Stamped
  <2>6. ~DeleteStep(t)
    BY DEF Plain, TaskPlain, DeletePc, DeleteStep, DeleteTorrent, DeleteFolder, DeletePlaced,
           CommitDeleted, DeleteFails
  <2>7. CASE ReadStep(t)
    <3>1. DiskStays
      BY <2>7 DEF ReadStep, ReadTransfers, Advance, ReadFails, downloaderVars, DiskStays
    <3>2. CASE tasks' = [tasks EXCEPT ![t] = Idle] /\ jobs' = jobs
      BY <1>1, <2>0, <3>1, <3>2
    <3>3. CASE ReadTransfers(t) /\ qbt[tasks[t].torrent] = "downloading"
      <4> DEFINE k == [tasks[t] EXCEPT !.pc = "observed"]
      <4>1. k.pc = "observed" /\ tasks' = [tasks EXCEPT ![t] = k] /\ jobs' = jobs
        BY <3>3 DEF ReadTransfers, TypeInv, TasksOK, TaskShape, Task, storeVars
      <4> HIDE DEF k
      <4>2. tasks'[t] = k /\ \A s \in Slots \ {t} : tasks'[s] = tasks[s]
        BY <4>1 DEF TypeInv, TasksOK
      <4> QED BY <1>1, <3>1, <4>1, <4>2 DEF SubmitsStay, RunPc, PipelineStatus
    <3>4. CASE Advance(t)
      <4> DEFINE j == tasks[t].job  r == [jobs[j] EXCEPT !.status = "DOWNLOADING"]
      <4>1. /\ j \in JobIds /\ jobs[j] \in PipelineJob /\ jobs[j].status # "NONE"
            /\ jobs[j].hash # NoHash
        BY <3>4, TaskRow DEF Advance, ReadPc, TypeInv, Plain, TaskPlain
      <4>2. RowKept(jobs[j], r) /\ r.status = "DOWNLOADING"
        BY <4>1, StatusKept DEF JobStatus, AwaitingDownload, PipelineJob
      <4>3. jobs' = [jobs EXCEPT ![j] = r] /\ tasks' = [tasks EXCEPT ![t] = Idle]
        BY <3>4 DEF Advance, AdvanceToDownloading
      <4> HIDE DEF r
      <4>4. \A i \in JobIds : jobs'[i] = IF i = j THEN r ELSE jobs[i]
        BY <4>3 DEF TypeInv, RowsOK
      <4>5. Stay
        BY <2>0, <4>1, <4>2, <4>3, <4>4, OneRow, RowsStayKept DEF PipelineStatus
      <4> QED BY <2>0, <3>1, <4>3, <4>5
    <3> QED BY <2>7, <3>2, <3>3, <3>4 DEF ReadStep, ReadTransfers, ReadFails, storeVars
  <2> QED BY <1>5, <2>1, <2>2, <2>3, <2>4, <2>5, <2>6, <2>7 DEF Resumes, SubmitStep
<1>6. CASE DismissJob
  <2>1. PICK j \in JobIds : Dismiss(j)
    BY <1>6 DEF DismissJob
  <2> DEFINE r == [jobs[j] EXCEPT !.status = "DISMISSED"]
  <2>2. jobs[j] \in PipelineJob /\ jobs[j].status \in {"FAILED", "NEEDS_ATTENTION"}
    BY <2>1 DEF Dismiss, AttentionStatus, TypeInv, RowsOK
  <2>3. RowKept(jobs[j], r) /\ r.status = "DISMISSED"
    BY <2>2 DEF RowKept, PipelineJob, Help
  <2>4. jobs' = [jobs EXCEPT ![j] = r] /\ UNCHANGED tasks /\ DiskStays
    BY <2>1 DEF Dismiss, downloaderVars, workerVars, DiskStays
  <2> HIDE DEF r
  <2>5. \A i \in JobIds : jobs'[i] = IF i = j THEN r ELSE jobs[i]
    BY <2>4 DEF TypeInv, RowsOK
  <2>6. Stay
    BY <2>3, <2>4, <2>5, OneRow, RowsStayKept DEF PipelineStatus
  <2> QED BY <2>4, <2>6 DEF SubmitsStay
<1>7. ASSUME Tick
      PROVE  \/ Apart
             \/ /\ Stay /\ SubmitsStay /\ UNCHANGED library
                /\ \E j \in JobIds : ResumeTransfer(j)
             \/ /\ SubmitsStay /\ DiskStays
                /\ \E t \in Slots, h \in Hashes : Enter(t, h, jobs) /\ Begun(h)
  <2>0. ASSUME UNCHANGED <<tasks, jobs, library>> PROVE Stay /\ SubmitsStay
    BY <1>1, <2>0 DEF SubmitsStay
  <2>1. CASE PollAsk \/ PollSkip \/ PollList \/ PollEnd
    BY <2>0, <2>1 DEF PollAsk, PollSkip, PollList, PollEnd, downloaderVars, workerVars,
                      storeVars, DiskStays
  <2>2. ASSUME NEW j \in JobIds, PollFlag(j) \/ PollAdvance(j) PROVE Apart
    <3>1. PICK status \in {"NEEDS_ATTENTION", "DOWNLOADING"} :
            jobs' = [jobs EXCEPT ![j] = [jobs[j] EXCEPT !.status = status]]
      BY <2>2 DEF PollFlag, PollAdvance, AdvanceToDownloading
    <3>2. \A i \in JobIds : jobs'[i].status = IF i = j THEN status ELSE jobs[i].status
      BY <3>1 DEF TypeInv, RowsOK, PipelineJob
    <3>3. RowsKept
      BY <1>7, SweepKept DEF Tick
    <3>4. UNCHANGED tasks /\ DiskStays
      BY <2>2 DEF PollFlag, PollAdvance, workerVars, downloaderVars, DiskStays
    <3>5. Stay
      BY <3>2, <3>3, <3>4, RowsStayKept DEF PipelineStatus
    <3> QED BY <3>4, <3>5 DEF SubmitsStay
  <2>3. ASSUME NEW j \in JobIds, CountResume(j) PROVE Apart
    <3> DEFINE r == [jobs[j] EXCEPT !.remediations = poll.todo[j].remediations + 1]
    <3>1. jobs' = [jobs EXCEPT ![j] = r] /\ UNCHANGED tasks /\ DiskStays
      BY <2>3 DEF CountResume, workerVars, downloaderVars, DiskStays
    <3>2. \A i \in JobIds : jobs'[i].status = jobs[i].status
      BY <3>1 DEF TypeInv, RowsOK, PipelineJob
    <3> HIDE DEF r
    <3>3. RowsKept
      BY <1>7, SweepKept DEF Tick
    <3> QED BY <3>1, <3>2, <3>3, RowsStayKept DEF SubmitsStay
  <2>4. ASSUME NEW j \in JobIds, PollProcess(j)
        PROVE  /\ SubmitsStay /\ DiskStays
               /\ \E t \in Slots, h \in Hashes : Enter(t, h, jobs) /\ Begun(h)
    <3> DEFINE h == poll.todo[j].hash
    <3>1. h \in Hashes /\ Begun(h)
      BY <2>4 DEF PollProcess, At, TypeInv, PollOK, VerdictShape, Begun, VerdictBegun
    <3>2. Poller \in Slots /\ Enter(Poller, h, jobs) /\ DiskStays
      BY <2>4 DEF PollProcess, Slots, downloaderVars, DiskStays
    <3>3. PICK k : k.pc # "download" /\ tasks' = [tasks EXCEPT ![Poller] = k]
      <4>1. \A i, step : RunAt(jobs, i, step).pc = step
        BY DEF RunAt, Idle
      <4> QED BY <1>0, <3>2, <4>1 DEF Enter, PipelineStatus
    <3>4. SubmitsStay
      BY <3>3 DEF TypeInv, TasksOK, SubmitsStay
    <3> QED BY <3>1, <3>2, <3>4
  <2>5. ASSUME NEW j \in JobIds, PollResume(j) \/ ResumeTransfer(j) \/ ResumeFails(j)
        PROVE  \/ Apart
               \/ Stay /\ SubmitsStay /\ UNCHANGED library /\ ResumeTransfer(j)
    BY <2>0, <2>5 DEF PollResume, ResumeTransfer, ResumeFails, downloaderVars, workerVars,
                      storeVars, DiskStays
  <2> QED BY <1>7, <2>1, <2>2, <2>3, <2>4, <2>5 DEF Tick, PollStep, ApplyRule
<1>8. CASE Restart
  <2>1. \A j \in JobIds : jobs'[j] = jobs[j]
    <3>1. \A j \in JobIds : jobs[j].status # "DELETED"
      BY DEF Plain, RowPlain
    <3> QED BY <1>8, <3>1 DEF Restart, ReleaseDeletedHashes
  <2>2. DiskStays /\ \A s \in Slots : tasks'[s] = Idle
    BY <1>8 DEF Restart, downloaderVars, DiskStays
  <2> QED BY <1>0, <2>1, <2>2 DEF RowsStay, TasksStay, SubmitsStay
<1>9. CASE UNCHANGED vars
  <2>1. UNCHANGED <<jobs, tasks>> /\ DiskStays
    BY <1>9 DEF vars, downloaderVars, storeVars, workerVars, DiskStays
  <2> QED BY <1>1, <2>1 DEF SubmitsStay
<1> QED BY <1>2, <1>3, <1>4, <1>5, <1>6, <1>7, <1>8, <1>9 DEF Next

-----------------------------------------------------------------------------
(* A torrent that was begun was fetched to its end, and is not fetched      *)
(* again: its files wait to be placed, or are placed.                       *)

Asked(h) == \E j \in JobIds : Exists(j) /\ ~jobs[j].orphan /\ jobs[j].payload = h
Pending(h) == \E t \in Slots : tasks[t].pc = "download" /\ tasks[t].pick = h
Unborn(h) == qbt[h] = "absent" /\ staged[h] = "none" /\ h \notin hooks

Full(h) == [media |-> MediaOf[h], torrent |-> h, content |-> "full"]
HasFile(h) == staged[h] = "full" \/ Full(h) \in library
Watched == "removed_by_hand" \notin Allowed

Ready(h) ==
  /\ qbt[h] \in {"complete", "absent"} /\ staged[h] # "partial"
  /\ Asked(h) /\ ~Pending(h)
  /\ Watched => HasFile(h)

LibraryFull == \A f \in library : f.content = "full" /\ f.media = MediaOf[f.torrent]

Fetched ==
  /\ \A h \in Hashes : Begun(h) => Ready(h)
  /\ \A h \in Hashes : qbt[h] # "absent" \/ staged[h] # "none" => Asked(h)
  /\ \A t \in Slots : tasks[t].pc = "download" => Unborn(tasks[t].pick)
  /\ LibraryFull

\* A row that was added stays, about what it was about.
LEMMA RowsLast ==
  ASSUME TypeInv, Plain, LeftAlone, [Next]_vars, NEW j \in JobIds, Exists(j)
  PROVE  /\ Exists(j)' /\ jobs'[j].payload = jobs[j].payload
         /\ jobs'[j].orphan = jobs[j].orphan /\ jobs'[j].media = jobs[j].media
<1> DEFINE Last == /\ jobs'[j].status # "NONE" /\ jobs'[j].payload = jobs[j].payload
                   /\ jobs'[j].orphan = jobs[j].orphan /\ jobs'[j].media = jobs[j].media
<1> SUFFICES Last
  BY DEF Exists
<1>1. ASSUME NEW i \in JobIds \ {j}, NEW r, jobs' = [jobs EXCEPT ![i] = r] PROVE Last
  BY <1>1 DEF TypeInv, RowsOK, Exists
<1>2. CASE RowsKept
  BY <1>2 DEF RowsKept, RowKept, Exists
<1>3. CASE \E t \in Tasks, h \in Hashes : Submit(t, h, FALSE) \/ Submit(t, h, TRUE)
  BY <1>1, <1>3 DEF Submit, Create, NextSeq
<1>4. CASE \E h \in Hashes, i \in JobIds : CreatesOrphan(i, h)
  BY <1>1, <1>4 DEF CreatesOrphan, NextSeq
<1>5. CASE \E t \in Slots : Answer(t)
  <2>1. jobs[j] \in PipelineJob
    BY DEF TypeInv, RowsOK
  <2>2. ASSUME NEW i, NEW x,
               \/ jobs' = [jobs EXCEPT ![i].status = "FAILED"]
               \/ jobs' = [jobs EXCEPT ![i].hash = x]
        PROVE  Last
    BY <2>1, <2>2 DEF TypeInv, RowsOK, PipelineJob, Exists
  <2> QED BY <1>5, <2>2 DEF Answer, Stamped, Exists
<1> QED BY <1>2, <1>3, <1>4, <1>5, StepRows

LEMMA AskedLasts ==
  ASSUME TypeInv, Plain, LeftAlone, [Next]_vars
  PROVE  /\ \A h \in Hashes : Asked(h) => Asked(h)'
         /\ SubmittedOnce' => SubmittedOnce
BY RowsLast DEF Asked, SubmittedOnce, Exists

\* A download is asked for: for the first time.
LEMMA DownloadIsNew ==
  ASSUME TypeInv, Plain, LeftAlone, [Next]_vars, SubmittedOnce', NEW t \in Tasks,
         NEW h \in Hashes, Downloads(t, h)
  PROVE  /\ tasks'[t].pick = h /\ \A s \in Slots \ {t} : tasks'[s] = tasks[s]
         /\ ~Asked(h)
<1>1. PICK j \in JobIds, follow \in BOOLEAN :
             /\ Create(j, MediaOf[h], FALSE, h, NoJob)
             /\ tasks' = [tasks EXCEPT ![t] = SubmitAt(j, h, follow)]
  BY DEF Downloads, Submit
<1> DEFINE r == Row(MediaOf[h], FALSE, NoHash, h, NoJob)
<1>2. ~Exists(j) /\ jobs' = [jobs EXCEPT ![j] = r]
  BY <1>1 DEF Create, NextSeq
<1>3. r.status = "DOWNLOAD_SUBMITTED" /\ ~r.orphan /\ r.payload = h
  BY DEF Row, NoRow
<1> HIDE DEF r
<1>4. jobs'[j] = r
  BY <1>2 DEF TypeInv, RowsOK
<1>5. ASSUME NEW i \in JobIds, Exists(i), ~jobs[i].orphan, jobs[i].payload = h PROVE FALSE
  <2>1. i # j /\ Exists(i)' /\ ~jobs'[i].orphan /\ jobs'[i].payload = h
    BY <1>2, <1>5, RowsLast
  <2> QED BY <1>3, <1>4, <2>1 DEF SubmittedOnce, Exists
<1>6. SubmitAt(j, h, follow).pick = h
  BY DEF SubmitAt, Idle
<1> QED BY <1>1, <1>5, <1>6 DEF Asked, TypeInv, TasksOK, Slots

\* A complete download is moved: nothing leaves the library for it.
LEMMA MoveKeeps ==
  ASSUME TypeInv, LeftAlone, LibraryFull, NEW h \in Hashes, NEW m,
         Folder(m, h) # "none", staged[h] # "partial", library' = MovedTo(m, h)
  PROVE  library \subseteq library' /\ LibraryFull' /\ Full(h) \in library'
<1>1. m = MediaOf[h] /\ staged[h] = "full"
  BY DEF Folder, TypeInv, OtherOK, DownloaderTypeOK, Content
<1>2. [media |-> m, torrent |-> h, content |-> staged[h]] = Full(h)
  BY <1>1 DEF Full
<1>3. library' = (library \ SameFiles(m, h)) \cup {Full(h)}
  BY <1>2 DEF MovedTo
<1>4. ASSUME NEW f \in SameFiles(m, h) PROVE f = Full(h)
  <2>1. /\ f \in LibraryFile /\ f.media = m /\ (m = "MOVIE" \/ f.torrent = h)
        /\ f.content = "full" /\ f.media = MediaOf[f.torrent]
    BY DEF SameFiles, LibraryFull, TypeInv, OtherOK
  <2>2. f.torrent = h
    BY <1>1, <2>1 DEF LeftAlone, LibraryFile
  <2> QED BY <1>1, <2>1, <2>2 DEF LibraryFile, Full
<1>5. library \subseteq library'
  BY <1>3, <1>4
<1>6. LibraryFull'
  BY <1>3 DEF LibraryFull, Full
<1> QED BY <1>3, <1>5, <1>6

\* What a step may do to the transfer and the files of torrent h.
DiskKept(h) ==
  /\ qbt[h] = "absent" /\ qbt'[h] # "absent" =>
       \E t \in Slots : Forward(t) /\ tasks[t].pick = h
  /\ staged[h] = "none" /\ staged'[h] # "none" => qbt[h] # "absent"
  /\ Unborn(h) /\ qbt'[h] = "absent" => Unborn(h)'
  /\ Begun(h) =>
       /\ qbt'[h] \in {qbt[h], "absent"} /\ staged'[h] \in {staged[h], "none"}
       /\ HasFile(h) /\ (Watched \/ qbt[h] = "absent") => HasFile(h)'

LEMMA DiskStep ==
  ASSUME TypeInv, Plain, LeftAlone, Fetched, [Next]_vars
  PROVE  /\ library \subseteq library' /\ LibraryFull'
         /\ \A h \in Hashes : DiskKept(h)
<1> DEFINE Goal == /\ library \subseteq library' /\ LibraryFull'
                   /\ \A h \in Hashes : DiskKept(h)
<1>0. qbt \in [Hashes -> TransferState] /\ staged \in [Hashes -> Content]
  BY DEF TypeInv, OtherOK, DownloaderTypeOK
<1>1. ASSUME UNCHANGED library PROVE LibraryFull'
  BY <1>1 DEF LibraryFull, Fetched
<1>2. CASE DiskStays
  BY <1>1, <1>2 DEF DiskStays, DiskKept, HasFile, Unborn
<1>3. ASSUME NEW g \in Hashes, Transfers(g), UNCHANGED library PROVE Goal
  <2>1. ASSUME NEW h \in Hashes PROVE DiskKept(h)
    <3>1. \/ TransferStarts(g) \/ TransferErrors(g) \/ TransferCompletes(g) \/ HookLost(g)
          \/ ~Watched /\ RemovedByHand(g)
      BY <1>3 DEF Transfers, Watched, LeftAlone
    <3>2. CASE h # g
      <4>1. qbt'[h] = qbt[h] /\ staged'[h] = staged[h] /\ (h \in hooks' => h \in hooks)
        BY <1>0, <3>1, <3>2 DEF TransferStarts, TransferErrors, TransferCompletes, HookLost,
           RemovedByHand, Remove
      <4> QED BY <1>3, <4>1 DEF DiskKept, HasFile, Unborn
    <3>3. CASE h = g
      <4>1. CASE TransferStarts(g) \/ TransferErrors(g) \/ TransferCompletes(g)
        <5>1. qbt[h] \in {"queued", "downloading"}
          BY <3>3, <4>1 DEF TransferStarts, TransferErrors, TransferCompletes
        <5>2. ~Begun(h)
          BY <5>1 DEF Fetched, Ready
        <5> QED BY <5>1, <5>2 DEF DiskKept, Unborn
      <4>2. CASE HookLost(g)
        BY <1>3, <4>2 DEF HookLost, DiskKept, HasFile, Unborn
      <4>3. CASE ~Watched /\ RemovedByHand(g)
        <5>1. /\ qbt[h] # "absent" /\ qbt'[h] = "absent" /\ staged'[h] \in {staged[h], "none"}
              /\ ~Watched
          BY <1>0, <3>3, <4>3 DEF RemovedByHand, Remove
        <5> QED BY <5>1 DEF DiskKept, Unborn
      <4> QED BY <3>1, <4>1, <4>2, <4>3
    <3> QED BY <3>2, <3>3
  <2> QED BY <1>1, <1>3, <2>1
<1>4. ASSUME NEW t \in Slots, Forward(t) PROVE Goal
  <2> DEFINE g == tasks[t].pick
  <2>1. /\ qbt' = [qbt EXCEPT ![g] = IF @ = "absent" THEN "queued" ELSE @]
        /\ UNCHANGED <<staged, hooks, library>> /\ tasks[t].pc = "download"
    BY <1>4 DEF Forward, Add
  <2>2. ASSUME NEW h \in Hashes PROVE DiskKept(h)
    <3>1. CASE h = g
      <4>1. ~Begun(h)
        BY <2>1, <3>1 DEF Fetched, Ready, Pending
      <4> QED BY <1>4, <2>1, <3>1, <4>1 DEF DiskKept, Unborn
    <3>2. CASE h # g
      <4>1. qbt'[h] = qbt[h]
        BY <1>0, <2>1, <3>2
      <4> QED BY <2>1, <4>1 DEF DiskKept, Unborn, HasFile
    <3> QED BY <3>1, <3>2
  <2> QED BY <1>1, <2>1, <2>2
<1>5. ASSUME NEW j \in JobIds, ResumeTransfer(j) PROVE Goal
  <2> DEFINE g == poll.todo[j].hash
  <2>1. /\ qbt' = [qbt EXCEPT ![g] = IF @ = "error" THEN "downloading" ELSE @]
        /\ UNCHANGED <<staged, hooks, library>>
    BY <1>5 DEF ResumeTransfer, Resume, workerVars
  <2>2. ASSUME NEW h \in Hashes PROVE DiskKept(h)
    <3>1. \/ qbt'[h] = qbt[h]
          \/ qbt[h] = "error" /\ qbt'[h] = "downloading"
      BY <1>0, <2>1
    <3>2. Begun(h) => qbt[h] # "error"
      BY DEF Fetched, Ready
    <3> QED BY <2>1, <3>1, <3>2 DEF DiskKept, Unborn, HasFile
  <2> QED BY <1>1, <2>1, <2>2
<1>6. ASSUME NEW t \in Slots, RunStep(t), UNCHANGED hooks PROVE Goal
  <2> DEFINE g == tasks[t].torrent  m == jobs[tasks[t].job].media
  <2>1. tasks[t].pc \in RunPc
    BY <1>6 DEF RunStep, RemoveTransfer, CommitStopped, ResolveMeta, ListFiles, Place,
       PlaceNothing, CommitPlaced, Scan, StepFails, PlaceLocked, RunPc, PipelineStatus
  <2>2. g \in Hashes /\ tasks[t].payload = g
    BY <2>1, RunRow
  <2>3. CASE RemoveTransfer(t)
    <3>1. /\ qbt' = [qbt EXCEPT ![g] = "absent"] /\ UNCHANGED <<staged, hooks, library>>
      BY <2>3 DEF RemoveTransfer, Remove
    <3>2. \A h \in Hashes : qbt'[h] \in {qbt[h], "absent"}
      BY <1>0, <3>1
    <3>3. \A h \in Hashes : DiskKept(h)
      BY <3>1, <3>2 DEF DiskKept, Unborn, HasFile
    <3> QED BY <1>1, <3>1, <3>3
  <2>4. CASE Place(t) \/ PlaceLocked(t)
    <3>1. /\ Folder(m, g) # "none" /\ library' = MovedTo(m, g) /\ qbt' = qbt
          /\ staged' = staged \/ staged' = [staged EXCEPT ![g] = "none"]
      BY <2>2, <2>4 DEF Place, PlaceLocked, downloaderVars
    <3>2. staged[g] # "partial"
      BY <2>1, <2>2 DEF Fetched, Begun, Runs, Ready
    <3>3. library \subseteq library' /\ LibraryFull' /\ Full(g) \in library'
      BY <2>2, <3>1, <3>2, MoveKeeps DEF Fetched
    <3>4. ASSUME NEW h \in Hashes PROVE DiskKept(h)
      <4>1. staged'[h] = staged[h] \/ (h = g /\ staged'[h] = "none")
        BY <1>0, <3>1
      <4>2. HasFile(h) => HasFile(h)'
        BY <3>3, <4>1 DEF HasFile, Full
      <4> QED BY <1>6, <3>1, <4>1, <4>2 DEF DiskKept, Unborn
    <3> QED BY <3>3, <3>4
  <2>5. CASE CommitStopped(t) \/ ResolveMeta(t) \/ ListFiles(t) \/ PlaceNothing(t)
             \/ CommitPlaced(t) \/ Scan(t) \/ StepFails(t)
    <3>1. DiskStays
      BY <2>5 DEF CommitStopped, ResolveMeta, ListFiles, PlaceNothing, CommitPlaced, Scan,
                  StepFails, downloaderVars, DiskStays
    <3> QED BY <1>2, <3>1
  <2> QED BY <1>6, <2>3, <2>4, <2>5 DEF RunStep
<1> QED BY <1>2, <1>3, <1>4, <1>5, <1>6, StepKinds

\* The invariant of fetching is kept as long as nobody asks for a torrent again.
LEMMA NextFetched ==
  ASSUME TypeInv, Plain, LeftAlone, Fetched, [Next]_vars, SubmittedOnce'
  PROVE  Fetched'
<1>0. /\ LibraryFull' /\ \A h \in Hashes : DiskKept(h)
      /\ \A h \in Hashes : Asked(h) => Asked(h)'
      /\ SubmittedOnce
  BY DiskStep, AskedLasts
<1>1. \/ SubmitsStay
      \/ DiskStays /\ \E t \in Tasks, h \in Hashes : Downloads(t, h)
  BY StepKinds
<1>2. \A t \in Slots : tasks[t].pc \in SubmitPc =>
        /\ tasks[t].pick \in Hashes
        /\ tasks[t].job \in JobIds /\ Exists(tasks[t].job)
        /\ ~jobs[tasks[t].job].orphan /\ jobs[tasks[t].job].payload = tasks[t].pick
  BY TaskRow DEF Plain, TaskPlain, Waits, Exists, TypeInv, TasksOK, TaskShape
\* Nobody is about to ask for a torrent that was asked for and is not pending.
<1>3. ASSUME NEW h \in Hashes, Asked(h), ~Pending(h) PROVE ~Pending(h)'
  <2>1. CASE SubmitsStay
    BY <1>3, <2>1 DEF Pending, SubmitsStay
  <2>2. ASSUME NEW t \in Tasks, NEW g \in Hashes, Downloads(t, g) PROVE ~Pending(h)'
    BY <1>3, <2>2, DownloadIsNew DEF Pending
  <2> QED BY <1>1, <2>1, <2>2
<1>4. ASSUME NEW h \in Hashes, Begun(h)' PROVE Ready(h)'
  <2>1. CASE Begun(h)
    <3>1. Ready(h)
      BY <2>1 DEF Fetched
    <3>2. Asked(h)' /\ ~Pending(h)'
      BY <1>0, <1>3, <3>1 DEF Ready
    <3>3. /\ qbt'[h] \in {"complete", "absent"} /\ staged'[h] # "partial"
          /\ Watched => HasFile(h)'
      BY <1>0, <2>1, <3>1 DEF Ready, DiskKept
    <3> QED BY <3>2, <3>3 DEF Ready, Watched
  <2>2. CASE TransferCompletes(h)
    <3>1. qbt[h] = "downloading" /\ qbt'[h] = "complete" /\ staged'[h] = "full"
      BY <2>2 DEF TransferCompletes, TypeInv, OtherOK, DownloaderTypeOK
    <3>2. Asked(h) /\ ~Pending(h)
      BY <3>1 DEF Fetched, Pending, Unborn
    <3>3. Asked(h)' /\ ~Pending(h)'
      BY <1>0, <1>3, <3>2
    <3> QED BY <3>1, <3>3 DEF Ready, HasFile
  <2> QED BY <1>4, <2>1, <2>2, NextPlain
<1>5. ASSUME NEW h \in Hashes, qbt'[h] # "absent" \/ staged'[h] # "none" PROVE Asked(h)'
  <2>1. CASE qbt[h] # "absent" \/ staged[h] # "none"
    BY <1>0, <2>1 DEF Fetched
  <2>2. CASE qbt[h] = "absent" /\ staged[h] = "none"
    <3>1. PICK t \in Slots : Forward(t) /\ tasks[t].pick = h
      BY <1>0, <1>5, <2>2 DEF DiskKept
    <3>2. Asked(h)
      BY <1>2, <3>1 DEF Forward, SubmitPc, Asked
    <3> QED BY <1>0, <3>2
  <2> QED BY <2>1, <2>2
<1>6. ASSUME NEW s \in Slots, tasks'[s].pc = "download" PROVE Unborn(tasks[s].pick)'
  <2>1. CASE tasks'[s] = tasks[s]
    <3> DEFINE g == tasks[s].pick
    <3>1. g \in Hashes /\ Unborn(g)
      BY <1>2, <1>6, <2>1 DEF Fetched, SubmitPc
    <3>2. ASSUME NEW t \in Slots, Forward(t), tasks[t].pick = g PROVE FALSE
      <4>1. tasks[t].pc = "download" /\ tasks[s].pc = "download"
        BY <1>6, <2>1, <3>2 DEF Forward
      <4>2. t # s
        <5>1. PICK known \in BOOLEAN : tasks' =
                [tasks EXCEPT ![t] = [tasks[t] EXCEPT !.pc = "downloaded", !.saw = known]]
          BY <3>2 DEF Forward
        <5>2. tasks'[t].pc = "downloaded"
          BY <5>1 DEF TypeInv, TasksOK, TaskShape, Task
        <5> QED BY <1>6, <5>2
      <4>3. tasks[s].job # tasks[t].job
        BY <4>1, <4>2 DEF Plain, SubmitsApart, SubmitPc
      <4> QED BY <1>0, <1>2, <3>2, <4>1, <4>3 DEF SubmittedOnce, SubmitPc
    <3>3. qbt'[g] = "absent"
      BY <1>0, <3>1, <3>2 DEF DiskKept, Unborn
    <3> QED BY <1>0, <2>1, <3>1, <3>3 DEF DiskKept, Unborn
  <2>2. ASSUME NEW t \in Tasks, NEW h \in Hashes, Downloads(t, h), DiskStays, s = t
        PROVE  Unborn(tasks[s].pick)'
    <3>1. tasks'[s].pick = h /\ ~Asked(h)
      BY <2>2, DownloadIsNew
    <3>2. qbt[h] = "absent" /\ staged[h] = "none" /\ h \notin hooks
      BY <3>1 DEF Fetched, Ready, Begun
    <3> QED BY <2>2, <3>1, <3>2 DEF DiskStays, Unborn
  <2>3. ASSUME NEW t \in Tasks, NEW h \in Hashes, Downloads(t, h), s # t
        PROVE  tasks'[s] = tasks[s]
    BY <2>3, DownloadIsNew
  <2> QED BY <1>1, <1>6, <2>1, <2>2, <2>3 DEF SubmitsStay
<1> QED BY <1>0, <1>4, <1>5, <1>6 DEF Fetched

-----------------------------------------------------------------------------
(* Where the files of a torrent are at each step of its run.                *)

Stored(media, h) == [media |-> media, torrent |-> h, content |-> "full"] \in library

RowStored(j) ==
  /\ jobs[j].status \in {"SCAN", "DONE"} => Stored(jobs[j].media, jobs[j].payload)
  /\ jobs[j].status \in {"RESOLVE_META", "RENAME"} => qbt[jobs[j].payload] = "absent"

RunStored(t) ==
  /\ tasks[t].pc \in {"STOPPED", "RESOLVE_META", "RENAME", "LISTED"} =>
       qbt[tasks[t].torrent] = "absent"
  /\ tasks[t].pc = "LISTED" /\ tasks[t].saw =>
       jobs[tasks[t].job].media = MediaOf[tasks[t].torrent] /\ HasFile(tasks[t].torrent)
  /\ tasks[t].pc \in {"PLACED", "SCAN"} =>
       Stored(jobs[tasks[t].job].media, tasks[t].torrent)

Brought == (\A j \in JobIds : RowStored(j)) /\ (\A t \in Slots : RunStored(t))

LEMMA RowStaysStored ==
  ASSUME TypeInv, Plain, LeftAlone, Fetched, [Next]_vars, NEW j \in JobIds, RowStored(j),
         jobs'[j].status = jobs[j].status, jobs'[j].payload = jobs[j].payload,
         jobs'[j].media = jobs[j].media
  PROVE  RowStored(j)'
<1>1. library \subseteq library' /\ \A h \in Hashes : DiskKept(h)
  BY DiskStep
<1>2. CASE jobs[j].status \in {"RESOLVE_META", "RENAME"}
  <2> DEFINE h == jobs[j].payload
  <2>1. jobs[j].hash = h /\ h \in Hashes
    BY <1>2 DEF Plain, RowPlain, Help, TypeInv, RowsOK, PipelineJob
  <2>2. Begun(h)
    BY <1>2, <2>1 DEF Begun, RowBegun, PipelineStatus
  <2>3. qbt'[h] = "absent"
    BY <1>1, <1>2, <2>1, <2>2 DEF DiskKept, RowStored
  <2> QED BY <1>2, <2>3 DEF RowStored
<1>3. CASE jobs[j].status \notin {"RESOLVE_META", "RENAME"}
  BY <1>1, <1>3 DEF RowStored, Stored
<1> QED BY <1>2, <1>3

LEMMA RunStaysStored ==
  ASSUME TypeInv, Plain, LeftAlone, Fetched, [Next]_vars, NEW s \in Slots,
         tasks[s].pc \in RunPc, RunStored(s), tasks'[s] = tasks[s],
         jobs'[tasks[s].job].media = jobs[tasks[s].job].media
  PROVE  RunStored(s)'
<1> DEFINE h == tasks[s].torrent
<1>1. library \subseteq library' /\ h \in Hashes /\ Begun(h) /\ DiskKept(h)
  BY DiskStep, RunRow DEF Begun, Runs
<1>2. qbt[h] = "absent" => /\ qbt'[h] = "absent"
                           /\ HasFile(h) => HasFile(h)'
  BY <1>1 DEF DiskKept
<1>3. HasFile(h)' = (staged'[h] = "full" \/ Full(h) \in library')
  BY DEF HasFile, Full
<1> QED BY <1>1, <1>2 DEF RunStored, Stored, HasFile, Full

LEMMA EnterStored ==
  ASSUME TypeInv, Plain, LeftAlone, Fetched, [Next]_vars, Brought, DiskStays,
         NEW t \in Slots, NEW h \in Hashes, Enter(t, h, jobs)
  PROVE  Brought'
<1>0. /\ RowsKept
      /\ \A j, step : LET k == RunAt(jobs, j, step) IN
           k.pc = step /\ k.job = j /\ k.torrent = jobs[j].hash
  BY EnterKept DEF RunAt, Idle
<1>1. ASSUME NEW s \in Slots \ {t}, tasks'[s] = tasks[s] PROVE RunStored(s)'
  <2>1. CASE tasks[s].pc \in RunPc
    <3>1. jobs'[tasks[s].job].media = jobs[tasks[s].job].media
      BY <1>0, <2>1, RunRow DEF RowsKept, RowKept
    <3> QED BY <1>1, <2>1, <3>1, RunStaysStored DEF Brought
  <2> QED BY <1>1, <2>1 DEF RunStored, RunPc, PipelineStatus
<1>2. ASSUME NEW k, tasks' = [tasks EXCEPT ![t] = k]
      PROVE  tasks'[t] = k /\ \A s \in Slots \ {t} : RunStored(s)'
  BY <1>1, <1>2 DEF TypeInv, TasksOK
<1>3. ASSUME tasks' = [tasks EXCEPT ![t] = Idle] PROVE \A s \in Slots : RunStored(s)'
  <2>1. tasks'[t] = Idle
    BY <1>2, <1>3
  <2>2. RunStored(t)'
    BY <2>1 DEF RunStored, Idle
  <2> QED BY <1>2, <1>3, <2>2
<1>4. ASSUME NEW j \in JobIds, jobs'[j].status = jobs[j].status PROVE RowStored(j)'
  BY <1>0, <1>4, RowStaysStored DEF RowsKept, RowKept, Brought
<1>5. ASSUME NEW j \in JobIds, jobs'[j].status \in {"STOP_SEEDING", "FAILED"}
      PROVE  RowStored(j)'
  BY <1>5 DEF RowStored
<1>6. ASSUME NEW j \in JobIds, NEW status \in {"STOP_SEEDING", "FAILED"}, NEW n,
             \/ jobs' = [jobs EXCEPT ![j].status = status]
             \/ jobs' = [jobs EXCEPT ![j].status = status, ![j].attempts = n]
      PROVE  \A i \in JobIds : RowStored(i)'
  <2>1. jobs'[j].status = status /\ \A i \in JobIds \ {j} : jobs'[i] = jobs[i]
    BY <1>6 DEF TypeInv, RowsOK, PipelineJob
  <2> QED BY <1>4, <1>5, <2>1
<1>7. CASE jobs' = jobs /\ tasks' = [tasks EXCEPT ![t] = Idle]
  BY <1>3, <1>4, <1>7 DEF Brought
<1>8. ASSUME NEW j \in JobIds, jobs[j].status \in Reentry,
             jobs' = [jobs EXCEPT ![j].status = "STOP_SEEDING"],
             tasks' = [tasks EXCEPT ![t] = RunAt(jobs, j, "STOP_SEEDING")]
      PROVE  Brought'
  <2>1. tasks'[t].pc = "STOP_SEEDING"
    BY <1>0, <1>2, <1>8
  <2>2. RunStored(t)'
    BY <2>1 DEF RunStored
  <2> QED BY <1>2, <1>6, <1>8, <2>2 DEF Brought
<1>9. ASSUME NEW j \in JobIds, jobs[j].hash = h, jobs[j].status \in PipelineStatus,
             jobs' = jobs, tasks' = [tasks EXCEPT ![t] = RunAt(jobs, j, jobs[j].status)]
      PROVE  Brought'
  <2>1. /\ tasks'[t].pc = jobs[j].status /\ tasks'[t].torrent = h /\ tasks'[t].job = j
    <3> DEFINE k == RunAt(jobs, j, jobs[j].status)
    <3>1. k.pc = jobs[j].status /\ k.torrent = h /\ k.job = j
      BY <1>0, <1>9
    <3>2. tasks' = [tasks EXCEPT ![t] = k]
      BY <1>9
    <3> HIDE DEF k
    <3> QED BY <1>2, <3>1, <3>2
  <2>2. jobs[j].payload = h
    BY <1>9 DEF Plain, RowPlain, PipelineStatus
  <2>3. RowStored(j)' /\ jobs'[j] = jobs[j]
    BY <1>4, <1>9
  <2>4. tasks'[t].pc \notin {"STOPPED", "LISTED", "PLACED"}
    BY <1>9, <2>1 DEF PipelineStatus
  <2>5. RunStored(t)'
    BY <2>1, <2>2, <2>3, <2>4 DEF RunStored, RowStored
  <2> QED BY <1>2, <1>4, <1>9, <2>5 DEF Brought
<1>10. ASSUME NEW j \in JobIds,
              jobs' = [jobs EXCEPT ![j].status = "FAILED", ![j].attempts = Bump(@)],
              tasks' = [tasks EXCEPT ![t] = Idle]
       PROVE  Brought'
  BY <1>3, <1>6, <1>10 DEF Brought
<1> QED BY <1>7, <1>8, <1>9, <1>10 DEF Enter

LEMMA RunStepStored ==
  ASSUME TypeInv, Plain, LeftAlone, Fetched, [Next]_vars, Brought, NEW t \in Slots, RunStep(t)
  PROVE  Brought'
<1>1. tasks[t].pc \in RunPc
  BY DEF RunStep, RemoveTransfer, CommitStopped, ResolveMeta, ListFiles, Place, PlaceNothing,
         CommitPlaced, Scan, StepFails, PlaceLocked, RunPc, PipelineStatus
<1>2. PICK j \in JobIds, h \in Hashes, m \in Media :
           /\ tasks[t] \in Task /\ tasks[t].job = j /\ tasks[t].torrent = h
           /\ jobs[j] \in PipelineJob /\ jobs[j].hash = h /\ jobs[j].payload = h
           /\ jobs[j].media = m
           /\ tasks[t].payload = h /\ RunStored(t)
  <2>1. jobs[tasks[t].job].media \in Media
    BY <1>1, RunRow DEF PipelineJob
  <2> QED BY <1>1, <2>1, RunRow DEF Brought
<1>3. Begun(h) /\ Ready(h)
  BY <1>1, <1>2 DEF Begun, Runs, Fetched
<1>4. RowsKept /\ jobs'[j].payload = h /\ jobs'[j].media = m /\ jobs'[j].hash = h
  BY <1>2, RunKept DEF RowsKept, RowKept
<1>5. \A s \in Slots \ {t} : tasks'[s] = tasks[s]
  BY RunProceeds DEF Proceeds
<1>6. \A i \in JobIds \ {j} : jobs'[i] = jobs[i]
  <2>1. ASSUME NEW r, jobs' = [jobs EXCEPT ![j] = r] PROVE \A i \in JobIds \ {j} : jobs'[i] = jobs[i]
    BY <2>1 DEF TypeInv, RowsOK
  <2> QED BY <1>2, <2>1 DEF RunStep, RemoveTransfer, CommitStopped, ResolveMeta, ListFiles, Place,
             PlaceNothing, CommitPlaced, Scan, StepFails, PlaceLocked, FailJob, Commit, storeVars
<1>7. ASSUME NEW s \in Slots \ {t} PROVE RunStored(s)'
  <2>1. CASE tasks[s].pc \in RunPc
    <3>1. jobs'[tasks[s].job].media = jobs[tasks[s].job].media
      BY <1>4, <2>1, RunRow DEF RowsKept, RowKept
    <3> QED BY <1>5, <2>1, <3>1, RunStaysStored DEF Brought
  <2> QED BY <1>5, <2>1 DEF RunStored, RunPc, PipelineStatus
<1>8. ASSUME NEW i \in JobIds, jobs'[i] = jobs[i] PROVE RowStored(i)'
  BY <1>8, RowStaysStored DEF Brought
<1>9. SUFFICES RowStored(j)' /\ RunStored(t)'
  BY <1>6, <1>7, <1>8 DEF Brought
<1>10. ASSUME NEW step, tasks' = [tasks EXCEPT ![t] = RunAt(jobs', j, step)]
       PROVE  tasks'[t].pc = step /\ tasks'[t].job = j /\ tasks'[t].torrent = h
  BY <1>4, <1>10 DEF RunAt, Idle, TypeInv, TasksOK
<1>11. ASSUME tasks' = [tasks EXCEPT ![t] = Idle] PROVE RunStored(t)'
  <2>1. tasks'[t].pc = "idle"
    BY <1>11 DEF TypeInv, TasksOK, Idle
  <2> QED BY <2>1 DEF RunStored
<1>12. CASE RemoveTransfer(t)
  <2>1. /\ jobs' = jobs /\ tasks'[t].pc = "STOPPED" /\ tasks'[t].torrent = h
        /\ qbt'[h] = "absent"
    BY <1>2, <1>12 DEF RemoveTransfer, Remove, storeVars, TypeInv, TasksOK, TaskShape, Task,
                       OtherOK, DownloaderTypeOK
  <2>2. RunStored(t)'
    BY <2>1 DEF RunStored
  <2> QED BY <1>2, <1>8, <2>1, <2>2
<1>13. CASE CommitStopped(t)
  <2>1. /\ jobs'[j].status = "RESOLVE_META" /\ UNCHANGED qbt /\ qbt[h] = "absent"
        /\ tasks' = [tasks EXCEPT ![t] = RunAt(jobs', j, "RESOLVE_META")]
    BY <1>2, <1>13 DEF CommitStopped, Commit, downloaderVars, TypeInv, RowsOK, PipelineJob,
                       RunStored
  <2> QED BY <1>4, <1>10, <2>1 DEF RowStored, RunStored
<1>14. CASE ResolveMeta(t)
  <2>1. /\ jobs'[j].status = "RENAME" /\ UNCHANGED qbt /\ qbt[h] = "absent"
        /\ tasks' = [tasks EXCEPT ![t] = RunAt(jobs', j, "RENAME")]
    BY <1>2, <1>14 DEF ResolveMeta, Commit, downloaderVars, TypeInv, RowsOK, PipelineJob,
                       RunStored
  <2> QED BY <1>4, <1>10, <2>1 DEF RowStored, RunStored
<1>15. CASE ListFiles(t)
  <2>1. /\ jobs' = jobs /\ UNCHANGED <<qbt, staged>> /\ qbt[h] = "absent"
        /\ tasks'[t].pc = "LISTED" /\ tasks'[t].torrent = h /\ tasks'[t].job = j
        /\ tasks'[t].saw => Folder(m, h) # "none"
    BY <1>2, <1>15 DEF ListFiles, downloaderVars, storeVars, TypeInv, TasksOK, TaskShape, Task,
                       RunStored
  <2>2. Folder(m, h) # "none" => m = MediaOf[h] /\ staged[h] = "full"
    BY <1>2, <1>3 DEF Folder, Ready, TypeInv, OtherOK, DownloaderTypeOK, Content
  <2>3. RunStored(t)'
    BY <1>2, <2>1, <2>2 DEF RunStored, HasFile
  <2> QED BY <1>2, <1>8, <2>1, <2>3
<1>16. ASSUME jobs' = jobs, tasks'[t].pc = "PLACED", tasks'[t].torrent = h, tasks'[t].job = j,
              Stored(m, h)'
       PROVE  RowStored(j)' /\ RunStored(t)'
  BY <1>2, <1>8, <1>16 DEF RunStored, Stored
<1>17. CASE Place(t)
  <2>1. /\ Folder(m, h) # "none" /\ library' = MovedTo(m, h)
        /\ jobs' = jobs /\ tasks'[t].pc = "PLACED" /\ tasks'[t].torrent = h /\ tasks'[t].job = j
    BY <1>2, <1>17 DEF Place, storeVars, TypeInv, TasksOK, TaskShape, Task
  <2>2. Full(h) \in library' /\ m = MediaOf[h]
    BY <1>2, <1>3, <2>1, MoveKeeps DEF Fetched, Ready, Folder
  <2>3. Stored(m, h)'
    BY <2>1, <2>2 DEF Stored, Full
  <2> QED BY <1>16, <2>1, <2>3
<1>18. CASE PlaceNothing(t)
  <2>1. /\ Folder(m, h) = "none" /\ (tasks[t].saw \/ TitleFolderExists(m))
        /\ library' = library /\ tasks[t].pc = "LISTED"
        /\ jobs' = jobs /\ tasks'[t].pc = "PLACED" /\ tasks'[t].torrent = h /\ tasks'[t].job = j
    BY <1>2, <1>18 DEF PlaceNothing, storeVars, TypeInv, TasksOK, TaskShape, Task
  <2>2. m = MediaOf[h] /\ HasFile(h) => Stored(m, h)
    BY <2>1 DEF Folder, HasFile, Full, Stored
  <2>3. ASSUME tasks[t].saw PROVE Stored(m, h)
    BY <1>2, <2>1, <2>2, <2>3 DEF RunStored
  <2>4. ASSUME NEW f \in library, f.media = m PROVE Stored(m, h)
    <3>1. f \in LibraryFile /\ f.content = "full" /\ f.media = MediaOf[f.torrent]
      BY DEF Fetched, LibraryFull, TypeInv, OtherOK
    <3>2. CASE f.torrent = h
      BY <2>4, <3>1, <3>2 DEF LibraryFile, Stored
    <3>3. CASE f.torrent # h
      <4>1. f.torrent \in Hashes
        BY <3>1 DEF LibraryFile
      <4>2. MediaOf[f.torrent] = "SHOW" /\ MediaOf[h] = "SHOW" /\ Watched
        BY <1>2, <3>3, <4>1 DEF LeftAlone, Watched
      <4> QED BY <1>3, <2>2, <2>4, <3>1, <4>2 DEF Ready
    <3> QED BY <3>2, <3>3
  <2>5. Stored(m, h)'
    BY <2>1, <2>3, <2>4 DEF TitleFolderExists, Stored
  <2> QED BY <1>16, <2>1, <2>5
<1>19. CASE CommitPlaced(t)
  <2>1. /\ jobs'[j].status = "SCAN" /\ UNCHANGED library /\ Stored(m, h)
        /\ tasks' = [tasks EXCEPT ![t] = RunAt(jobs', j, "SCAN")]
    BY <1>2, <1>19 DEF CommitPlaced, Commit, TypeInv, RowsOK, PipelineJob, RunStored
  <2> QED BY <1>4, <1>10, <2>1 DEF RowStored, RunStored, Stored
<1>20. CASE Scan(t)
  <2>1. /\ jobs'[j].status = "DONE" /\ UNCHANGED library /\ Stored(m, h)
        /\ tasks' = [tasks EXCEPT ![t] = Idle]
    BY <1>2, <1>20 DEF Scan, TypeInv, RowsOK, PipelineJob, RunStored
  <2> QED BY <1>4, <1>11, <2>1 DEF RowStored, Stored
<1>21. CASE StepFails(t) \/ PlaceLocked(t)
  <2>1. jobs'[j].status = "FAILED" /\ tasks' = [tasks EXCEPT ![t] = Idle]
    BY <1>2, <1>21 DEF StepFails, PlaceLocked, FailJob, TypeInv, RowsOK, PipelineJob
  <2> QED BY <1>11, <2>1 DEF RowStored
<1> QED BY <1>12, <1>13, <1>14, <1>15, <1>17, <1>18, <1>19, <1>20, <1>21 DEF RunStep

LEMMA NextBrought ==
  ASSUME TypeInv, Plain, LeftAlone, Fetched, [Next]_vars, Brought
  PROVE  Brought'
<1>1. CASE RowsStay /\ TasksStay
  <2>1. ASSUME NEW j \in JobIds PROVE RowStored(j)'
    <3>1. CASE jobs'[j].status \in PipelineStatus \cup {"DONE"}
      BY <1>1, <3>1, RowStaysStored DEF RowsStay, Brought
    <3> QED BY <3>1 DEF RowStored, PipelineStatus
  <2>2. ASSUME NEW s \in Slots PROVE RunStored(s)'
    <3>1. CASE tasks'[s].pc \in RunPc
      BY <1>1, <3>1, RunStaysStored DEF TasksStay, Brought
    <3> QED BY <3>1 DEF RunStored, RunPc, PipelineStatus
  <2> QED BY <2>1, <2>2 DEF Brought
<1> QED BY <1>1, StepKinds, EnterStored, RunStepStored

-----------------------------------------------------------------------------
InLibrary == SubmittedOnce => Fetched /\ Brought

LEMMA InitInLibrary == Init => Plain /\ InLibrary
<1> SUFFICES ASSUME Init PROVE Plain /\ InLibrary
  OBVIOUS
<1>1. /\ \A j \in JobIds : jobs[j] = NoRow
      /\ \A t \in Slots : tasks[t] = Idle
      /\ \A j \in JobIds : poll.todo[j] = Pass
      /\ \A h \in Hashes : /\ poll.seen[h] = "absent" /\ qbt[h] = "absent"
                           /\ staged[h] = "none"
      /\ hooks = {} /\ library = {}
  BY DEF Init, StoreInit, WorkerInit, DownloaderInit, PollInit, PollIdle
<1>2. Plain
  <2>1. \A t \in Slots : TaskPlain(jobs, tasks[t]) /\ tasks[t].pc = "idle"
    <3>1. Idle.pc = "idle"
      BY DEF Idle
    <3> QED BY <1>1, <3>1, IdlePlain
  <2>2. \A j \in JobIds : jobs[j].status = "NONE"
    BY <1>1 DEF NoRow
  <2> QED BY <1>1, <2>1, <2>2 DEF Plain, RowPlain, SubmitsApart, SubmitPc, VerdictPlain
<1>3. \A h \in Hashes : ~Begun(h)
  <2>1. \A t \in Slots : \A h \in Hashes : ~Runs(tasks[t], h)
    BY <1>1, IdlePlain
  <2>2. \A j \in JobIds : \A h \in Hashes :
          ~RowBegun(jobs[j], h) /\ ~VerdictBegun(poll.todo[j], h)
    <3>1. NoRow.status = "NONE" /\ Pass.rule = "pass"
      BY DEF NoRow, Pass
    <3> QED BY <1>1, <3>1 DEF RowBegun, VerdictBegun, PipelineStatus
  <2> QED BY <1>1, <2>1, <2>2 DEF Begun
<1>4. Fetched
  BY <1>1, <1>3 DEF Fetched, Idle, LibraryFull
<1>5. Brought
  BY <1>1 DEF Brought, RowStored, RunStored, NoRow, Idle
<1> QED BY <1>2, <1>4, <1>5 DEF InLibrary

LEMMA NextInLibrary ==
  ASSUME TypeInv, Plain, LeftAlone, InLibrary, [Next]_vars
  PROVE  InLibrary'
<1> SUFFICES ASSUME SubmittedOnce' PROVE Fetched' /\ Brought'
  BY DEF InLibrary
<1>1. Fetched /\ Brought
  BY AskedLasts DEF InLibrary
<1> QED BY <1>1, NextFetched, NextBrought

\* A finished job is in the library, whole, in every instance that is left alone: any
\* number of torrents, rows, coroutines and crashes, whichever steps fail and whichever
\* downloads and hooks are lost (services/worker.py: no run is begun but of a complete
\* download, and no step before SCAN passes without its files).
THEOREM FinishedIsInLibrary ==
  ASSUME LeftAlone
  PROVE  Spec => []DoneIsInLibrary
<1> DEFINE I == TypeInv /\ Plain /\ InLibrary
<1>1. Init => I
  BY InitTypeInv, InitInLibrary
<1>2. I /\ [Next]_vars => I'
  <2> SUFFICES ASSUME I, [Next]_vars PROVE I'
    OBVIOUS
  <2>1. TypeInv'
    BY NextTypeInv
  <2>2. Plain'
    BY NextPlain
  <2> QED BY <2>1, <2>2, NextInLibrary
<1>3. I => DoneIsInLibrary
  BY DEF InLibrary, DoneIsInLibrary, Brought, RowStored, Stored
<1> QED BY <1>1, <1>2, <1>3, PTL DEF Spec
=============================================================================
