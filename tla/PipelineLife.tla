---------------------------- MODULE PipelineLife ----------------------------
(***************************************************************************)
(* The pipeline implements JobLifecycle: the proof of JobsLiveOnce.  A row *)
(* that is absent, or closed and held by nobody, is Free; the one thing to *)
(* show of every step is that it leaves a free row free and as it was,     *)
(* unless it creates it.                                                   *)
(***************************************************************************)
EXTENDS PipelineRuns

USE JobStoreAssumption, WorkerAssumption, PipelineAssumption

Dormant(status) == status \in {"NONE", "DONE", "DELETED"}

\* Coroutine k holds row j.
Holds(k, j) ==
  \/ k.job = j /\ k.pc \in RunPc \cup ReadPc \cup SubmitPc
  \/ k.pc \in DeletePc /\ k.repl = j

Free(j) == Dormant(jobs[j].status) /\ ~Held(j)

\* What a step may do to a free row.
Rests(j) == StageOf(jobs'[j].status) = StageOf(jobs[j].status) /\ ~Held(j)'
Appears(j) == jobs[j].status = "NONE" /\ jobs'[j].status = "DOWNLOAD_SUBMITTED"
FreeKept == \A j \in JobIds : Free(j) => Rests(j) \/ Appears(j)

\* The coroutines but t stand still, and the sweep drops rules at most.
OnlyMoves(t) ==
  /\ \A s \in Slots \ {t} : tasks'[s] = tasks[s]
  /\ \A j \in JobIds : poll'.todo[j] \in {Pass, poll.todo[j]}

LEMMA HeldBy ==
  ASSUME NEW j \in JobIds
  PROVE  Held(j) <=> (\E s \in Slots : Holds(tasks[s], j)) \/ poll.todo[j] # Pass
BY DEF Held, InFlight, Holds

LEMMA HeldByNext ==
  ASSUME NEW j \in JobIds
  PROVE  Held(j)' <=> (\E s \in Slots : Holds(tasks'[s], j)) \/ poll'.todo[j] # Pass
BY DEF Held, InFlight, Holds

LEMMA IdleHoldsNothing == \A j : ~Holds(Idle, j)
BY DEF Holds, Idle, RunPc, PipelineStatus, ReadPc, SubmitPc, DeletePc

\* A step of coroutine t keeps free rows free when neither its write nor its new state
\* is about one.
LEMMA StepRests ==
  ASSUME NEW t \in Slots, OnlyMoves(t),
         \A j \in JobIds : Free(j) =>
           Appears(j) \/ (/\ StageOf(jobs'[j].status) = StageOf(jobs[j].status)
                          /\ ~Holds(tasks'[t], j))
  PROVE  FreeKept
<1> SUFFICES ASSUME NEW j \in JobIds, Free(j), ~Appears(j) PROVE Rests(j)
  BY DEF FreeKept
<1>1. \A s \in Slots : ~Holds(tasks[s], j) /\ poll.todo[j] = Pass
  BY HeldBy DEF Free
<1>2. \A s \in Slots : ~Holds(tasks'[s], j)
  BY <1>1 DEF OnlyMoves
<1>3. poll'.todo[j] = Pass
  BY <1>1 DEF OnlyMoves
<1> QED BY <1>2, <1>3, HeldByNext DEF Rests

\* The row of a coroutine is not free, nor is the row a redo will submit for.
LEMMA HeldIsNotFree ==
  ASSUME NEW t \in Slots, NEW j \in JobIds, Free(j)
  PROVE  ~Holds(tasks[t], j)
BY HeldBy DEF Free

LEMMA EnterRests ==
  ASSUME TypeInv, NEW rows, RowsOK(rows), NEW t \in Slots, NEW h, Enter(t, h, rows),
         \A j \in JobIds : rows[j].status = jobs[j].status,
         \A j \in JobIds : poll'.todo[j] \in {Pass, poll.todo[j]}
  PROVE  FreeKept
<1> USE DEF TypeInv, TasksOK
<1>1. OnlyMoves(t)
  BY DEF Enter, OnlyMoves
<1> SUFFICES ASSUME NEW j \in JobIds, Free(j)
             PROVE  /\ StageOf(jobs'[j].status) = StageOf(jobs[j].status)
                    /\ ~Holds(tasks'[t], j)
  BY <1>1, StepRests
<1>2. CASE jobs' = rows /\ tasks' = [tasks EXCEPT ![t] = Idle]
  BY <1>2, IdleHoldsNothing
<1>3. ASSUME NEW i \in JobIds, rows[i].status \in Reentry,
             jobs' = [rows EXCEPT ![i].status = "STOP_SEEDING"],
             tasks' = [tasks EXCEPT ![t] = RunAt(rows, i, "STOP_SEEDING")]
      PROVE  /\ StageOf(jobs'[j].status) = StageOf(jobs[j].status)
             /\ ~Holds(tasks'[t], j)
  <2>1. i # j
    BY <1>3 DEF Free, Dormant, Reentry, AwaitingDownload
  <2>2. jobs'[j] = rows[j]
    BY <1>3, <2>1 DEF RowsOK
  <2>3. tasks'[t].job = i /\ tasks'[t].pc = "STOP_SEEDING"
    BY <1>3 DEF RunAt, Idle
  <2> QED BY <2>1, <2>2, <2>3 DEF Holds, DeletePc
<1>4. ASSUME NEW i \in JobIds, rows[i].status \in PipelineStatus,
             jobs' = rows,
             tasks' = [tasks EXCEPT ![t] = RunAt(rows, i, rows[i].status)]
      PROVE  /\ StageOf(jobs'[j].status) = StageOf(jobs[j].status)
             /\ ~Holds(tasks'[t], j)
  <2>1. i # j
    BY <1>4 DEF Free, Dormant, PipelineStatus
  <2>2. tasks'[t].job = i /\ tasks'[t].pc \in PipelineStatus
    BY <1>4 DEF RunAt, Idle
  <2> QED BY <1>4, <2>1, <2>2 DEF Holds, DeletePc, PipelineStatus
<1>5. ASSUME NEW i \in JobIds, rows[i].status = "DISMISSED",
             jobs' = [rows EXCEPT ![i].status = "FAILED", ![i].attempts = Bump(@)],
             tasks' = [tasks EXCEPT ![t] = Idle]
      PROVE  /\ StageOf(jobs'[j].status) = StageOf(jobs[j].status)
             /\ ~Holds(tasks'[t], j)
  <2>1. i # j
    BY <1>5 DEF Free, Dormant
  <2>2. jobs'[j] = rows[j]
    BY <1>5, <2>1 DEF RowsOK
  <2> QED BY <1>5, <2>2, IdleHoldsNothing
<1> QED BY <1>2, <1>3, <1>4, <1>5 DEF Enter

-----------------------------------------------------------------------------
(* The steps of a coroutine.                                                *)

LEMMA RunRests ==
  ASSUME TypeInv, NEW t \in Slots, RunStep(t), poll' = poll
  PROVE  FreeKept
<1> USE DEF TypeInv, TasksOK, RowsOK
<1>1. /\ tasks[t].pc \in RunPc
      /\ \A i \in JobIds \ {tasks[t].job} : jobs'[i] = jobs[i]
      /\ \A s \in Slots \ {t} : tasks'[s] = tasks[s]
  BY DEF RunStep, RemoveTransfer, CommitStopped, ResolveMeta, ListFiles, Place,
         PlaceNothing, CommitPlaced, Commit, Scan, StepFails, PlaceLocked, FailJob,
         storeVars, RunPc, PipelineStatus
<1>2. tasks'[t] = Idle \/ (tasks'[t].job = tasks[t].job /\ tasks'[t].pc \in RunPc)
  <2>1. CASE CommitStopped(t) \/ ResolveMeta(t) \/ CommitPlaced(t)
    <3>1. \A rows, i, step : RunAt(rows, i, step).pc = step /\ RunAt(rows, i, step).job = i
      BY DEF RunAt, Idle
    <3>2. \E step \in PipelineStatus :
            tasks' = [tasks EXCEPT ![t] = RunAt(jobs', tasks[t].job, step)]
      BY <2>1 DEF CommitStopped, ResolveMeta, CommitPlaced, Commit, PipelineStatus
    <3> QED BY <3>1, <3>2 DEF RunPc
  <2>2. CASE RemoveTransfer(t) \/ ListFiles(t) \/ Place(t) \/ PlaceNothing(t)
    BY <2>2 DEF RemoveTransfer, ListFiles, Place, PlaceNothing, Task, RunPc
  <2>3. CASE Scan(t) \/ StepFails(t) \/ PlaceLocked(t)
    BY <2>3 DEF Scan, StepFails, PlaceLocked, FailJob
  <2> QED BY <2>1, <2>2, <2>3 DEF RunStep
<1>3. ASSUME NEW j \in JobIds, Free(j)
      PROVE  jobs'[j] = jobs[j] /\ ~Holds(tasks'[t], j)
  <2>1. tasks[t].job # j
    BY <1>1, <1>3, HeldIsNotFree DEF Holds
  <2> QED BY <1>1, <1>2, <2>1, IdleHoldsNothing
          DEF Holds, RunPc, PipelineStatus, DeletePc
<1> QED BY <1>1, <1>3, StepRests DEF OnlyMoves

LEMMA SubmitRests ==
  ASSUME TypeInv, NEW t \in Slots, SubmitStep(t), poll' = poll
  PROVE  FreeKept
<1> USE DEF TypeInv, TasksOK, RowsOK
<1>1. /\ tasks[t].pc \in SubmitPc
      /\ \A i \in JobIds \ {tasks[t].job} : jobs'[i] = jobs[i]
      /\ \A s \in Slots \ {t} : tasks'[s] = tasks[s]
  BY DEF SubmitStep, Forward, Answer, Stamped, SubmitFails, storeVars, SubmitPc
<1>2. tasks'[t] = Idle \/ (tasks'[t].job = tasks[t].job /\ tasks'[t].pc \in SubmitPc)
  BY DEF SubmitStep, Forward, Answer, SubmitFails, SubmitPc, Task
<1>3. ASSUME NEW j \in JobIds, Free(j)
      PROVE  jobs'[j] = jobs[j] /\ ~Holds(tasks'[t], j)
  <2>1. tasks[t].job # j
    BY <1>1, <1>3, HeldIsNotFree DEF Holds
  <2> QED BY <1>1, <1>2, <2>1, IdleHoldsNothing DEF Holds, SubmitPc, DeletePc
<1> QED BY <1>1, <1>3, StepRests DEF OnlyMoves

LEMMA DeleteRests ==
  ASSUME TypeInv, NEW t \in Slots, DeleteStep(t), poll' = poll
  PROVE  FreeKept
<1> USE DEF TypeInv, TasksOK
<1>1. /\ tasks[t].pc \in DeletePc
      /\ \A s \in Slots \ {t} : tasks'[s] = tasks[s]
  BY DEF DeleteStep, DeleteTorrent, DeleteFolder, DeletePlaced, CommitDeleted, DeleteFails,
         DeletePc
<1>2. OnlyMoves(t)
  BY <1>1 DEF OnlyMoves
<1>3. CASE CommitDeleted(t)
  <2>1. ASSUME NEW j \in JobIds, Free(j)
        PROVE  StageOf(jobs'[j].status) = StageOf(jobs[j].status) /\ ~Holds(tasks'[t], j)
    <3>1. \/ tasks'[t] = Idle
          \/ tasks'[t].pc = "download" /\ tasks'[t].job = tasks[t].repl
      <4> DEFINE k == SubmitAt(tasks[t].repl, tasks[t].pick, FALSE)
      <4>1. k.pc = "download" /\ k.job = tasks[t].repl
        BY DEF SubmitAt, Idle
      <4>2. tasks' = [tasks EXCEPT ![t] = Idle] \/ tasks' = [tasks EXCEPT ![t] = k]
        BY <1>3 DEF CommitDeleted
      <4> HIDE DEF k
      <4> QED BY <4>1, <4>2
    <3>2. tasks[t].repl # j
      BY <1>1, <2>1, HeldIsNotFree DEF Holds
    <3>3. ~Holds(tasks'[t], j)
      BY <3>1, <3>2, IdleHoldsNothing DEF Holds, DeletePc
    <3>4. StageOf(jobs'[j].status) = StageOf(jobs[j].status)
      <4>1. CASE j = tasks[t].job
        <5>1. jobs[j].status # "NONE" /\ jobs'[j].status = "DELETED"
          BY <1>1, <1>3, <4>1, TaskRow, DeletedRow
        <5> QED BY <2>1, <5>1 DEF Free, Dormant, StageOf
      <4>2. CASE j # tasks[t].job
        BY <1>3, <4>2, DeletedRow
      <4> QED BY <4>1, <4>2
    <3> QED BY <3>3, <3>4
  <2> QED BY <1>2, <2>1, StepRests
<1>4. CASE ~CommitDeleted(t)
  <2>1. /\ jobs' = jobs
        /\ \/ tasks'[t] = Idle
           \/ tasks'[t].pc \in DeletePc /\ tasks'[t].repl = tasks[t].repl
    BY <1>4 DEF DeleteStep, DeleteTorrent, DeleteFolder, DeletePlaced, DeleteFails,
                storeVars, DeletePc, Task
  <2>2. ASSUME NEW j \in JobIds, Free(j) PROVE ~Holds(tasks'[t], j)
    <3>1. tasks[t].repl # j
      BY <1>1, <2>2, HeldIsNotFree DEF Holds
    <3> QED BY <2>1, <3>1, IdleHoldsNothing
            DEF Holds, RunPc, PipelineStatus, ReadPc, SubmitPc, DeletePc
  <2> QED BY <1>2, <2>1, <2>2, StepRests
<1> QED BY <1>3, <1>4

LEMMA ReadRests ==
  ASSUME TypeInv, NEW t \in Slots, ReadStep(t), poll' = poll
  PROVE  FreeKept
<1> USE DEF TypeInv, TasksOK, RowsOK
<1>1. /\ tasks[t].pc \in ReadPc
      /\ \A i \in JobIds \ {tasks[t].job} : jobs'[i] = jobs[i]
      /\ \A s \in Slots \ {t} : tasks'[s] = tasks[s]
  BY DEF ReadStep, ReadTransfers, Advance, AdvanceToDownloading, ReadFails, storeVars, ReadPc
<1>2. tasks'[t] = Idle \/ (tasks'[t].job = tasks[t].job /\ tasks'[t].pc \in ReadPc)
  BY DEF ReadStep, ReadTransfers, Advance, ReadFails, ReadPc, Task
<1>3. ASSUME NEW j \in JobIds, Free(j)
      PROVE  jobs'[j] = jobs[j] /\ ~Holds(tasks'[t], j)
  <2>1. tasks[t].job # j
    BY <1>1, <1>3, HeldIsNotFree DEF Holds
  <2> QED BY <1>1, <1>2, <2>1, IdleHoldsNothing DEF Holds, ReadPc, DeletePc
<1> QED BY <1>1, <1>3, StepRests DEF OnlyMoves

LEMMA ResumesRests ==
  ASSUME TypeInv, NEW t \in Slots, Resumes(t)
  PROVE  FreeKept
<1>1. poll' = poll
  BY DEF Resumes
<1>2. CASE StartRun(t)
  BY <1>1, <1>2, EnterRests DEF StartRun, TypeInv
<1> QED BY <1>1, <1>2, RunRests, SubmitRests, DeleteRests, ReadRests DEF Resumes

-----------------------------------------------------------------------------
(* Requests and the webhook.                                                *)

\* A step that creates row i, or writes none, and makes coroutine t hold at most i.
LEMMA CreateRests ==
  ASSUME TypeInv, NEW t \in Slots, NEW i \in JobIds, poll' = poll,
         \/ jobs' = jobs /\ ~Dormant(jobs[i].status)
         \/ /\ jobs[i].status = "NONE"
            /\ jobs'[i].status = "DOWNLOAD_SUBMITTED"
            /\ \A k \in JobIds \ {i} : jobs'[k] = jobs[k],
         \A s \in Slots \ {t} : tasks'[s] = tasks[s],
         \A j \in JobIds \ {i} : ~Holds(tasks'[t], j)
  PROVE  FreeKept
<1>1. OnlyMoves(t)
  BY DEF OnlyMoves
<1>2. ASSUME NEW j \in JobIds, Free(j)
      PROVE  Appears(j) \/ (/\ StageOf(jobs'[j].status) = StageOf(jobs[j].status)
                            /\ ~Holds(tasks'[t], j))
  <2>1. CASE j = i
    BY <1>2, <2>1 DEF Appears, Free
  <2>2. CASE j # i
    BY <2>2
  <2> QED BY <2>1, <2>2
<1> QED BY <1>1, <1>2, StepRests

LEMMA CreatedStatus ==
  ASSUME TypeInv, NEW i \in JobIds, NEW media, NEW orphan, NEW hash, NEW h, NEW old,
         NextSeq(i), jobs' = [jobs EXCEPT ![i] = Row(media, orphan, hash, h, old)]
  PROVE  /\ jobs[i].status = "NONE"
         /\ jobs'[i].status = "DOWNLOAD_SUBMITTED"
         /\ \A k \in JobIds \ {i} : jobs'[k] = jobs[k]
<1>1. Row(media, orphan, hash, h, old).status = "DOWNLOAD_SUBMITTED"
  BY DEF Row, NoRow
<1> HIDE DEF Row
<1> QED BY <1>1 DEF NextSeq, Exists, TypeInv, RowsOK

LEMMA SubmittingRests ==
  ASSUME TypeInv, NEW t \in Slots, NEW h, NEW follow, Submit(t, h, follow), poll' = poll
  PROVE  FreeKept
<1>1. PICK i \in JobIds : /\ Create(i, MediaOf[h], FALSE, h, NoJob)
                          /\ tasks' = [tasks EXCEPT ![t] = SubmitAt(i, h, follow)]
  BY DEF Submit
<1> DEFINE k == SubmitAt(i, h, follow)
<1>2. k.pc = "download" /\ k.job = i
  BY DEF SubmitAt, Idle
<1> HIDE DEF k
<1>3. \A j \in JobIds \ {i} : ~Holds(k, j)
  BY <1>2 DEF Holds, DeletePc
<1>4. tasks'[t] = k /\ \A s \in Slots \ {t} : tasks'[s] = tasks[s]
  BY <1>1 DEF k, TypeInv, TasksOK
<1>5. /\ jobs[i].status = "NONE"
      /\ jobs'[i].status = "DOWNLOAD_SUBMITTED"
      /\ \A j \in JobIds \ {i} : jobs'[j] = jobs[j]
  BY <1>1, CreatedStatus DEF Create
<1> QED BY <1>3, <1>4, <1>5, CreateRests

LEMMA RedoRests ==
  ASSUME TypeInv, NEW t \in Slots, NEW old \in JobIds, NEW h, RedoJob(t, old, h),
         poll' = poll
  PROVE  FreeKept
<1>1. PICK i \in JobIds :
        /\ \/ FindReplacement(i, old) /\ UNCHANGED jobs
           \/ Create(i, jobs[old].media, jobs[old].orphan, h, old)
        /\ tasks' = [tasks EXCEPT ![t] = DeleteAt(old, i, h)]
  BY DEF RedoJob
<1> DEFINE k == DeleteAt(old, i, h)
<1>2. k.pc \in {"del_torrent", "del_folder"} /\ k.repl = i
  BY DEF DeleteAt, Idle
<1> HIDE DEF k
<1>3. \A j \in JobIds \ {i} : ~Holds(k, j)
  BY <1>2 DEF Holds, RunPc, PipelineStatus, ReadPc, SubmitPc
<1>4. tasks'[t] = k /\ \A s \in Slots \ {t} : tasks'[s] = tasks[s]
  BY <1>1 DEF k, TypeInv, TasksOK
<1>5. CASE FindReplacement(i, old) /\ UNCHANGED jobs
  <2>1. ~Dormant(jobs[i].status)
    BY <1>5 DEF FindReplacement, Waiting, Dormant
  <2> QED BY <1>3, <1>4, <1>5, <2>1, CreateRests
<1>6. CASE Create(i, jobs[old].media, jobs[old].orphan, h, old)
  <2>1. /\ jobs[i].status = "NONE"
        /\ jobs'[i].status = "DOWNLOAD_SUBMITTED"
        /\ \A j \in JobIds \ {i} : jobs'[j] = jobs[j]
    BY <1>6, CreatedStatus DEF Create
  <2> QED BY <1>3, <1>4, <2>1, CreateRests
<1> QED BY <1>1, <1>5, <1>6

LEMMA RequestRests ==
  ASSUME TypeInv, NEW t \in Tasks, Request(t)
  PROVE  FreeKept
<1>0. t \in Slots /\ poll' = poll
  BY DEF Slots, Request
<1>1. ASSUME NEW j \in JobIds, Retry(t, j) PROVE FreeKept
  <2>1. PICK rows : /\ RowsOK(rows)
                    /\ Enter(t, jobs[j].hash, rows)
                    /\ \A i \in JobIds : rows[i].status = jobs[i].status
    BY <1>0, <1>1, RetryEnters
  <2> QED BY <1>0, <2>1, EnterRests
<1>2. ASSUME NEW i \in JobIds, DeleteJob(t, i) PROVE FreeKept
  <2> DEFINE k == DeleteAt(i, NoJob, NoHash)
  <2>1. k.pc \in {"del_torrent", "del_folder"} /\ k.repl = NoJob
    BY DEF DeleteAt, Idle
  <2>2. tasks' = [tasks EXCEPT ![t] = k] /\ jobs' = jobs
    BY <1>2 DEF DeleteJob, storeVars
  <2> HIDE DEF k
  <2>3. \A j \in JobIds : ~Holds(k, j)
    BY <2>1 DEF Holds, RunPc, PipelineStatus, ReadPc, SubmitPc, NoJob, JobIds
  <2>4. tasks'[t] = k /\ \A s \in Slots \ {t} : tasks'[s] = tasks[s]
    BY <1>0, <2>2 DEF TypeInv, TasksOK
  <2> QED BY <1>0, <2>2, <2>3, <2>4, StepRests DEF OnlyMoves
<1>3. ASSUME NEW i \in JobIds, ReadJob(t, i) PROVE FreeKept
  <2> DEFINE k == [Idle EXCEPT !.pc = "read", !.job = i, !.torrent = jobs[i].hash]
  <2>1. tasks' = [tasks EXCEPT ![t] = k] /\ k.pc = "read" /\ k.job = i
    BY <1>3 DEF ReadJob, Idle
  <2> HIDE DEF k
  <2>2. \A j \in JobIds \ {i} : ~Holds(k, j)
    BY <2>1 DEF Holds, DeletePc
  <2>3. tasks'[t] = k /\ \A s \in Slots \ {t} : tasks'[s] = tasks[s]
    BY <1>0, <2>1 DEF TypeInv, TasksOK
  <2>4. jobs' = jobs /\ ~Dormant(jobs[i].status)
    BY <1>3 DEF ReadJob, storeVars, Dormant
  <2> QED BY <1>0, <2>2, <2>3, <2>4, CreateRests
<1> QED BY <1>0, <1>1, <1>2, <1>3, SubmittingRests, RedoRests DEF Request

LEMMA WebhookRests ==
  ASSUME TypeInv, NEW t \in Tasks, NEW h \in Hashes, Webhook(t, h), poll' = poll
  PROVE  FreeKept
<1>0. t \in Slots
  BY DEF Slots
<1> DEFINE k == [Idle EXCEPT !.pc = "start", !.torrent = h]
<1>1. k.pc = "start"
  BY DEF Idle
<1>2. tasks' = [tasks EXCEPT ![t] = k]
  BY DEF Webhook
<1> HIDE DEF k
<1>3. tasks'[t] = k /\ \A s \in Slots \ {t} : tasks'[s] = tasks[s]
  BY <1>0, <1>2 DEF TypeInv, TasksOK
<1>4. \A j \in JobIds : ~Holds(k, j)
  BY <1>1 DEF Holds, RunPc, PipelineStatus, ReadPc, SubmitPc, DeletePc
<1>5. ASSUME NEW i \in JobIds, jobs' = [jobs EXCEPT ![i].payload = h] PROVE FreeKept
  <2>1. \A j \in JobIds : jobs'[j].status = jobs[j].status
    BY <1>5 DEF TypeInv, RowsOK, PipelineJob
  <2> QED BY <1>0, <1>3, <1>4, <2>1, StepRests DEF OnlyMoves
<1>6. ASSUME NEW i \in JobIds, NextSeq(i),
             jobs' = [jobs EXCEPT ![i] = Row("MOVIE", TRUE, h, h, NoJob)]
      PROVE  FreeKept
  <2>1. /\ jobs[i].status = "NONE"
        /\ jobs'[i].status = "DOWNLOAD_SUBMITTED"
        /\ \A j \in JobIds \ {i} : jobs'[j] = jobs[j]
    BY <1>6, CreatedStatus
  <2> QED BY <1>0, <1>3, <1>4, <2>1, CreateRests
<1> QED BY <1>5, <1>6 DEF Webhook

-----------------------------------------------------------------------------
(* The poll, dismissals, restarts; every step.                              *)

LEMMA DropsRules ==
  ASSUME TypeInv, NEW j \in JobIds, Handled(j)
  PROVE  \A i \in JobIds : poll'.todo[i] \in {Pass, poll.todo[i]}
BY DEF Handled, TypeInv, PollOK

LEMMA TickRests ==
  ASSUME TypeInv, PollStep
  PROVE  FreeKept
<1>0. Poller \in Slots
  BY DEF Slots
<1>1. CASE /\ jobs' = jobs /\ tasks' = tasks
           /\ \A j \in JobIds : poll'.todo[j] \in {Pass, poll.todo[j]}
  <2>1. OnlyMoves(Poller)
    BY <1>1 DEF OnlyMoves
  <2> QED BY <1>0, <1>1, <2>1, HeldIsNotFree, StepRests
<1>2. CASE PollAsk \/ PollSkip \/ PollEnd
  <2>1. \A j \in JobIds : poll'.todo[j] = Pass
    <3>1. poll' = PollIdle \/ poll' = [PollIdle EXCEPT !.pc = "asked", !.seen = qbt]
      BY <1>2 DEF PollAsk, PollSkip, PollEnd
    <3>2. \/ poll' = PollIdle
          \/ poll'.todo = PollIdle.todo
      BY <3>1 DEF PollIdle
    <3> QED BY <3>2 DEF PollIdle
  <2> QED BY <1>1, <1>2, <2>1 DEF PollAsk, PollSkip, PollEnd, workerVars, storeVars
<1>3. CASE PollList
  <2>1. /\ jobs' = jobs /\ tasks' = tasks
        /\ \A j \in JobIds : poll'.todo[j] = Judge(jobs[j], poll.seen)
    BY <1>3 DEF PollList, workerVars, storeVars, PollIdle
  <2> SUFFICES ASSUME NEW j \in JobIds, Free(j) PROVE Rests(j)
    BY DEF FreeKept
  <2>2. jobs[j].status \in Terminal \/ jobs[j].status = "NONE"
    BY DEF Free, Dormant, Terminal
  <2>3. Judge(jobs[j], poll.seen) = Pass
    BY <2>2 DEF Judge, Rule, Terminal, AwaitingDownload
  <2>4. \A s \in Slots : ~Holds(tasks'[s], j)
    BY <2>1, HeldIsNotFree
  <2> QED BY <2>1, <2>3, <2>4, HeldByNext DEF Rests
<1>4. ASSUME NEW j \in JobIds, PollProcess(j) PROVE FreeKept
  BY <1>0, <1>4, EnterRests, DropsRules DEF PollProcess, TypeInv
<1>5. ASSUME NEW i \in JobIds, PollFlag(i) \/ PollAdvance(i) \/ CountResume(i)
      PROVE  FreeKept
  <2>1. /\ poll.todo[i] # Pass /\ tasks' = tasks
        /\ \A k \in JobIds \ {i} : jobs'[k] = jobs[k]
    BY <1>5 DEF PollFlag, PollAdvance, AdvanceToDownloading, CountResume, At, workerVars,
                TypeInv, RowsOK
  <2>2. OnlyMoves(Poller)
    BY <1>5, <2>1, DropsRules DEF OnlyMoves, PollFlag, PollAdvance, CountResume
  <2>3. ASSUME NEW j \in JobIds, Free(j)
        PROVE  jobs'[j] = jobs[j] /\ ~Holds(tasks'[Poller], j)
    <3>1. j # i
      BY <2>1, <2>3, HeldBy DEF Free
    <3> QED BY <1>0, <2>1, <2>3, <3>1, HeldIsNotFree
  <2> QED BY <1>0, <2>2, <2>3, StepRests
<1>6. ASSUME NEW i \in JobIds, PollResume(i) \/ ResumeTransfer(i) \/ ResumeFails(i)
      PROVE  FreeKept
  <2>1. \A j \in JobIds : poll'.todo[j] \in {Pass, poll.todo[j]}
    <3>1. CASE PollResume(i) \/ ResumeTransfer(i)
      BY <3>1 DEF PollResume, ResumeTransfer, TypeInv, PollOK
    <3>2. CASE ResumeFails(i)
      BY <3>2, DropsRules DEF ResumeFails
    <3> QED BY <1>6, <3>1, <3>2
  <2> QED BY <1>1, <1>6, <2>1
          DEF PollResume, ResumeTransfer, ResumeFails, workerVars, storeVars
<1> QED BY <1>2, <1>3, <1>4, <1>5, <1>6 DEF PollStep, ApplyRule

LEMMA NextFreeKept == TypeInv /\ [Next]_vars => FreeKept
<1> SUFFICES ASSUME TypeInv, [Next]_vars PROVE FreeKept OBVIOUS
<1>0. Poller \in Slots
  BY DEF Slots
<1>1. ASSUME tasks' = tasks, poll' = poll,
             \A j \in JobIds : Free(j) => jobs'[j] = jobs[j]
      PROVE  FreeKept
  BY <1>0, <1>1, HeldIsNotFree, StepRests DEF OnlyMoves
<1>2. ASSUME NEW h \in Hashes, Transfers(h) PROVE FreeKept
  BY <1>1, <1>2 DEF Transfers, TransferStarts, TransferErrors, TransferCompletes, HookLost,
                    AddedByHand, RemovedByHand, storeVars, workerVars
<1>3. CASE DismissJob
  <2>1. PICK i \in JobIds : /\ jobs[i].status \in AttentionStatus
                            /\ jobs' = [jobs EXCEPT ![i].status = "DISMISSED"]
                            /\ tasks' = tasks /\ poll' = poll
    BY <1>3 DEF DismissJob, Dismiss, workerVars
  <2>2. \A j \in JobIds : Free(j) => jobs'[j] = jobs[j]
    BY <2>1 DEF Free, Dormant, AttentionStatus, TypeInv, RowsOK
  <2> QED BY <1>1, <2>1, <2>2
<1>4. CASE Restart
  <2>1. \A j \in JobIds : jobs'[j].status = jobs[j].status
    BY <1>4 DEF Restart, ReleaseDeletedHashes, TypeInv, RowsOK, PipelineJob
  <2>2. /\ \A s \in Slots : tasks'[s] = Idle
        /\ \A j \in JobIds : poll'.todo[j] = Pass
    BY <1>4 DEF Restart, PollIdle
  <2>3. \A j \in JobIds : ~Held(j)'
    BY <2>2, HeldByNext, IdleHoldsNothing
  <2> QED BY <2>1, <2>3 DEF FreeKept, Rests
<1>5. CASE UNCHANGED vars
  BY <1>1, <1>5 DEF vars, storeVars, workerVars
<1> QED BY <1>2, <1>3, <1>4, <1>5, RequestRests, WebhookRests, ResumesRests, TickRests
        DEF Next, HookArrives, Tick

LEMMA NextKept == TypeInv /\ [Next]_vars => Kept(jobs, jobs')
<1> SUFFICES ASSUME TypeInv, [Next]_vars PROVE Kept(jobs, jobs') OBVIOUS
<1>1. ASSUME jobs' = jobs PROVE Kept(jobs, jobs')
  BY <1>1 DEF Kept
<1>2. ASSUME NEW h \in Hashes, Transfers(h) PROVE Kept(jobs, jobs')
  BY <1>1, <1>2 DEF Transfers, TransferStarts, TransferErrors, TransferCompletes, HookLost,
                    AddedByHand, RemovedByHand, storeVars
<1>3. ASSUME NEW t \in Tasks, Request(t) PROVE StepOK
  <2>1. t \in Slots
    BY DEF Slots
  <2> QED BY <1>3, <2>1, SubmitOK, RetryOK, DeleteJobOK, ReadJobOK, RedoJobOK DEF Request
<1>4. ASSUME NEW t \in Tasks, HookArrives(t) PROVE StepOK
  BY <1>4, WebhookOK DEF HookArrives, Slots
<1>5. ASSUME NEW t \in Slots, Resumes(t) PROVE StepOK
  BY <1>5, StartRunOK, RunStepOK, SubmitStepOK, DeleteStepOK, ReadStepOK DEF Resumes
<1>6. CASE DismissJob
  BY <1>6, DismissOK DEF DismissJob, StepOK
<1>7. CASE Tick
  BY <1>7, PollStepOK DEF Tick, StepOK
<1>8. CASE Restart
  BY <1>8 DEF Restart, ReleaseDeletedHashes, TypeInv, RowsOK, PipelineJob, Kept
<1>9. CASE UNCHANGED vars
  BY <1>1, <1>9 DEF vars, storeVars
<1> QED BY <1>2, <1>3, <1>4, <1>5, <1>6, <1>7, <1>8, <1>9 DEF Next, StepOK

-----------------------------------------------------------------------------
(* The refinement.                                                          *)

LEMMA InitLife == Init => Life!Init
<1> SUFFICES ASSUME Init PROVE Life!Init OBVIOUS
<1>1. \A j \in JobIds : jobs[j].status = "NONE"
  BY DEF Init, StoreInit, NoRow
<1>2. \A j \in JobIds : ~Held(j)
  <2>1. \A s \in Slots : tasks[s] = Idle
    BY DEF Init, WorkerInit
  <2>2. \A j \in JobIds : poll.todo[j] = Pass
    BY DEF Init, PollInit, PollIdle
  <2> QED BY <2>1, <2>2, HeldBy, IdleHoldsNothing
<1>3. \A j \in JobIds : StageOf(jobs[j].status) = "absent" /\ Held(j) = FALSE
  BY <1>1, <1>2 DEF StageOf
<1> HIDE DEF Held
<1> QED BY <1>3 DEF Life!Init

\* An absent row is held by nobody.
LEMMA AbsentIsFree ==
  ASSUME TypeInv, NEW j \in JobIds, jobs[j].status = "NONE"
  PROVE  Free(j)
<1>1. ASSUME NEW s \in Slots, Holds(tasks[s], j) PROVE FALSE
  <2>1. TaskShape(jobs, tasks[s])
    BY DEF TypeInv, TasksOK
  <2> QED BY <1>1, <2>1 DEF Holds, TaskShape, Known, NoJob, JobIds
<1>2. poll.todo[j] = Pass
  BY DEF TypeInv, PollOK, VerdictShape, Known
<1> QED BY <1>1, <1>2, HeldBy DEF Free, Dormant

LEMMA NextLife == TypeInv /\ [Next]_vars => [Life!Next]_(Life!vars)
<1> SUFFICES ASSUME TypeInv, [Next]_vars PROVE Life!Next
  OBVIOUS
<1> DEFINE stage == [j \in JobIds |-> StageOf(jobs[j].status)]
           held == [j \in JobIds |-> Held(j)]
<1>1. \A status : StageOf(status) \in {"absent", "open", "closed"}
  BY DEF StageOf
<1>2. \A j \in JobIds : Held(j) \in BOOLEAN /\ Held(j)' \in BOOLEAN
  BY DEF Held
<1>3. FreeKept /\ Kept(jobs, jobs')
  BY NextFreeKept, NextKept
<1>4. ASSUME NEW j \in JobIds
      PROVE  Life!Create(j) \/ Life!Work(j) \/ Life!Finish(j) \/ Life!Rest(j)
  <2>1. CASE stage[j] = "absent"
    <3>1. jobs[j].status = "NONE"
      BY <2>1 DEF StageOf
    <3>2. Free(j)
      BY <3>1, AbsentIsFree
    <3>3. CASE Appears(j)
      <4>1. stage'[j] = "open"
        BY <3>3 DEF Appears, StageOf
      <4> QED BY <2>1, <4>1 DEF Life!Create
    <3>4. CASE Rests(j)
      BY <1>2, <3>2, <3>4 DEF Life!Rest, Rests, Free
    <3> QED BY <1>3, <3>2, <3>3, <3>4 DEF FreeKept
  <2>2. ASSUME stage[j] # "absent" PROVE stage'[j] \in {"open", "closed"}
    <3>1. jobs[j].status # "NONE"
      BY <2>2 DEF StageOf
    <3>2. jobs'[j].status # "NONE"
      BY <1>3, <3>1 DEF Kept
    <3> QED BY <3>2 DEF StageOf
  <2>3. CASE stage[j] = "open"
    BY <2>2, <2>3 DEF Life!Work
  <2>4. CASE stage[j] = "closed" /\ held[j]
    BY <2>2, <2>4 DEF Life!Finish
  <2>5. CASE stage[j] = "closed" /\ ~held[j]
    <3>1. jobs[j].status \in {"DONE", "DELETED"} /\ ~Held(j)
      BY <2>5 DEF StageOf
    <3>2. Rests(j)
      BY <1>3, <3>1 DEF FreeKept, Free, Dormant, Appears
    <3> QED BY <1>2, <3>1, <3>2 DEF Life!Rest, Rests
  <2> QED BY <1>1, <2>1, <2>3, <2>4, <2>5
<1> QED BY <1>1, <1>2, <1>4 DEF Life!Next

\* Every execution of the pipeline, whatever it interleaves, retries, redoes or loses in a
\* crash, is an execution of JobLifecycle: rows are created once and stay, and a finished
\* or deleted job that no coroutine and no sweep holds is never taken up again (process,
\* services/worker.py; _check, services/health_poll.py; the handlers of routers/).
THEOREM PipelineImplementsLifecycle == Spec => JobsLiveOnce
<1> QED BY InitLife, NextLife, TypeInvariant, PTL DEF Spec, JobsLiveOnce, Life!Spec
=============================================================================
