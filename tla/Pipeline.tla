------------------------------ MODULE Pipeline ------------------------------
(***************************************************************************)
(* The download pipeline of medialab-orchestrator: the job table, the      *)
(* request handlers, the pipeline runs and the health poll, interleaved at *)
(* every await, with qBittorrent, the people at both ends and crashes of   *)
(* the process.                                                            *)
(***************************************************************************)
EXTENDS HealthPoll

CONSTANTS
  Allowed,      \* what people do in this instance, a subset of Operations
  MaxRestarts   \* bound: crashes of the process

Operations ==
  {"download", "follow", "retry", "delete", "dismiss", "redo", "read",
   "added_by_hand", "removed_by_hand"}

ASSUME PipelineAssumption ==
  /\ Allowed \subseteq Operations
  /\ MaxRestarts \in Nat

VARIABLE restarts

vars == <<downloaderVars, workerVars, storeVars, poll, restarts>>

\* A title the follow poll picks for is followed, not merely saved.
Init ==
  /\ StoreInit /\ DownloaderInit /\ WorkerInit /\ PollInit
  /\ saved = ("follow" \notin Allowed)
  /\ restarts = 0

TypeOK ==
  /\ StoreTypeOK /\ DownloaderTypeOK /\ WorkerTypeOK /\ PollTypeOK
  /\ restarts \in 0 .. MaxRestarts

-----------------------------------------------------------------------------
\* What qBittorrent, and the people who use it directly, may do to torrent h.
Transfers(h) ==
  /\ \/ TransferStarts(h) \/ TransferErrors(h) \/ TransferCompletes(h) \/ HookLost(h)
     \/ "added_by_hand" \in Allowed /\ AddedByHand(h)
     \/ "removed_by_hand" \in Allowed /\ RemovedByHand(h)
  /\ UNCHANGED <<workerVars, poll, restarts>>

\* A request that reaches the handler in coroutine t.
Request(t) ==
  /\ \/ \E h \in Hashes :
          \/ "download" \in Allowed /\ Submit(t, h, FALSE)
          \/ "follow" \in Allowed /\ Submit(t, h, TRUE)
     \/ \E j \in JobIds :
          \/ "retry" \in Allowed /\ Retry(t, j)
          \/ "delete" \in Allowed /\ DeleteJob(t, j)
          \/ "read" \in Allowed /\ ReadJob(t, j)
          \/ \E h \in Hashes : "redo" \in Allowed /\ RedoJob(t, j, h)
  /\ UNCHANGED <<poll, restarts>>

HookArrives(t) == \E h \in Hashes : Webhook(t, h) /\ UNCHANGED <<poll, restarts>>

DismissJob == \E j \in JobIds :
  "dismiss" \in Allowed /\ Dismiss(j) /\ UNCHANGED <<poll, restarts>>

\* Coroutine t goes on from its await.
Resumes(t) ==
  /\ StartRun(t) \/ RunStep(t) \/ SubmitStep(t) \/ DeleteStep(t) \/ ReadStep(t)
  /\ UNCHANGED <<poll, restarts>>

\* A step of the poll's own.
Tick == PollStep /\ UNCHANGED restarts

\* The process dies and starts again: the coroutines are gone, the store is what was
\* committed, and opening it releases the hashes of deleted rows.  Startup looks for no
\* interrupted job.
Restart ==
  /\ restarts < MaxRestarts
  /\ restarts' = restarts + 1
  /\ tasks' = [t \in Slots |-> Idle]
  /\ poll' = PollIdle
  /\ ReleaseDeletedHashes
  /\ UNCHANGED <<downloaderVars, library, saved, submission>>

Next ==
  \/ \E h \in Hashes : Transfers(h)
  \/ \E t \in Tasks : Request(t) \/ HookArrives(t)
  \/ \E t \in Slots : Resumes(t)
  \/ DismissJob
  \/ Tick
  \/ Restart

Spec == Init /\ [][Next]_vars

\* The event loop runs every ready coroutine, and the poll ticks for ever.  A service
\* that is asked again and again answers some of the time: the transfer list, and the
\* resume of a transfer.  qBittorrent, its hook and people owe nothing.
Fairness ==
  /\ \A t \in Slots : WF_vars(Resumes(t))
  /\ WF_vars(Tick)
  /\ SF_vars(PollList /\ UNCHANGED restarts)
  /\ \A j \in JobIds : SF_vars(ResumeTransfer(j) /\ UNCHANGED restarts)
  /\ \A j \in JobIds : SF_vars(CountResume(j) /\ UNCHANGED restarts)

FairSpec == Spec /\ Fairness

-----------------------------------------------------------------------------
(* What holds.                                                              *)

\* The status a run of a job is working at.
StatusAt(pc) ==
  CASE pc = "STOPPED" -> "STOP_SEEDING"
    [] pc \in {"LISTED", "PLACED"} -> "RENAME"
    [] OTHER -> pc

\* A job whose row says a pipeline step is under way has a live run at that very step,
\* however many runs, deletions, dismissals and stale writes of the same row overlap.
\* Without a crash no job is left in the middle: every run ends by writing DONE or FAILED.
\* (services/worker.py: process and its except branch, the only writers of the steps.)
NoStrandedJob ==
  restarts = 0 =>
    \A j \in JobIds : jobs[j].status \in PipelineStatus =>
      \E t \in Slots : /\ tasks[t].pc \in RunPc
                      /\ tasks[t].job = j
                      /\ StatusAt(tasks[t].pc) = jobs[j].status

\* What plan_deletion relies on to decide between the torrent and the library
\* (services/deletion.py): a job at SCAN or DONE has recorded where it was placed and
\* that its torrent left qBittorrent, whichever of several overlapping runs wrote the
\* status last and whatever reopened the row before.
DoneWasPlaced ==
  \A j \in JobIds : jobs[j].status \in {"SCAN", "DONE"} =>
    jobs[j].dest /\ jobs[j].seedingRemoved

\* "budget exhausted -> NEEDS_ATTENTION, and the poll stops touching it"
\* (services/health_poll.py): no rule of the running sweep and no pipeline of the poll
\* is aimed at a flagged job.
FlaggedIsLeftAlone ==
  \A j \in JobIds : jobs[j].status = "NEEDS_ATTENTION" =>
    poll.todo[j] = Pass /\ tasks[Poller].job # j

\* One live job per torrent (the unique torrent_hash of the table), over the three
\* writers of the column: the stamp after a submission, the orphan the webhook creates
\* and the release of a deleted row's hash.
HashUnique ==
  \A i, j \in JobIds : i # j /\ jobs[i].hash # NoHash => jobs[i].hash # jobs[j].hash

\* A redo that stalled and is repeated never leaves two replacements of one job waiting
\* for a download (services/redo.py: find_replacement before create_submitted_job).
OneReplacement ==
  \A old, i, k \in JobIds : Waiting(i, old) /\ Waiting(k, old) => i = k

\* Coroutine t was under way on job j before this step.
InFlight(t, j) == tasks[t].job = j /\ tasks[t].pc \in RunPc \cup ReadPc \cup SubmitPc

\* A deleted job is never taken up again: the only thing that can still change its
\* status is a coroutine or a sweep that held the row when it was deleted.  No later
\* request, webhook or tick does (process returns at once, retry and dismiss refuse).
DeletedStaysClosed ==
  [][\A j \in JobIds : jobs[j].status = "DELETED" /\ jobs'[j].status # "DELETED" =>
       (\E t \in Slots : InFlight(t, j)) \/ poll.todo[j] # Pass]_vars

\* Who holds row j: those in flight on it, a redo that will submit for it, the sweep.
Held(j) ==
  \/ \E t \in Slots : InFlight(t, j) \/ (tasks[t].pc \in DeletePc /\ tasks[t].repl = j)
  \/ poll.todo[j] # Pass

StageOf(status) ==
  CASE status = "NONE" -> "absent"
    [] status \in {"DONE", "DELETED"} -> "closed"
    [] OTHER -> "open"

Life == INSTANCE JobLifecycle WITH
  Jobs <- JobIds,
  stage <- [j \in JobIds |-> StageOf(jobs[j].status)],
  held <- [j \in JobIds |-> Held(j)]

\* Every job lives as JobLifecycle says: a finished or deleted job that nobody holds is
\* final.  Hooks, retries, redos, reads and ticks that come later find it closed and
\* leave it, and those who came before are the only ones that may still reopen it.
\* (A dismissed job is open here: DismissedIsTerminal shows why.)
JobsLiveOnce == Life!Spec

\* Nobody asks for a torrent that was asked for before.
SubmittedOnce ==
  \A i, j \in JobIds :
    i # j /\ Exists(i) /\ Exists(j) /\ ~jobs[i].orphan /\ ~jobs[j].orphan =>
      jobs[i].payload # jobs[j].payload

\* Left to the program alone a finished job is in the library, whole: a run never places
\* a download that is not complete and never goes on without one, whatever crashes and
\* whatever other torrents of the title come in between.  For instances where nobody
\* retries, deletes, redoes or adds a torrent by hand.
DoneIsInLibrary ==
  SubmittedOnce =>
    \A j \in JobIds : jobs[j].status \in {"SCAN", "DONE"} =>
      [media |-> jobs[j].media, torrent |-> jobs[j].payload, content |-> "full"] \in library

\* Nothing is stuck for ever while the program lives: an open job with a torrent, once
\* that torrent is no longer being fetched, ends up DONE, flagged or closed.  Lost
\* completion hooks, failing steps, stale reads and a torrent that vanishes are all met
\* by the webhook, the retry budget and the poll between them.
Open(j) == jobs[j].status \in ActiveStatus \cup {"FAILED"}
Fetching(j) == jobs[j].hash # NoHash /\ qbt[jobs[j].hash] \in {"queued", "downloading"}
Settled(j) == jobs[j].status \in Terminal

OpenJobsSettle ==
  \A j \in JobIds : (Open(j) /\ jobs[j].hash # NoHash /\ []~Fetching(j)) ~> Settled(j)

-----------------------------------------------------------------------------
(* What the documentation says and the code does not do.                    *)

\* "DISMISSED is terminal" (JobStatus, store/jobs.py).
DismissedIsTerminal ==
  [][\A j \in JobIds :
       jobs[j].status = "DISMISSED" => jobs'[j].status = "DISMISSED"]_vars

\* "A DELETED job must not hold the unique torrent_hash" (store/jobs.py).
DeletedReleasesHash ==
  \A j \in JobIds : jobs[j].status = "DELETED" => jobs[j].hash = NoHash

\* "Forward-only and idempotent" (advance_to_downloading, services/progress.py): a job
\* that its pipeline took up, or finished, is not set back to DOWNLOADING.
AdvanceIsForwardOnly ==
  [][\A j \in JobIds :
       jobs[j].status \in PipelineStatus \cup {"DONE"} => jobs'[j].status # "DOWNLOADING"]_vars

\* "a restart resumes from the last committed state" (store/jobs.py).
RestartResumes ==
  \A j \in JobIds :
    jobs[j].status \in PipelineStatus ~> jobs[j].status \notin PipelineStatus
=============================================================================
