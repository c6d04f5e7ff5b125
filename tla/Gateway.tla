------------------------------ MODULE Gateway ------------------------------
(***************************************************************************)
(* The other entry points of the pipeline: the completion webhook          *)
(* (routers/webhooks.py), the human retry and dismiss                      *)
(* (routers/gateway.py, services/dismiss.py), and the job reads, which     *)
(* write the store too (services/progress.py).                             *)
(*                                                                         *)
(* A handler runs in the event loop up to its first await, so everything   *)
(* before it is one step with the request.                                 *)
(***************************************************************************)
EXTENDS Deletion

ActiveStatus == AwaitingDownload \cup PipelineStatus
AttentionStatus == {"FAILED", "NEEDS_ATTENTION"}

\* POST /webhooks/torrent-complete: the owner of the hash learns its folder, an unowned
\* hash becomes an orphan job; the run is left to a background task.
Webhook(t, h) ==
  /\ tasks[t] = Idle
  /\ h \in hooks
  /\ hooks' = hooks \ {h}
  /\ \/ \E j \in JobIds :
          /\ jobs[j].hash = h
          /\ jobs' = [jobs EXCEPT ![j].payload = h]
     \/ /\ \A j \in JobIds : jobs[j].hash # h
        /\ \E j \in JobIds :
             /\ NextSeq(j)
             /\ jobs' = [jobs EXCEPT ![j] = Row("MOVIE", TRUE, h, h, NoJob)]
  /\ tasks' = [tasks EXCEPT ![t] = [Idle EXCEPT !.pc = "start", !.torrent = h]]
  /\ UNCHANGED <<qbt, staged, library, saved, submission>>

\* The background task runs process.
StartRun(t) ==
  /\ tasks[t].pc = "start"
  /\ Enter(t, tasks[t].torrent, jobs)
  /\ UNCHANGED <<downloaderVars, library, saved, submission>>

\* Mutant: the retry resets what the pipeline recorded along with the budgets.
RetryFromScratch(t, j) ==
  /\ tasks[t] = Idle
  /\ jobs[j].status \in ActiveStatus \cup AttentionStatus \cup {"DONE"}
  /\ jobs[j].hash # NoHash
  /\ Enter(t, jobs[j].hash, [jobs EXCEPT ![j].attempts = 0, ![j].remediations = 0,
                                         ![j].seedingRemoved = FALSE])
  /\ UNCHANGED <<downloaderVars, library, saved, submission>>

\* POST /jobs/{id}/retry: the automatic budgets restart and process runs at once.
Retry(t, j) ==
  /\ tasks[t] = Idle
  /\ jobs[j].status \in ActiveStatus \cup AttentionStatus \cup {"DONE"}
  /\ jobs[j].hash # NoHash
  /\ Enter(t, jobs[j].hash, [jobs EXCEPT ![j].attempts = 0, ![j].remediations = 0])
  /\ UNCHANGED <<downloaderVars, library, saved, submission>>

\* POST /jobs/{id}/dismiss, and one id of POST /jobs/dismiss.
Dismiss(j) ==
  /\ jobs[j].status \in AttentionStatus
  /\ jobs' = [jobs EXCEPT ![j].status = "DISMISSED"]
  /\ IgnoreSubmission(j)
  /\ UNCHANGED <<downloaderVars, workerVars, saved>>

-----------------------------------------------------------------------------
(* GET /jobs and GET /jobs/{id}: the rows are read, the transfers are awaited, and  *)
(* a row read as DOWNLOAD_SUBMITTED is patched when its transfer is fetching.  A    *)
(* list patches row by row, each as a read of that row alone would.                 *)

ReadJob(t, j) ==
  /\ tasks[t] = Idle
  /\ jobs[j].status = "DOWNLOAD_SUBMITTED"
  /\ jobs[j].hash # NoHash
  /\ tasks' = [tasks EXCEPT ![t] =
       [Idle EXCEPT !.pc = "read", !.job = j, !.torrent = jobs[j].hash]]
  /\ UNCHANGED <<downloaderVars, library, storeVars>>

\* The downloader takes its snapshot.
ReadTransfers(t) ==
  /\ tasks[t].pc = "read"
  /\ tasks' = [tasks EXCEPT
       ![t] = IF qbt[tasks[t].torrent] = "downloading" THEN [@ EXCEPT !.pc = "observed"]
                                                       ELSE Idle]
  /\ UNCHANGED <<downloaderVars, library, storeVars>>

\* advance_to_downloading, on the row as it was read.
AdvanceToDownloading(j) == jobs' = [jobs EXCEPT ![j].status = "DOWNLOADING"]

Advance(t) ==
  /\ tasks[t].pc = "observed"
  /\ AdvanceToDownloading(tasks[t].job)
  /\ tasks' = [tasks EXCEPT ![t] = Idle]
  /\ UNCHANGED <<downloaderVars, library, saved, submission>>

\* A failed transfers read returns the jobs as stored.
ReadFails(t) ==
  /\ tasks[t].pc \in ReadPc
  /\ tasks' = [tasks EXCEPT ![t] = Idle]
  /\ UNCHANGED <<downloaderVars, library, storeVars>>

ReadStep(t) == ReadTransfers(t) \/ Advance(t) \/ ReadFails(t)
=============================================================================
