------------------------------- MODULE Worker -------------------------------
(***************************************************************************)
(* PipelineWorker.process (services/worker.py): one run takes the job that *)
(* owns a hash from its status to DONE, or to FAILED.                      *)
(*                                                                         *)
(* A run is a coroutine.  It acts on the row it read, or wrote, last; the  *)
(* rest of the program runs at every await, and there is no lock per job,  *)
(* so two runs of one job, a delete or a human may interleave with it.  A  *)
(* task below is a coroutine; its pc names the await it is suspended at.   *)
(*                                                                         *)
(*   "STOP_SEEDING", "RESOLVE_META", "RENAME", "SCAN": at the call the     *)
(*       step makes;                                                       *)
(*   "STOPPED", "LISTED", "PLACED": the call has had its effect and the    *)
(*       coroutine has not gone on.                                        *)
(***************************************************************************)
EXTENDS Downloader

CONSTANTS
  Tasks,   \* bound: request and background coroutines alive at once
  Poller   \* the coroutine of the health poll, which runs pipelines itself

ASSUME WorkerAssumption == Poller \notin Tasks

VARIABLES
  tasks,    \* slot -> coroutine
  library   \* files in the media library, by torrent they came from

workerVars == <<tasks, library>>

Slots == Tasks \cup {Poller}

RunPc == PipelineStatus \cup {"STOPPED", "LISTED", "PLACED"}
DeletePc == {"del_torrent", "del_folder", "del_placed", "del_commit"}
SubmitPc == {"download", "downloaded"}
ReadPc == {"read", "observed"}
Pc == {"idle", "start"} \cup RunPc \cup DeletePc \cup SubmitPc \cup ReadPc

\* saw: LISTED, the folder held files; downloaded, the answer carried a hash.
\* placed: PLACED, what was placed; a delete, the plan lists library files.
\* pick and repl: the torrent a submission asks for, and the row a redo submits next.
\* follow: the submission is the follow poll's.
Task ==
  [pc : Pc, job : JobIds \cup {NoJob}, torrent : Hashes \cup {NoHash},
   payload : Hashes \cup {NoHash}, attempts : Attempts, saw : BOOLEAN,
   placed : BOOLEAN, pick : Hashes \cup {NoHash}, repl : JobIds \cup {NoJob},
   follow : BOOLEAN]

Idle ==
  [pc |-> "idle", job |-> NoJob, torrent |-> NoHash, payload |-> NoHash,
   attempts |-> 0, saw |-> FALSE, placed |-> FALSE, pick |-> NoHash,
   repl |-> NoJob, follow |-> FALSE]

LibraryFile == [media : Media, torrent : Hashes, content : {"partial", "full"}]

WorkerInit == tasks = [t \in Slots |-> Idle] /\ library = {}
WorkerTypeOK ==
  /\ tasks \in [Slots -> Task]
  /\ library \subseteq LibraryFile

\* The run of job j at a step, on the row rows[j].
RunAt(rows, j, step) ==
  [Idle EXCEPT !.pc = step, !.job = j, !.torrent = rows[j].hash,
               !.payload = rows[j].payload, !.attempts = rows[j].attempts]

\* A step's update_job: it returns the row as it now is, and the run goes on with that.
Commit(t, rows, step) ==
  /\ jobs' = rows
  /\ tasks' = [tasks EXCEPT ![t] = RunAt(rows, tasks[t].job, step)]

Reentry == AwaitingDownload \cup {"FAILED", "NEEDS_ATTENTION"}

\* Mutant: a deleted job is taken up like a failed one.
EnterDeleted(t, h, rows) ==
  \E j \in JobIds :
    /\ rows[j].hash = h
    /\ jobs' = [rows EXCEPT ![j].status = "STOP_SEEDING"]
    /\ tasks' = [tasks EXCEPT ![t] = RunAt(rows, j, "STOP_SEEDING")]

\* process, up to its first await.  A DISMISSED job has no step: the lookup raises
\* inside the run, which fails the job.
Enter(t, h, rows) ==
  \/ /\ \A j \in JobIds : rows[j].hash # h
     /\ jobs' = rows
     /\ tasks' = [tasks EXCEPT ![t] = Idle]
  \/ \E j \in JobIds :
       /\ rows[j].hash = h
       /\ \/ /\ rows[j].status \in {"DELETED", "DONE"}
             /\ jobs' = rows
             /\ tasks' = [tasks EXCEPT ![t] = Idle]
          \/ /\ rows[j].status \in Reentry
             /\ jobs' = [rows EXCEPT ![j].status = "STOP_SEEDING"]
             /\ tasks' = [tasks EXCEPT ![t] = RunAt(rows, j, "STOP_SEEDING")]
          \/ /\ rows[j].status \in PipelineStatus
             /\ jobs' = rows
             /\ tasks' = [tasks EXCEPT ![t] = RunAt(rows, j, rows[j].status)]
          \/ /\ rows[j].status = "DISMISSED"
             /\ jobs' = [rows EXCEPT ![j].status = "FAILED", ![j].attempts = Bump(@)]
             /\ tasks' = [tasks EXCEPT ![t] = Idle]

-----------------------------------------------------------------------------
(* STOP_SEEDING: learn the folder from the transfer while it is listed, remove it.  *)
(* The two calls are one step: the listing tells nothing but the folder's name.     *)

RemoveTransfer(t) ==
  /\ tasks[t].pc = "STOP_SEEDING"
  /\ Remove(tasks[t].torrent)
  /\ tasks' = [tasks EXCEPT
       ![t].pc = "STOPPED",
       ![t].payload = IF qbt[tasks[t].torrent] # "absent" THEN tasks[t].torrent ELSE @]
  /\ UNCHANGED <<staged, hooks, library, storeVars>>

CommitStopped(t) ==
  /\ tasks[t].pc = "STOPPED"
  /\ Commit(t, [jobs EXCEPT ![tasks[t].job].status = "RESOLVE_META",
                            ![tasks[t].job].seedingRemoved = TRUE,
                            ![tasks[t].job].payload = tasks[t].payload], "RESOLVE_META")
  /\ UNCHANGED <<downloaderVars, library, saved, submission>>

\* RESOLVE_META needs the hash on the row it was handed.
ResolveMeta(t) ==
  /\ tasks[t].pc = "RESOLVE_META"
  /\ tasks[t].torrent # NoHash
  /\ Commit(t, [jobs EXCEPT ![tasks[t].job].status = "RENAME"], "RENAME")
  /\ UNCHANGED <<downloaderVars, library, saved, submission>>

-----------------------------------------------------------------------------
(* RENAME: list the folder, plan, move in a thread, record.  The instance is one    *)
(* title: every movie names the same file of the same folder, the torrents of a     *)
(* show cover different episodes of one series folder.                              *)

SameFiles(media, h) ==
  {f \in library : f.media = media /\ (media = "MOVIE" \/ f.torrent = h)}

TitleFolderExists(media) == \E f \in library : f.media = media

\* shutil.move onto the planned destinations; a different file already there is replaced.
MovedTo(media, h) ==
  (library \ SameFiles(media, h)) \cup
    {[media |-> media, torrent |-> h, content |-> staged[h]]}

ListFiles(t) ==
  /\ tasks[t].pc = "RENAME"
  /\ tasks' = [tasks EXCEPT
       ![t].pc = "LISTED",
       ![t].saw = Folder(jobs[tasks[t].job].media, tasks[t].payload) # "none"]
  /\ UNCHANGED <<downloaderVars, library, storeVars>>

\* The listed files are moved and the empty folder is removed.
Place(t) ==
  LET h == tasks[t].payload  m == jobs[tasks[t].job].media IN
  /\ tasks[t].pc = "LISTED"
  /\ tasks[t].saw
  /\ Folder(m, h) # "none"
  /\ library' = MovedTo(m, h)
  /\ staged' = [staged EXCEPT ![h] = "none"]
  /\ tasks' = [tasks EXCEPT ![t].pc = "PLACED", ![t].placed = TRUE]
  /\ UNCHANGED <<qbt, hooks, storeVars>>

\* Mutant: an empty plan is accepted whatever the library holds.
PlaceAnyway(t) ==
  /\ tasks[t].pc = "LISTED"
  /\ Folder(jobs[tasks[t].job].media, tasks[t].payload) = "none"
  /\ tasks' = [tasks EXCEPT ![t].pc = "PLACED"]
  /\ UNCHANGED <<downloaderVars, library, storeVars>>

\* The listed files are gone: every move is skipped and what already stands at the
\* destinations is returned.  Nothing was listed: no move, accepted only when the
\* title's folder exists.  A folder that has appeared since the listing fails the step:
\* its video is left over.
PlaceNothing(t) ==
  LET h == tasks[t].payload  m == jobs[tasks[t].job].media IN
  /\ tasks[t].pc = "LISTED"
  /\ Folder(m, h) = "none"
  /\ tasks[t].saw \/ TitleFolderExists(m)
  /\ tasks' = [tasks EXCEPT ![t].pc = "PLACED",
                            ![t].placed = tasks[t].saw /\ SameFiles(m, h) # {}]
  /\ UNCHANGED <<downloaderVars, library, storeVars>>

CommitPlaced(t) ==
  /\ tasks[t].pc = "PLACED"
  /\ Commit(t, [jobs EXCEPT ![tasks[t].job].status = "SCAN",
                            ![tasks[t].job].dest = TRUE,
                            ![tasks[t].job].placed = tasks[t].placed], "SCAN")
  /\ UNCHANGED <<downloaderVars, library, saved, submission>>

\* SCAN: Jellyfin scans; the job is DONE and leaves the watchlist when only saved.
Scan(t) ==
  LET j == tasks[t].job IN
  /\ tasks[t].pc = "SCAN"
  /\ jobs' = [jobs EXCEPT ![j].status = "DONE"]
  /\ saved' = (saved /\ jobs[j].orphan)
  /\ tasks' = [tasks EXCEPT ![t] = Idle]
  /\ UNCHANGED <<downloaderVars, library, submission>>

-----------------------------------------------------------------------------
(* Failure: any exception of a step marks the job FAILED, counting one more attempt *)
(* than the row the run holds.                                                      *)

\* Mutant: the failure is counted and the status left at the step.
FailJobInPlace(t) ==
  /\ jobs' = [jobs EXCEPT ![tasks[t].job].attempts = Bump(tasks[t].attempts)]
  /\ tasks' = [tasks EXCEPT ![t] = Idle]

FailJob(t) ==
  /\ jobs' = [jobs EXCEPT ![tasks[t].job].status = "FAILED",
                          ![tasks[t].job].attempts = Bump(tasks[t].attempts)]
  /\ tasks' = [tasks EXCEPT ![t] = Idle]

\* A call that fails, before or after its effect; a missing hash; a missing folder.
\* An orphan's RESOLVE_META calls nobody and fails only without a hash.
StepFails(t) ==
  /\ \/ tasks[t].pc \in {"STOP_SEEDING", "STOPPED", "RENAME", "LISTED", "SCAN"}
     \/ /\ tasks[t].pc = "RESOLVE_META"
        /\ ~jobs[tasks[t].job].orphan \/ tasks[t].torrent = NoHash
  /\ FailJob(t)
  /\ UNCHANGED <<downloaderVars, library, saved, submission>>

\* RenameIncompleteError: the copy landed, the locked source stayed.
PlaceLocked(t) ==
  LET h == tasks[t].payload  m == jobs[tasks[t].job].media IN
  /\ tasks[t].pc = "LISTED"
  /\ tasks[t].saw
  /\ Folder(m, h) # "none"
  /\ library' = MovedTo(m, h)
  /\ FailJob(t)
  /\ UNCHANGED <<downloaderVars, saved, submission>>

RunStep(t) ==
  \/ RemoveTransfer(t) \/ CommitStopped(t) \/ ResolveMeta(t)
  \/ ListFiles(t) \/ Place(t) \/ PlaceNothing(t) \/ CommitPlaced(t) \/ Scan(t)
  \/ StepFails(t) \/ PlaceLocked(t)
=============================================================================
