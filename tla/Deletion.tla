------------------------------ MODULE Deletion ------------------------------
(***************************************************************************)
(* plan_deletion and DeletionService.execute (services/deletion.py), and   *)
(* the redo that runs a deletion between creating a replacement and        *)
(* submitting it (services/redo.py).                                       *)
(*                                                                         *)
(* The plan is made once, from the row the request read; the execution     *)
(* awaits at every step and marks the row DELETED last.                    *)
(***************************************************************************)
EXTENDS Submission

\* The torrent goes with its files while the download may still be in qBittorrent.
PlanTorrent(row) ==
  row.hash # NoHash /\ (row.status \in AwaitingDownload \/ ~row.seedingRemoved)

\* The recorded list, or, for a finished movie without one, its folder.
PlanPlaced(row) ==
  \/ row.placed
  \/ row.status \in {"SCAN", "DONE"} /\ row.media = "MOVIE" /\ row.dest

Refused(row) ==
  \/ row.status = "DELETED"
  \/ row.status \in {"SCAN", "DONE"} /\ ~PlanPlaced(row)

\* The execution of the plan for row j; repl and pick say what a redo submits after it.
DeleteAt(j, repl, pick) ==
  [Idle EXCEPT !.pc = IF PlanTorrent(jobs[j]) THEN "del_torrent" ELSE "del_folder",
               !.job = j, !.torrent = jobs[j].hash, !.payload = jobs[j].payload,
               !.placed = PlanPlaced(jobs[j]), !.repl = repl, !.pick = pick]

\* remove_transfer(delete_files=True).
DeleteTorrent(t) ==
  /\ tasks[t].pc = "del_torrent"
  /\ Remove(tasks[t].torrent)
  /\ staged' = [staged EXCEPT ![tasks[t].torrent] =
                  IF qbt[tasks[t].torrent] = "absent" THEN @ ELSE "none"]
  /\ tasks' = [tasks EXCEPT ![t].pc = "del_folder"]
  /\ UNCHANGED <<hooks, library, storeVars>>

DeleteFolder(t) ==
  LET h == tasks[t].payload IN
  /\ tasks[t].pc = "del_folder"
  /\ staged' = [staged EXCEPT ![h] =
                  IF MediaOf[h] = jobs[tasks[t].job].media THEN "none" ELSE @]
  /\ tasks' = [tasks EXCEPT ![t].pc =
                  IF tasks[t].placed THEN "del_placed" ELSE "del_commit"]
  /\ UNCHANGED <<qbt, hooks, library, storeVars>>

DeletePlaced(t) ==
  /\ tasks[t].pc = "del_placed"
  /\ library' = library \ SameFiles(jobs[tasks[t].job].media, tasks[t].payload)
  /\ tasks' = [tasks EXCEPT ![t].pc = "del_commit"]
  /\ UNCHANGED <<downloaderVars, storeVars>>

\* The row is marked; a plain delete then ignores the follow submission and answers,
\* a redo goes on to submit the replacement.
CommitDeleted(t) ==
  LET j == tasks[t].job IN
  /\ tasks[t].pc = "del_commit"
  /\ jobs' = Deleted(jobs, j)
  /\ \/ /\ tasks[t].repl = NoJob
        /\ IgnoreSubmission(j)
        /\ tasks' = [tasks EXCEPT ![t] = Idle]
     \/ /\ tasks[t].repl # NoJob
        /\ tasks' = [tasks EXCEPT
                       ![t] = SubmitAt(tasks[t].repl, tasks[t].pick, FALSE)]
        /\ UNCHANGED submission
  /\ UNCHANGED <<downloaderVars, library, saved>>

\* Any call or file operation fails; the last to fail, when library files were
\* removed, is Jellyfin's scan.  The row stays as it is and the caller gets the error.
DeleteFails(t) ==
  /\ \/ tasks[t].pc \in {"del_torrent", "del_folder", "del_placed"}
     \/ tasks[t].pc = "del_commit" /\ tasks[t].placed
  /\ tasks' = [tasks EXCEPT ![t] = Idle]
  /\ UNCHANGED <<downloaderVars, library, storeVars>>

DeleteStep(t) ==
  \/ DeleteTorrent(t) \/ DeleteFolder(t) \/ DeletePlaced(t)
  \/ CommitDeleted(t) \/ DeleteFails(t)

-----------------------------------------------------------------------------
\* DELETE /jobs/{id}, and one id of POST /jobs/delete.
DeleteJob(t, j) ==
  /\ tasks[t] = Idle
  /\ Exists(j) /\ ~Refused(jobs[j])
  /\ tasks' = [tasks EXCEPT ![t] = DeleteAt(j, NoJob, NoHash)]
  /\ UNCHANGED <<downloaderVars, library, storeVars>>

Redoable(row) ==
  /\ \/ row.status = "DONE"
     \/ row.status = "NEEDS_ATTENTION" /\ ~row.placed
  /\ ~Refused(row)

\* Mutant: a repeated redo does not look for the replacement it left behind.
RedoAfresh(t, j, h) ==
  /\ tasks[t] = Idle
  /\ Redoable(jobs[j])
  /\ \E r \in JobIds :
       /\ Create(r, jobs[j].media, jobs[j].orphan, h, j)
       /\ RepointSubmission(j, r)
       /\ tasks' = [tasks EXCEPT ![t] = DeleteAt(j, r, h)]
  /\ UNCHANGED <<downloaderVars, library, saved>>

\* POST /jobs/{id}/redo with torrent h, of the same title.  The replacement waiting
\* from an earlier attempt is used again, or one is created; the follow submission
\* moves to it at once.
RedoJob(t, j, h) ==
  /\ tasks[t] = Idle
  /\ Redoable(jobs[j])
  /\ jobs[j].orphan \/ jobs[j].media = MediaOf[h]
  /\ \E r \in JobIds :
       /\ \/ FindReplacement(r, j) /\ UNCHANGED jobs
          \/ /\ \A i \in JobIds : ~Waiting(i, j)
             /\ Create(r, jobs[j].media, jobs[j].orphan, h, j)
       /\ RepointSubmission(j, r)
       /\ tasks' = [tasks EXCEPT ![t] = DeleteAt(j, r, h)]
  /\ UNCHANGED <<downloaderVars, library, saved>>
=============================================================================
