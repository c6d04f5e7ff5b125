----------------------------- MODULE Submission -----------------------------
(***************************************************************************)
(* create_submitted_job, submit_job and submit_pick                        *)
(* (services/download.py), and the follow poll's use of them               *)
(* (services/follow.py): the row is created first, the download is         *)
(* forwarded, and the hash in the answer is stamped on the row.            *)
(*                                                                         *)
(* The title lookup before the download is best effort and touches no      *)
(* column kept here.                                                       *)
(***************************************************************************)
EXTENDS Worker

\* A submission of torrent h for the row j, suspended at the download call.
SubmitAt(j, h, follow) ==
  [Idle EXCEPT !.pc = "download", !.job = j, !.pick = h, !.follow = follow]

\* create_submitted_job on the next seq.
Create(j, media, orphan, h, old) ==
  /\ NextSeq(j)
  /\ jobs' = [jobs EXCEPT ![j] = Row(media, orphan, NoHash, h, old)]

\* POST /download, or an automatic pick of the follow poll.
Submit(t, h, follow) ==
  /\ tasks[t] = Idle
  /\ \E j \in JobIds :
       /\ Create(j, MediaOf[h], FALSE, h, NoJob)
       /\ tasks' = [tasks EXCEPT ![t] = SubmitAt(j, h, follow)]
  /\ UNCHANGED <<downloaderVars, library, saved, submission>>

\* The downloader adds the torrent; its answer may lack the hash.
Forward(t) ==
  /\ tasks[t].pc = "download"
  /\ Add(tasks[t].pick)
  /\ \E known \in BOOLEAN :
       tasks' = [tasks EXCEPT ![t].pc = "downloaded", ![t].saw = known]
  /\ UNCHANGED <<staged, hooks, library, storeVars>>

\* stamp_hash: HashInUseError fails the job and points at the owner.
Stamped(j, h) ==
  IF OwnedByOther(j, h) THEN [jobs EXCEPT ![j].status = "FAILED"]
                        ELSE [jobs EXCEPT ![j].hash = h]

\* The answer is read; the follow poll then records its submission.
Answer(t) ==
  LET j == tasks[t].job IN
  /\ tasks[t].pc = "downloaded"
  /\ jobs' = IF tasks[t].saw THEN Stamped(j, tasks[t].pick) ELSE jobs
  /\ submission' = IF tasks[t].follow THEN [submission EXCEPT ![j] = "submitted"]
                                      ELSE submission
  /\ tasks' = [tasks EXCEPT ![t] = Idle]
  /\ UNCHANGED <<downloaderVars, library, saved>>

\* The download call fails, before or after the add: the error goes to the caller and
\* the row stays as it is.
SubmitFails(t) ==
  /\ tasks[t].pc \in SubmitPc
  /\ tasks' = [tasks EXCEPT ![t] = Idle]
  /\ UNCHANGED <<downloaderVars, library, storeVars>>

SubmitStep(t) == Forward(t) \/ Answer(t) \/ SubmitFails(t)
=============================================================================
