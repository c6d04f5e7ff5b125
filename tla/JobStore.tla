------------------------------ MODULE JobStore ------------------------------
(***************************************************************************)
(* The pipeline_job table (store/jobs.py) and the two watchlist facts the  *)
(* pipeline writes (store/watchlist.py).                                   *)
(*                                                                         *)
(* Every store call is synchronous: it runs between two awaits of the      *)
(* event loop and holds a lock and a transaction, so it is one atomic step *)
(* here.  What is not atomic is the read-modify-write of a caller: it      *)
(* reads a row, awaits a service, and patches the row it remembers.        *)
(* update_job patches by id and never looks at the status it replaces.     *)
(*                                                                         *)
(* Rows are numbered by seq, the order the store lists them in.  Columns   *)
(* that no decision reads (titles, timestamps, the error text, the search  *)
(* scope, deleted_hash) are left out; release_name and source_path are one *)
(* column, payload, the download folder they name.                         *)
(***************************************************************************)
EXTENDS Integers

CONSTANTS
  Hashes,         \* info-hashes, each one torrent
  NoHash,         \* the NULL of a hash column
  MaxJobs,        \* bound: rows the table may ever hold
  AutoRetryMax,   \* setting auto_retry_max
  AutoResumeMax,  \* setting auto_resume_max
  MediaOf         \* hash -> media type its download is asked for with

ASSUME JobStoreAssumption ==
  /\ NoHash \notin Hashes
  /\ MaxJobs \in Nat
  /\ AutoRetryMax \in Nat
  /\ AutoResumeMax \in Nat
  /\ MediaOf \in [Hashes -> {"MOVIE", "SHOW"}]

VARIABLES
  jobs,        \* seq -> row
  saved,       \* the watchlist holds the title as saved (not followed)
  submission   \* seq -> state of the follow submission that names the job

storeVars == <<jobs, saved, submission>>

JobIds == 1 .. MaxJobs
NoJob == 0
Media == {"MOVIE", "SHOW"}

AwaitingDownload == {"DOWNLOAD_SUBMITTED", "DOWNLOADING"}
PipelineStatus == {"STOP_SEEDING", "RESOLVE_META", "RENAME", "SCAN"}
JobStatus == AwaitingDownload \cup PipelineStatus \cup
  {"DONE", "FAILED", "NEEDS_ATTENTION", "DELETED", "DISMISSED"}

\* attempts is only ever compared with auto_retry_max, so counting stops one past it.
Attempts == 0 .. AutoRetryMax + 1
Bump(n) == IF n <= AutoRetryMax THEN n + 1 ELSE n

\* A row; "NONE" is the status of a seq not handed out yet.  placed stands for a
\* non-empty placed_paths, dest and seedingRemoved for their columns being set,
\* orphan for tmdb_id = ORPHAN_TMDB_ID.
PipelineJob ==
  [status : JobStatus \cup {"NONE"}, hash : Hashes \cup {NoHash},
   payload : Hashes \cup {NoHash}, media : Media, orphan : BOOLEAN,
   attempts : Attempts, remediations : 0 .. AutoResumeMax,
   seedingRemoved : BOOLEAN, dest : BOOLEAN, placed : BOOLEAN,
   redoOf : JobIds \cup {NoJob}]

NoRow ==
  [status |-> "NONE", hash |-> NoHash, payload |-> NoHash, media |-> "MOVIE",
   orphan |-> FALSE, attempts |-> 0, remediations |-> 0, seedingRemoved |-> FALSE,
   dest |-> FALSE, placed |-> FALSE, redoOf |-> NoJob]

StoreInit ==
  /\ jobs = [j \in JobIds |-> NoRow]
  /\ saved \in BOOLEAN
  /\ submission = [j \in JobIds |-> "none"]

StoreTypeOK ==
  /\ jobs \in [JobIds -> PipelineJob]
  /\ saved \in BOOLEAN
  /\ submission \in [JobIds -> {"none", "submitted", "ignored"}]

Exists(j) == jobs[j].status # "NONE"
NextSeq(j) == ~Exists(j) /\ \A i \in JobIds : i < j => Exists(i)

\* create_job: a DOWNLOAD_SUBMITTED row with every budget unspent.
Row(media, orphan, hash, payload, old) ==
  [NoRow EXCEPT !.status = "DOWNLOAD_SUBMITTED", !.media = media, !.orphan = orphan,
                !.hash = hash, !.payload = payload, !.redoOf = old]

\* Mutant: a failed job is taken to have given its torrent up.
OwnedByOtherOpen(j, h) ==
  \E i \in JobIds \ {j} : jobs[i].hash = h /\ jobs[i].status # "FAILED"

\* stamp_hash raises HashInUseError when another row owns the hash.
OwnedByOther(j, h) == \E i \in JobIds \ {j} : jobs[i].hash = h

\* update_job(status=DELETED) also moves the hash to deleted_hash.
Deleted(rows, j) == [rows EXCEPT ![j].status = "DELETED", ![j].hash = NoHash]

\* The UPDATE the store runs when it opens: no DELETED row keeps its hash.
ReleaseDeletedHashes ==
  jobs' = [j \in JobIds |->
             IF jobs[j].status = "DELETED" THEN [jobs[j] EXCEPT !.hash = NoHash]
                                           ELSE jobs[j]]

\* find_replacement: replacements of old whose download was never submitted, newest first.
Waiting(i, old) ==
  /\ jobs[i].redoOf = old
  /\ jobs[i].hash = NoHash
  /\ jobs[i].status = "DOWNLOAD_SUBMITTED"
FindReplacement(i, old) ==
  Waiting(i, old) /\ \A k \in JobIds : Waiting(k, old) => k <= i

\* ignore_submission_for_job and repoint_submission.
IgnoreSubmission(j) ==
  submission' = [submission EXCEPT ![j] = IF @ = "none" THEN @ ELSE "ignored"]
RepointSubmission(old, new) ==
  submission' = [i \in JobIds |->
    CASE i = old /\ old # new -> "none"
      [] i = new /\ submission[old] # "none" -> submission[old]
      [] OTHER -> submission[i]]
=============================================================================
