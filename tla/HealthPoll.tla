----------------------------- MODULE HealthPoll -----------------------------
(***************************************************************************)
(* HealthPoller.tick (services/health_poll.py).                            *)
(*                                                                         *)
(* One tick awaits the transfer list, then lists the rows, and applies one *)
(* rule per open row, newest first.  Some rules await, so a later row is   *)
(* judged on what it and its transfer were when the tick began; the rule   *)
(* depends on nothing else and is worked out here with the listing.  The   *)
(* pipelines the poll starts run in its own coroutine, the slot Poller.    *)
(***************************************************************************)
EXTENDS Gateway

VARIABLE poll

\* Statuses the poll leaves alone.
Terminal == {"DONE", "NEEDS_ATTENTION", "DELETED", "DISMISSED"}

\* The rules, in the order of the module's docstring, and "pass".
Rules == {"advance", "resume", "run", "flag", "retry", "pass"}

Verdict ==
  [rule : Rules, hash : Hashes \cup {NoHash}, remediations : 0 .. AutoResumeMax]
Pass == [rule |-> "pass", hash |-> NoHash, remediations |-> 0]

\* pc: where the tick is; seen: the transfer list, until the rows are listed;
\* todo: the rules still to apply, with the columns of the listed row they use.
PollTypeOK ==
  poll \in [pc : {"idle", "asked", "sweep", "resume", "resumed"},
            seen : [Hashes -> TransferState],
            todo : [JobIds -> Verdict]]

PollIdle ==
  [pc |-> "idle", seen |-> [h \in Hashes |-> "absent"],
   todo |-> [j \in JobIds |-> Pass]]

PollInit == poll = PollIdle

\* _check, for a row that is not terminal and the transfer of its hash.
FailedRule(row) ==
  IF row.attempts > AutoRetryMax THEN "flag"
  ELSE IF row.hash = NoHash THEN "pass" ELSE "retry"

\* Mutant: the budget is compared too late.
TransferRuleOneMore(row, transfer) ==
  CASE transfer = "absent" -> "flag"
    [] transfer = "error" ->
         IF row.remediations > AutoResumeMax THEN "flag" ELSE "resume"
    [] transfer = "complete" -> "run"
    [] OTHER -> "pass"

\* Mutant: completions are left to the webhook.
TransferRuleNoRun(row, transfer) ==
  CASE transfer = "absent" -> "flag"
    [] transfer = "error" ->
         IF row.remediations >= AutoResumeMax THEN "flag" ELSE "resume"
    [] OTHER -> "pass"

TransferRule(row, transfer) ==
  CASE transfer = "absent" -> "flag"
    [] transfer = "error" ->
         IF row.remediations >= AutoResumeMax THEN "flag" ELSE "resume"
    [] transfer = "complete" -> "run"
    [] transfer = "downloading" ->
         IF row.status = "DOWNLOAD_SUBMITTED" THEN "advance" ELSE "pass"
    [] OTHER -> "pass"

\* Mutant: a flagged row is retried like a failed one.
RuleFlagged(row, seen) ==
  IF row.status \in {"FAILED", "NEEDS_ATTENTION"} THEN FailedRule(row) ELSE "pass"

\* The rows of a running pipeline have no rule either.
Rule(row, seen) ==
  IF row.status \in Terminal THEN "pass"
  ELSE IF row.status = "FAILED" THEN FailedRule(row)
  ELSE IF row.status \in AwaitingDownload /\ row.hash # NoHash
       THEN TransferRule(row, seen[row.hash])
       ELSE "pass"

Judge(row, seen) ==
  IF Rule(row, seen) = "pass" THEN Pass
  ELSE [rule |-> Rule(row, seen), hash |-> row.hash, remediations |-> row.remediations]

-----------------------------------------------------------------------------
\* The transfers are read ...
PollAsk ==
  /\ poll.pc = "idle"
  /\ poll' = [PollIdle EXCEPT !.pc = "asked", !.seen = qbt]
  /\ UNCHANGED <<downloaderVars, workerVars, storeVars>>

\* ... or the read fails and the tick is skipped.
PollSkip ==
  /\ poll.pc = "asked"
  /\ poll' = PollIdle
  /\ UNCHANGED <<downloaderVars, workerVars, storeVars>>

PollList ==
  /\ poll.pc = "asked"
  /\ poll' = [PollIdle EXCEPT !.pc = "sweep",
                              !.todo = [j \in JobIds |-> Judge(jobs[j], poll.seen)]]
  /\ UNCHANGED <<downloaderVars, workerVars, storeVars>>

\* The sweep is at row j; no pipeline it started is still running.
At(j, pc) ==
  /\ poll.pc = pc
  /\ tasks[Poller] = Idle
  /\ poll.todo[j] # Pass
  /\ \A i \in JobIds : i > j => poll.todo[i] = Pass

\* Row j is done with.
Handled(j) == poll' = [poll EXCEPT !.pc = "sweep", !.todo[j] = Pass]

PollFlag(j) ==
  /\ At(j, "sweep")
  /\ poll.todo[j].rule = "flag"
  /\ jobs' = [jobs EXCEPT ![j].status = "NEEDS_ATTENTION"]
  /\ Handled(j)
  /\ UNCHANGED <<downloaderVars, workerVars, saved, submission>>

\* worker.process, on the hash of the listed row: a retry, or a completion missed.
PollProcess(j) ==
  /\ At(j, "sweep")
  /\ poll.todo[j].rule \in {"retry", "run"}
  /\ Enter(Poller, poll.todo[j].hash, jobs)
  /\ Handled(j)
  /\ UNCHANGED <<downloaderVars, library, saved, submission>>

PollAdvance(j) ==
  /\ At(j, "sweep")
  /\ poll.todo[j].rule = "advance"
  /\ AdvanceToDownloading(j)
  /\ Handled(j)
  /\ UNCHANGED <<downloaderVars, workerVars, saved, submission>>

\* _resume: ask the downloader, then count it.
PollResume(j) ==
  /\ At(j, "sweep")
  /\ poll.todo[j].rule = "resume"
  /\ poll' = [poll EXCEPT !.pc = "resume"]
  /\ UNCHANGED <<downloaderVars, workerVars, storeVars>>

ResumeTransfer(j) ==
  /\ At(j, "resume")
  /\ Resume(poll.todo[j].hash)
  /\ poll' = [poll EXCEPT !.pc = "resumed"]
  /\ UNCHANGED <<staged, hooks, workerVars, storeVars>>

CountResume(j) ==
  /\ At(j, "resumed")
  /\ jobs' = [jobs EXCEPT ![j].remediations = poll.todo[j].remediations + 1]
  /\ Handled(j)
  /\ UNCHANGED <<downloaderVars, workerVars, saved, submission>>

\* The call fails, before or after its effect: the row is skipped, nothing is counted.
ResumeFails(j) ==
  /\ At(j, "resume") \/ At(j, "resumed")
  /\ Handled(j)
  /\ UNCHANGED <<downloaderVars, workerVars, storeVars>>

PollEnd ==
  /\ poll.pc = "sweep"
  /\ tasks[Poller] = Idle
  /\ \A j \in JobIds : poll.todo[j] = Pass
  /\ poll' = PollIdle
  /\ UNCHANGED <<downloaderVars, workerVars, storeVars>>

ApplyRule(j) ==
  \/ PollFlag(j) \/ PollProcess(j) \/ PollAdvance(j)
  \/ PollResume(j) \/ ResumeTransfer(j) \/ CountResume(j) \/ ResumeFails(j)

PollStep == PollAsk \/ PollSkip \/ PollList \/ PollEnd \/ \E j \in JobIds : ApplyRule(j)
=============================================================================
