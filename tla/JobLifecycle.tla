---------------------------- MODULE JobLifecycle ----------------------------
(***************************************************************************)
(* What the pipeline promises of every job, whatever happens inside: the   *)
(* row is created once, opens with its creation and never goes away; it is *)
(* worked on while it is open; finished (DONE) or deleted, it may be opened*)
(* again only by one who held it already, and once nobody holds it that is *)
(* final: nobody takes a closed job up.  (JobStatus in store/jobs.py,      *)
(* process and its early return in services/worker.py.)                    *)
(*                                                                         *)
(* Jobs are independent: a step moves any number of them, each by an action*)
(* of its own (a restart lets go of all of them at once).                  *)
(***************************************************************************)
CONSTANT Jobs

VARIABLES
  stage,  \* job -> "absent", "open" or "closed"
  held    \* job -> a coroutine or the sweep is suspended with the row in hand

vars == <<stage, held>>

Init ==
  /\ stage = [j \in Jobs |-> "absent"]
  /\ held = [j \in Jobs |-> FALSE]

Create(j) ==
  /\ stage[j] = "absent"
  /\ stage'[j] = "open"

Work(j) ==
  /\ stage[j] = "open"
  /\ stage'[j] \in {"open", "closed"}

\* Whoever holds a closed job may finish what they began, and let go of it.
Finish(j) ==
  /\ stage[j] = "closed" /\ held[j]
  /\ stage'[j] \in {"open", "closed"}

Rest(j) ==
  /\ stage'[j] = stage[j]
  /\ held'[j] = held[j]

Next ==
  /\ stage' \in [Jobs -> {"absent", "open", "closed"}]
  /\ held' \in [Jobs -> BOOLEAN]
  /\ \A j \in Jobs : Create(j) \/ Work(j) \/ Finish(j) \/ Rest(j)

Spec == Init /\ [][Next]_vars
=============================================================================
