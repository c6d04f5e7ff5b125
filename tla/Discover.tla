------------------------------ MODULE Discover ------------------------------
(***************************************************************************)
(* The Discover shelf: the request poll (RequestPoll) together with the    *)
(* reconcile that adds and removes placeholders                            *)
(* (services/discover_reconcile.py), the users, the title's jobs, its      *)
(* watchlist row, and restarts.                                            *)
(*                                                                         *)
(* Poll and reconcile are two coroutines over the same placeholders.  The  *)
(* reconcile plans on what it read and writes later.                       *)
(***************************************************************************)
EXTENDS RequestPoll

VARIABLE reconcile  \* where the reconcile is, and what it has read

vars == <<pollVars, reconcile>>

\* shown: the placeholder as read; plan: the write it decided on.
Reconcile ==
  [pc : {"wait", "library", "placeholders", "sources", "apply"}, library : BOOLEAN,
   shown : PlaceholderState, plan : {"none", "add", "remove"}]
Resting == [pc |-> "wait", library |-> FALSE, shown |-> "none", plan |-> "none"]

TypeOK == PollTypeOK /\ reconcile \in Reconcile
Init == PollInit /\ reconcile = [Resting EXCEPT !.pc = "library"]

-----------------------------------------------------------------------------
(* The reconcile. *)

Event == events < MaxEvents /\ events' = events + 1

ReconcileBegins ==
  /\ Event
  /\ reconcile.pc = "wait"
  /\ reconcile' = [Resting EXCEPT !.pc = "library"]
  /\ UNCHANGED <<title, request, wake, poll, faults, pollHistory>>

ReconcileReadsLibrary ==
  /\ reconcile.pc = "library"
  /\ reconcile' = [reconcile EXCEPT !.pc = "placeholders", !.library = library]
  /\ UNCHANGED pollVars

ReconcileReadsPlaceholders ==
  /\ reconcile.pc = "placeholders"
  /\ reconcile' = [reconcile EXCEPT !.pc = "sources", !.shown = placeholder]
  /\ written' = FALSE
  /\ UNCHANGED <<title, request, wake, poll, faults, events, picked, pending, dropped,
                 stranded, swept>>

\* Mutant: any placeholder no longer desired is removed.
PlanReconcileAny(desired, complete) ==
  IF desired /\ reconcile.shown = "none" THEN "add"
  ELSE IF complete /\ reconcile.shown # "none" /\ ~desired THEN "remove"
  ELSE "none"

PlanReconcile(desired, complete) ==
  IF desired /\ reconcile.shown = "none" THEN "add"
  ELSE IF complete /\ reconcile.shown = "available" /\ ~desired THEN "remove"
  ELSE "none"

\* The watchlist is read before the other sources.  listed: one of those names the title.
Plan ==
  /\ reconcile.pc = "sources"
  /\ \E listed, complete \in BOOLEAN :
       LET desired == (watch # "none" \/ listed) /\ ~reconcile.library
           plan == PlanReconcile(desired, complete) IN
       reconcile' = IF plan = "none" THEN Resting
                    ELSE [reconcile EXCEPT !.pc = "apply", !.plan = plan]
  /\ UNCHANGED pollVars

AddPlaceholder ==
  /\ reconcile.plan = "add"
  /\ placeholder' = "available"
  /\ reconcile' = Resting
  /\ UNCHANGED <<media, library, favorites, watch, jobs, request, wake, poll, faults,
                 events, pollHistory>>

RemovePlaceholder ==
  /\ reconcile.plan = "remove"
  /\ placeholder' = "none"
  /\ favorites' \in {favorites, {}}
  /\ reconcile' = Resting
  /\ swept' = (swept \/ Open \/ poll.shown # "none")
  /\ UNCHANGED <<media, library, watch, jobs, request, wake, poll, faults, events,
                 picked, pending, dropped, stranded, written>>

\* A read fails and the pass is skipped, or a write fails and is.
ReconcileFails ==
  /\ reconcile.pc \in {"library", "placeholders", "apply"}
  /\ reconcile' = Resting
  /\ UNCHANGED pollVars

ReconcileSteps ==
  \/ ReconcileBegins \/ ReconcileReadsLibrary \/ ReconcileReadsPlaceholders
  \/ Plan \/ AddPlaceholder \/ RemovePlaceholder \/ ReconcileFails

-----------------------------------------------------------------------------
(* Users, jobs, library and watchlist, as the two see them. *)

Elsewhere == UNCHANGED <<request, poll, faults, written, swept, reconcile>>

\* The plugin's webhook is delivered, and wakes the poll, or is not.
Notify(u) ==
  \/ wake' = TRUE /\ pending' = pending \cup {u}
  \/ UNCHANGED <<wake, pending>>

Favorite(u) ==
  /\ Event
  /\ placeholder # "none" /\ u \notin favorites
  /\ favorites' = favorites \cup {u}
  /\ Notify(u)
  /\ UNCHANGED <<media, library, placeholder, watch, jobs, picked, dropped, stranded>>
  /\ Elsewhere

Unfavorite(u) ==
  /\ Event
  /\ u \in favorites
  /\ favorites' = favorites \ {u}
  /\ dropped' = dropped \cup {u}
  /\ Notify(u)
  /\ UNCHANGED <<media, library, placeholder, watch, jobs, picked, stranded>>
  /\ Elsewhere

\* A job fails or is flagged; is retried, or a dismissed one is taken up again; is deleted
\* or dismissed.
JobBecomes(j, state) ==
  /\ Event
  /\ \/ jobs[j] = "active" /\ state = "stuck"
     \/ jobs[j] \in {"stuck", "gone"} /\ state = "active"
     \/ jobs[j] \in {"active", "stuck", "done"} /\ state = "gone"
  /\ jobs' = [jobs EXCEPT ![j] = state]
  /\ picked' = IF state = "gone" THEN picked \ {j} ELSE picked
  /\ library' \in IF jobs[j] = "done" THEN {library, FALSE} ELSE {library}
  /\ UNCHANGED <<media, placeholder, favorites, watch, wake, pending, dropped, stranded>>
  /\ Elsewhere

\* The pipeline is done: a title that was only saved leaves the watchlist.
JobDone(j) ==
  /\ Event
  /\ jobs[j] = "active"
  /\ jobs' = [jobs EXCEPT ![j] = "done"]
  /\ watch' = IF watch = "saved" THEN "none" ELSE watch
  /\ library' \in {library, TRUE}
  /\ UNCHANGED <<media, placeholder, favorites, wake, picked, pending, dropped, stranded>>
  /\ Elsewhere

\* Jellyfin finds the files of a finished job.
Scanned ==
  /\ Event
  /\ ~library /\ \E j \in JobIds : jobs[j] = "done"
  /\ library' = TRUE
  /\ UNCHANGED <<media, placeholder, favorites, watch, jobs, wake, picked, pending,
                 dropped, stranded>>
  /\ Elsewhere

\* POST /download, or the follow poll for a show that is followed.
Download(j) ==
  /\ Event
  /\ NewRow(j)
  /\ jobs' = [jobs EXCEPT ![j] = "active"]
  /\ UNCHANGED <<media, library, placeholder, favorites, watch, wake, picked, pending,
                 dropped, stranded>>
  /\ Elsewhere

\* The watchlist endpoints.
SetWatch(kind) ==
  /\ Event
  /\ kind # watch
  /\ kind = "following" => media = "show" /\ watch = "saved"
  /\ watch' = kind
  /\ UNCHANGED <<media, library, placeholder, favorites, jobs, wake, picked, pending,
                 dropped, stranded>>
  /\ Elsewhere

\* jellyfin_request_retry_hours have passed since the last try.
RetryDue ==
  /\ Event
  /\ ~request.due
  /\ request' = [request EXCEPT !.due = TRUE]
  /\ UNCHANGED <<title, wake, poll, faults, picked, pending, dropped, stranded, written,
                 swept, reconcile>>

\* Both coroutines and the wake event are lost; the reconcile begins at once, the poll
\* after its interval.
Restart ==
  /\ faults < MaxFaults
  /\ faults' = faults + 1
  /\ wake' = FALSE
  /\ poll' = Waiting
  /\ pending' = {}
  /\ stranded' = (stranded \/ poll.pc \in {"free", "delete"})
  /\ reconcile' = [Resting EXCEPT !.pc = "library"]
  /\ UNCHANGED <<title, request, events, picked, dropped, written, swept>>

World ==
  \/ \E u \in Users : Favorite(u) \/ Unfavorite(u)
  \/ \E j \in JobIds : JobDone(j) \/ Download(j)
  \/ \E j \in JobIds, state \in JobState : JobBecomes(j, state)
  \/ \E kind \in {"none", "saved", "following"} : SetWatch(kind)
  \/ Scanned \/ RetryDue

Next ==
  \/ (TimerRings \/ Wakes \/ Settled \/ PollSteps \/ PollFaults) /\ UNCHANGED reconcile
  \/ ReconcileSteps
  \/ World
  \/ Restart

\* The poll's loop goes on, and its timer rings in the end.
Fairness ==
  WF_vars((TimerRings \/ Wakes \/ Settled \/ PollSteps) /\ UNCHANGED reconcile)

Spec == Init /\ [][Next]_vars /\ Fairness

-----------------------------------------------------------------------------
(* Properties. *)

\* One filing of a request has one pick under way: a second is submitted only once the
\* first was deleted or dismissed, whatever else is downloaded, whoever leaves and joins,
\* and however stale the readings of the pass.  A call that failed, or a restart, after
\* the row was created and before the request was updated, is what breaks it, once each.
OnePick == Cardinality(picked) <= 1 + faults

\* "Nobody is cancelled on missing data" (requests.py:157): when a request is cancelled,
\* each of its users dropped the favorite, unless the placeholder went meanwhile.
NobodyCancelled ==
  [][request.status # "cancelled" /\ request'.status = "cancelled" =>
       request.users \subseteq dropped \/ swept]_vars

\* A delivered webhook is not lost: until the favorites it is about are read, the wake
\* event is set or a pass is on its way to read them.
EventsAreRead ==
  \A u \in pending :
    wake \/ poll.pc \in {"settle", "library", "placeholders"} \/ u \in poll.unread

\* "A placeholder whose state is not available belongs to a request and is never removed
\* here" (discover_reconcile.py): unless the poll wrote it after the reconcile read it.
InFlightKept ==
  [][reconcile.plan = "remove" /\ placeholder' = "none" /\ UNCHANGED poll =>
       placeholder \in {"none", "available"} \/ written]_vars

\* In the end the placeholder shows where its request is, and one without an open
\* request is no longer taken, unless the call that should have given it up failed.
Agree ==
  IF Open THEN placeholder = Derived(request, jobs)
          ELSE placeholder \in {"none", "available"} \/ stranded
Settles == <>[]Agree
=============================================================================
