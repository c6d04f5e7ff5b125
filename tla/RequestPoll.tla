---------------------------- MODULE RequestPoll ----------------------------
(***************************************************************************)
(* One title between Jellyfin and the orchestrator: its Discover           *)
(* placeholder, the favorites users put on it, its row of jellyfin_request *)
(* (store/requests.py), and the poll that turns the one into the other     *)
(* (services/requests.py), woken by Jellyfin's webhook                     *)
(* (routers/jellyfin_events.py).                                           *)
(*                                                                         *)
(* The poll is one coroutine and the only writer of the request row.  A    *)
(* pass reads the library, the placeholders and each user's favorites at   *)
(* different awaits, and acts on those readings for as long as the pass    *)
(* lasts; the pc names the await, or the point between two titles, where   *)
(* it is.  Downstream services, users, the follow poll and the pipeline    *)
(* act in between (Discover).  The title is a movie or a show; years and   *)
(* names decide nothing.                                                   *)
(***************************************************************************)
EXTENDS Integers, FiniteSets

CONSTANTS
  Users,      \* setting jellyfin_request_users
  JobIds,     \* bound: rows the job table may hold for the title
  MaxFaults,  \* bound: calls of the poll that fail, and restarts
  MaxEvents   \* bound: what users, jobs, library and reconcile do, in all

ASSUME RequestPollAssumption ==
  /\ IsFiniteSet(Users)
  /\ IsFiniteSet(JobIds)
  /\ MaxFaults \in Nat
  /\ MaxEvents \in Nat

VARIABLES
  media,        \* "movie" or "show"
  library,      \* the title is in the library
  placeholder,  \* its placeholder's state, "none" without one
  favorites,    \* users who hold the favorite
  watch,        \* kind of its watchlist row
  jobs,         \* row -> where the title's job is
  request,      \* its row of jellyfin_request
  wake,         \* the poll's wake event is set
  poll,         \* where the pass is, and what it has read
  faults, events,
  picked,       \* history: rows submitted for the open request and not given up since
  pending,      \* history: users with a delivered event whose favorites were not read since
  dropped,      \* history: users who dropped the favorite and had not got it back by the pass
  stranded,     \* history: the placeholder was not given up with the request, a call having failed
  written,      \* history: the poll wrote the placeholder since the reconcile read it
  swept         \* history: the reconcile removed it under an open or a coming request

title == <<media, library, placeholder, favorites, watch, jobs>>
pollHistory == <<picked, pending, dropped, stranded, written, swept>>
pollVars == <<title, request, wake, poll, faults, events, pollHistory>>

PlaceholderState == {"none", "available", "requested", "downloading", "not_found"}
OpenStatuses == {"requested", "submitted", "not_found"}
RequestStatus == OpenStatuses \cup {"none", "closed", "cancelled"}

\* DOWNLOAD_SUBMITTED to SCAN; FAILED or NEEDS_ATTENTION; DONE; DELETED or DISMISSED.
JobState == {"none", "active", "stuck", "done", "gone"}

\* due: never tried, or tried at least jellyfin_request_retry_hours ago.
Request == [status : RequestStatus, users : SUBSET Users, due : BOOLEAN]

PollPc ==
  {"wait", "settle", "library", "placeholders", "favorites", "file", "resolve", "cancel",
   "free", "act", "pick", "download", "check", "put", "delete"}

\* library, shown, favs: as read, while they are still of use.  complete: no user's
\* favorites failed.  unread: users whose favorites are still to be read.  state: the
\* state being written; job: the row being submitted.
Poll ==
  [pc : PollPc, library : BOOLEAN, shown : PlaceholderState, favs : SUBSET Users,
   complete : BOOLEAN, unread : SUBSET Users, state : PlaceholderState,
   job : SUBSET JobIds]
Waiting ==
  [pc |-> "wait", library |-> FALSE, shown |-> "none", favs |-> {}, complete |-> TRUE,
   unread |-> {}, state |-> "none", job |-> {}]

PollTypeOK ==
  /\ media \in {"movie", "show"}
  /\ library \in BOOLEAN
  /\ placeholder \in PlaceholderState
  /\ favorites \subseteq Users
  /\ watch \in {"none", "saved", "following"}
  /\ jobs \in [JobIds -> JobState]
  /\ request \in Request
  /\ wake \in BOOLEAN
  /\ poll \in Poll
  /\ faults \in 0 .. MaxFaults
  /\ events \in 0 .. MaxEvents
  /\ picked \subseteq JobIds
  /\ pending \subseteq Users
  /\ dropped \subseteq Users
  /\ stranded \in BOOLEAN
  /\ written \in BOOLEAN
  /\ swept \in BOOLEAN

PollInit ==
  /\ media \in {"movie", "show"}
  /\ library = FALSE
  /\ placeholder = "available"
  /\ favorites = {}
  /\ watch = "none"
  /\ jobs = [j \in JobIds |-> "none"]
  /\ request = [status |-> "none", users |-> {}, due |-> TRUE]
  /\ wake = FALSE
  /\ poll = Waiting
  /\ faults = 0 /\ events = 0
  /\ picked = {} /\ pending = {} /\ dropped = {}
  /\ stranded = FALSE /\ written = FALSE /\ swept = FALSE

Open == request.status \in OpenStatuses

\* Mutant: the placeholder is given the status of the request itself.
DerivedIsStatus(row, rows) == row.status

Derived(row, rows) ==
  IF row.status = "not_found" THEN "not_found"
  ELSE IF row.status = "submitted" /\ \E j \in JobIds : rows[j] = "active"
       THEN "downloading"
  ELSE "requested"

\* Mutant: a failed job is as good as given up.
AbandonedOrFailed ==
  /\ \E j \in JobIds : jobs[j] # "none"
  /\ \A j \in JobIds : jobs[j] \in {"none", "gone", "stuck"}

Abandoned ==
  /\ \E j \in JobIds : jobs[j] # "none"
  /\ \A j \in JobIds : jobs[j] \in {"none", "gone"}

NewRow(j) == jobs[j] = "none"
Saved == IF watch = "none" THEN "saved" ELSE watch

\* What is known of a user's placeholder favorites: nothing is promised of the favorites
\* on a placeholder that is gone.
Listings == IF placeholder = "none" THEN {{}, favorites} ELSE {favorites}

-----------------------------------------------------------------------------
(* The wait. *)

\* A pass begins; only those who hold no favorite now count as having dropped theirs.
Begin ==
  /\ poll' = [Waiting EXCEPT !.pc = "library"]
  /\ dropped' = dropped \ favorites
  /\ swept' = (swept /\ Open)
  /\ UNCHANGED <<title, request, faults, events, picked, pending, stranded, written>>

TimerRings ==
  /\ poll.pc = "wait"
  /\ Begin
  /\ UNCHANGED wake

Wakes ==
  /\ poll.pc = "wait"
  /\ wake
  /\ poll' = [poll EXCEPT !.pc = "settle"]
  /\ UNCHANGED <<title, request, wake, faults, events, pollHistory>>

Settled ==
  /\ poll.pc = "settle"
  /\ wake' = FALSE
  /\ Begin

-----------------------------------------------------------------------------
(* The readings. *)

ReadLibrary ==
  /\ poll.pc = "library"
  /\ poll' = [poll EXCEPT !.pc = "placeholders", !.library = library]
  /\ UNCHANGED <<title, request, wake, faults, events, pollHistory>>

ReadPlaceholders ==
  /\ poll.pc = "placeholders"
  /\ poll' = [poll EXCEPT !.pc = "favorites", !.shown = placeholder, !.unread = Users]
  /\ UNCHANGED <<title, request, wake, faults, events, pollHistory>>

ReadFavorites(u) ==
  /\ poll.pc = "favorites" /\ u \in poll.unread
  /\ \E held \in Listings :
       poll' = [poll EXCEPT !.favs = @ \cup ({u} \cap held), !.unread = @ \ {u}]
  /\ pending' = pending \ {u}
  /\ UNCHANGED <<title, request, wake, faults, events, picked, dropped, stranded, written,
                 swept>>

\* One user's favorites cannot be read: the event is spent all the same.
FavoritesFail(u) ==
  /\ poll.pc = "favorites" /\ u \in poll.unread
  /\ poll' = [poll EXCEPT !.complete = FALSE, !.unread = @ \ {u}]
  /\ pending' = pending \ {u}
  /\ faults' = faults + 1
  /\ UNCHANGED <<title, request, wake, events, picked, dropped, stranded, written,
                 swept>>

\* Mutant: the wake event is cleared once the favorites were read.
FavoritesReadAndClear ==
  /\ poll.pc = "favorites" /\ poll.unread = {}
  /\ poll' = [poll EXCEPT !.pc = "file"]
  /\ wake' = FALSE
  /\ UNCHANGED <<title, request, faults, events, pollHistory>>

FavoritesRead ==
  /\ poll.pc = "favorites" /\ poll.unread = {}
  /\ poll' = [poll EXCEPT !.pc = "file"]
  /\ UNCHANGED <<title, request, wake, faults, events, pollHistory>>

-----------------------------------------------------------------------------
(* Filing and cancelling. *)

\* A favorite on an open request joins it; one on a placeholder files a request, once
\* its title is looked up.
File ==
  /\ poll.pc = "file"
  /\ IF Open \/ poll.favs = {} \/ poll.shown = "none"
     THEN /\ poll' = [poll EXCEPT !.pc = "cancel"]
          /\ request' = IF Open THEN [request EXCEPT !.users = @ \cup poll.favs]
                                ELSE request
     ELSE /\ poll' = [poll EXCEPT !.pc = "resolve"]
          /\ UNCHANGED request
  /\ UNCHANGED <<title, wake, faults, events, pollHistory>>

Filed ==
  /\ poll.pc = "resolve"
  /\ request' = [status |-> "requested", users |-> poll.favs, due |-> TRUE]
  /\ poll' = [poll EXCEPT !.pc = "cancel"]
  /\ picked' = {}
  /\ stranded' = FALSE
  /\ UNCHANGED <<title, wake, faults, events, pending, dropped, written, swept>>

NotFiled ==
  /\ poll.pc = "resolve"
  /\ poll' = [poll EXCEPT !.pc = "cancel"]
  /\ faults' = faults + 1
  /\ UNCHANGED <<title, request, wake, events, pollHistory>>

\* Mutant: missing data counts as nobody's favorite.
Remaining == request.users \cap poll.favs
SomeoneLeftIncomplete == Open /\ Remaining # request.users

SomeoneLeft == Open /\ poll.complete /\ Remaining # request.users

\* The last requester leaving before anything was submitted cancels the request.
Cancels == SomeoneLeft /\ Remaining = {} /\ request.status # "submitted"

Cancel ==
  /\ poll.pc = "cancel"
  /\ Cancels
  /\ request' = [request EXCEPT !.status = "cancelled", !.users = {}]
  /\ watch' = IF watch = "saved" THEN "none" ELSE watch
  /\ poll' = IF poll.shown \in {"none", "available"} THEN Waiting
             ELSE [Waiting EXCEPT !.pc = "free"]
  /\ UNCHANGED <<media, library, placeholder, favorites, jobs, wake, faults, events,
                 pollHistory>>

KeepOpen ==
  /\ poll.pc = "cancel"
  /\ ~Cancels
  /\ request' = IF SomeoneLeft THEN [request EXCEPT !.users = Remaining] ELSE request
  /\ poll' = IF Open THEN [poll EXCEPT !.pc = "act", !.favs = {}, !.complete = TRUE]
             ELSE Waiting
  /\ UNCHANGED <<title, wake, faults, events, pollHistory>>

FreePlaceholder ==
  /\ poll.pc = "free"
  /\ placeholder' = "available"
  /\ poll' = Waiting
  /\ written' = TRUE
  /\ UNCHANGED <<media, library, favorites, watch, jobs, request, wake, faults, events,
                 picked, pending, dropped, stranded, swept>>

-----------------------------------------------------------------------------
(* Acting on an open request, and showing its state. *)

\* Mutant: an existing placeholder is taken to be right.
ShowStateOfNew(row, rows) ==
  IF row.status = "closed"
  THEN IF poll.shown = "none" THEN Waiting ELSE [Waiting EXCEPT !.pc = "delete"]
  ELSE IF poll.shown # "none" THEN Waiting
  ELSE [Waiting EXCEPT !.pc = "put", !.state = Derived(row, rows)]

\* Where the pass goes with the request's row after the request was acted on: its
\* placeholder is written when its state changed since it was read.
ShowState(row, rows) ==
  IF row.status = "closed"
  THEN IF poll.shown = "none" THEN Waiting ELSE [Waiting EXCEPT !.pc = "delete"]
  ELSE IF poll.shown = Derived(row, rows) THEN Waiting
  ELSE [Waiting EXCEPT !.pc = "put", !.state = Derived(row, rows)]

Becomes(row) ==
  /\ request' = row
  /\ poll' = ShowState(row, jobs)

InLibrary ==
  /\ poll.pc = "act" /\ poll.library
  /\ Becomes([request EXCEPT !.status = "closed"])
  /\ UNCHANGED <<title, wake, faults, events, pollHistory>>

GivenUp == media = "movie" /\ request.status = "submitted" /\ Abandoned
Due ==
  /\ media = "movie"
  /\ \/ request.status = "requested"
     \/ request.status = "not_found" /\ request.due

MovieAbandoned ==
  /\ poll.pc = "act" /\ ~poll.library
  /\ GivenUp
  /\ Becomes([request EXCEPT !.status = "not_found", !.due = FALSE])
  /\ UNCHANGED <<title, wake, faults, events, pollHistory>>

NothingToDo ==
  /\ poll.pc = "act" /\ ~poll.library
  /\ ~GivenUp /\ ~Due
  /\ media = "show" => request.status # "requested"
  /\ Becomes(request)
  /\ UNCHANGED <<title, wake, faults, events, pollHistory>>

\* The movie is saved, and a torrent asked for.
PickMovie ==
  /\ poll.pc = "act" /\ ~poll.library
  /\ Due
  /\ watch' = Saved
  /\ poll' = [poll EXCEPT !.pc = "pick"]
  /\ UNCHANGED <<media, library, placeholder, favorites, jobs, request, wake, faults,
                 events, pollHistory>>

PickNone ==
  /\ poll.pc = "pick"
  /\ Becomes([request EXCEPT !.status = "not_found", !.due = FALSE])
  /\ UNCHANGED <<title, wake, faults, events, pollHistory>>

PickFound ==
  /\ poll.pc = "pick"
  /\ \E j \in JobIds :
       /\ NewRow(j)
       /\ jobs' = [jobs EXCEPT ![j] = "active"]
       /\ poll' = [poll EXCEPT !.pc = "download", !.job = {j}]
       /\ picked' = picked \cup {j}
  /\ UNCHANGED <<media, library, placeholder, favorites, watch, request, wake, faults,
                 events, pending, dropped, stranded, written, swept>>

\* The downloader answers; when it already has the torrent for another row, ours fails.
Submitted ==
  /\ poll.pc = "download"
  /\ \E rows \in {jobs, [j \in JobIds |-> IF j \in poll.job THEN "stuck" ELSE jobs[j]]} :
       LET row == [request EXCEPT !.status = "submitted", !.due = FALSE] IN
       /\ jobs' = rows
       /\ request' = row
       /\ poll' = ShowState(row, rows)
  /\ UNCHANGED <<media, library, placeholder, favorites, watch, wake, faults, events,
                 pollHistory>>

\* A show is followed, unless it is already, and the request counts as submitted.
FollowShow ==
  /\ poll.pc = "act" /\ ~poll.library
  /\ media = "show" /\ request.status = "requested"
  /\ watch' = "following"
  /\ request' = [request EXCEPT !.status = "submitted"]
  /\ poll' = [poll EXCEPT !.pc = "check"]
  /\ UNCHANGED <<media, library, placeholder, favorites, jobs, wake, faults, events,
                 pollHistory>>

\* The first check of the follow submits something or nothing; an error of it is logged.
Checked ==
  /\ poll.pc = "check"
  /\ \E new \in {{}} \cup {{j} : j \in JobIds} :
       /\ \A j \in new : NewRow(j)
       /\ jobs' = [j \in JobIds |-> IF j \in new THEN "active" ELSE jobs[j]]
       /\ poll' = ShowState(request, jobs')
  /\ UNCHANGED <<media, library, placeholder, favorites, watch, request, wake, faults,
                 events, pollHistory>>

PutPlaceholder ==
  /\ poll.pc = "put"
  /\ placeholder' = poll.state
  /\ poll' = Waiting
  /\ written' = TRUE
  /\ UNCHANGED <<media, library, favorites, watch, jobs, request, wake, faults, events,
                 picked, pending, dropped, stranded, swept>>

\* What becomes of a favorite whose placeholder is removed is Jellyfin's affair.
DeletePlaceholder ==
  /\ poll.pc = "delete"
  /\ placeholder' = "none"
  /\ favorites' \in {favorites, {}}
  /\ poll' = Waiting
  /\ written' = TRUE
  /\ UNCHANGED <<media, library, watch, jobs, request, wake, faults, events, picked,
                 pending, dropped, stranded, swept>>

\* Another call of the pass fails: the pass, or its work on this title, ends where it is.
CallFails ==
  /\ poll.pc \in {"library", "placeholders", "free", "pick", "download", "put", "delete"}
  /\ faults' = faults + 1
  /\ poll' = Waiting
  /\ pending' = IF poll.pc \in {"library", "placeholders"} THEN {} ELSE pending
  /\ stranded' = (stranded \/ poll.pc \in {"free", "delete"})
  /\ UNCHANGED <<title, request, wake, events, picked, dropped, written, swept>>

PollSteps ==
  \/ ReadLibrary \/ ReadPlaceholders \/ FavoritesRead
  \/ \E u \in Users : ReadFavorites(u)
  \/ File \/ Filed \/ Cancel \/ KeepOpen \/ FreePlaceholder
  \/ InLibrary \/ MovieAbandoned \/ NothingToDo
  \/ PickMovie \/ PickNone \/ PickFound \/ Submitted
  \/ FollowShow \/ Checked
  \/ PutPlaceholder \/ DeletePlaceholder

PollFaults ==
  /\ faults < MaxFaults
  /\ \/ \E u \in Users : FavoritesFail(u)
     \/ NotFiled
     \/ CallFails
=============================================================================
