--------------------------- MODULE DiscoverProofs ---------------------------
(***************************************************************************)
(* What holds of the Discover shelf for any number of users, rows, faults  *)
(* and events: types, events that are read, one pick per request, nobody   *)
(* cancelled on missing data, and no placeholder removed under a request.  *)
(***************************************************************************)
EXTENDS Discover, FiniteSetTheorems, TLAPS

-----------------------------------------------------------------------------
(* Types. *)

LEMMA DerivedType == \A row, rows : Derived(row, rows) \in PlaceholderState
BY DEF Derived, PlaceholderState

LEMMA WaitingType == Waiting \in Poll
BY DEF Waiting, Poll, PollPc, PlaceholderState

LEMMA ShowStateType == poll \in Poll => \A row, rows : ShowState(row, rows) \in Poll
<1> SUFFICES ASSUME NEW row, NEW rows PROVE ShowState(row, rows) \in Poll OBVIOUS
<1>1. \A s \in PlaceholderState : [Waiting EXCEPT !.pc = "put", !.state = s] \in Poll
  BY DEF Waiting, Poll, PollPc, PlaceholderState
<1>2. [Waiting EXCEPT !.pc = "delete"] \in Poll
  BY DEF Waiting, Poll, PollPc, PlaceholderState
<1> QED BY <1>1, <1>2, WaitingType, DerivedType DEF ShowState

LEMMA NextTypeOK == TypeOK /\ [Next]_vars => TypeOK'
<1> SUFFICES ASSUME TypeOK, [Next]_vars PROVE TypeOK' OBVIOUS
<1> USE RequestPollAssumption DEF RequestPollAssumption, TypeOK, PollTypeOK
<1>1. CASE UNCHANGED vars
  BY <1>1 DEF vars, pollVars, title, pollHistory
<1>2. CASE (TimerRings \/ Wakes \/ Settled) /\ UNCHANGED reconcile
  <2>1. [Waiting EXCEPT !.pc = "library"] \in Poll
    BY DEF Waiting, Poll, PollPc, PlaceholderState
  <2>2. [poll EXCEPT !.pc = "settle"] \in Poll
    BY DEF Poll, PollPc
  <2>3. CASE TimerRings
    BY <1>2, <2>1, <2>3 DEF TimerRings, Begin, title, pollHistory
  <2>4. CASE Wakes
    BY <1>2, <2>2, <2>4 DEF Wakes, title, pollHistory
  <2>5. CASE Settled
    BY <1>2, <2>1, <2>5 DEF Settled, Begin, title, pollHistory
  <2> QED BY <1>2, <2>3, <2>4, <2>5
<1>3. CASE PollSteps /\ UNCHANGED reconcile
  <2>1. poll' \in Poll
    <3> USE DEF Poll, PollPc
    <3>1. CASE ReadLibrary \/ ReadPlaceholders \/ FavoritesRead \/ PickMovie \/ FollowShow
      <4>1. CASE ReadLibrary
        BY <4>1 DEF ReadLibrary
      <4>2. CASE ReadPlaceholders
        BY <4>2 DEF ReadPlaceholders
      <4>3. CASE FavoritesRead
        BY <4>3 DEF FavoritesRead
      <4>4. CASE PickMovie
        BY <4>4 DEF PickMovie
      <4>5. CASE FollowShow
        BY <4>5 DEF FollowShow
      <4> QED BY <3>1, <4>1, <4>2, <4>3, <4>4, <4>5
    <3>2. ASSUME NEW u \in Users, ReadFavorites(u) PROVE poll' \in Poll
      <4>1. PICK held : poll' = [poll EXCEPT !.favs = @ \cup ({u} \cap held),
                                            !.unread = @ \ {u}]
        BY <3>2 DEF ReadFavorites
      <4>2. poll.favs \cup ({u} \cap held) \in SUBSET Users /\ poll.unread \ {u} \in SUBSET Users
        OBVIOUS
      <4> HIDE DEF PollPc
      <4> QED BY <4>1, <4>2
    <3>3. CASE File \/ Filed \/ PickFound
      <4>1. CASE File
        BY <4>1 DEF File
      <4>2. CASE Filed
        BY <4>2 DEF Filed
      <4>3. CASE PickFound
        <5>1. PICK j \in JobIds : poll' = [poll EXCEPT !.pc = "download", !.job = {j}]
          BY <4>3 DEF PickFound
        <5> QED BY <5>1
      <4> QED BY <3>3, <4>1, <4>2, <4>3
    <3>4. CASE Cancel \/ FreePlaceholder \/ PutPlaceholder \/ DeletePlaceholder
      BY <3>4, WaitingType DEF Cancel, FreePlaceholder, PutPlaceholder, DeletePlaceholder
    <3>5. CASE KeepOpen
      BY <3>5, WaitingType DEF KeepOpen
    <3>6. CASE InLibrary \/ MovieAbandoned \/ NothingToDo \/ PickNone \/ Submitted \/ Checked
      BY <3>6, ShowStateType
         DEF InLibrary, MovieAbandoned, NothingToDo, PickNone, Becomes, Submitted, Checked
    <3> QED BY <1>3, <3>1, <3>2, <3>3, <3>4, <3>5, <3>6 DEF PollSteps
  <2>2. request' \in Request
    <3> USE DEF Request, RequestStatus, OpenStatuses
    <3>1. poll.favs \in SUBSET Users
      BY DEF Poll
    <3>2. CASE File \/ Filed
      <4>1. request.users \cup poll.favs \in SUBSET Users
        BY <3>1
      <4>2. CASE Filed
        BY <3>1, <4>2 DEF Filed
      <4>3. CASE request' = [request EXCEPT !.users = @ \cup poll.favs]
        BY <4>1, <4>3
      <4>4. CASE request' = request
        BY <4>4
      <4> QED BY <3>2, <4>2, <4>3, <4>4 DEF File
    <3>3. CASE Cancel \/ KeepOpen
      BY <3>1, <3>3 DEF Cancel, KeepOpen, Remaining
    <3>4. CASE InLibrary \/ MovieAbandoned \/ NothingToDo \/ PickNone
      BY <3>4 DEF InLibrary, MovieAbandoned, NothingToDo, PickNone, Becomes
    <3>5. CASE Submitted \/ FollowShow
      BY <3>5 DEF Submitted, FollowShow
    <3>6. CASE UNCHANGED request
      BY <3>6
    <3> QED BY <1>3, <3>2, <3>3, <3>4, <3>5, <3>6
            DEF PollSteps, ReadLibrary, ReadPlaceholders, FavoritesRead, ReadFavorites,
                FreePlaceholder, PickMovie, PickFound, Checked, PutPlaceholder,
                DeletePlaceholder
  <2>3. placeholder' \in PlaceholderState /\ jobs' \in [JobIds -> JobState]
    <3>1. CASE FreePlaceholder \/ PutPlaceholder \/ DeletePlaceholder
      BY <3>1 DEF FreePlaceholder, PutPlaceholder, DeletePlaceholder, PlaceholderState, Poll
    <3>2. CASE PickFound
      BY <3>2 DEF PickFound, JobState
    <3>3. CASE Submitted
      BY <3>3 DEF Submitted, JobState
    <3>4. CASE Checked
      BY <3>4 DEF Checked, JobState
    <3>5. CASE UNCHANGED <<placeholder, jobs>>
      BY <3>5
    <3> QED BY <1>3, <3>1, <3>2, <3>3, <3>4, <3>5
            DEF PollSteps, ReadLibrary, ReadPlaceholders, FavoritesRead, ReadFavorites, File,
                Filed, Cancel, KeepOpen, InLibrary, MovieAbandoned, NothingToDo, PickMovie,
                PickNone, FollowShow, title
  <2>4. /\ favorites' \subseteq Users /\ picked' \subseteq JobIds
        /\ watch' \in {"none", "saved", "following"}
        /\ pending' \subseteq Users
        /\ stranded' \in BOOLEAN /\ written' \in BOOLEAN
        /\ UNCHANGED <<media, library, wake, faults, events, dropped, swept>>
    BY <1>3 DEF PollSteps, ReadLibrary, ReadPlaceholders, FavoritesRead, ReadFavorites, File,
                Filed, Cancel, KeepOpen, FreePlaceholder, InLibrary, MovieAbandoned,
                NothingToDo, PickMovie, Saved, PickNone, PickFound, Submitted, FollowShow,
                Checked, PutPlaceholder, DeletePlaceholder, title, pollHistory
  <2> QED BY <1>3, <2>1, <2>2, <2>3, <2>4
<1>4. CASE PollFaults /\ UNCHANGED reconcile
  <2>1. poll' \in Poll
    <3>1. ASSUME NEW u \in Users, FavoritesFail(u) PROVE poll' \in Poll
      BY <3>1 DEF FavoritesFail, Poll
    <3>2. CASE NotFiled \/ CallFails
      BY <3>2, WaitingType DEF NotFiled, CallFails, Poll, PollPc
    <3> QED BY <1>4, <3>1, <3>2 DEF PollFaults
  <2>2. pending' \subseteq Users /\ stranded' \in BOOLEAN
    BY <1>4 DEF PollFaults, FavoritesFail, NotFiled, CallFails, pollHistory
  <2>3. faults' \in 0 .. MaxFaults
    <3>1. faults < MaxFaults /\ faults' = faults + 1
      BY <1>4 DEF PollFaults, FavoritesFail, NotFiled, CallFails
    <3> QED BY <3>1
  <2>4. UNCHANGED <<title, request, wake, events, picked, dropped, written, swept>>
    BY <1>4 DEF PollFaults, FavoritesFail, NotFiled, CallFails, pollHistory
  <2> QED BY <1>4, <2>1, <2>2, <2>3, <2>4 DEF title
<1>5. CASE ReconcileSteps
  <2>1. CASE ReconcileBegins \/ ReconcileReadsLibrary \/ ReconcileReadsPlaceholders \/ Plan
    <3>1. reconcile' \in Reconcile
      <4> USE DEF Resting, Reconcile
      <4>1. CASE ReconcileBegins
        BY <4>1 DEF ReconcileBegins, PlaceholderState
      <4>2. CASE ReconcileReadsLibrary \/ ReconcileReadsPlaceholders
        BY <4>2 DEF ReconcileReadsLibrary, ReconcileReadsPlaceholders
      <4>3. CASE Plan
        <5>1. PICK plan \in {"none", "add", "remove"} :
                 reconcile' = IF plan = "none" THEN Resting
                              ELSE [reconcile EXCEPT !.pc = "apply", !.plan = plan]
          BY <4>3 DEF Plan, PlanReconcile
        <5> QED BY <5>1 DEF PlaceholderState
      <4> QED BY <2>1, <4>1, <4>2, <4>3
    <3>2. events' \in 0 .. MaxEvents
      <4>1. CASE ReconcileBegins
        BY <4>1 DEF ReconcileBegins, Event
      <4>2. CASE UNCHANGED events
        BY <4>2
      <4> QED BY <2>1, <4>1, <4>2
              DEF ReconcileReadsLibrary, ReconcileReadsPlaceholders, Plan, pollVars
    <3>3. written' \in BOOLEAN
      BY <2>1 DEF ReconcileBegins, ReconcileReadsLibrary, ReconcileReadsPlaceholders, Plan,
                  pollVars, pollHistory
    <3> QED BY <2>1, <3>1, <3>2, <3>3
            DEF ReconcileBegins, ReconcileReadsLibrary, ReconcileReadsPlaceholders, Plan,
                pollVars, title, pollHistory
  <2>2. CASE AddPlaceholder \/ RemovePlaceholder \/ ReconcileFails
    <3>1. reconcile' \in Reconcile
      <4>1. Resting \in Reconcile
        BY DEF Resting, Reconcile, PlaceholderState
      <4> QED BY <2>2, <4>1 DEF AddPlaceholder, RemovePlaceholder, ReconcileFails
    <3>2. swept' \in BOOLEAN /\ favorites' \subseteq Users
      BY <2>2 DEF AddPlaceholder, RemovePlaceholder, ReconcileFails, pollVars, title,
                  pollHistory
    <3> QED BY <2>2, <3>1, <3>2 DEF AddPlaceholder, RemovePlaceholder, ReconcileFails,
                              PlaceholderState, pollVars, title, pollHistory
  <2> QED BY <1>5, <2>1, <2>2 DEF ReconcileSteps
<1>6. CASE World
  <2>1. ASSUME NEW u \in Users, Favorite(u) \/ Unfavorite(u) PROVE TypeOK'
    <3>1. pending' \subseteq Users /\ wake' \in BOOLEAN
      BY <2>1 DEF Favorite, Unfavorite, Notify
    <3>2. favorites' \subseteq Users /\ dropped' \subseteq Users
      BY <2>1 DEF Favorite, Unfavorite
    <3>3. events' \in 0 .. MaxEvents
      BY <2>1 DEF Favorite, Unfavorite, Event
    <3> QED BY <2>1, <3>1, <3>2, <3>3 DEF Favorite, Unfavorite, Elsewhere
  <2>2. ASSUME NEW j \in JobIds, JobDone(j) PROVE TypeOK'
    <3>1. jobs' \in [JobIds -> JobState] /\ events' \in 0 .. MaxEvents
      BY <2>2 DEF JobDone, Event, JobState
    <3>2. library' \in BOOLEAN /\ watch' \in {"none", "saved", "following"}
      BY <2>2 DEF JobDone
    <3> QED BY <2>2, <3>1, <3>2 DEF JobDone, Elsewhere
  <2>3. ASSUME NEW j \in JobIds, Download(j) PROVE TypeOK'
    BY <2>3 DEF Download, Elsewhere, Event, JobState
  <2>4. ASSUME NEW j \in JobIds, NEW state \in JobState, JobBecomes(j, state)
        PROVE TypeOK'
    <3>1. jobs' \in [JobIds -> JobState] /\ picked' \subseteq JobIds
      BY <2>4 DEF JobBecomes
    <3>2. library' \in BOOLEAN
      BY <2>4 DEF JobBecomes
    <3>3. events' \in 0 .. MaxEvents
      BY <2>4 DEF JobBecomes, Event
    <3> QED BY <2>4, <3>1, <3>2, <3>3 DEF JobBecomes, Elsewhere
  <2>5. ASSUME NEW kind \in {"none", "saved", "following"}, SetWatch(kind) PROVE TypeOK'
    BY <2>5 DEF SetWatch, Elsewhere, Event
  <2>6. CASE Scanned
    BY <2>6 DEF Scanned, Elsewhere, Event
  <2>7. CASE RetryDue
    <3>1. request' \in Request
      BY <2>7 DEF RetryDue, Request
    <3> QED BY <2>7, <3>1 DEF RetryDue, Event, title
  <2> QED BY <1>6, <2>1, <2>2, <2>3, <2>4, <2>5, <2>6, <2>7 DEF World
<1>7. CASE Restart
  <2>1. reconcile' \in Reconcile
    BY <1>7 DEF Restart, Resting, Reconcile, PlaceholderState
  <2>2. faults' \in 0 .. MaxFaults /\ stranded' \in BOOLEAN
    BY <1>7 DEF Restart
  <2> QED BY <1>7, <2>1, <2>2, WaitingType DEF Restart, title
<1> QED BY <1>1, <1>2, <1>3, <1>4, <1>5, <1>6, <1>7 DEF Next

\* Types, budgets and the shape of both passes (RequestPoller, DiscoverReconciler).
THEOREM DiscoverTypes == Spec => []TypeOK
<1>1. Init => TypeOK
  <2> SUFFICES ASSUME Init PROVE TypeOK OBVIOUS
  <2>1. PollTypeOK
    <3>1. request \in Request /\ jobs \in [JobIds -> JobState]
      BY DEF Init, PollInit, JobState, Request, RequestStatus
    <3>2. faults \in 0 .. MaxFaults /\ events \in 0 .. MaxEvents
      BY RequestPollAssumption DEF RequestPollAssumption, Init, PollInit
    <3> QED BY <3>1, <3>2, WaitingType DEF Init, PollInit, PollTypeOK, PlaceholderState
  <2>2. reconcile \in Reconcile
    BY DEF Init, Resting, Reconcile, PlaceholderState
  <2> QED BY <2>1, <2>2 DEF TypeOK
<1> QED BY <1>1, NextTypeOK, PTL DEF Spec

-----------------------------------------------------------------------------
(* What the world and the reconcile leave alone. *)

UnderWay(rows, j) == rows[j] \in {"active", "stuck", "done"}

LEMMA WorldFrame ==
  ASSUME TypeOK, World
  PROVE  /\ UNCHANGED <<media, placeholder, poll, faults, stranded, written, swept,
                        reconcile>>
         /\ request'.status = request.status /\ request'.users = request.users
         /\ dropped \subseteq dropped'
         /\ favorites \cup dropped \subseteq favorites' \cup dropped'
         /\ UNCHANGED <<wake, pending>> \/ wake'
         /\ picked' \subseteq picked
         /\ \A j \in picked' : UnderWay(jobs, j) => UnderWay(jobs', j)
<1> USE DEF UnderWay
<1>1. ASSUME NEW u \in Users, Favorite(u) \/ Unfavorite(u)
      PROVE  /\ UNCHANGED <<media, placeholder, poll, faults, stranded, written, swept,
                            reconcile, request, picked, jobs>>
             /\ dropped \subseteq dropped'
             /\ favorites \cup dropped \subseteq favorites' \cup dropped'
             /\ UNCHANGED <<wake, pending>> \/ wake'
  BY <1>1 DEF Favorite, Unfavorite, Notify, Elsewhere
<1>2. ASSUME NEW j \in JobIds, JobDone(j) \/ Download(j)
      PROVE  /\ UNCHANGED <<media, placeholder, poll, faults, stranded, written, swept,
                            reconcile, request, wake, pending, favorites, dropped, picked>>
             /\ \A i \in picked : UnderWay(jobs, i) => UnderWay(jobs', i)
  BY <1>2 DEF JobDone, Download, Elsewhere, NewRow, TypeOK, PollTypeOK
<1>3. ASSUME NEW j \in JobIds, NEW state \in JobState, JobBecomes(j, state)
      PROVE  /\ UNCHANGED <<media, placeholder, poll, faults, stranded, written, swept,
                            reconcile, request, wake, pending, favorites, dropped>>
             /\ picked' \subseteq picked
             /\ \A i \in picked' : UnderWay(jobs, i) => UnderWay(jobs', i)
  BY <1>3 DEF JobBecomes, Elsewhere, TypeOK, PollTypeOK, JobState
<1>4. ASSUME NEW kind \in {"none", "saved", "following"}, SetWatch(kind) \/ Scanned
      PROVE  UNCHANGED <<media, placeholder, poll, faults, stranded, written, swept,
                         reconcile, request, wake, pending, favorites, dropped, picked, jobs>>
  BY <1>4 DEF SetWatch, Scanned, Elsewhere
<1>5. CASE RetryDue
  <2>1. request'.status = request.status /\ request'.users = request.users
    BY <1>5 DEF RetryDue, TypeOK, PollTypeOK, Request
  <2> QED BY <1>5, <2>1 DEF RetryDue, title
<1> QED BY <1>1, <1>2, <1>3, <1>4, <1>5 DEF World

LEMMA ReconcileFrame ==
  ASSUME ReconcileSteps
  PROVE  /\ UNCHANGED <<media, request, poll, wake, pending, picked, jobs, faults, dropped>>
         /\ swept => swept'
         /\ Open \/ poll.shown # "none" =>
              \/ UNCHANGED favorites /\ (placeholder' # "none" \/ UNCHANGED placeholder)
              \/ swept'
<1>1. CASE RemovePlaceholder
  BY <1>1 DEF RemovePlaceholder
<1>2. CASE AddPlaceholder
  BY <1>2 DEF AddPlaceholder, pollHistory
<1>3. CASE UNCHANGED <<title, request, poll, wake, faults, picked, pending, dropped, swept>>
  BY <1>3 DEF title
<1> QED BY <1>1, <1>2, <1>3
        DEF ReconcileSteps, ReconcileBegins, ReconcileReadsLibrary,
            ReconcileReadsPlaceholders, Plan, ReconcileFails, pollVars, pollHistory

-----------------------------------------------------------------------------
(* The pass: what it has read, by where it is. *)

PassOK ==
  /\ poll.pc \in {"wait", "settle", "library", "placeholders", "free", "put", "delete"} =>
       poll.favs = {} /\ poll.shown = "none"
  /\ poll.pc # "favorites" => poll.unread = {}
  /\ poll.pc \in {"act", "pick", "download", "check"} => Open
  /\ poll.pc = "resolve" => ~Open /\ poll.shown # "none"
  /\ poll.pc = "delete" => ~Open
  /\ poll.pc = "put" => poll.state # "none"
  /\ poll.pc = "pick" => request.status # "submitted"

LEMMA ShowsState ==
  \A row, rows : LET next == ShowState(row, rows) IN
    /\ next.pc \in {"wait", "put", "delete"}
    /\ next.favs = {} /\ next.shown = "none" /\ next.unread = {}
    /\ next.pc = "delete" => row.status = "closed"
    /\ next.pc = "put" => next.state # "none"
BY DEF ShowState, Derived, Waiting

LEMMA NextPassOK == TypeOK /\ PassOK /\ [Next]_vars => PassOK'
<1> SUFFICES ASSUME TypeOK, PassOK, [Next]_vars PROVE PassOK' OBVIOUS
<1> USE DEF PassOK, Open, OpenStatuses
<1>0. poll \in Poll /\ request \in Request
  BY DEF TypeOK, PollTypeOK
<1>1. CASE UNCHANGED vars
  BY <1>1 DEF vars, pollVars
<1>2. CASE TimerRings \/ Wakes \/ Settled
  BY <1>0, <1>2 DEF TimerRings, Wakes, Settled, Begin, Waiting, title, Poll
<1>3. CASE PollSteps
  <2>1. CASE ReadLibrary \/ ReadPlaceholders \/ FavoritesRead
    BY <1>0, <2>1 DEF ReadLibrary, ReadPlaceholders, FavoritesRead, Poll
  <2>2. ASSUME NEW u \in Users, ReadFavorites(u) PROVE PassOK'
    BY <1>0, <2>2 DEF ReadFavorites, Poll
  <2>3. CASE File \/ Filed
    BY <1>0, <2>3 DEF File, Filed, Poll, Request
  <2>4. CASE Cancel
    BY <1>0, <2>4 DEF Cancel, Waiting, Poll
  <2>5. CASE KeepOpen
    <3>1. request'.status = request.status
      BY <1>0, <2>5 DEF KeepOpen, Request
    <3> QED BY <1>0, <2>5, <3>1 DEF KeepOpen, Waiting, Poll
  <2>6. CASE InLibrary \/ MovieAbandoned \/ NothingToDo \/ PickNone \/ Submitted \/ Checked
    BY <2>6, ShowsState
       DEF InLibrary, MovieAbandoned, NothingToDo, PickNone, Becomes, Submitted, Checked
  <2>7. CASE PickMovie \/ PickFound \/ FollowShow
    BY <1>0, <2>7 DEF PickMovie, PickFound, FollowShow, Due, Poll, Request
  <2>8. CASE FreePlaceholder \/ PutPlaceholder \/ DeletePlaceholder
    BY <2>8 DEF FreePlaceholder, PutPlaceholder, DeletePlaceholder, Waiting
  <2> QED BY <1>3, <2>1, <2>2, <2>3, <2>4, <2>5, <2>6, <2>7, <2>8 DEF PollSteps
<1>4. CASE PollFaults
  <2>1. ASSUME NEW u \in Users, FavoritesFail(u) PROVE PassOK'
    BY <1>0, <2>1 DEF FavoritesFail, Poll
  <2>2. CASE NotFiled \/ CallFails
    BY <1>0, <2>2 DEF NotFiled, CallFails, Waiting, Poll
  <2> QED BY <1>4, <2>1, <2>2 DEF PollFaults
<1>5. CASE ReconcileSteps
  BY <1>5, ReconcileFrame
<1>6. CASE World
  BY <1>6, WorldFrame
<1>7. CASE Restart
  BY <1>7 DEF Restart, Waiting
<1> QED BY <1>1, <1>2, <1>3, <1>4, <1>5, <1>6, <1>7 DEF Next

LEMMA InitPassOK == Init => PassOK
BY DEF Init, PollInit, Waiting, PassOK, Open, OpenStatuses

-----------------------------------------------------------------------------
(* Events. *)

LEMMA NextEventsAreRead ==
  TypeOK /\ PassOK /\ EventsAreRead /\ [Next]_vars => EventsAreRead'
<1> SUFFICES ASSUME TypeOK, PassOK, EventsAreRead, [Next]_vars PROVE EventsAreRead' OBVIOUS
<1> USE DEF EventsAreRead
<1>0. poll \in Poll /\ pending \subseteq Users
  BY DEF TypeOK, PollTypeOK
<1>1. CASE UNCHANGED vars
  BY <1>1 DEF vars, pollVars, pollHistory
<1>2. CASE TimerRings \/ Wakes \/ Settled
  BY <1>0, <1>2 DEF TimerRings, Wakes, Settled, Begin, Waiting, pollHistory, Poll
<1>3. CASE PollSteps
  <2>1. CASE ReadLibrary \/ ReadPlaceholders
    BY <1>0, <2>1 DEF ReadLibrary, ReadPlaceholders, PassOK, pollHistory, Poll
  <2>2. CASE FavoritesRead
    <3>1. pending = {} \/ wake
      BY <2>2 DEF FavoritesRead
    <3> QED BY <2>2, <3>1 DEF FavoritesRead, pollHistory
  <2>3. ASSUME NEW u \in Users, ReadFavorites(u) PROVE EventsAreRead'
    BY <1>0, <2>3 DEF ReadFavorites, Poll
  <2>4. CASE UNCHANGED <<wake, pending>> /\ poll.pc \notin {"settle", "library",
                                                          "placeholders", "favorites"}
    BY <2>4 DEF PassOK
  <2> QED BY <1>3, <2>1, <2>2, <2>3, <2>4
          DEF PollSteps, File, Filed, Cancel, KeepOpen, FreePlaceholder, InLibrary,
              MovieAbandoned, NothingToDo, PickMovie, PickNone, PickFound, Submitted,
              FollowShow, Checked, PutPlaceholder, DeletePlaceholder, pollHistory
<1>4. CASE PollFaults
  <2>1. ASSUME NEW u \in Users, FavoritesFail(u) PROVE EventsAreRead'
    BY <1>0, <2>1 DEF FavoritesFail, Poll
  <2>2. CASE NotFiled \/ CallFails
    BY <1>0, <2>2 DEF NotFiled, CallFails, PassOK, Waiting, pollHistory
  <2> QED BY <1>4, <2>1, <2>2 DEF PollFaults
<1>5. CASE ReconcileSteps
  BY <1>5, ReconcileFrame
<1>6. CASE World
  BY <1>6, WorldFrame
<1>7. CASE Restart
  BY <1>7 DEF Restart
<1> QED BY <1>1, <1>2, <1>3, <1>4, <1>5, <1>6, <1>7 DEF Next

\* A delivered webhook is never lost (RequestPoller._wait clears the event before the pass
\* reads anything).
THEOREM DeliveredEventsAreRead == Spec => []EventsAreRead
<1>1. Init => EventsAreRead
  BY DEF Init, PollInit, EventsAreRead
<1> QED BY <1>1, InitPassOK, NextPassOK, NextEventsAreRead, DiscoverTypes, PTL DEF Spec

-----------------------------------------------------------------------------
(* Picks. *)

\* Rows picked for the open request are under way, and once more may be picked only if
\* those there are were picked before a fault.
PicksOK ==
  /\ \A j \in picked : UnderWay(jobs, j)
  /\ request.status \in {"requested", "not_found"} /\ poll.pc # "download" =>
       Cardinality(picked) <= faults
  /\ OnePick

LEMMA FewerPicks ==
  ASSUME TypeOK, picked' \subseteq picked
  PROVE  /\ Cardinality(picked) \in Nat /\ Cardinality(picked') \in Nat
         /\ Cardinality(picked') <= Cardinality(picked)
<1>1. IsFiniteSet(picked)
  BY RequestPollAssumption, FS_Subset DEF RequestPollAssumption, TypeOK, PollTypeOK
<1>2. IsFiniteSet(picked') /\ Cardinality(picked') <= Cardinality(picked)
  BY <1>1, FS_Subset
<1> QED BY <1>1, <1>2, FS_CardinalityType

LEMMA NextPicksOK == TypeOK /\ PassOK /\ PicksOK /\ [Next]_vars => PicksOK'
<1> SUFFICES ASSUME TypeOK, PassOK, PicksOK, [Next]_vars PROVE PicksOK' OBVIOUS
<1> USE DEF PicksOK, OnePick
<1>0. /\ poll \in Poll /\ request \in Request /\ faults \in Nat
      /\ jobs \in [JobIds -> JobState] /\ picked \subseteq JobIds
  BY DEF TypeOK, PollTypeOK
<1>00. Cardinality(picked) \in Nat
  <2>1. IsFiniteSet(picked)
    BY <1>0, RequestPollAssumption, FS_Subset DEF RequestPollAssumption
  <2> QED BY <2>1, FS_CardinalityType
<1>1. CASE UNCHANGED vars
  BY <1>1 DEF vars, pollVars, title, pollHistory, UnderWay
<1>2. CASE TimerRings \/ Wakes \/ Settled
  BY <1>0, <1>2 DEF TimerRings, Wakes, Settled, Begin, Waiting, title, pollHistory, UnderWay
<1>3. CASE PollSteps
  <2>1. CASE PickFound
    <3>1. PICK j \in JobIds : /\ jobs' = [jobs EXCEPT ![j] = "active"]
                            /\ poll' = [poll EXCEPT !.pc = "download", !.job = {j}]
                            /\ picked' = picked \cup {j}
      BY <2>1 DEF PickFound
    <3>2. Cardinality(picked) <= faults
      BY <1>0, <2>1 DEF PickFound, PassOK, Open, OpenStatuses
    <3>3. Cardinality(picked') <= Cardinality(picked) + 1
      <4>1. IsFiniteSet(picked)
        BY <1>0, RequestPollAssumption, FS_Subset DEF RequestPollAssumption
      <4>2. Cardinality(picked \cup {j}) =
              IF j \in picked THEN Cardinality(picked) ELSE Cardinality(picked) + 1
        BY <4>1, FS_AddElement
      <4> QED BY <3>1, <4>2, <1>00
    <3>4. Cardinality(picked') \in Nat
      <4>1. IsFiniteSet(picked')
        BY <1>0, <3>1, RequestPollAssumption, FS_Subset DEF RequestPollAssumption
      <4> QED BY <4>1, FS_CardinalityType
    <3>5. \A i \in picked' : UnderWay(jobs', i)
      BY <1>0, <3>1 DEF UnderWay
    <3>6. poll'.pc = "download" /\ faults' = faults
      BY <1>0, <2>1, <3>1 DEF PickFound, Poll
    <3> QED BY <1>0, <1>00, <3>2, <3>3, <3>4, <3>5, <3>6
  <2>2. CASE Submitted
    <3>1. request'.status = "submitted"
      BY <1>0, <2>2 DEF Submitted, Request
    <3>2. UNCHANGED <<picked, faults>>
      BY <2>2 DEF Submitted, pollHistory
    <3>3. \A i \in picked : UnderWay(jobs', i)
      BY <1>0, <2>2 DEF Submitted, UnderWay
    <3> QED BY <3>1, <3>2, <3>3
  <2>3. CASE Filed
    BY <1>0, <2>3, FS_EmptySet DEF Filed, UnderWay
  <2>4. CASE MovieAbandoned
    <3>1. picked = {}
      BY <1>0, <2>4 DEF MovieAbandoned, GivenUp, Abandoned, UnderWay
    <3> QED BY <1>0, <2>4, <3>1, FS_EmptySet DEF MovieAbandoned, pollHistory
  <2>5. CASE Checked
    <3>1. \A i \in picked : jobs'[i] = jobs[i] \/ jobs'[i] = "active"
      BY <1>0, <2>5 DEF Checked
    <3> QED BY <1>0, <2>5, <3>1 DEF Checked, pollHistory, UnderWay, PassOK
  <2>6. ASSUME UNCHANGED <<jobs, picked, faults>>, poll.pc # "download",
               request'.status \in {"requested", "not_found"} =>
                 request.status \in {"requested", "not_found"}
        PROVE  PicksOK'
    BY <2>6 DEF UnderWay
  <2>7. CASE File \/ Cancel \/ KeepOpen
    <3>1. request'.status \in {request.status, "cancelled"}
      BY <1>0, <2>7 DEF File, Cancel, KeepOpen, Request
    <3> QED BY <2>6, <2>7, <3>1 DEF File, Cancel, KeepOpen, title, pollHistory
  <2>8. CASE InLibrary \/ NothingToDo \/ FollowShow
    <3>1. request'.status \in {request.status, "closed", "submitted"}
      BY <1>0, <2>8 DEF InLibrary, NothingToDo, FollowShow, Becomes, Request
    <3> QED BY <2>6, <2>8, <3>1
            DEF InLibrary, NothingToDo, FollowShow, title, pollHistory
  <2>9. CASE PickNone
    BY <2>6, <2>9 DEF PickNone, PassOK, Open, OpenStatuses, title, pollHistory
  <2>10. CASE UNCHANGED <<request, jobs, picked, faults>> /\ poll.pc # "download"
    BY <2>6, <2>10
  <2> QED BY <1>3, <2>1, <2>2, <2>3, <2>4, <2>5, <2>7, <2>8, <2>9, <2>10
          DEF PollSteps, ReadLibrary, ReadPlaceholders, FavoritesRead, ReadFavorites,
              FreePlaceholder, PickMovie, PutPlaceholder, DeletePlaceholder, title,
              pollHistory
<1>4. CASE PollFaults
  <2>1. /\ UNCHANGED <<request, jobs, picked>>
        /\ faults' = faults + 1
    BY <1>4 DEF PollFaults, FavoritesFail, NotFiled, CallFails, title, pollHistory
  <2> QED BY <1>0, <1>00, <2>1 DEF UnderWay
<1>5. CASE ReconcileSteps
  BY <1>5, ReconcileFrame DEF UnderWay
<1>6. CASE World
  <2>1. Cardinality(picked') \in Nat /\ Cardinality(picked') <= Cardinality(picked)
    BY <1>6, WorldFrame, FewerPicks
  <2> QED BY <1>0, <1>00, <1>6, <2>1, WorldFrame
<1>7. CASE Restart
  BY <1>0, <1>00, <1>7 DEF Restart, title, UnderWay
<1> QED BY <1>1, <1>2, <1>3, <1>4, <1>5, <1>6, <1>7 DEF Next

\* One pick is under way for one filing of a request, and one more for every fault
\* (_pick_movie and its retries, _abandoned).
THEOREM OnePickUnderWay == Spec => []OnePick
<1>1. Init => PicksOK
  BY FS_EmptySet DEF Init, PollInit, PicksOK, OnePick
<1>2. PicksOK => OnePick
  BY DEF PicksOK
<1> QED BY <1>1, <1>2, InitPassOK, NextPassOK, NextPicksOK, DiscoverTypes, PTL DEF Spec

-----------------------------------------------------------------------------
(* Placeholders that are removed. *)

\* The reconcile removes only what it read as available, which only a write of the poll
\* can have changed since.
ReconcileOK ==
  /\ reconcile.plan # "none" => reconcile.pc = "apply"
  /\ reconcile.plan = "remove" => reconcile.shown = "available"
  /\ reconcile.pc \in {"sources", "apply"} /\ reconcile.shown = "available" =>
       placeholder \in {"none", "available"} \/ written

LEMMA NextReconcileOK == TypeOK /\ ReconcileOK /\ [Next]_vars => ReconcileOK'
<1> SUFFICES ASSUME TypeOK, ReconcileOK, [Next]_vars PROVE ReconcileOK' OBVIOUS
<1> USE DEF ReconcileOK
<1>0. reconcile \in Reconcile
  BY DEF TypeOK
<1>1. CASE UNCHANGED vars
  BY <1>1 DEF vars, pollVars, title, pollHistory
<1>2. CASE /\ TimerRings \/ Wakes \/ Settled \/ PollSteps \/ PollFaults
           /\ UNCHANGED reconcile
  <2>1. UNCHANGED <<placeholder, written>> \/ written'
    BY <1>2 DEF TimerRings, Wakes, Settled, Begin, PollSteps, ReadLibrary, ReadPlaceholders,
       FavoritesRead, ReadFavorites, File, Filed, Cancel, KeepOpen, FreePlaceholder,
       InLibrary, MovieAbandoned, NothingToDo, PickMovie, PickNone, PickFound, Submitted,
       FollowShow, Checked, PutPlaceholder, DeletePlaceholder, PollFaults, FavoritesFail,
       NotFiled, CallFails, title, pollHistory
  <2> QED BY <1>2, <2>1
<1>3. CASE ReconcileSteps
  <2>1. CASE ReconcileBegins \/ AddPlaceholder \/ RemovePlaceholder \/ ReconcileFails
    BY <2>1 DEF ReconcileBegins, AddPlaceholder, RemovePlaceholder, ReconcileFails, Resting
  <2>2. CASE ReconcileReadsLibrary \/ ReconcileReadsPlaceholders
    BY <1>0, <2>2 DEF ReconcileReadsLibrary, ReconcileReadsPlaceholders, Reconcile, title,
                      pollHistory
  <2>3. CASE Plan
    <3>1. PICK desired, complete \in BOOLEAN :
            reconcile' = IF PlanReconcile(desired, complete) = "none" THEN Resting
                         ELSE [reconcile EXCEPT !.pc = "apply",
                                                !.plan = PlanReconcile(desired, complete)]
      BY <2>3 DEF Plan
    <3> QED BY <1>0, <2>3, <3>1 DEF Plan, PlanReconcile, Reconcile, Resting, pollVars, title,
                                    pollHistory
  <2> QED BY <1>3, <2>1, <2>2, <2>3 DEF ReconcileSteps
<1>4. CASE World
  BY <1>4, WorldFrame
<1>5. CASE Restart
  BY <1>5 DEF Restart, Resting
<1> QED BY <1>1, <1>2, <1>3, <1>4, <1>5 DEF Next

\* The reconcile removes no placeholder that belongs to a request, unless the poll wrote
\* it after the reconcile read it (plan_reconcile, _apply).
THEOREM InFlightIsKept == Spec => InFlightKept
<1>1. Init => ReconcileOK
  BY DEF Init, Resting, ReconcileOK
<1>2. ReconcileOK => [reconcile.plan = "remove" /\ placeholder' = "none" /\ UNCHANGED poll =>
                        placeholder \in {"none", "available"} \/ written]_vars
  BY DEF ReconcileOK
<1> QED BY <1>1, <1>2, NextReconcileOK, DiscoverTypes, PTL DEF Spec, InFlightKept

-----------------------------------------------------------------------------
(* Who dropped the favorite. *)

\* What a requester who no longer shows in the readings has done, or had done to them.
Excused(u) == u \in dropped \/ swept
Accounted(u) == u \in favorites \/ Excused(u)
Shown == Open \/ poll.shown # "none"

DroppedOK ==
  /\ Open => \A u \in request.users : Accounted(u)
  /\ Shown => \A u \in poll.favs : Accounted(u)
  /\ Shown /\ placeholder = "none" => swept
  /\ Open /\ poll.complete /\ poll.pc \in {"favorites", "file", "cancel"} =>
       \A u \in request.users \ poll.unread : u \in poll.favs \/ Excused(u)

LEMMA NextDroppedOK == TypeOK /\ PassOK /\ DroppedOK /\ [Next]_vars => DroppedOK'
<1> SUFFICES ASSUME TypeOK, PassOK, DroppedOK, [Next]_vars PROVE DroppedOK' OBVIOUS
<1> USE DEF DroppedOK, Excused, Accounted, Shown
<1>0. poll \in Poll /\ request \in Request /\ dropped \subseteq Users
  BY DEF TypeOK, PollTypeOK
<1>1. CASE UNCHANGED vars
  BY <1>1 DEF vars, pollVars, title, pollHistory, Open
<1>2. CASE TimerRings \/ Settled
  <2>1. /\ poll'.pc = "library" /\ poll'.favs = {} /\ poll'.shown = "none"
        /\ dropped' = dropped \ favorites
        /\ swept' = (swept /\ Open)
        /\ UNCHANGED <<placeholder, favorites, request>>
    BY <1>2 DEF TimerRings, Settled, Begin, Waiting, title
  <2> QED BY <2>1 DEF Open
<1>3. CASE Wakes
  BY <1>0, <1>3 DEF Wakes, title, pollHistory, Open, Poll
<1>4. CASE PollSteps
  <2>1. CASE ReadPlaceholders \/ FavoritesRead
    BY <1>0, <2>1 DEF ReadPlaceholders, FavoritesRead, PassOK, title, pollHistory, Open, Poll, Request
  <2>2. ASSUME NEW u \in Users, ReadFavorites(u) PROVE DroppedOK'
    <3>1. PICK held \in Listings : poll' = [poll EXCEPT !.favs = @ \cup ({u} \cap held),
                                                       !.unread = @ \ {u}]
      BY <2>2 DEF ReadFavorites
    <3>2. /\ UNCHANGED <<placeholder, favorites, request, dropped, swept>>
          /\ poll.pc = "favorites"
      BY <2>2 DEF ReadFavorites, title
    <3>3. /\ poll'.pc = poll.pc /\ poll'.shown = poll.shown /\ poll'.complete = poll.complete
          /\ poll'.favs = poll.favs \cup ({u} \cap held)
          /\ poll'.unread = poll.unread \ {u}
      BY <1>0, <3>1 DEF Poll
    <3>4. held \subseteq favorites /\ (placeholder # "none" => held = favorites)
      BY DEF Listings
    <3> QED BY <3>2, <3>3, <3>4 DEF Open
  <2>3. CASE File
    BY <1>0, <2>3 DEF File, title, pollHistory, Open, Poll, Request, PassOK
  <2>4. CASE Filed
    <3>1. /\ request'.status = "requested" /\ request'.users = poll.favs
          /\ poll' = [poll EXCEPT !.pc = "cancel"]
          /\ UNCHANGED <<placeholder, favorites, dropped, swept>>
      BY <2>4 DEF Filed, title
    <3>2. poll.shown # "none"
      BY <2>4 DEF Filed, PassOK
    <3> QED BY <1>0, <3>1, <3>2 DEF Poll
  <2>5. ASSUME /\ UNCHANGED <<favorites, dropped, swept>>
               /\ placeholder' = placeholder \/ placeholder' # "none"
               /\ Open' => Open
               /\ request'.users \subseteq request.users
               /\ poll'.favs \subseteq poll.favs /\ poll'.shown \in {poll.shown, "none"}
               /\ poll'.pc \notin {"favorites", "file", "cancel"}
        PROVE  DroppedOK'
    BY <2>5
  <2>6. CASE ReadLibrary \/ PickMovie \/ PickFound
    BY <1>0, <2>5, <2>6
       DEF ReadLibrary, PickMovie, PickFound, title, pollHistory, Open, Poll
  <2>7. CASE Cancel
    <3>1. request'.users = {} /\ request'.status = "cancelled"
      BY <1>0, <2>7 DEF Cancel, Request
    <3>2. poll'.favs = {} /\ poll'.shown = "none" /\ poll'.pc \in {"wait", "free"}
      BY <2>7 DEF Cancel, Waiting
    <3> QED BY <2>5, <2>7, <3>1, <3>2 DEF Cancel, pollHistory, Open, OpenStatuses
  <2>8. CASE KeepOpen
    <3>1. request'.users \subseteq request.users /\ request'.status = request.status
      BY <1>0, <2>8 DEF KeepOpen, Remaining, Request
    <3>2. /\ poll'.favs = {} /\ poll'.shown \in {poll.shown, "none"}
          /\ poll'.pc \in {"wait", "act"}
      BY <1>0, <2>8 DEF KeepOpen, Waiting, Poll
    <3> QED BY <2>5, <2>8, <3>1, <3>2 DEF KeepOpen, title, pollHistory, Open
  <2>9. CASE FollowShow
    <3>1. /\ request'.users = request.users /\ Open
          /\ poll'.favs = poll.favs /\ poll'.shown = poll.shown /\ poll'.pc = "check"
      BY <1>0, <2>9 DEF FollowShow, PassOK, Poll, Request
    <3> QED BY <2>5, <2>9, <3>1 DEF FollowShow, pollHistory
  <2>10. CASE InLibrary \/ MovieAbandoned \/ NothingToDo \/ PickNone \/ Submitted \/ Checked
    <3>1. request'.users = request.users /\ Open
      BY <1>0, <2>10 DEF InLibrary, MovieAbandoned, NothingToDo, PickNone, Submitted, Checked,
                         Becomes, PassOK, Request
    <3>2. /\ poll'.favs = {} /\ poll'.shown = "none"
          /\ poll'.pc \in {"wait", "put", "delete"}
      BY <2>10, ShowsState DEF InLibrary, MovieAbandoned, NothingToDo, PickNone, Submitted,
                               Checked, Becomes
    <3> QED BY <2>5, <2>10, <3>1, <3>2
            DEF InLibrary, MovieAbandoned, NothingToDo, PickNone, Submitted, Checked, title,
                pollHistory
  <2>11. CASE FreePlaceholder \/ PutPlaceholder
    <3>1. placeholder' # "none"
      BY <2>11 DEF FreePlaceholder, PutPlaceholder, PassOK
    <3> QED BY <2>5, <2>11, <3>1 DEF FreePlaceholder, PutPlaceholder, Waiting, Open
  <2>12. CASE DeletePlaceholder
    <3>1. ~Open' /\ poll'.shown = "none" 
      BY <2>12 DEF DeletePlaceholder, PassOK, Waiting, Open
    <3> QED BY <3>1
  <2> QED BY <1>4, <2>1, <2>2, <2>3, <2>4, <2>6, <2>7, <2>8, <2>9, <2>10, <2>11, <2>12
          DEF PollSteps
<1>5. CASE PollFaults
  <2>1. ASSUME NEW u \in Users, FavoritesFail(u) PROVE DroppedOK'
    BY <1>0, <2>1 DEF FavoritesFail, title, Open, Poll
  <2>2. CASE NotFiled
    BY <1>0, <2>2 DEF NotFiled, PassOK, title, pollHistory, Open, Poll
  <2>3. CASE CallFails
    BY <2>3 DEF CallFails, Waiting, title, Open
  <2> QED BY <1>5, <2>1, <2>2, <2>3 DEF PollFaults
<1>6. CASE ReconcileSteps
  <2>1. UNCHANGED <<request, poll, dropped>> /\ (swept => swept')
    BY <1>6, ReconcileFrame
  <2>2. CASE swept'
    BY <2>1, <2>2 DEF Open
  <2>3. CASE UNCHANGED favorites /\ (placeholder' # "none" \/ UNCHANGED placeholder)
    BY <2>1, <2>3 DEF Open
  <2>4. CASE ~Shown
    BY <2>1, <2>4 DEF Open
  <2> QED BY <1>6, <2>2, <2>3, <2>4, ReconcileFrame
<1>7. CASE World
  <2>1. Open' <=> Open
    BY <1>7, WorldFrame DEF Open
  <2> QED BY <1>7, <2>1, WorldFrame
<1>8. CASE Restart
  BY <1>8 DEF Restart, Waiting, title, Open
<1> QED BY <1>1, <1>2, <1>3, <1>4, <1>5, <1>6, <1>7, <1>8 DEF Next

\* Whoever loses a request to a cancellation dropped the favorite, or lost its
\* placeholder (_cancel, and `complete` of _favorites).
THEOREM NobodyIsCancelled == Spec => NobodyCancelled
<1>1. Init => DroppedOK
  BY DEF Init, PollInit, Waiting, DroppedOK, Shown, Open, OpenStatuses
<1>2. TypeOK /\ PassOK /\ DroppedOK /\ [Next]_vars =>
        [request.status # "cancelled" /\ request'.status = "cancelled" =>
           request.users \subseteq dropped \/ swept]_vars
  <2> SUFFICES ASSUME TypeOK, PassOK, DroppedOK, [Next]_vars,
                      request.status # "cancelled", request'.status = "cancelled"
               PROVE  request.users \subseteq dropped \/ swept
    OBVIOUS
  <2>0. request \in Request
    BY DEF TypeOK, PollTypeOK
  <2>1. CASE PollSteps
    <3>1. CASE Cancel
      BY <3>1 DEF Cancel, Cancels, SomeoneLeft, Remaining, DroppedOK, Excused, PassOK
    <3>2. CASE File \/ KeepOpen \/ FollowShow \/ PickNone \/ MovieAbandoned
      <4>1. request'.status \in {request.status, "submitted", "not_found"}
        BY <2>0, <3>2 DEF File, KeepOpen, FollowShow, PickNone, MovieAbandoned, Becomes,
                          Request
      <4> QED BY <4>1
    <3>3. CASE Filed
      BY <3>3 DEF Filed
    <3>4. CASE InLibrary
      BY <2>0, <3>4 DEF InLibrary, Becomes, Request
    <3>5. CASE Submitted
      BY <2>0, <3>5 DEF Submitted, Request
    <3>6. CASE UNCHANGED request
      BY <3>6
    <3> QED BY <2>1, <3>1, <3>2, <3>3, <3>4, <3>5, <3>6
            DEF PollSteps, ReadLibrary, ReadPlaceholders, FavoritesRead, ReadFavorites,
                FreePlaceholder, NothingToDo, Becomes, PickMovie, PickFound, Checked,
                PutPlaceholder, DeletePlaceholder
  <2>2. CASE TimerRings \/ Wakes \/ Settled \/ PollFaults
    BY <2>2 DEF TimerRings, Wakes, Settled, Begin, PollFaults, FavoritesFail, NotFiled,
                CallFails
  <2>3. CASE ReconcileSteps
    BY <2>3, ReconcileFrame
  <2>4. CASE World
    BY <2>4, WorldFrame
  <2>5. CASE Restart \/ UNCHANGED vars
    BY <2>5 DEF Restart, vars, pollVars
  <2> QED BY <2>1, <2>2, <2>3, <2>4, <2>5 DEF Next
<1> QED BY <1>1, <1>2, InitPassOK, NextPassOK, NextDroppedOK, DiscoverTypes, PTL
        DEF Spec, NobodyCancelled
=============================================================================
