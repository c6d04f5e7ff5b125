# Verification of medialab-orchestrator

TLA+ specifications of the orchestrator (its download pipeline, the placement of
files, the follow poll, Jellyfin requests and the Discover reconcile), the TLC
instances that check them, and theorems about them that TLAPS proves. Paths of code are
relative to `src/src/medialab_orchestrator/` unless they start with `src/`.

- [The system](#the-system)
- [The modules](#the-modules)
- [What the model abstracts](#what-the-model-abstracts)
- [The runs](#the-runs)
- [Fairness](#fairness)
- [The proofs](#the-proofs)
- [Where the documentation and the code differ](#where-the-documentation-and-the-code-differ)
- [Not modelled](#not-modelled)
- [Plan](#plan)

## The system

One Python process, one event loop. FastAPI handlers, background tasks and five
periodic pollers share two SQLite stores and call two services over HTTP:
torrent-downloader (in front of qBittorrent) and medialab-jellyfin. Coroutines
interleave at every `await`; a store call is synchronous and atomic; only
`apply_plan` and the file deletions run in threads. Nothing locks a job: a
handler reads a row, awaits a service, and patches the row by id.

| Component | State | Operations | What makes it correct |
|---|---|---|---|
| job store, `store/jobs.py` | table `pipeline_job` | create, stamp_hash, update_job, find_replacement, queries | one row per torrent hash; a deleted row gives its hash back |
| pipeline worker, `services/worker.py` | none of its own: the row, the staging folder, the library | process: STOP_SEEDING, RESOLVE_META, RENAME, SCAN, DONE or FAILED | a run always ends; DONE means placed; overlapping runs of one job do no harm |
| submission, `services/download.py` | row | create row, forward, stamp | a failure between leaves a row a human can see |
| deletion and redo, `services/deletion.py`, `services/redo.py` | row, folder, library | plan, execute, replace | deletes what the row says, marks last; a redo repeated after a failure uses the same replacement |
| gateway, `routers/gateway.py`, `services/dismiss.py` | none | download, retry, delete, dismiss, redo, reads | closed jobs stay closed |
| job views, `services/progress.py` | row | a read moves DOWNLOAD_SUBMITTED to DOWNLOADING | never moves a job backwards |
| webhook, `routers/webhooks.py`, `scripts/notify_complete.py` | row | completion, orphan | every completed torrent is tracked |
| health poll, `services/health_poll.py` | rows' budgets | one rule per open row per tick | no open job waits for ever; flagged jobs are left alone |
| watchlist store and endpoints, `store/watchlist.py`, `routers/watchlist.py` | saved titles, follows, season modes, submissions | add, follow, pause, set mode, record, ignore, repoint | an episode is submitted once |
| follow poll, `services/follow.py` | watchlist | check a show, pick episodes and packs | wanted episodes only, each once |
| Jellyfin requests, `services/requests.py`, `store/requests.py` | table of requests | file, act, retry, cancel | a request is acted on once; its state follows its jobs |
| discover reconcile, `services/discover_reconcile.py` | placeholders in Jellyfin | desired set, plan, apply | converges to the desired set |
| credential monitor, `services/credentials.py` | ledger file | aggregate, notify transitions | a transition is announced once |
| placement, `services/rename.py` | staging folder, library | plan_rename, apply_plan | no two files one destination; nothing lost half-way |
| settings, `core/settings.py`, `routers/settings.py` | overrides file | set, reset | live values obey bounds |
| search, shows, discover, system endpoints; auth, limiter, middleware; HTTP clients | none | relay | |

Interactions. A submission creates a row, asks the downloader to add the
torrent, and stamps the hash of the answer. qBittorrent downloads, then runs
`notify_complete.py`, which posts the webhook once and never repeats it. The
webhook starts a background run of the worker. The run removes the transfer,
moves the files from the staging folder to the library and asks Jellyfin to
scan. Every tick the health poll joins the transfer list with the open rows and
advances, resumes, runs, retries or flags. People retry, delete, redo and
dismiss at any moment, and also use qBittorrent itself. The follow poll submits
the wanted episodes of followed shows and records each submission. The request
poll, woken by Jellyfin's webhook, turns favorites on Discover placeholders into
requests, picks a movie or follows a show for each, and writes the request's
state back to the placeholder; the reconcile adds and removes the placeholders
nobody has requested.

The hard behaviours: two or three runs of one job (webhook, retry, poll); a row
deleted, dismissed or reopened while a coroutine is suspended on it; decisions
on a row or a transfer list read before an await; lost, early and repeated
completions; calls that fail after they have had their effect; a redo that
stalls between its three parts; budgets at their limit; a crash between two
steps; moves that stop half-way and are planned anew from what is left; two
checks of one show at once; a pass of the request poll that acts on readings
taken several awaits before; two coroutines that write one placeholder. `PROJECT.json` lists each one at its line, with the property that would
catch it or the reason there is none yet.

## The modules

The pipeline is a chain: each module EXTENDS the one before it, so `Pipeline` is
all of it.

| Module | Code | State |
|---|---|---|
| `JobStore` | `store/jobs.py`, and the two facts of `store/watchlist.py` the pipeline writes | `jobs`, `saved`, `submission` |
| `Downloader` | external: torrent-downloader and qBittorrent, as `clients/torrent_downloader.py` uses them | `qbt`, `staged`, `hooks` |
| `Worker` | `services/worker.py`, `services/rename.py` as a whole step | `tasks`, `library` |
| `Submission` | `services/download.py` | |
| `Deletion` | `services/deletion.py`, `services/redo.py` | |
| `Gateway` | `routers/gateway.py`, `routers/webhooks.py`, `services/dismiss.py`, `services/progress.py` | |
| `HealthPoll` | `services/health_poll.py` | `poll` |
| `Pipeline` | the composition, `main.py` and `core/deps.py`; the properties | `restarts` |
| `JobLifecycle` | abstract: what the pipeline promises of every row | `stage`, `held` |
| `MCPipeline` | instances for TLC | |

Beside it stand three systems that meet the pipeline only in the rows it works
on, and take of it what they can see.

| Module | Code | State |
|---|---|---|
| `Placement` | `services/rename.py` and `_step_rename`, file by file | `staging`, `locked`, `lib`, `run`, `status` |
| `FollowPoll` | `services/follow.py`, `services/shows.py`, `store/watchlist.py`, `routers/watchlist.py` | the watchlist row, `modes`, `recorded`, `jobs`, `checks` |
| `RequestPoll` | `services/requests.py`, `store/requests.py` | `request`, `placeholder`, `favorites`, `wake`, `poll` |
| `Discover` | the composition of `RequestPoll` with `services/discover_reconcile.py`, `routers/jellyfin_events.py`, users, jobs and restarts | `reconcile` |
| `MCPlacement`, `MCFollowPoll` | instances for TLC (`Discover` is checked as it is) | |

The proofs are in `PipelineProofs`, `PipelineSafety`, `PipelineRuns`,
`PipelineLife` (each extends the one before), `PipelineLibrary` (extends
`PipelineSafety`), `PlacementProofs`, `FollowProofs` and `DiscoverProofs`.

`jobs[j]` is the row with sequence number `j`; its fields are the columns some
decision reads. `tasks[t]` is a coroutine: `pc` is the await it is suspended at,
and the other fields are the local variables it will use when it goes on,
above all the copy of the row it works from. An action is what one coroutine
does between two awaits. A call to a service is two steps, its effect there and
the reading of its answer here, with a failure possible before either. The slot
`Poller` is the run the health poll awaits inside its own coroutine, and `poll`
is the rest of the tick: the transfer list it was given, then the rules still to
apply with the columns of the rows as listed.

`JobLifecycle` is the abstract specification of a row: created once, worked on
while open, and once closed (DONE or DELETED) reopened only by one who held it
before. `Pipeline` implements it under the mapping `Life`: the stage is read off
the status, and a row is held while a coroutine, the sweep, or a redo about to
take it as a replacement has it in hand.

In `Placement` a run of the step (`run[r]`) goes through listing, planning, and
one action per outcome of a move; `lib` says for each destination which file
stands there and whether it is whole. The plan is the sequence of the moves the code
makes of what is left (`MovesFor`), in the order of its loops: a move stands at the
place given by the number of those before it (`Before`, `Place`). In `FollowPoll` a check (`checks[c]`) is
one call of `check_show`, of the poll or of a check-now request, with what it
has read at each await. In `RequestPoll` and `Discover`, `poll` and `reconcile`
are the two coroutines, their `pc` the await they are at, their other fields the
readings still of use.

## What the model abstracts

- **Titles.** An instance is one title: every movie names the same destination
  file, the torrents of a show cover different episodes of one series folder.
- **Folders.** The indexer's name and the on-disk name of a download are one
  column, `payload`: the torrent whose staging folder it names.
- **Placement in the pipeline.** All files of a folder move in one step. A run may find the
  folder empty, partial or full, find it locked (copied, source kept), or find
  nothing and accept that when the title's folder exists, as
  `_step_rename` does.
- **Placement by itself** (`Placement`). A name is the codes it parses to and the
  suffix or name it keeps; `Info` gives these for every file, and the plan is the
  code's own, for a movie and for a show, of any part of the download. Sizes are
  compared as the code does; a part of a copy is taken never to have the size of
  the whole. A rename may be refused (another file system), a source may be held
  open (copied, not removed), a copy may break off, the process may die.
- **A followed show** (`FollowPoll`). One show; episodes are numbered in air
  order. Jobs are the rows of that show, open, over, flagged or dismissed.
  Search profiles, specials, numbering other than its change on a new follow,
  and display columns are left out. A library that cannot be read counts as
  empty, as in `library_episode_keys`.
- **A Discover title** (`RequestPoll`, `Discover`). One title, a movie or a show;
  a pass over many titles does for each what it does for one. The statuses of
  the title's jobs are the four classes the poll tells apart. What becomes of a
  favorite whose placeholder is removed is left open (Jellyfin decides).
  `retry_due` is an event. Pausing the poll (interval 0) is not modelled.
- **STOP_SEEDING.** The listing and the removal it makes are one step; the
  listing says only the folder's name.
- **The tick.** A rule depends on the listed row and the transfer list only, so
  it is worked out when the rows are listed, and applied later.
- **Transfer states.** Those `ERROR_STATES`, `COMPLETE_STATES`,
  `ACTIVE_DOWNLOAD_STATES` tell apart, plus "any other" (queued, paused,
  checking). A transfer errs only while it is being fetched: a finished one whose
  files vanish before the completion is handled is not followed.
- **Left out of a row.** Title, year, season, episode, timestamps, error text,
  `deleted_hash`: no decision of these components reads them.

Bounds, all named constants: `MaxJobs` rows, `Tasks` coroutines at once besides
the poll's, `AutoRetryMax` and `AutoResumeMax` (the settings), `MaxRestarts`
crashes. `attempts` is counted to one past `AutoRetryMax` since it is only
compared with it. `Allowed` says what people do in an instance. `MaxFaults` in
`Placement` counts locks, broken copies and crashes; in `RequestPoll` failed
calls and restarts. `MaxEvents` counts what everyone but the poll and the
already running reconcile does. `MaxClears` and `MaxOverlaps` in `FollowPoll`
count cleared submissions and checks begun while another is under way.

## The runs

The runs set `CHECK_DEADLOCK FALSE`: with the table full or every bound reached,
no transfer pending and nobody asking for anything, an instance may truly stop
(a placed job, a waiting downloader).

| Run | Instance | Checks |
|---|---|---|
| `races` | 1 row, 1 torrent, 2 request coroutines and the poll, budgets 0, 1 crash; download, retry, delete, dismiss | `TypeOK`, `NoStrandedJob`, `DoneWasPlaced`, `DeletedStaysClosed`, `JobsLiveOnce` |
| `redo` | 3 rows, 1 coroutine and the poll; download, redo | `OneReplacement` |
| `orphans` | 2 rows, a show; downloads, and the torrent added and removed by hand | `HashUnique` |
| `unattended` | 1 row, budgets 1; a pick of the follow poll, job reads, the torrent removed by hand; `FairSpec` | `FlaggedIsLeftAlone`, `DoneIsInLibrary`, `OpenJobsSettle` |
| `placement` | a pack: two episodes, one named only by its folder, and a subtitle; 2 runs, 2 faults | `TypeOK`, `VideosKept`, `PlacedAsFirstPlanned`, `RetriesFinish` |
| `follow` | 2 episodes in one season, cap 1, 2 rows, the poll and one check-now request, 1 clear, 1 overlap | `TypeOK`, `FetchedOnce`, `DecisionKept` |
| `requests` | a movie or a show, 1 user, 2 rows, 1 fault, 3 events | `TypeOK`, `OnePick`, `EventsAreRead`, `NobodyCancelled`, `InFlightKept`, `Settles` |
| `dismissed`, `deleted_hash`, `forward_only`, `restart`, `replanned` | the smallest that shows it | one divergence each, see below |

What they show.

- `races`: three runs of one job can overlap with its deletion and dismissal,
  and still a row that says a step is under way has a live run at that step
  (`NoStrandedJob`), a row at SCAN or DONE has recorded what `plan_deletion`
  needs (`DoneWasPlaced`), and a deleted row is reopened only by a coroutine or
  a sweep that had it in hand when it was deleted (`DeletedStaysClosed`), and the
  whole of it implements `JobLifecycle` (`JobsLiveOnce`). One
  row suffices: rows meet only through a hash, a redo or the library, and none
  of these three properties relates two rows. Two request coroutines and the
  poll are three runs, one more than any pairwise race needs; the theorems hold
  for every number.
- `redo`: three rows are a job, its replacement, and the second replacement
  that must never wait beside the first, with the replacement itself done and
  redone.
- `orphans`: two rows are enough for a duplicate. Shows, because an orphan is
  taken for a movie and then fails, which keeps its row and hash alive longest.
- `unattended`: with budgets 1 the poll retries, resumes, exhausts both budgets
  and flags. `DoneIsInLibrary` is claimed only here, where nobody retries,
  deletes or adds a torrent twice: a human retry of a job still downloading
  places a partial download, and the hazards list says so. The run has one torrent;
  that a run never goes on over another torrent's files, because the series folder
  stands, is in the theorem `FinishedIsInLibrary`, of any number of torrents, rows and
  crashes.
- `placement`: `apply_plan` removes sources (a whole copy stands) and destinations
  (a part of a copy stands), and a retry plans from what is left. For a pack no
  video is lost and every retry plans the rest where the first plan would have
  put it, because an episode's place depends on its own name only. Two files with
  places of their own, and one that follows another, are what the plan can tell
  apart; two faults let a lock outlast a broken copy. Two runs of which one copies
  can lose a video (`Torn`); the properties leave that out and say so.
- `follow`: two checks at once read the same listing and may each submit what
  both found wanted: the bound of `FetchedOnce` is exact, one more fetch for
  each overlap. A deleted, failed or replaced job is not fetched again. Two
  episodes make a season that can be a pack or not, one row more than they need
  lets a manual download interfere; a cap of 1 ends a check before its work.
- `requests`: three events suffice for a favorite, a second download and a deletion,
  or a favorite, a drop and a favorite again, around a pass; one fault for a
  restart at any point of it. One user: `Users` meet only in the set of
  requesters, and the theorems hold for any number.

`tla/PROJECT.json` gives for every property a mutation of the code's definition
that TLC catches: a failure that leaves the status, a retry that resets too
much, a hash check that ignores failed rows, a redo that does not look for its
replacement, an empty plan always accepted, a destination taken for whole without
a look at its size, a submission that is not recorded, a wake event cleared too
late, a poll that ignores completions or
compares a budget one too late.

## Fairness

`FairSpec` assumes, and no more:

- `WF(Resumes(t))` for every coroutine and `WF(Tick)`: asyncio runs every ready
  task, HTTP calls have timeouts so an await ends, and the poll loop never ends
  (`health_poll_interval_seconds > 0`; at 0 it is paused by choice).
- `SF(PollList)`: the transfer list is answered some of the time. A tick whose
  read fails is skipped, so with weak fairness alone every read might fail.
- `SF(ResumeTransfer(j))`, `SF(CountResume(j))`: a resume asked for again and
  again succeeds some of the time. Failed resumes are not counted by the code,
  so without this a job could be resumed for ever and never flagged.

Nothing is assumed of qBittorrent (a transfer may never start, finish or fail),
of the completion hook (it may be lost), of the steps of a run (each may fail
every time) or of people. `OpenJobsSettle` therefore speaks of jobs whose
torrent is for ever no longer being fetched, and of jobs that have a hash: a row
whose hash never arrived has no rule in the poll.

`Placement`: `WF(Step(r))`, a failed placement is run again (by the poll while its
budget lasts, then by a human's retry, the pipeline's affair), and `WF(Unlock(f))`,
a program that holds a file open lets go of it. `Discover`: weak fairness of the
request poll's loop, its timer included; nothing of the reconcile, the users or
the jobs. `FollowPoll` needs none: its properties are safety.

## The proofs

`tlapm` checks every theorem; the constants are arbitrary, with the named
assumptions `JobStoreAssumption`, `WorkerAssumption`, `PipelineAssumption`,
`PlacementAssumption`, `FollowAssumption`, `RequestPollAssumption` (sets disjoint
or finite where they must be, bounds natural numbers). So the results hold for
any number of rows, torrents, coroutines, files, episodes, users, crashes and any
budgets.

| Theorem | Says |
|---|---|
| `TypeInvariant`, `TypeCorrect` | the inductive invariant `TypeInv`, and `TypeOK` from it |
| `HashIsUnique` | `HashUnique` |
| `OneReplacementWaits` | `OneReplacement` |
| `StagesHold`, `DoneJobsWerePlaced` | the invariant `Stages`, and `DoneWasPlaced` from it |
| `RunsAreAlive` | `NoStrandedJob` |
| `DeletedIsClosed` | `DeletedStaysClosed` |
| `FlaggedJobsAreLeftAlone` | `FlaggedIsLeftAlone` |
| `PipelineImplementsLifecycle` | `JobsLiveOnce`, the refinement of `JobLifecycle` |
| `FinishedIsInLibrary` | `DoneIsInLibrary`, in instances that are `LeftAlone` |
| `PlanOrdersItsMoves` | a plan is its moves, each once, in the code's order |
| `PlansOfTheToldApart` | files told apart by their names are planned the same whatever is left of them |
| `PlacementTypes` | `TypeOK` of `Placement` |
| `NoVideoIsLost`, `PlacedWhereFirstPlanned` | `VideosKept`, `PlacedAsFirstPlanned`, of plans that agree |
| `ToldApartIsPlaced` | both, of any download told apart by its names |
| `FollowTypes`, `EpisodesAreFetchedOnce`, `DecisionIsKept` | `TypeOK`, `FetchedOnce`, `DecisionKept` of `FollowPoll` |
| `DiscoverTypes`, `DeliveredEventsAreRead`, `OnePickUnderWay`, `NobodyIsCancelled`, `InFlightIsKept` | `TypeOK`, `EventsAreRead`, `OnePick`, `NobodyCancelled`, `InFlightKept` of `Discover` |

The argument.

- *Types* (`PipelineProofs`). `TypeOK` is not inductive: a patch by a suspended
  coroutine is well typed only when the row and the hash it remembers exist.
  `TypeInv` adds that every coroutine names an existing row (and a hash at the
  steps that use one), and that every pending rule of the sweep does.
- *Rows* (`PipelineSafety`). One lemma says how any step may change the table:
  it patches a row without touching its hash, creates the next one, stamps a
  hash nobody owns, deletes, or restarts. `HashUnique` follows, and
  `OneReplacement` with the guard of the redo.
- *Stages* (`PipelineSafety`). `DoneWasPlaced` needs the run's history: the
  destination and the removal are recorded at RESOLVE_META and SCAN and nothing
  ever clears them, so they hold in the row from the moment any run has passed
  the step, whoever rewrites the status. `Stages` follows the two columns
  through the rows and the coroutines.
- *Runs* (`PipelineRuns`). A step leaves runs alone, starts one, moves one on,
  or is a crash; a run's move writes the row and its own `pc` together, so the
  last writer of a step's status is alive at it. Any other writer writes a
  status that is not a step.
- *Flags* (`PipelineRuns`). Only the poll writes NEEDS_ATTENTION, between two
  pipelines of its own and after dropping the row's rule. `FlaggedIsLeftAlone` is
  inductive together with `PollerRuns`: the coroutine of the poll is idle or a
  pipeline run, never a deletion or a submission that would outlive its rule.

- *Lifecycle* (`PipelineLife`). Every step changes each row by a step of
  `JobLifecycle` or leaves stage and holder alone. The hard part is the closed
  row: a coroutine that reopens it held it before the step, which needs that a
  run, once it has entered, keeps its row until it ends, and that a rule left of
  the sweep counts as holding.
- *Library* (`PipelineLibrary`). `DoneIsInLibrary` is about the end of a long story,
  and three invariants tell it. `Plain`: whose torrent a row, a coroutine and a rule of
  the sweep are about, so no run works on a folder that is not its row's. `Fetched`: a
  run is only begun of a torrent that was fetched to its end, because the hook and the
  poll's `advance` both wait for that, and the torrent is not begun again; so its files
  are whole in the folder or in the library, unless a person removed them. `Brought`: a
  run past STOP_SEEDING has no transfer left, one that goes on without files has them in
  the library already, and past RENAME they are there, whether the row says so or a
  coroutine that may still write it. The
  hypotheses are needed, and TLC shows a violation without each. `LeftAlone`: a retry
  runs a job still being fetched, a delete takes files away, a torrent added by hand is
  taken for a movie or fetched again, one movie's file replaces another's, and of two
  torrents of a show one removed by hand leaves a run that goes on because the folder
  stands. `SubmittedOnce`, inside the property: a torrent asked for twice is fetched
  into a folder a run may be emptying.
- *Plans* (`PlacementProofs`). `PlanOrdersItsMoves` counts: the number of a move's
  predecessors puts the moves one to one on the positions of the plan, so what a run
  does can be argued of a set. `PlansOfTheToldApart` says when two plans of different
  parts cannot contradict each other: no two videos of a pack claim one episode, those
  that claim none have different names, and what goes with a video has a suffix of its
  own; of a movie there is one video.
- *Placement* (`PlacementProofs`). The two safety theorems ask of the plans only
  `PlansAgree` (no place for two files) and `PlacesStay` (no video with two places),
  whatever parts they are made of, and `ToldApartIsPlaced` replaces these by what the
  names of the download say. A movie with several videos does not agree, and `replanned`
  shows the loss. The invariant says of every copy at a destination that it is of a file
  planned there, so what a run clears or skips is a copy of its own source.
- *Follow* (`FollowProofs`). `FetchedOnce` is not inductive: a check that holds an
  episode may still submit it. The invariant counts, for each episode, the checks
  that hold it: fetches and holders together exceed clears and overlaps by one at
  most while it is not recorded, and a check with work on a recorded episode read
  the submissions before it was. `DecisionKept` needs that a check under way has
  no pack left to try in a season that waits for a decision.
- *Discover* (`DiscoverProofs`). One lemma per coroutine says what the other's
  steps leave alone. `OnePick` needs that a pass about to pick has found the
  request due or given up, when no picked row is left that was not paid for by a
  fault; `NobodyCancelled`, that a requester missing from complete readings has
  dropped the favorite since the pass began; `InFlightKept`, that the reconcile's
  plan is made on a placeholder that was available when it was read.

Only model-checked: `OpenJobsSettle`, `RetriesFinish` and `Settles`: liveness under
fairness is outside the prover. Every safety property of a passing run, and the
refinement, is the subject of a theorem.

## Where the documentation and the code differ

Each is a run whose counterexample TLC prints.

- `dismissed`: `store/jobs.py:31` calls DISMISSED terminal. `process` has no
  entry for it, so the lookup of its step raises inside the run and the job
  becomes FAILED: a late completion hook or a sweep already under way does it.
- `deleted_hash`: `store/jobs.py:157` says a DELETED job does not hold its hash.
  `stamp_hash` does not look at the status, so a job deleted while its
  submission is awaited gets the hash back, until the store is next opened.
- `forward_only`: `services/progress.py:53` says forward-only. The status tested
  is that of the row read before the transfers were awaited.
- `restart`: `store/jobs.py:4` says a restart resumes from the last committed
  state. Nothing looks for interrupted jobs; the poll has no rule for a job at a
  pipeline step, so it waits for a human retry.
- `replanned`: `services/rename.py:382` says a retry after a partial run finishes
  the remainder. A movie's plan depends on which files are left: when the movie
  was moved and its locked sample stayed, the retry takes the sample for the
  movie, finds another size at its place, and removes the placed movie.

## Not modelled

- The credential monitor keeps a ledger no other part reads; settings are overrides
  over the environment without concurrency, and constants of an instance here: a
  change takes effect at the next tick, which would be another instance.
- Relays and views (search, shows pages, system, storage, Discover lists) keep no
  state. Rate limits, API keys and logging change nothing the properties speak of.
- Parsing of release names and the mapping of episodes between numberings decide
  names; `Placement` takes their result as data.
- The three systems beside the pipeline are not composed with it: they see its
  rows in coarse states that change as the pipeline could change them.
- SQLite is taken at its word: a transaction is atomic and durable.

## Plan

What is left, in order of importance.

1. `Credentials`: a transition is announced once across a crash between the
   notice and the ledger.
2. Several titles in `Discover`: one pass acts on them in turn, and a failure of
   one must not keep the others waiting.
3. Pure operators against reference definitions: pack eligibility, the fallback
   names of a pack (`Code`), `plan_reconcile` over many titles.
4. `DoneIsInLibrary` of movies of different titles: the library as one folder per
   title instead of one title.
5. `Settings`: overrides within bounds, and budgets that change under a sweep.
