----------------------------- MODULE FollowPoll -----------------------------
(***************************************************************************)
(* One followed show: the watchlist row, season modes and submissions      *)
(* (store/watchlist.py), the endpoints that write them                     *)
(* (routers/watchlist.py), and the checks that fetch what is wanted        *)
(* (services/follow.py over services/shows.py).                            *)
(*                                                                         *)
(* A check is a coroutine of the poll or of the check-now endpoint, and    *)
(* nothing keeps two of them apart.  It reads the listing, the library,    *)
(* the jobs, the submissions and the season modes once, at different       *)
(* awaits, and then searches and submits for as long as its work lasts.    *)
(*                                                                         *)
(* Episodes are numbered in air order; a start point is the first of them  *)
(* to fetch.  Specials, search profiles and display columns (attempts, job *)
(* ids, timestamps, ignored against submitted) decide nothing and are left *)
(* out.  A job is its scope and whether the show's view still counts it as *)
(* heading for the library.                                                *)
(***************************************************************************)
EXTENDS Integers, FiniteSets, SequencesExt

CONSTANTS
  NumEpisodes,  \* bound: episodes of the show
  SeasonOf,     \* episode -> season its release carries
  Cap,          \* setting follow_max_submissions_per_tick
  JobIds,       \* bound: rows the job table may hold for the show
  MaxClears,    \* bound: submissions a user clears, in all
  MaxOverlaps,  \* bound: checks begun while another is under way
  Poll,         \* the follow poll's coroutine
  Requests      \* bound: check-now requests alive at once

ASSUME FollowAssumption ==
  /\ IsFiniteSet(Requests)
  /\ NumEpisodes \in Nat \ {0}
  /\ SeasonOf \in [1 .. NumEpisodes -> Nat \ {0}]
  /\ Cap \in Nat \ {0}
  /\ MaxClears \in Nat
  /\ MaxOverlaps \in Nat
  /\ Poll \notin Requests

VARIABLES
  kind,      \* of the watchlist row, "none" when there is none
  paused,    \* the follow is paused
  start,     \* first episode the follow fetches, 1 without a follow
  modes,     \* season -> mode of its follow_season row, "none" when there is none
  recorded,  \* episodes with a follow_submission row
  jobs,      \* row -> job
  library,   \* episodes in the library
  aired,     \* episodes out for at least follow_delay_hours
  checks,    \* coroutine -> where its check is
  fetches,   \* history: episode -> submissions the follow has recorded for it
  cleared,   \* history: episode -> how often its submission was cleared
  overlaps   \* history: checks begun while another was under way

followVars == <<kind, paused, start, modes, recorded>>
history == <<fetches, cleared, overlaps>>
vars == <<followVars, jobs, library, aired, checks, history>>

Episodes == 1 .. NumEpisodes
Seasons == {SeasonOf[e] : e \in Episodes}
EpisodesOf(s) == {e \in Episodes : SeasonOf[e] = s}
Checks == Requests \cup {Poll}

\* "over": DONE or DELETED; its scope is of no more interest.
JobState == {"none", "open", "over", "flagged", "dismissed"}
Over == [state |-> "over", scope |-> {}]

\* The show view's terminal states; it counts a dismissed job as queued.
Terminal == {"none", "over", "flagged"}
Queued == UNION {jobs[j].scope : j \in {i \in JobIds : jobs[i].state \notin Terminal}}

\* PACK, the two PACK_RETRY modes, EPISODES, PACK_NOT_FOUND.
Mode == {"none", "pack", "retry", "episodes", "parked"}
\* Mutant: a season to be fetched by episodes is searched as a pack all the same.
PackSearchModesMore == {"none", "pack", "retry", "episodes"}

PackSearchModes == {"none", "pack", "retry"}

-----------------------------------------------------------------------------
(* A check. *)

\* A piece of work is a season's pack or one episode.
Pack(s) == [pack |-> TRUE, season |-> s, scope |-> EpisodesOf(s)]
Single(e) == [pack |-> FALSE, season |-> SeasonOf[e], scope |-> {e}]
Works == {Pack(s) : s \in Seasons} \cup {Single(e) : e \in Episodes}

\* pc: the await the check is at.  free: the aired episodes it has so far found neither
\* in the library nor queued.  count: submissions made.
Check ==
  [pc : {"idle", "library", "jobs", "submissions", "pick", "download"}, start : Episodes,
   free : SUBSET Episodes, work : Seq(Works), count : 0 .. Cap]
Idle == [pc |-> "idle", start |-> 1, free |-> {}, work |-> <<>>, count |-> 0]

TypeOK ==
  /\ kind \in {"none", "saved", "following"}
  /\ paused \in BOOLEAN
  /\ start \in Episodes
  /\ modes \in [Seasons -> Mode]
  /\ recorded \subseteq Episodes
  /\ jobs \in [JobIds -> [state : JobState, scope : SUBSET Episodes]]
  /\ library \subseteq Episodes
  /\ aired \subseteq Episodes
  /\ checks \in [Checks -> Check]
  /\ fetches \in [Episodes -> Nat]
  /\ cleared \in [Episodes -> Nat]
  /\ overlaps \in 0 .. MaxOverlaps

Init ==
  /\ kind = "none"
  /\ paused = FALSE
  /\ start = 1
  /\ modes = [s \in Seasons |-> "none"]
  /\ recorded = {}
  /\ jobs = [j \in JobIds |-> [state |-> "none", scope |-> {}]]
  /\ library = {}
  /\ aired = {1}
  /\ checks = [c \in Checks |-> Idle]
  /\ fetches = [e \in Episodes |-> 0]
  /\ cleared = [e \in Episodes |-> 0]
  /\ overlaps = 0

\* The follow is read with the row: a later change of the follow is not seen.
StartCheck(c) ==
  /\ checks[c] = Idle
  /\ kind = "following"
  /\ c = Poll => ~paused
  /\ checks' = [checks EXCEPT ![c] =
                  [Idle EXCEPT !.pc = "library", !.start = start, !.free = aired]]
  /\ overlaps' = overlaps + IF \E d \in Checks : checks[d] # Idle THEN 1 ELSE 0
  /\ overlaps' <= MaxOverlaps
  /\ UNCHANGED <<followVars, jobs, library, aired, fetches, cleared>>

Stop(c) == checks' = [checks EXCEPT ![c] = Idle]
Unread == UNCHANGED <<followVars, jobs, library, aired, history>>

\* A library that cannot be read counts as empty.
ReadLibrary(c) ==
  /\ checks[c].pc = "library"
  /\ \E seen \in {library, {}} :
       checks' = [checks EXCEPT ![c].pc = "jobs", ![c].free = @ \ seen]
  /\ Unread

ReadJobs(c) ==
  /\ checks[c].pc = "jobs"
  /\ checks' = [checks EXCEPT ![c].pc = "submissions", ![c].free = @ \ Queued]
  /\ Unread

\* The listing or the detail cannot be read: the check ends.
BrowseFails(c) ==
  /\ checks[c].pc = "library"
  /\ Stop(c)
  /\ Unread

\* A season that is searched as a pack, all of it out and free, is fetched as one; of the
\* others what is wanted is fetched, unless the season waits for a decision.
PackNow(s, free) == modes[s] \in PackSearchModes /\ EpisodesOf(s) \subseteq free
WorkSet(wanted, free) ==
  {Pack(s) : s \in {SeasonOf[e] : e \in {w \in wanted : PackNow(SeasonOf[w], free)}}}
    \cup {Single(e) : e \in {w \in wanted : /\ modes[SeasonOf[w]] # "parked"
                                           /\ ~PackNow(SeasonOf[w], free)}}

\* Seasons in the order the wanted episodes reach them, each in air order.
Before(v, w, wanted) ==
  LET First(s) == Min(wanted \cap EpisodesOf(s)) IN
  \/ First(v.season) < First(w.season)
  \/ v.season = w.season /\ Min(v.scope) < Min(w.scope)

ReadSubmissions(c) ==
  LET free == checks[c].free \ recorded
      wanted == {e \in free : e >= checks[c].start}
  IN
  /\ checks[c].pc = "submissions"
  /\ \E work \in SetToSeqs(WorkSet(wanted, free)) :
       /\ \A i, k \in DOMAIN work : i < k => Before(work[i], work[k], wanted)
       /\ checks' = [checks EXCEPT ![c].pc = "pick", ![c].start = 1, ![c].free = {},
                                   ![c].work = work]
  /\ Unread

\* Mutant: the cap is passed by one.
MorePastCap(c) == checks[c].work # <<>> /\ checks[c].count <= Cap

More(c) == checks[c].work # <<>> /\ checks[c].count < Cap
Current(c) == Head(checks[c].work)

\* No work left, or the cap is reached: the check ends.
EndCheck(c) ==
  /\ checks[c].pc = "pick"
  /\ ~More(c)
  /\ Stop(c)
  /\ Unread

NextWork(c) == checks' = [checks EXCEPT ![c].pc = "pick", ![c].work = Tail(@)]

\* No torrent: an episode is left for a later check, a season waits for a decision.
PickNone(c) ==
  /\ checks[c].pc = "pick"
  /\ More(c)
  /\ NextWork(c)
  /\ modes' = IF Current(c).pack THEN [modes EXCEPT ![Current(c).season] = "parked"]
                                 ELSE modes
  /\ UNCHANGED <<kind, paused, start, recorded, jobs, library, aired, history>>

NewRow(j) == jobs[j].state = "none"

\* The row is created, and the download awaited.
PickFound(c) ==
  /\ checks[c].pc = "pick"
  /\ More(c)
  /\ \E j \in JobIds :
       /\ NewRow(j)
       /\ jobs' = [jobs EXCEPT ![j] = [state |-> "open", scope |-> Current(c).scope]]
       /\ checks' = [checks EXCEPT ![c].pc = "download"]
  /\ UNCHANGED <<followVars, library, aired, history>>

\* Mutant: the submission is not recorded.
SubmittedUnrecorded(c) ==
  /\ checks[c].pc = "download"
  /\ fetches' = [e \in Episodes |-> fetches[e] + IF e \in Current(c).scope THEN 1 ELSE 0]
  /\ checks' = [checks EXCEPT ![c].pc = "pick", ![c].work = Tail(@), ![c].count = @ + 1]
  /\ UNCHANGED <<followVars, jobs, library, aired, cleared, overlaps>>

\* The episodes are recorded, those of a pack with the season's mode back to PACK,
\* whatever has become of the job meanwhile.
Submitted(c) ==
  /\ checks[c].pc = "download"
  /\ recorded' = recorded \cup Current(c).scope
  /\ fetches' = [e \in Episodes |-> fetches[e] + IF e \in Current(c).scope THEN 1 ELSE 0]
  /\ modes' = IF Current(c).pack THEN [modes EXCEPT ![Current(c).season] = "pack"]
                                 ELSE modes
  /\ checks' = [checks EXCEPT ![c].pc = "pick", ![c].work = Tail(@), ![c].count = @ + 1]
  /\ UNCHANGED <<kind, paused, start, jobs, library, aired, cleared, overlaps>>

\* The search or the download fails: the show is left until the next check, a row that
\* was created stays.
SubmitFails(c) ==
  /\ \/ checks[c].pc = "pick" /\ More(c)
     \/ checks[c].pc = "download"
  /\ Stop(c)
  /\ Unread

CheckStep(c) ==
  \/ ReadLibrary(c) \/ ReadJobs(c) \/ BrowseFails(c) \/ ReadSubmissions(c)
  \/ EndCheck(c) \/ PickNone(c) \/ PickFound(c) \/ Submitted(c) \/ SubmitFails(c)

-----------------------------------------------------------------------------
(* The watchlist endpoints. *)

NoModes == [s \in Seasons |-> "none"]
Elsewhere == UNCHANGED <<jobs, library, aired, checks, history>>

SaveTitle ==
  /\ kind' = IF kind = "none" THEN "saved" ELSE kind
  /\ UNCHANGED <<paused, start, modes, recorded>>
  /\ Elsewhere

\* The row and the season modes go; the submissions stay.
RemoveTitle ==
  /\ kind' = "none"
  /\ paused' = FALSE
  /\ modes' = NoModes
  /\ start' = 1
  /\ UNCHANGED recorded
  /\ Elsewhere

\* A follow under another numbering clears the season modes.
FollowShow ==
  /\ kind # "none"
  /\ kind' = "following"
  /\ start' \in Episodes
  /\ paused' = FALSE
  /\ modes' \in {modes, NoModes}
  /\ UNCHANGED recorded
  /\ Elsewhere

\* Whatever the row is.
UnfollowShow ==
  /\ kind' = IF kind = "none" THEN "none" ELSE "saved"
  /\ paused' = FALSE
  /\ modes' = NoModes
  /\ start' = 1
  /\ UNCHANGED recorded
  /\ Elsewhere

SetPaused ==
  /\ kind = "following"
  /\ paused' \in BOOLEAN
  /\ UNCHANGED <<kind, start, modes, recorded>>
  /\ Elsewhere

\* decide_season: only a season that waits for it.
Decide(s) ==
  /\ kind = "following"
  /\ modes[s] = "parked"
  /\ \E mode \in {"pack", "retry", "episodes"} : modes' = [modes EXCEPT ![s] = mode]
  /\ UNCHANGED <<kind, paused, start, recorded>>
  /\ Elsewhere

ClearSubmission(e) ==
  /\ e \in recorded
  /\ MapThenSumSet(LAMBDA f : cleared[f], Episodes) < MaxClears
  /\ recorded' = recorded \ {e}
  /\ cleared' = [cleared EXCEPT ![e] = @ + 1]
  /\ UNCHANGED <<kind, paused, start, modes, jobs, library, aired, checks, fetches,
                 overlaps>>

-----------------------------------------------------------------------------
(* The rest of the program and the world, as the checks see them. *)

\* POST /download for an episode, or for its season.
Download ==
  /\ \E j \in JobIds, work \in Works :
       /\ NewRow(j)
       /\ jobs' = [jobs EXCEPT ![j] = [state |-> "open", scope |-> work.scope]]
  /\ UNCHANGED <<followVars, library, aired, checks, history>>

\* The pipeline finishes a job (a title that was only saved leaves the watchlist) or a
\* human deletes it; the poll flags it; a human dismisses it.
Finish(j) ==
  /\ jobs[j].state = "open"
  /\ jobs' = [jobs EXCEPT ![j] = Over]
  /\ library' = library \cup jobs[j].scope
  /\ kind' = IF kind = "saved" THEN "none" ELSE kind
  /\ UNCHANGED <<paused, start, modes, recorded, aired, checks, history>>

Becomes(j, state) ==
  /\ jobs' = [jobs EXCEPT ![j].state = state]
  /\ UNCHANGED <<followVars, library, aired, checks, history>>

Delete(j) ==
  /\ jobs[j].state \notin {"none", "over"}
  /\ jobs' = [jobs EXCEPT ![j] = Over]
  /\ UNCHANGED <<followVars, library, aired, checks, history>>

Flag(j) == jobs[j].state = "open" /\ Becomes(j, "flagged")
Dismiss(j) ==
  jobs[j].state \in {"open", "flagged"} /\ Becomes(j, "dismissed")

\* Time passes, and an episode is out.
Air(e) ==
  /\ e \notin aired
  /\ e = 1 \/ e - 1 \in aired
  /\ aired' = aired \cup {e}
  /\ UNCHANGED <<followVars, jobs, library, checks, history>>

Next ==
  \/ \E c \in Checks : StartCheck(c) \/ CheckStep(c)
  \/ SaveTitle \/ RemoveTitle \/ FollowShow \/ UnfollowShow \/ SetPaused
  \/ \E s \in Seasons : Decide(s)
  \/ \E e \in Episodes : ClearSubmission(e) \/ Air(e)
  \/ Download
  \/ \E j \in JobIds : Finish(j) \/ Delete(j) \/ Flag(j) \/ Dismiss(j)

Spec == Init /\ [][Next]_vars

-----------------------------------------------------------------------------
(* Properties. *)

\* A submission "keeps a follow from re-queueing an episode whose job was later deleted,
\* failed or replaced" (store/watchlist.py): the follow records an episode once, once
\* more for every time its submission was cleared, and, since two checks at once each
\* submit what both found wanted, once more at most for every check that began while
\* another was under way; whatever people did meanwhile to the jobs, the follow and its
\* seasons.
FetchedOnce ==
  \A e \in Episodes : fetches[e] <= 1 + cleared[e] + overlaps

\* Once the user had a season continue episode by episode, no check takes that back: it
\* parks a season, or sets it to PACK, only after it searched the pack, and a check that
\* read another mode has ended by then.  (decide_season against _try_pack; two checks at
\* once break it.)
DecisionKept ==
  [][\A s \in Seasons : modes[s] = "episodes" /\ overlaps = 0 =>
       modes'[s] \in {"episodes", "none"}]_vars
=============================================================================
