----------------------------- MODULE Placement -----------------------------
(***************************************************************************)
(* The RENAME step file by file (services/rename.py, worker._step_rename): *)
(* list the download folder, plan a destination for each file, move the    *)
(* files in a thread, fail while a video is left, remove the folder.       *)
(*                                                                         *)
(* A failed step is run again from the listing: the plan is made from the  *)
(* files that are still there, not from the download.  A source locked by  *)
(* another program can be copied but not removed; a crash or an error in a *)
(* copy leaves part of the file at its destination.                        *)
(*                                                                         *)
(* Names are abstracted to what the plan tells apart: the episode a file   *)
(* name, or else its folder, parses to, the suffix a renamed file keeps,   *)
(* and the name an extra keeps.                                            *)
(***************************************************************************)
EXTENDS Integers, FiniteSets, Sequences, Functions

CONSTANTS
  Media,      \* "MOVIE" or "SHOW"
  Files,      \* the files of the download, numbered in path order
  Info,       \* file -> what the plan reads of it
  NoCode,     \* no episode parses
  Runs,       \* coroutines that may be in the step at once
  MaxFaults   \* bound: locks taken, copies broken off and crashes

VARIABLES
  downloaded,  \* the files the download folder held at first
  staging,     \* the files it holds now
  folder,      \* it exists
  locked,      \* files another program holds open
  lib,         \* destination -> the copy that stands there
  run,         \* coroutine -> where its step is
  status,      \* of the job: RENAME, FAILED, or SCAN once placed
  placed,      \* the job's placed_paths
  faults,
  overlapped,  \* history: two runs have been in the step at once
  copied       \* history: a rename was refused, and a copy begun

vars == <<downloaded, staging, folder, locked, lib, run, status, placed, faults,
          overlapped, copied>>

\* of: a subtitle's videos, those whose stem its own extends.
FileInfo ==
  [video : BOOLEAN, size : Nat, code : STRING \cup {NoCode},
   fallback : STRING \cup {NoCode}, ext : STRING, name : STRING, of : SUBSET Files]

ASSUME PlacementAssumption ==
  /\ Media \in {"MOVIE", "SHOW"}
  /\ Files \subseteq Nat \ {0}
  /\ IsFiniteSet(Files)
  /\ Info \in [Files -> FileInfo]
  /\ NoCode # "title"
  /\ MaxFaults \in Nat

Videos(S) == {f \in S : Info[f].video}
Companions(v, S) == {f \in S : ~Info[f].video /\ v \in Info[f].of}

-----------------------------------------------------------------------------
(* The plan (plan_rename): one move per file, in order. *)

\* The video's name is put under the stem; what goes along with it keeps its suffix.
Move(f, v, dir, name) == [src |-> f, video |-> v, dest |-> <<dir, name>>]

\* A movie's videos are taken by size, a show's in path order.
Bigger(v, w) == Info[v].size > Info[w].size \/ (Info[v].size = Info[w].size /\ v < w)
Leads(v, w) == IF Media = "MOVIE" THEN Bigger(v, w) ELSE v < w

\* The episode a video's own name parses to; else its folder's, when no other video
\* of S claims that one.
Claim(v) == IF Info[v].code # NoCode THEN Info[v].code ELSE Info[v].fallback
Code(v, S) ==
  IF Info[v].code = NoCode /\ \E w \in Videos(S) \ {v} : Claim(w) = Claim(v)
  THEN NoCode ELSE Claim(v)

\* A movie's largest video gets the title, a show's its episode; the others are extras.
Stem(v, S) ==
  IF Media = "SHOW" THEN Code(v, S)
  ELSE IF \A w \in Videos(S) \ {v} : Bigger(v, w) THEN "title" ELSE NoCode

\* A video and the subtitles that go with it, under one stem, or an extra alone.
MovesOf(v, S) ==
  IF Stem(v, S) = NoCode THEN {Move(v, v, "extras", Info[v].name)}
  ELSE {Move(f, v, Stem(v, S), Info[f].ext) : f \in {v} \cup Companions(v, S)}
MovesFor(S) == UNION {MovesOf(v, S) : v \in Videos(S)}

\* Each video comes before its subtitles, and they in path order.
Before(a, b) ==
  \/ Leads(a.video, b.video)
  \/ a.video = b.video /\ b.src # b.video /\ (a.src = a.video \/ a.src < b.src)
Place(m, moves) == 1 + Cardinality({a \in moves : Before(a, m)})
Plan(S) ==
  [i \in 1 .. Cardinality(MovesFor(S)) |->
     CHOOSE m \in MovesFor(S) : Place(m, MovesFor(S)) = i]

\* A pack of which no video parses is refused.
Unparseable(S) ==
  /\ Media = "SHOW"
  /\ Videos(S) # {}
  /\ \A v \in Videos(S) : Code(v, S) = NoCode

\* What is ever planned, of the download or of a part that is left of it.
Moves == UNION {MovesFor(S) : S \in SUBSET Files}
Dests == {m.dest : m \in Moves}

\* No place is planned for two files, not even by two plans; and no video for two places.
PlansAgree == \A m, n \in Moves : m.dest = n.dest => m.src = n.src
PlacesStay == \A m, n \in Moves : m.src = n.src /\ Info[m.src].video => m.dest = n.dest

\* The names of a download tell its files apart: its videos' episodes, or the names of
\* those that have none, and what goes with a video by its suffix.  Of a movie there is
\* one video.
ToldApart ==
  /\ Media = "MOVIE" => \A v, w \in Videos(Files) : v = w
  /\ \A v, w \in Videos(Files) : v # w /\ Claim(v) = Claim(w) =>
       Claim(v) = NoCode /\ Info[v].name # Info[w].name
  /\ \A v \in Videos(Files) :
       /\ Claim(v) # "extras"
       /\ \A f, g \in {v} \cup Companions(v, Files) : Info[f].ext = Info[g].ext => f = g

-----------------------------------------------------------------------------
(* The step. *)

\* What stands at a destination: whole or part of a file, or nothing.
Copy(f, whole) == [file |-> f, whole |-> whole]
Nothing == Copy(0, FALSE)

\* Mutant: whatever stands at the destination is taken for a copy of the source.
AnySize(copy, f) == copy # Nothing

\* stat: a copy has its file's size when it is whole, and is taken to differ otherwise.
SameSize(copy, f) == copy.whole /\ Info[copy.file].size = Info[f].size

\* pc: "list", "plan", "move" (at the next move, or past the last), "clear" (nothing is
\* in its way), "copying".  files: as listed.  plan and moves: all moves, those left.
Idle == [pc |-> "idle", files |-> {}, plan |-> <<>>, moves |-> <<>>]

Init ==
  /\ downloaded \in {Files, {}}
  /\ staging = downloaded
  /\ folder = (downloaded # {})
  /\ locked = {}
  /\ lib = [d \in Dests |-> Nothing]
  /\ run = [r \in Runs |-> Idle]
  /\ status = "RENAME"
  /\ placed = {}
  /\ faults = 0
  /\ overlapped = FALSE
  /\ copied = FALSE

TypeOK ==
  /\ status \in {"RENAME", "FAILED", "SCAN"}
  /\ downloaded \subseteq Files
  /\ staging \subseteq downloaded
  /\ staging # {} => folder
  /\ locked \subseteq Files
  /\ \A d \in Dests : lib[d] = Nothing \/ lib[d].file \in downloaded
  /\ \A r \in Runs :
       /\ run[r].pc \in {"idle", "list", "plan", "move", "clear", "copying"}
       /\ run[r].files \subseteq downloaded
       /\ run[r].plan \in Seq(Moves) /\ run[r].moves \in Seq(Moves)
       /\ run[r].pc \in {"clear", "copying"} => run[r].moves # <<>>
       /\ Range(run[r].moves) \subseteq Range(run[r].plan)
  /\ placed \subseteq Dests
  /\ faults \in 0 .. MaxFaults
  /\ {overlapped, copied} \subseteq BOOLEAN

At(r, pc) == run' = [run EXCEPT ![r].pc = pc]

\* Mutant: the run is over its move and still where the move left it.
NextMoveInPlace(r) == run' = [run EXCEPT ![r].moves = Tail(@)]

\* The run is over its current move.
NextMove(r) == run' = [run EXCEPT ![r].pc = "move", ![r].moves = Tail(@)]

Fail(r) ==
  /\ status' = "FAILED"
  /\ run' = [run EXCEPT ![r] = Idle]
  /\ UNCHANGED placed

Working == UNCHANGED <<status, placed>>
Disk == <<staging, folder, lib>>
History == <<overlapped, copied>>
Others == UNCHANGED <<downloaded, locked, faults, History>>

\* The pipeline is at RENAME, or is run again after a failure or a restart.
Start(r) ==
  /\ run[r].pc = "idle"
  /\ status # "SCAN"
  /\ status' = "RENAME"
  /\ At(r, "list")
  /\ overlapped' = (overlapped \/ \E q \in Runs : run[q] # Idle)
  /\ UNCHANGED <<downloaded, locked, faults, copied, placed, Disk>>

List(r) ==
  /\ run[r].pc = "list"
  /\ run' = [run EXCEPT ![r].pc = "plan", ![r].files = staging]
  /\ Working /\ Others /\ UNCHANGED Disk

\* SOURCE_NOT_FOUND: nothing listed, no folder, no title folder.
NotFound(r) == run[r].files = {} /\ ~folder /\ \A d \in Dests : lib[d] = Nothing

Refuse(r) ==
  /\ run[r].pc = "plan"
  /\ NotFound(r) \/ Unparseable(run[r].files)
  /\ Fail(r)
  /\ Others /\ UNCHANGED Disk

MakePlan(r) ==
  LET plan == Plan(run[r].files) IN
  /\ run[r].pc = "plan"
  /\ ~NotFound(r)
  /\ ~Unparseable(run[r].files)
  /\ run' = [run EXCEPT ![r] = [@ EXCEPT !.pc = "move", !.plan = plan, !.moves = plan]]
  /\ Working /\ Others /\ UNCHANGED Disk

Src(r) == Head(run[r].moves).src
Dest(r) == Head(run[r].moves).dest
AtMove(r) == run[r].pc = "move" /\ run[r].moves # <<>>

\* Mutant: a source whose copy is complete is passed over, and stays.
SkipKeepsSource(r) ==
  /\ AtMove(r)
  /\ Src(r) \notin staging \/ SameSize(lib[Dest(r)], Src(r))
  /\ NextMove(r)
  /\ Working /\ Others /\ UNCHANGED Disk

\* A source that is gone is passed over; one whose copy is complete is removed, unless
\* it is locked.
Skip(r) ==
  /\ AtMove(r)
  /\ \/ Src(r) \notin staging /\ UNCHANGED staging
     \/ /\ Src(r) \in staging
        /\ SameSize(lib[Dest(r)], Src(r))
        /\ staging' = staging \ ({Src(r)} \ locked)
  /\ NextMove(r)
  /\ Working /\ Others /\ UNCHANGED <<folder, lib>>

\* Another size at the destination is an interrupted copy: removed, and redone.
Clear(r) ==
  /\ AtMove(r)
  /\ Src(r) \in staging
  /\ ~SameSize(lib[Dest(r)], Src(r))
  /\ lib' = [lib EXCEPT ![Dest(r)] = Nothing]
  /\ At(r, "clear")
  /\ Working /\ Others /\ UNCHANGED <<staging, folder>>

\* shutil.move renames, or copies when the rename is refused.
Rename(r) ==
  /\ run[r].pc = "clear"
  /\ Src(r) \in staging \ locked
  /\ lib' = [lib EXCEPT ![Dest(r)] = Copy(Src(r), TRUE)]
  /\ staging' = staging \ {Src(r)}
  /\ NextMove(r)
  /\ Working /\ Others /\ UNCHANGED folder

CopyStarts(r) ==
  /\ run[r].pc = "clear"
  /\ Src(r) \in staging
  /\ lib' = [lib EXCEPT ![Dest(r)] = Copy(Src(r), FALSE)]
  /\ At(r, "copying")
  /\ copied' = TRUE
  /\ Working /\ UNCHANGED <<downloaded, locked, faults, overlapped, staging, folder>>

\* PermissionError before anything is written: the file is left for a later run.
Denied(r) ==
  /\ run[r].pc = "clear"
  /\ Src(r) \in staging \cap locked
  /\ NextMove(r)
  /\ Working /\ Others /\ UNCHANGED Disk

\* The copy is complete, where it still stands; a locked source stays.
Landed(r) ==
  lib' = [lib EXCEPT ![Dest(r)] =
            IF @ = Copy(Src(r), FALSE) THEN Copy(Src(r), TRUE) ELSE @]
CopyEnds(r) ==
  /\ run[r].pc = "copying"
  /\ Src(r) \in staging
  /\ Landed(r)
  /\ staging' = staging \ ({Src(r)} \ locked)
  /\ NextMove(r)
  /\ Working /\ Others /\ UNCHANGED folder

\* A copy breaks off with an error the step does not expect.
CopyFails(r) ==
  /\ run[r].pc = "copying"
  /\ faults < MaxFaults
  /\ faults' = faults + 1
  /\ Fail(r)
  /\ UNCHANGED <<downloaded, locked, Disk, History>>

\* The source vanished under the move, or under its copy: an error the step does not
\* expect.
SourceVanished(r) ==
  /\ run[r].pc \in {"clear", "copying"}
  /\ Src(r) \notin staging
  /\ IF run[r].pc = "copying" THEN Landed(r) ELSE UNCHANGED lib
  /\ Fail(r)
  /\ Others /\ UNCHANGED <<staging, folder>>

Recorded(r) == {d \in {m.dest : m \in Range(run[r].plan)} : lib[d] # Nothing}

\* Mutant: the folder is removed without a look at what the moves left in it.
FinishAnyway(r) ==
  /\ run[r].pc = "move"
  /\ run[r].moves = <<>>
  /\ staging' = {}
  /\ folder' = FALSE
  /\ status' = "SCAN"
  /\ placed' = Recorded(r)
  /\ run' = [run EXCEPT ![r] = Idle]
  /\ Others /\ UNCHANGED lib

\* Past the last move.  RenameIncompleteError while a video is left; then the folder
\* goes with all it holds, which fails at a locked file; then the step records what
\* stands at its own destinations.
Finish(r) ==
  /\ run[r].pc = "move"
  /\ run[r].moves = <<>>
  /\ \/ /\ Videos(staging) # {}
        /\ Fail(r)
        /\ UNCHANGED Disk
     \/ /\ Videos(staging) = {}
        /\ staging \cap locked # {}
        /\ staging' = staging \cap locked
        /\ Fail(r)
        /\ UNCHANGED <<folder, lib>>
     \/ /\ Videos(staging) = {}
        /\ staging \cap locked = {}
        /\ staging' = {}
        /\ folder' = FALSE
        /\ status' = "SCAN"
        /\ placed' = Recorded(r)
        /\ run' = [run EXCEPT ![r] = Idle]
        /\ UNCHANGED lib
  /\ Others

Step(r) ==
  \/ Start(r) \/ List(r) \/ Refuse(r) \/ MakePlan(r)
  \/ Skip(r) \/ Clear(r) \/ Rename(r) \/ CopyStarts(r) \/ Denied(r)
  \/ CopyEnds(r) \/ CopyFails(r) \/ SourceVanished(r) \/ Finish(r)

\* A scanner, or Jellyfin, opens a file of the download, and closes it again.
Lock(f) ==
  /\ f \in staging \ locked
  /\ faults < MaxFaults
  /\ locked' = locked \cup {f}
  /\ faults' = faults + 1
  /\ UNCHANGED <<downloaded, Disk, run, status, placed, History>>

Unlock(f) ==
  /\ f \in locked
  /\ locked' = locked \ {f}
  /\ UNCHANGED <<downloaded, Disk, run, status, placed, faults, History>>

Crash ==
  /\ \E r \in Runs : run[r] # Idle
  /\ faults < MaxFaults
  /\ run' = [r \in Runs |-> Idle]
  /\ faults' = faults + 1
  /\ UNCHANGED <<downloaded, Disk, locked, status, placed, History>>

Next ==
  \/ \E r \in Runs : Step(r)
  \/ \E f \in Files : Lock(f) \/ Unlock(f)
  \/ Crash

\* A failed placement is run again, by the poll or by a human, and what holds a file
\* open lets go of it.
Fairness ==
  /\ \A r \in Runs : WF_vars(Step(r))
  /\ \A f \in Files : WF_vars(Unlock(f))

Spec == Init /\ [][Next]_vars /\ Fairness

-----------------------------------------------------------------------------
(* Properties. *)

\* Two runs of the step have overlapped and one of them had to copy.  Nothing orders
\* the two then: one removes as interrupted the copy the other is making, whose end
\* removes the source.  All that is said below is said of the rest.
Torn == overlapped /\ copied

\* No video of the download is ever lost, although apply_plan removes sources and
\* destinations both: until it stands whole in the library it is still in the download
\* folder.  Broken copies, locked sources, crashes and plans made anew of what is left
\* do not lose one, nor do two runs at once that only rename.
VideosKept ==
  Torn \/ \A v \in Videos(downloaded) :
            v \in staging \/ \E d \in Dests : lib[d] = Copy(v, TRUE)

\* However often the step was broken off and planned again, a placed job's videos stand
\* where the plan of the whole download would have put them.
PlacedAsFirstPlanned ==
  status = "SCAN" /\ ~Torn =>
    \A m \in Range(Plan(downloaded)) :
      Info[m.src].video => lib[m.dest] = Copy(m.src, TRUE)

\* "A retry after a partial run finishes the remainder" (apply_plan): once no more
\* locks, broken copies or crashes come, a job whose folder arrived is placed.
RetriesFinish == [](downloaded # {} => <>(status = "SCAN" \/ Torn))
=============================================================================
