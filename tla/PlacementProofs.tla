-------------------------- MODULE PlacementProofs --------------------------
(***************************************************************************)
(* What holds of a placement for every download, however large, and every  *)
(* number of runs and faults.                                              *)
(*                                                                         *)
(* First of the plan (plan_rename): it is the moves of the videos, each    *)
(* once, in order; and plans made of different parts of one download agree *)
(* when the names tell its files apart, which a movie's extras do not      *)
(* (replanned.cfg).  Then of the step (apply_plan, _step_rename): types;   *)
(* no video lost; and a placed job's videos where they were first planned. *)
(***************************************************************************)
EXTENDS Placement, FiniteSetTheorems, TLAPS

-----------------------------------------------------------------------------
(* The moves, before they are put in order. *)

LEMMA InfoTypes ==
  ASSUME NEW f \in Files
  PROVE  /\ f \in Nat
         /\ Info[f].size \in Nat
         /\ Info[f].video \in BOOLEAN
BY PlacementAssumption DEF PlacementAssumption, FileInfo

\* A move is known by its video and its file.
LEMMA MoveOf ==
  ASSUME NEW S \in SUBSET Files, NEW m \in MovesFor(S)
  PROVE  /\ m.video \in Videos(S) /\ m \in MovesOf(m.video, S)
         /\ m.src \in {m.video} \cup Companions(m.video, S)
         /\ m = IF Stem(m.video, S) = NoCode
                THEN Move(m.video, m.video, "extras", Info[m.video].name)
                ELSE Move(m.src, m.video, Stem(m.video, S), Info[m.src].ext)
<1>1. PICK v \in Videos(S) : m \in MovesOf(v, S)
  BY DEF MovesFor
<1>2. CASE Stem(v, S) = NoCode
  <2>1. m = Move(v, v, "extras", Info[v].name)
    BY <1>1, <1>2 DEF MovesOf
  <2>2. m.video = v /\ m.src = v
    BY <2>1 DEF Move
  <2> QED BY <1>1, <1>2, <2>1, <2>2
<1>3. CASE Stem(v, S) # NoCode
  <2>1. PICK f \in {v} \cup Companions(v, S) : m = Move(f, v, Stem(v, S), Info[f].ext)
    BY <1>1, <1>3 DEF MovesOf
  <2>2. m.video = v /\ m.src = f
    BY <2>1 DEF Move
  <2> QED BY <1>1, <1>3, <2>1, <2>2
<1> QED BY <1>2, <1>3

LEMMA MoveFiles ==
  ASSUME NEW S \in SUBSET Files, NEW m \in MovesFor(S)
  PROVE  /\ m.src \in S /\ m.video \in S
         /\ Info[m.video].video
         /\ Info[m.src].video => m.src = m.video
BY MoveOf DEF Videos, Companions

\* A video is moved.
LEMMA VideosMove ==
  ASSUME NEW S \in SUBSET Files, NEW v \in Videos(S)
  PROVE  \E m \in MovesFor(S) : m.src = v
<1>1. /\ Move(v, v, "extras", Info[v].name).src = v
      /\ Move(v, v, Stem(v, S), Info[v].ext).src = v
  BY DEF Move
<1>2. \/ Move(v, v, "extras", Info[v].name) \in MovesOf(v, S)
      \/ Move(v, v, Stem(v, S), Info[v].ext) \in MovesOf(v, S)
  BY DEF MovesOf
<1> QED BY <1>1, <1>2 DEF MovesFor

-----------------------------------------------------------------------------
(* Their order. *)

LEMMA LeadsOrders ==
  /\ \A v \in Files : ~Leads(v, v)
  /\ \A v, w \in Files : v = w \/ Leads(v, w) \/ Leads(w, v)
  /\ \A u, v, w \in Files : Leads(u, v) /\ Leads(v, w) => Leads(u, w)
BY InfoTypes DEF Leads, Bigger

LEMMA BeforeOrders ==
  ASSUME NEW S \in SUBSET Files
  PROVE  /\ \A a \in MovesFor(S) : ~Before(a, a)
         /\ \A a, b \in MovesFor(S) : a = b \/ Before(a, b) \/ Before(b, a)
         /\ \A a, b, c \in MovesFor(S) : Before(a, b) /\ Before(b, c) => Before(a, c)
<1> DEFINE M == MovesFor(S)
<1>1. \A a \in M : a.src \in Nat /\ a.src \in Files /\ a.video \in Files
  BY MoveFiles, InfoTypes
<1>2. \A a \in M : ~Before(a, a)
  BY <1>1, LeadsOrders DEF Before
<1>3. ASSUME NEW a \in M, NEW b \in M PROVE a = b \/ Before(a, b) \/ Before(b, a)
  <2>1. CASE a.video # b.video
    BY <1>1, <2>1, LeadsOrders DEF Before
  <2>2. CASE a.video = b.video /\ a.src = b.src
    <3>1. a = b
      BY <2>2, MoveOf
    <3> QED BY <3>1
  <2>3. CASE a.video = b.video /\ a.src # b.src
    BY <1>1, <2>3 DEF Before
  <2> QED BY <2>1, <2>2, <2>3
<1>4. ASSUME NEW a \in M, NEW b \in M, NEW c \in M, Before(a, b), Before(b, c)
      PROVE  Before(a, c)
  <2>1. CASE Leads(a.video, b.video) \/ Leads(b.video, c.video)
    BY <1>1, <1>4, <2>1, LeadsOrders DEF Before
  <2>2. CASE ~Leads(a.video, b.video) /\ ~Leads(b.video, c.video)
    BY <1>1, <1>4, <2>2 DEF Before
  <2> QED BY <2>1, <2>2
<1> QED BY <1>2, <1>3, <1>4

LEMMA MovesFinite == ASSUME NEW S \in SUBSET Files PROVE IsFiniteSet(MovesFor(S))
<1> DEFINE M == MovesFor(S)  key == [m \in M |-> <<m.video, m.src>>]
<1>1. IsFiniteSet(Files \X Files)
  BY PlacementAssumption, FS_Product DEF PlacementAssumption
<1>2. \A m \in M : m.video \in Files /\ m.src \in Files
  BY MoveFiles
<1>3. \A a, b \in M : a.video = b.video /\ a.src = b.src => a = b
  BY MoveOf
<1> HIDE DEF M
<1>4. key \in Injection(M, Files \X Files)
  BY <1>2, <1>3 DEF Injection, IsInjective
<1> HIDE DEF key
<1> QED BY <1>1, <1>4, FS_Injection DEF M

\* Earlier moves have lower places, and there are as many places as moves.
LEMMA Places ==
  ASSUME NEW S \in SUBSET Files
  PROVE  LET M == MovesFor(S) IN
         /\ Cardinality(M) \in Nat
         /\ \A m \in M : Place(m, M) \in 1 .. Cardinality(M)
         /\ \A a, b \in M : Before(a, b) => Place(a, M) < Place(b, M)
<1> DEFINE M == MovesFor(S)  n == Cardinality(M)  Pre(m) == {a \in M : Before(a, m)}
<1>1. IsFiniteSet(M) /\ n \in Nat
  BY MovesFinite, FS_CardinalityType
<1>2. \A m \in M : Pre(m) \in SUBSET M /\ IsFiniteSet(Pre(m)) /\ Cardinality(Pre(m)) \in Nat
  BY <1>1, FS_Subset, FS_CardinalityType
<1>3. ASSUME NEW m \in M PROVE Cardinality(Pre(m)) < n
  <2>1. Pre(m) # M
    BY BeforeOrders
  <2> QED BY <1>1, <1>2, <2>1, FS_Subset
<1>4. ASSUME NEW a \in M, NEW b \in M, Before(a, b)
      PROVE  Cardinality(Pre(a)) < Cardinality(Pre(b))
  <2>1. Pre(a) \subseteq Pre(b) /\ Pre(a) # Pre(b)
    BY <1>4, BeforeOrders
  <2> HIDE DEF Pre
  <2> QED BY <1>2, <2>1, FS_Subset
<1>5. \A m \in M : Place(m, M) = 1 + Cardinality(Pre(m))
  BY DEF Place
<1> HIDE DEF M, Pre
<1>6. \A m \in M : Place(m, M) \in 1 .. n
  BY <1>1, <1>2, <1>3, <1>5
<1>7. \A a, b \in M : Before(a, b) => Place(a, M) < Place(b, M)
  BY <1>2, <1>4, <1>5
<1> QED BY <1>1, <1>6, <1>7 DEF M

\* A plan is its moves, each once, the earlier before the later.
THEOREM PlanOrdersItsMoves ==
  ASSUME NEW S \in SUBSET Files
  PROVE  /\ Plan(S) \in Seq(MovesFor(S))
         /\ Len(Plan(S)) = Cardinality(MovesFor(S))
         /\ Range(Plan(S)) = MovesFor(S)
         /\ \A i, k \in 1 .. Len(Plan(S)) : i < k => Before(Plan(S)[i], Plan(S)[k])
<1> DEFINE M == MovesFor(S)  n == Cardinality(M)  place == [m \in M |-> Place(m, M)]
<1>1. /\ n \in Nat
      /\ \A m \in M : Place(m, M) \in 1 .. n
      /\ \A a, b \in M : Before(a, b) => Place(a, M) < Place(b, M)
  BY Places
<1>2. \A a, b \in M : a = b \/ Before(a, b) \/ Before(b, a)
  BY BeforeOrders
<1>3. \A a, b \in M : Place(a, M) = Place(b, M) => a = b
  BY <1>1, <1>2
<1>4. IsFiniteSet(M) /\ IsFiniteSet(1 .. n) /\ Cardinality(1 .. n) = n
  BY <1>1, MovesFinite, FS_Interval
<1>5. Plan(S) = [i \in 1 .. n |-> CHOOSE m \in M : Place(m, M) = i]
  BY DEF Plan
<1> HIDE DEF M
<1>6. place \in Injection(M, 1 .. n)
  BY <1>1, <1>3 DEF Injection, IsInjective
<1>7. place \in Surjection(M, 1 .. n)
  <2> HIDE DEF place
  <2> QED BY <1>4, <1>6, FS_Injection
<1>8. \A i \in 1 .. n : \E m \in M : Place(m, M) = i
  BY <1>7 DEF Surjection
<1>9. \A i \in 1 .. n : Plan(S)[i] \in M /\ Place(Plan(S)[i], M) = i
  BY <1>5, <1>8
<1>10. Plan(S) \in [1 .. n -> M] /\ DOMAIN Plan(S) = 1 .. n
  BY <1>5, <1>9
<1>11. Plan(S) \in Seq(M) /\ Len(Plan(S)) = n
  BY <1>1, <1>10
<1>12. Range(Plan(S)) = M
  <2>1. ASSUME NEW m \in M PROVE \E i \in 1 .. n : Plan(S)[i] = m
    BY <1>1, <1>3, <1>9
  <2> QED BY <1>9, <1>10, <2>1 DEF Range
<1>13. ASSUME NEW i \in 1 .. n, NEW k \in 1 .. n, i < k
       PROVE  Before(Plan(S)[i], Plan(S)[k])
  <2>1. ~Before(Plan(S)[k], Plan(S)[i]) /\ Plan(S)[i] # Plan(S)[k]
    BY <1>1, <1>9, <1>13
  <2> QED BY <1>2, <1>9, <2>1
<1> QED BY <1>11, <1>12, <1>13 DEF M

-----------------------------------------------------------------------------
(* Plans made of different parts of a download. *)

LEMMA MovesInParts ==
  ASSUME NEW m \in Moves
  PROVE  \E S \in SUBSET Files :
           /\ m \in MovesFor(S) /\ m \in MovesOf(m.video, S)
           /\ m.video \in Videos(S) /\ m.video \in Videos(Files) /\ m.video \in Files
           /\ m.src \in {m.video} \cup Companions(m.video, Files)
<1>1. PICK S \in SUBSET Files : m \in MovesFor(S)
  BY DEF Moves
<1>2. Companions(m.video, S) \subseteq Companions(m.video, Files)
  BY DEF Companions
<1> QED BY <1>1, <1>2, MoveOf DEF Videos

\* Where names tell files apart, a video's place is the same in every part of the
\* download that holds it: its own, by what its name or its folder claims.
LEMMA ClaimsStay ==
  ASSUME ToldApart, NEW S \in SUBSET Files, NEW v \in Videos(S)
  PROVE  Stem(v, S) = IF Media = "MOVIE" THEN "title" ELSE Claim(v)
<1>1. \A w \in Videos(S) : w \in Videos(Files)
  BY DEF Videos
<1>2. CASE Media = "MOVIE"
  BY <1>1, <1>2 DEF ToldApart, Stem
<1>3. CASE Media = "SHOW"
  <2>1. ASSUME NEW w \in Videos(S) \ {v}, Claim(w) = Claim(v) PROVE Claim(v) = NoCode
    BY <1>1, <2>1 DEF ToldApart
  <2> QED BY <1>3, <2>1 DEF Stem, Code
<1> QED BY <1>2, <1>3, PlacementAssumption DEF PlacementAssumption

LEMMA PlaceOf ==
  ASSUME ToldApart, NEW m \in Moves
  PROVE  /\ m.video \in Videos(Files)
         /\ m.src \in {m.video} \cup Companions(m.video, Files)
         /\ \/ /\ Media = "SHOW" /\ Claim(m.video) = NoCode
               /\ m.src = m.video /\ m.dest = <<"extras", Info[m.src].name>>
            \/ /\ Media = "MOVIE" /\ m.dest = <<"title", Info[m.src].ext>>
            \/ /\ Media = "SHOW" /\ Claim(m.video) # NoCode
               /\ m.dest = <<Claim(m.video), Info[m.src].ext>>
<1>1. PICK S \in SUBSET Files :
         /\ m \in MovesFor(S)
         /\ m.video \in Videos(S) /\ m.video \in Videos(Files)
         /\ m.src \in {m.video} \cup Companions(m.video, Files)
  BY MovesInParts
<1>2. Stem(m.video, S) = IF Media = "MOVIE" THEN "title" ELSE Claim(m.video)
  BY <1>1, ClaimsStay
<1>3. "title" # NoCode
  BY PlacementAssumption DEF PlacementAssumption
<1>4. CASE Stem(m.video, S) = NoCode
  <2>1. m = Move(m.video, m.video, "extras", Info[m.video].name)
    BY <1>1, <1>4, MoveOf
  <2>2. m.src = m.video /\ m.dest = <<"extras", Info[m.video].name>>
    BY <2>1 DEF Move
  <2> QED BY <1>1, <1>2, <1>3, <1>4, <2>2, PlacementAssumption DEF PlacementAssumption
<1>5. CASE Stem(m.video, S) # NoCode
  <2>1. m = Move(m.src, m.video, Stem(m.video, S), Info[m.src].ext)
    BY <1>1, <1>5, MoveOf
  <2>2. m.dest = <<Stem(m.video, S), Info[m.src].ext>>
    BY <2>1 DEF Move
  <2> QED BY <1>1, <1>2, <1>5, <2>2, PlacementAssumption DEF PlacementAssumption
<1> QED BY <1>4, <1>5

\* A download whose names tell its files apart is planned the same however much of it is
\* left: no place is ever planned for two of its files, and no video for two places.
THEOREM PlansOfTheToldApart ==
  ASSUME ToldApart
  PROVE  PlansAgree /\ PlacesStay
<1>1. ASSUME NEW m \in Moves, NEW n \in Moves, m.dest = n.dest PROVE m.src = n.src
  <2>1. m.video \in Videos(Files) /\ n.video \in Videos(Files)
    BY PlaceOf
  <2>2. CASE Media = "MOVIE"
    <3>1. m.video = n.video /\ Info[m.src].ext = Info[n.src].ext
      BY <1>1, <2>1, <2>2, PlaceOf DEF ToldApart
    <3> QED BY <2>1, <3>1, PlaceOf DEF ToldApart
  <2>3. CASE Claim(m.video) = NoCode /\ Claim(n.video) = NoCode /\ Media = "SHOW"
    <3>1. Info[m.video].name = Info[n.video].name /\ m.src = m.video /\ n.src = n.video
      BY <1>1, <2>3, PlaceOf
    <3> QED BY <2>1, <2>3, <3>1 DEF ToldApart
  <2>4. CASE Claim(m.video) # NoCode /\ Claim(n.video) # NoCode /\ Media = "SHOW"
    <3>1. Claim(m.video) = Claim(n.video) /\ Info[m.src].ext = Info[n.src].ext
      BY <1>1, <2>4, PlaceOf
    <3>2. m.video = n.video
      BY <2>1, <2>4, <3>1 DEF ToldApart
    <3> QED BY <2>1, <3>1, <3>2, PlaceOf DEF ToldApart
  <2>5. ASSUME NEW a \in Moves, NEW b \in Moves, a.dest = b.dest, Media = "SHOW",
               Claim(a.video) = NoCode, Claim(b.video) # NoCode
        PROVE  FALSE
    <3>1. Claim(b.video) = "extras" /\ b.video \in Videos(Files)
      BY <2>5, PlaceOf
    <3> QED BY <3>1 DEF ToldApart
  <2> QED BY <1>1, <2>2, <2>3, <2>4, <2>5, PlacementAssumption DEF PlacementAssumption
<1>2. ASSUME NEW m \in Moves, NEW n \in Moves, m.src = n.src, Info[m.src].video
      PROVE  m.dest = n.dest
  <2>1. m.video = m.src /\ n.video = n.src
    BY <1>2, PlaceOf DEF Companions
  <2> QED BY <1>2, <2>1, PlaceOf
<1> QED BY <1>1, <1>2 DEF PlansAgree, PlacesStay

-----------------------------------------------------------------------------
(* Types.  A file stands only where it was planned, a run has left only     *)
(* what it planned, and it plans only what was downloaded.                  *)

Copies == [file : Files \cup {0}, whole : BOOLEAN]
Pcs == {"idle", "list", "plan", "move", "clear", "copying"}
RunType == [pc : Pcs, files : SUBSET Files, plan : Seq(Moves), moves : Seq(Moves)]

Planned(f, d) == \E m \in Moves : m.src = f /\ m.dest = d

RunOK(k) ==
  /\ k \in RunType
  /\ k.files \subseteq downloaded
  /\ \A i \in 1 .. Len(k.plan) : k.plan[i].src \in downloaded
  /\ \A i \in 1 .. Len(k.moves) : \E n \in 1 .. Len(k.plan) : k.moves[i] = k.plan[n]
  /\ k.pc \in {"clear", "copying"} => k.moves # <<>>

\* What stands somewhere was planned there; part of a file is there only since a copy.
LibOK ==
  /\ lib \in [Dests -> Copies]
  /\ \A d \in Dests : lib[d] # Nothing =>
       /\ lib[d].file \in downloaded /\ Planned(lib[d].file, d)
       /\ lib[d].whole \/ copied

FolderOK ==
  /\ staging \subseteq downloaded
  /\ staging # {} => folder
  /\ status = "SCAN" => staging = {}

RestOK ==
  /\ downloaded \subseteq Files
  /\ locked \subseteq Files
  /\ status \in {"RENAME", "FAILED", "SCAN"}
  /\ placed \subseteq Dests
  /\ faults \in 0 .. MaxFaults
  /\ overlapped \in BOOLEAN /\ copied \in BOOLEAN

Shape ==
  /\ RestOK /\ FolderOK /\ LibOK
  /\ run \in [Runs -> RunType] /\ \A r \in Runs : RunOK(run[r])

LEMMA IdleOK == RunOK(Idle) /\ Idle \in RunType
<1>1. Idle \in RunType
  BY DEF Idle, RunType, Pcs
<1> QED BY <1>1 DEF Idle, RunOK

LEMMA InitShape == Init => Shape
<1> SUFFICES ASSUME Init PROVE Shape OBVIOUS
<1>1. Nothing \in Copies
  BY DEF Nothing, Copy, Copies
<1>2. LibOK
  BY <1>1 DEF Init, LibOK
<1>3. FolderOK
  BY DEF Init, FolderOK
<1>5. 0 \in 0 .. MaxFaults
  BY PlacementAssumption DEF PlacementAssumption
<1>6. RestOK
  BY <1>5 DEF Init, RestOK
<1>4. run = [r \in Runs |-> Idle]
  BY DEF Init
<1> QED BY <1>2, <1>3, <1>4, <1>6, IdleOK DEF Shape

LEMMA ShapeTypes == Shape => TypeOK
<1> SUFFICES ASSUME Shape PROVE TypeOK OBVIOUS
<1>1. \A d \in Dests : lib[d] = Nothing \/ lib[d].file \in downloaded
  BY DEF Shape, LibOK
<1>2. ASSUME NEW r \in Runs
      PROVE  /\ run[r].pc \in Pcs
             /\ run[r].files \subseteq downloaded
             /\ run[r].plan \in Seq(Moves) /\ run[r].moves \in Seq(Moves)
             /\ run[r].pc \in {"clear", "copying"} => run[r].moves # <<>>
             /\ Range(run[r].moves) \subseteq Range(run[r].plan)
  <2>1. RunOK(run[r]) /\ run[r] \in RunType
    BY DEF Shape
  <2>2. run[r].plan \in Seq(Moves) /\ run[r].moves \in Seq(Moves) /\ run[r].pc \in Pcs
    BY <2>1 DEF RunType
  <2>3. Range(run[r].moves) \subseteq Range(run[r].plan)
    <3>1. \A s \in Seq(Moves) : Range(s) = {s[i] : i \in 1 .. Len(s)}
      BY DEF Range
    <3> QED BY <2>1, <2>2, <3>1 DEF RunOK
  <2> QED BY <2>1, <2>2, <2>3 DEF RunOK
<1> QED BY <1>1, <1>2 DEF Shape, RestOK, FolderOK, TypeOK, Pcs

\* A step of one run, on the rest of the state.
LEMMA RunMoves ==
  ASSUME Shape, NEW r \in Runs, NEW k, RunOK(k), run' = [run EXCEPT ![r] = k],
         downloaded' = downloaded
  PROVE  /\ run' \in [Runs -> RunType] /\ \A q \in Runs : RunOK(run[q])'
         /\ run'[r] = k /\ \A q \in Runs \ {r} : run'[q] = run[q]
<1>1. k \in RunType
  BY DEF RunOK
<1>2. run \in [Runs -> RunType] /\ \A q \in Runs : RunOK(run[q])
  BY DEF Shape
<1>3. /\ run' \in [Runs -> RunType] /\ run'[r] = k
      /\ \A q \in Runs \ {r} : run'[q] = run[q]
  BY <1>1, <1>2
<1>4. \A q \in Runs : RunOK(run'[q])
  BY <1>2, <1>3
<1>5. \A q \in Runs : RunOK(run[q])'
  BY <1>4 DEF RunOK
<1> QED BY <1>3, <1>5

\* The run is at another await, with what it had.
LEMMA Onto ==
  ASSUME Shape, NEW r \in Runs, NEW pc \in Pcs, At(r, pc), downloaded' = downloaded,
         pc \in {"clear", "copying"} => run[r].moves # <<>>
  PROVE  /\ run' \in [Runs -> RunType] /\ \A q \in Runs : RunOK(run[q])'
         /\ run'[r].pc = pc /\ run'[r].moves = run[r].moves
         /\ \A q \in Runs \ {r} : run'[q] = run[q]
<1> DEFINE k == [run[r] EXCEPT !.pc = pc]
<1>1. run[r] \in RunType /\ RunOK(run[r])
  BY DEF Shape
<1>2. run' = [run EXCEPT ![r] = k]
  BY DEF At
<1>3. /\ k \in RunType /\ k.pc = pc /\ k.moves = run[r].moves /\ k.files = run[r].files
      /\ k.plan = run[r].plan
  BY <1>1 DEF RunType
<1> HIDE DEF k
<1>4. RunOK(k)
  BY <1>1, <1>3 DEF RunOK
<1> QED BY <1>2, <1>3, <1>4, RunMoves

\* The run is over its move.
LEMMA Onward ==
  ASSUME Shape, NEW r \in Runs, run[r].moves # <<>>, NextMove(r), downloaded' = downloaded
  PROVE  /\ run' \in [Runs -> RunType] /\ \A q \in Runs : RunOK(run[q])'
         /\ run'[r].pc = "move"
         /\ \A q \in Runs \ {r} : run'[q] = run[q]
<1>1. run[r].moves \in Seq(Moves) /\ RunOK(run[r]) /\ run[r] \in RunType
  BY DEF Shape, RunType
<1> DEFINE rest == Tail(run[r].moves)
<1>2. /\ rest \in Seq(Moves)
      /\ \A i \in 1 .. Len(rest) : rest[i] = run[r].moves[i + 1]
      /\ \A i \in 1 .. Len(rest) : i + 1 \in 1 .. Len(run[r].moves)
  BY <1>1
<1>3. \A i \in 1 .. Len(rest) : \E n \in 1 .. Len(run[r].plan) : rest[i] = run[r].plan[n]
  BY <1>1, <1>2 DEF RunOK
<1> DEFINE k == [run[r] EXCEPT !.pc = "move", !.moves = rest]
<1>4. run' = [run EXCEPT ![r] = k]
  BY DEF NextMove
<1> HIDE DEF rest
<1>5. /\ k \in RunType /\ k.pc = "move" /\ k.moves = rest
      /\ k.files = run[r].files /\ k.plan = run[r].plan
  BY <1>1, <1>2 DEF Pcs, RunType
<1> HIDE DEF k
<1>6. RunOK(k)
  BY <1>1, <1>3, <1>5 DEF RunOK
<1> QED BY <1>4, <1>5, <1>6, RunMoves

\* The run ends.
LEMMA Ended ==
  ASSUME Shape, NEW r \in Runs, run' = [run EXCEPT ![r] = Idle], downloaded' = downloaded
  PROVE  /\ run' \in [Runs -> RunType] /\ \A q \in Runs : RunOK(run[q])'
         /\ run'[r] = Idle
         /\ \A q \in Runs \ {r} : run'[q] = run[q]
BY IdleOK, RunMoves

\* At a move: its file was downloaded, and planned there.
LEMMA AtAMove ==
  ASSUME Shape, NEW r \in Runs, run[r].moves # <<>>
  PROVE  /\ Src(r) \in downloaded /\ Src(r) \in Files /\ Dest(r) \in Dests
         /\ Planned(Src(r), Dest(r))
<1>1. run[r].moves \in Seq(Moves) /\ run[r].plan \in Seq(Moves) /\ RunOK(run[r])
  BY DEF Shape, RunType
<1>2. /\ Head(run[r].moves) = run[r].moves[1]
      /\ 1 \in 1 .. Len(run[r].moves)
      /\ run[r].moves[1] \in Moves
  BY <1>1
<1>3. PICK n \in 1 .. Len(run[r].plan) : run[r].moves[1] = run[r].plan[n]
  BY <1>1, <1>2 DEF RunOK
<1>4. Src(r) \in downloaded
  BY <1>1, <1>2, <1>3 DEF RunOK, Src
<1> QED BY <1>2, <1>4 DEF Src, Dest, Dests, Planned, Shape, RestOK

\* A write at the destination of the run's move, of the file that is moved: part of it,
\* or all of it.
LEMMA WriteAtMove ==
  ASSUME Shape, NEW r \in Runs, run[r].moves # <<>>, downloaded' = downloaded,
         NEW whole \in BOOLEAN, whole \/ copied', copied => copied',
         lib' = [lib EXCEPT ![Dest(r)] = Copy(Src(r), whole)]
  PROVE  LibOK' /\ lib'[Dest(r)] = Copy(Src(r), whole)
<1> DEFINE f == Src(r)  d == Dest(r)  c == Copy(f, whole)
<1>1. f \in downloaded /\ f \in Files /\ d \in Dests /\ Planned(f, d)
  BY AtAMove
<1>2. c \in Copies /\ c.file = f /\ c.whole = whole
  BY <1>1 DEF Copy, Copies
<1>3. lib' = [lib EXCEPT ![d] = c] /\ lib \in [Dests -> Copies]
  BY DEF Shape, LibOK
<1> HIDE DEF f, d, c
<1>4. lib' \in [Dests -> Copies] /\ lib'[d] = c /\ \A e \in Dests \ {d} : lib'[e] = lib[e]
  BY <1>1, <1>2, <1>3
<1>5. LibOK'
  BY <1>1, <1>2, <1>4 DEF Shape, LibOK
<1> QED BY <1>4, <1>5 DEF c, d, f

\* A copy's end: part of its file becomes all of it, if it still stands there.
LEMMA LandedAtMove ==
  ASSUME Shape, NEW r \in Runs, run[r].moves # <<>>, Landed(r),
         UNCHANGED <<downloaded, copied>>
  PROVE  /\ LibOK' /\ Dest(r) \in Dests
         /\ \A v : \A d \in Dests : lib[d] = Copy(v, TRUE) => lib'[d] = Copy(v, TRUE)
         /\ lib[Dest(r)] = Copy(Src(r), FALSE) => lib'[Dest(r)] = Copy(Src(r), TRUE)
<1> DEFINE f == Src(r)  d == Dest(r)
<1>1. f \in downloaded /\ f \in Files /\ d \in Dests /\ Planned(f, d)
  BY AtAMove
<1>2. /\ Copy(f, TRUE) \in Copies /\ Copy(f, TRUE).file = f /\ Copy(f, TRUE).whole
      /\ Copy(f, TRUE) # Copy(f, FALSE)
  BY <1>1 DEF Copy, Copies
<1>3. /\ lib' = [lib EXCEPT ![d] = IF lib[d] = Copy(f, FALSE) THEN Copy(f, TRUE) ELSE lib[d]]
      /\ lib \in [Dests -> Copies]
  BY DEF Landed, Shape, LibOK
<1> HIDE DEF f, d
<1>4. /\ lib' \in [Dests -> Copies]
      /\ \A e \in Dests : \/ lib'[e] = lib[e]
                          \/ e = d /\ lib[e] = Copy(f, FALSE) /\ lib'[e] = Copy(f, TRUE)
  BY <1>1, <1>2, <1>3
<1>5. LibOK'
  BY <1>1, <1>2, <1>4 DEF Shape, LibOK
<1>6. ASSUME NEW v, NEW e \in Dests, lib[e] = Copy(v, TRUE) PROVE lib'[e] = Copy(v, TRUE)
  BY <1>4, <1>6 DEF Copy
<1>7. lib[d] = Copy(f, FALSE) => lib'[d] = Copy(f, TRUE)
  BY <1>1, <1>3
<1> QED BY <1>1, <1>5, <1>6, <1>7 DEF d, f

\* The run has listed what is left, or planned it.
LEMMA Listed ==
  ASSUME Shape, NEW r \in Runs, List(r)
  PROVE  /\ run' \in [Runs -> RunType] /\ \A q \in Runs : RunOK(run[q])'
         /\ run'[r].pc = "plan"
         /\ \A q \in Runs \ {r} : run'[q] = run[q]
<1> DEFINE k == [run[r] EXCEPT !.pc = "plan", !.files = staging]
<1>1. run[r] \in RunType /\ RunOK(run[r]) /\ staging \in SUBSET Files /\ staging \subseteq downloaded
  BY DEF Shape, FolderOK, RestOK
<1>2. run' = [run EXCEPT ![r] = k] /\ downloaded' = downloaded
  BY DEF List, Others
<1>3. /\ k \in RunType /\ k.pc = "plan" /\ k.moves = run[r].moves /\ k.files = staging
      /\ k.plan = run[r].plan
  BY <1>1 DEF RunType, Pcs
<1> HIDE DEF k
<1>4. RunOK(k)
  BY <1>1, <1>3 DEF RunOK
<1> QED BY <1>2, <1>3, <1>4, RunMoves

LEMMA PlanMade ==
  ASSUME Shape, NEW r \in Runs, MakePlan(r)
  PROVE  /\ run' \in [Runs -> RunType] /\ \A q \in Runs : RunOK(run[q])'
         /\ run'[r].pc = "move"
         /\ \A q \in Runs \ {r} : run'[q] = run[q]
<1> DEFINE S == run[r].files  plan == Plan(S)
           k == [run[r] EXCEPT !.pc = "move", !.plan = plan, !.moves = plan]
<1>1. run[r] \in RunType /\ RunOK(run[r])
  BY DEF Shape
<1>2. S \in SUBSET Files /\ S \subseteq downloaded
  BY <1>1 DEF RunOK, RunType
<1>3. plan \in Seq(MovesFor(S)) /\ MovesFor(S) \subseteq Moves
  BY <1>2, PlanOrdersItsMoves DEF Moves
<1>4. run' = [run EXCEPT ![r] = k] /\ downloaded' = downloaded
  BY DEF MakePlan, Others
<1> HIDE DEF plan
<1>5. plan \in Seq(Moves) /\ \A i \in 1 .. Len(plan) : plan[i] \in MovesFor(S)
  BY <1>3
<1>6. \A i \in 1 .. Len(plan) : plan[i].src \in downloaded
  BY <1>2, <1>5, MoveFiles
<1>7. /\ k \in RunType /\ k.pc = "move" /\ k.moves = plan /\ k.plan = plan
      /\ k.files = run[r].files
  BY <1>1, <1>5 DEF RunType, Pcs
<1> HIDE DEF k
<1>8. RunOK(k)
  BY <1>1, <1>6, <1>7 DEF RunOK
<1> QED BY <1>4, <1>7, <1>8, RunMoves

LEMMA StepRuns ==
  ASSUME Shape, NEW r \in Runs, Step(r)
  PROVE  /\ run' \in [Runs -> RunType] /\ \A q \in Runs : RunOK(run[q])'
         /\ \A q \in Runs \ {r} : run'[q] = run[q]
<1>1. RunOK(run[r])
  BY DEF Shape
<1>2. CASE Start(r)
  BY <1>2, Onto DEF Start, Pcs
<1>3. CASE List(r) \/ MakePlan(r)
  BY <1>3, Listed, PlanMade
<1>4. CASE Skip(r) \/ Rename(r) \/ Denied(r) \/ CopyEnds(r)
  <2>1. run[r].moves # <<>> /\ NextMove(r) /\ downloaded' = downloaded
    BY <1>1, <1>4 DEF RunOK, Skip, Rename, Denied, CopyEnds, AtMove, Others
  <2> QED BY <2>1, Onward
<1>5. CASE Clear(r) \/ CopyStarts(r)
  <2>1. /\ run[r].moves # <<>> /\ downloaded' = downloaded
        /\ At(r, "clear") \/ At(r, "copying")
    BY <1>1, <1>5 DEF RunOK, Clear, CopyStarts, AtMove, Others
  <2> QED BY <2>1, Onto DEF Pcs
<1>6. CASE Refuse(r) \/ CopyFails(r) \/ SourceVanished(r) \/ Finish(r)
  <2>1. run' = [run EXCEPT ![r] = Idle] /\ downloaded' = downloaded
    BY <1>6 DEF Refuse, CopyFails, SourceVanished, Finish, Fail, Others
  <2> QED BY <2>1, Ended
<1> QED BY <1>2, <1>3, <1>4, <1>5, <1>6 DEF Step

LEMMA StepFolder ==
  ASSUME Shape, NEW r \in Runs, Step(r)
  PROVE  FolderOK' /\ staging' \subseteq staging
<1> USE DEF Shape, FolderOK
<1>1. CASE Start(r)
  BY <1>1 DEF Start, Disk
<1>2. CASE List(r) \/ MakePlan(r) \/ Denied(r)
  BY <1>2 DEF List, MakePlan, Denied, Disk, Working, Others
<1>3. CASE Refuse(r) \/ CopyFails(r)
  BY <1>3 DEF Refuse, CopyFails, Disk, Fail, Others
<1>4. CASE SourceVanished(r)
  BY <1>4 DEF SourceVanished, Fail, Others
<1>5. CASE Skip(r) \/ Rename(r) \/ CopyEnds(r)
  BY <1>5 DEF Skip, Rename, CopyEnds, Working, Others
<1>6. CASE Clear(r) \/ CopyStarts(r)
  BY <1>6 DEF Clear, CopyStarts, Working, Others
<1>7. CASE Finish(r)
  BY <1>7 DEF Finish, Disk, Fail, Others
<1> QED BY <1>1, <1>2, <1>3, <1>4, <1>5, <1>6, <1>7 DEF Step

LEMMA StepLib == ASSUME Shape, NEW r \in Runs, Step(r) PROVE LibOK'
<1>1. RunOK(run[r])
  BY DEF Shape
<1>2. CASE UNCHANGED <<lib, downloaded, copied>>
  BY <1>2 DEF Shape, LibOK
<1>3. CASE Start(r) \/ List(r) \/ Refuse(r) \/ MakePlan(r) \/ Denied(r)
  BY <1>2, <1>3 DEF Start, List, Refuse, MakePlan, Denied, Disk, Others, History
<1>4. CASE Skip(r) \/ CopyFails(r) \/ Finish(r)
  BY <1>2, <1>4 DEF Skip, CopyFails, Finish, Disk, Others, History
<1>5. CASE Clear(r)
  <2>1. lib' = [lib EXCEPT ![Dest(r)] = Nothing] /\ UNCHANGED <<downloaded, copied>>
    BY <1>5 DEF Clear, Others, History
  <2>2. Nothing \in Copies
    BY DEF Nothing, Copy, Copies
  <2>3. lib' \in [Dests -> Copies] /\ \A d \in Dests : lib'[d] \in {Nothing, lib[d]}
    BY <2>1, <2>2 DEF Shape, LibOK
  <2> QED BY <2>1, <2>3 DEF Shape, LibOK
<1>6. CASE Rename(r)
  BY <1>1, <1>6, WriteAtMove DEF Rename, RunOK, Others, History
<1>7. CASE CopyStarts(r)
  BY <1>1, <1>7, WriteAtMove DEF CopyStarts, RunOK
<1>8. CASE CopyEnds(r)
  BY <1>1, <1>8, LandedAtMove DEF CopyEnds, RunOK, Others, History
<1>9. CASE SourceVanished(r)
  BY <1>1, <1>2, <1>9, LandedAtMove DEF SourceVanished, RunOK, Others, History
<1> QED BY <1>3, <1>4, <1>5, <1>6, <1>7, <1>8, <1>9 DEF Step

LEMMA StepRest == ASSUME Shape, NEW r \in Runs, Step(r) PROVE RestOK'
<1> USE DEF Shape, RestOK
<1>1. UNCHANGED <<downloaded, locked>>
  BY DEF Step, Start, List, Refuse, MakePlan, Skip, Clear, Rename, CopyStarts, Denied,
         CopyEnds, CopyFails, SourceVanished, Finish, Others
<1>2. faults' = faults \/ (faults < MaxFaults /\ faults' = faults + 1)
  BY DEF Step, Start, List, Refuse, MakePlan, Skip, Clear, Rename, CopyStarts, Denied,
         CopyEnds, CopyFails, SourceVanished, Finish, Others
<1>3. faults' \in 0 .. MaxFaults
  BY <1>2, PlacementAssumption DEF PlacementAssumption
<1>4. status' \in {"RENAME", "FAILED", "SCAN"}
  BY DEF Step, Start, List, Refuse, MakePlan, Skip, Clear, Rename, CopyStarts, Denied,
         CopyEnds, CopyFails, SourceVanished, Finish, Working, Fail
<1>5. placed' \subseteq Dests
  <2>1. \A q \in Runs : Recorded(q) \subseteq Dests
    <3>1. \A q \in Runs : run[q].plan \in Seq(Moves)
      BY DEF RunType
    <3>2. \A s \in Seq(Moves) : Range(s) \subseteq Moves
      BY DEF Range
    <3> QED BY <3>1, <3>2 DEF Recorded, Dests
  <2>2. placed' = placed \/ placed' = Recorded(r)
    BY DEF Step, Start, List, Refuse, MakePlan, Skip, Clear, Rename, CopyStarts, Denied,
           CopyEnds, CopyFails, SourceVanished, Finish, Working, Fail
  <2> QED BY <2>1, <2>2
<1>6. overlapped' \in BOOLEAN
  BY DEF Step, Start, List, Refuse, MakePlan, Skip, Clear, Rename, CopyStarts, Denied,
         CopyEnds, CopyFails, SourceVanished, Finish, Others, History
<1>7. copied' \in BOOLEAN
  BY DEF Step, Start, List, Refuse, MakePlan, Skip, Clear, Rename, CopyStarts, Denied,
         CopyEnds, CopyFails, SourceVanished, Finish, Others, History
<1> QED BY <1>1, <1>3, <1>4, <1>5, <1>6, <1>7

LEMMA NextShape == Shape /\ [Next]_vars => Shape'
<1> SUFFICES ASSUME Shape, [Next]_vars PROVE Shape' OBVIOUS
<1>1. ASSUME NEW r \in Runs, Step(r) PROVE Shape'
  BY <1>1, StepRuns, StepFolder, StepLib, StepRest DEF Shape
<1>2. CASE UNCHANGED <<downloaded, Disk, status, placed, History>>
  <2>1. FolderOK' /\ LibOK'
    BY <1>2 DEF Shape, FolderOK, LibOK, Disk, History
  <2>2. ASSUME run' = run PROVE run' \in [Runs -> RunType] /\ \A r \in Runs : RunOK(run[r])'
    BY <1>2, <2>2 DEF Shape, RunOK
  <2>3. CASE Crash
    <3>1. run' = [r \in Runs |-> Idle]
      BY <2>3 DEF Crash
    <3>2. run' \in [Runs -> RunType] /\ \A r \in Runs : RunOK(run'[r])
      BY <3>1, IdleOK
    <3>3. \A r \in Runs : RunOK(run[r])'
      BY <1>2, <3>2 DEF RunOK
    <3>4. RestOK'
      BY <1>2, <2>3, PlacementAssumption
         DEF Crash, Shape, RestOK, History, PlacementAssumption
    <3> QED BY <2>1, <3>2, <3>3, <3>4 DEF Shape
  <2>4. ASSUME NEW f \in Files, Lock(f) \/ Unlock(f) PROVE Shape'
    <3>3. locked' \subseteq Files
      BY <2>4 DEF Lock, Unlock, Shape, RestOK
    <3>4. faults' \in 0 .. MaxFaults
      BY <2>4, PlacementAssumption DEF Lock, Unlock, Shape, RestOK, PlacementAssumption
    <3>1. RestOK'
      BY <1>2, <3>3, <3>4 DEF Shape, RestOK, History
    <3>2. run' = run
      BY <2>4 DEF Lock, Unlock
    <3> QED BY <2>1, <2>2, <3>1, <3>2 DEF Shape
  <2>5. CASE UNCHANGED vars
    <3>1. RestOK' /\ run' = run
      BY <2>5 DEF vars, Shape, RestOK
    <3> QED BY <2>1, <2>2, <3>1 DEF Shape
  <2>6. (\E r \in Runs : Step(r)) \/ Crash \/ (\E f \in Files : Lock(f) \/ Unlock(f)) \/ UNCHANGED vars
    BY DEF Next
  <2> QED BY <1>1, <2>3, <2>4, <2>5, <2>6
<1>3. CASE Crash \/ UNCHANGED vars \/ \E f \in Files : Lock(f) \/ Unlock(f)
  BY <1>2, <1>3 DEF Crash, Lock, Unlock, vars, Disk, History
<1> QED BY <1>1, <1>3 DEF Next

\* A placement's state is what it is taken for (apply_plan, _step_rename): a run moves
\* only what it planned, plans only what was downloaded, and what stands in the library
\* came from the download, whatever plans were made of whatever was left.
THEOREM PlacementTypes == Spec => []TypeOK
BY InitShape, NextShape, ShapeTypes, PTL DEF Spec

-----------------------------------------------------------------------------
(* Safety, of placements whose plans agree.                                 *)

\* Runs that never overlapped are one at a time, and only a run that copies is mid-copy.
RunsOK ==
  /\ ~overlapped => \A r, q \in Runs : r # q => run[r] = Idle \/ run[q] = Idle
  /\ \A r \in Runs : run[r].pc = "copying" => copied

\* A copy under way, if no other run can have come between, is where it was begun.
CopyOK ==
  ~Torn => \A r \in Runs : run[r].pc = "copying" => lib[Dest(r)] = Copy(Src(r), FALSE)

Kept(v) == v \in staging \/ \E d \in Dests : lib[d] = Copy(v, TRUE)

SafeInv == Shape /\ RunsOK /\ CopyOK /\ VideosKept

LEMMA InitSafe == Init => SafeInv
<1> SUFFICES ASSUME Init PROVE SafeInv OBVIOUS
<1>1. RunsOK /\ CopyOK
  BY DEF Init, RunsOK, CopyOK, Idle
<1>2. VideosKept
  BY DEF Init, VideosKept, Videos
<1> QED BY <1>1, <1>2, InitShape DEF SafeInv

\* What stands at the destination of a run's move is the same file.
LEMMA SameFile ==
  ASSUME PlansAgree, Shape, NEW r \in Runs, run[r].moves # <<>>
  PROVE  Dest(r) \in Dests /\ (lib[Dest(r)] = Nothing \/ lib[Dest(r)].file = Src(r))
BY AtAMove DEF PlansAgree, Shape, LibOK, Planned

\* A write at a move's destination leaves every other file's copy.
LEMMA WriteKeeps ==
  ASSUME PlansAgree, Shape, NEW r \in Runs, run[r].moves # <<>>, NEW c,
         lib' = [lib EXCEPT ![Dest(r)] = c]
  PROVE  \A v : (\E d \in Dests : lib[d] = Copy(v, TRUE)) =>
                v = Src(r) \/ \E d \in Dests : lib'[d] = Copy(v, TRUE)
<1> SUFFICES ASSUME NEW v, NEW e \in Dests, lib[e] = Copy(v, TRUE)
             PROVE  v = Src(r) \/ \E d \in Dests : lib'[d] = Copy(v, TRUE)
  OBVIOUS
<1>1. CASE e = Dest(r)
  BY <1>1, SameFile DEF Copy, Nothing
<1>2. CASE e # Dest(r)
  BY <1>2 DEF Shape, LibOK
<1> QED BY <1>1, <1>2

\* What a step of a run that is under way has to show.
LEMMA StepSafe ==
  ASSUME SafeInv, NEW r \in Runs, Step(r), run[r].pc # "idle",
         run'[r].pc = "copying" => copied' /\ lib'[Dest(r)'] = Copy(Src(r)', FALSE),
         UNCHANGED <<downloaded, overlapped>>, copied => copied',
         ~Torn => \A v \in Videos(downloaded) : Kept(v) => Kept(v)'
  PROVE  RunsOK' /\ CopyOK' /\ VideosKept'
<1> USE DEF SafeInv
<1>1. \A q \in Runs \ {r} : run'[q] = run[q]
  BY StepRuns
<1>2. ASSUME ~overlapped PROVE \A q \in Runs \ {r} : run[q] = Idle
  BY <1>2 DEF RunsOK, Idle
<1>3. RunsOK'
  BY <1>1, <1>2 DEF RunsOK
<1>4. CopyOK'
  <2> SUFFICES ASSUME ~Torn', NEW q \in Runs, run'[q].pc = "copying"
               PROVE  lib'[Dest(q)'] = Copy(Src(q)', FALSE)
    BY DEF CopyOK
  <2>1. ~overlapped
    BY <1>3 DEF Torn, RunsOK
  <2>2. q = r
    BY <1>1, <1>2, <2>1 DEF Idle
  <2> QED BY <2>2
<1>5. VideosKept'
  <2>1. Torn => Torn'
    BY DEF Torn
  <2>2. Videos(downloaded)' = Videos(downloaded)
    BY DEF Videos
  <2>3. Torn \/ \A v \in Videos(downloaded) : Kept(v)
    BY DEF VideosKept, Kept
  <2>4. Torn' \/ \A v \in Videos(downloaded)' : Kept(v)'
    BY <2>1, <2>2, <2>3
  <2> QED BY <2>4 DEF VideosKept, Kept
<1> QED BY <1>3, <1>4, <1>5

\* A step that leaves the disk alone, and is not in a copy.
LEMMA DiskAlone ==
  ASSUME SafeInv, NEW r \in Runs, Step(r), run[r].pc # "idle", run'[r].pc # "copying",
         UNCHANGED <<downloaded, staging, lib, overlapped, copied>>
  PROVE  RunsOK' /\ CopyOK' /\ VideosKept'
<1>1. \A v : Kept(v) => Kept(v)'
  BY DEF Kept
<1> QED BY <1>1, StepSafe

LEMMA StartSafe ==
  ASSUME SafeInv, NEW r \in Runs, Start(r)
  PROVE  RunsOK' /\ CopyOK' /\ VideosKept'
<1> USE DEF SafeInv
<1>1. run'[r].pc = "list" /\ \A q \in Runs \ {r} : run'[q] = run[q]
  BY Onto DEF Start, Pcs
<1>2. /\ UNCHANGED <<downloaded, staging, lib, copied>>
      /\ overlapped' = (overlapped \/ \E q \in Runs : run[q] # Idle)
  BY DEF Start, Disk
<1>3. RunsOK'
  BY <1>1, <1>2 DEF RunsOK
<1>4. Torn => Torn'
  BY <1>2 DEF Torn
<1>5. CopyOK'
  <2> SUFFICES ASSUME ~Torn', NEW q \in Runs, run'[q].pc = "copying"
               PROVE  lib'[Dest(q)'] = Copy(Src(q)', FALSE)
    BY DEF CopyOK
  <2>1. q # r /\ run'[q] = run[q] /\ ~Torn
    BY <1>1, <1>4
  <2> QED BY <1>2, <2>1 DEF CopyOK, Dest, Src
<1>6. VideosKept'
  BY <1>2, <1>4 DEF VideosKept, Videos
<1> QED BY <1>3, <1>5, <1>6

\* A source is removed for its whole copy, which is its own.
LEMMA SkipSafe ==
  ASSUME PlansAgree, SafeInv, NEW r \in Runs, Skip(r)
  PROVE  RunsOK' /\ CopyOK' /\ VideosKept'
<1> USE DEF SafeInv
<1>1. run[r].moves # <<>> /\ run[r].pc = "move"
  BY DEF Skip, AtMove
<1>2. run'[r].pc = "move"
  BY <1>1, Onward DEF Skip, Others
<1>3. UNCHANGED <<downloaded, lib, overlapped, copied>>
  BY DEF Skip, Others, History
<1>4. ASSUME NEW v, Kept(v) PROVE Kept(v)'
  <2>1. CASE staging' = staging
    BY <1>3, <1>4, <2>1 DEF Kept
  <2>2. CASE SameSize(lib[Dest(r)], Src(r)) /\ staging' = staging \ ({Src(r)} \ locked)
    <3>1. /\ Dest(r) \in Dests /\ lib[Dest(r)] \in Copies /\ lib[Dest(r)].whole
          /\ lib[Dest(r)] = Nothing \/ lib[Dest(r)].file = Src(r)
      BY <1>1, <2>2, SameFile DEF SameSize, Shape, LibOK
    <3>2. lib[Dest(r)].file = Src(r) /\ lib[Dest(r)].whole = TRUE
      BY <3>1 DEF Copy, Copies, Nothing
    <3>3. \A c \in Copies : c = Copy(c.file, c.whole)
      BY DEF Copy, Copies
    <3>4. lib[Dest(r)] = Copy(Src(r), TRUE)
      BY <3>1, <3>2, <3>3
    <3> QED BY <1>3, <1>4, <2>2, <3>1, <3>4 DEF Kept
  <2> QED BY <2>1, <2>2 DEF Skip
<1> QED BY <1>1, <1>2, <1>3, <1>4, StepSafe DEF Step

\* What is cleared away was not whole.
LEMMA ClearSafe ==
  ASSUME PlansAgree, SafeInv, NEW r \in Runs, Clear(r)
  PROVE  RunsOK' /\ CopyOK' /\ VideosKept'
<1> USE DEF SafeInv
<1>1. run[r].moves # <<>> /\ run[r].pc = "move"
  BY DEF Clear, AtMove
<1>2. run'[r].pc = "clear"
  BY <1>1, Onto DEF Clear, Pcs, Others
<1>3. UNCHANGED <<downloaded, staging, overlapped, copied>>
  BY DEF Clear, Others, History
<1>4. /\ lib' = [lib EXCEPT ![Dest(r)] = Nothing] /\ ~SameSize(lib[Dest(r)], Src(r))
      /\ Src(r) \in staging
  BY DEF Clear
<1>5. \A v : Kept(v) => Kept(v)'
  BY <1>1, <1>3, <1>4, WriteKeeps DEF Kept
<1> QED BY <1>1, <1>2, <1>3, <1>5, StepSafe DEF Step

LEMMA RenameSafe ==
  ASSUME PlansAgree, SafeInv, NEW r \in Runs, Rename(r)
  PROVE  RunsOK' /\ CopyOK' /\ VideosKept'
<1> USE DEF SafeInv
<1>1. run[r].pc = "clear" /\ run[r].moves # <<>>
  BY DEF Rename, Shape, RunOK
<1>2. run'[r].pc = "move"
  BY <1>1, Onward DEF Rename, Others
<1>3. /\ UNCHANGED <<downloaded, overlapped, copied>>
      /\ staging' = staging \ {Src(r)}
      /\ lib' = [lib EXCEPT ![Dest(r)] = Copy(Src(r), TRUE)]
  BY DEF Rename, Others, History
<1>4. Dest(r) \in Dests /\ lib'[Dest(r)] = Copy(Src(r), TRUE)
  BY <1>1, <1>3, AtAMove, WriteAtMove
<1>5. \A v : Kept(v) => Kept(v)'
  BY <1>1, <1>3, <1>4, WriteKeeps DEF Kept
<1> QED BY <1>1, <1>2, <1>3, <1>5, StepSafe DEF Step

LEMMA CopyStartsSafe ==
  ASSUME PlansAgree, SafeInv, NEW r \in Runs, CopyStarts(r)
  PROVE  RunsOK' /\ CopyOK' /\ VideosKept'
<1> USE DEF SafeInv
<1>1. run[r].pc = "clear" /\ run[r].moves # <<>>
  BY DEF CopyStarts, Shape, RunOK
<1>2. run'[r].moves = run[r].moves
  BY <1>1, Onto DEF CopyStarts, Pcs
<1>3. /\ UNCHANGED <<downloaded, overlapped, staging>>
      /\ Src(r) \in staging /\ copied' = TRUE
      /\ lib' = [lib EXCEPT ![Dest(r)] = Copy(Src(r), FALSE)]
  BY DEF CopyStarts
<1>4. lib'[Dest(r)] = Copy(Src(r), FALSE)
  BY <1>1, <1>3, WriteAtMove
<1>5. Src(r)' = Src(r) /\ Dest(r)' = Dest(r)
  BY <1>2 DEF Src, Dest
<1>6. \A v : Kept(v) => Kept(v)'
  BY <1>1, <1>3, WriteKeeps DEF Kept
<1> QED BY <1>1, <1>3, <1>4, <1>5, <1>6, StepSafe DEF Step

\* A copy under way ends; nobody else could have touched what it wrote.
LEMMA CopyEndsSafe ==
  ASSUME PlansAgree, SafeInv, NEW r \in Runs, CopyEnds(r)
  PROVE  RunsOK' /\ CopyOK' /\ VideosKept'
<1> USE DEF SafeInv
<1>1. run[r].pc = "copying" /\ run[r].moves # <<>> /\ copied
  BY DEF CopyEnds, Shape, RunOK, RunsOK
<1>2. run'[r].pc = "move"
  BY <1>1, Onward DEF CopyEnds, Others
<1>3. /\ UNCHANGED <<downloaded, overlapped, copied>>
      /\ staging' = staging \ ({Src(r)} \ locked) /\ Landed(r)
  BY DEF CopyEnds, Others, History
<1>4. /\ \A v : \A d \in Dests : lib[d] = Copy(v, TRUE) => lib'[d] = Copy(v, TRUE)
      /\ Dest(r) \in Dests
      /\ lib[Dest(r)] = Copy(Src(r), FALSE) => lib'[Dest(r)] = Copy(Src(r), TRUE)
  BY <1>1, <1>3, LandedAtMove
<1>5. ~Torn => \A v : Kept(v) => Kept(v)'
  BY <1>1, <1>3, <1>4 DEF Kept, CopyOK
<1> QED BY <1>1, <1>2, <1>3, <1>5, StepSafe DEF Step

LEMMA SourceVanishedSafe ==
  ASSUME SafeInv, NEW r \in Runs, SourceVanished(r)
  PROVE  RunsOK' /\ CopyOK' /\ VideosKept'
<1> USE DEF SafeInv
<1>1. run[r].pc \in {"clear", "copying"} /\ run[r].moves # <<>>
  BY DEF SourceVanished, Shape, RunOK
<1>2. run'[r].pc # "copying"
  BY Ended DEF SourceVanished, Fail, Others, Idle
<1>3. UNCHANGED <<downloaded, overlapped, copied, staging>>
  BY DEF SourceVanished, Others, History
<1>4. CASE lib' = lib
  BY <1>1, <1>2, <1>3, <1>4, DiskAlone DEF Step
<1>5. CASE run[r].pc = "copying" /\ Landed(r)
  <2>1. \A v : \A d \in Dests : lib[d] = Copy(v, TRUE) => lib'[d] = Copy(v, TRUE)
    BY <1>1, <1>3, <1>5, LandedAtMove
  <2>2. \A v : Kept(v) => Kept(v)'
    BY <1>3, <2>1 DEF Kept
  <2> QED BY <1>1, <1>2, <1>3, <2>2, StepSafe DEF Step
<1> QED BY <1>4, <1>5 DEF SourceVanished

\* The folder is removed with no video in it.
LEMMA FinishSafe ==
  ASSUME SafeInv, NEW r \in Runs, Finish(r)
  PROVE  RunsOK' /\ CopyOK' /\ VideosKept'
<1> USE DEF SafeInv
<1>1. run[r].pc = "move" /\ run' = [run EXCEPT ![r] = Idle]
  BY DEF Finish, Fail
<1>2. UNCHANGED <<downloaded, overlapped, copied, lib>>
  BY DEF Finish, Others, Disk, History
<1>3. run'[r].pc # "copying"
  BY <1>1, <1>2, Ended DEF Idle
<1>4. staging' = staging \/ (Videos(staging) = {} /\ staging' \subseteq staging)
  BY DEF Finish, Disk
<1>5. ASSUME NEW v \in Videos(downloaded), Kept(v) PROVE Kept(v)'
  BY <1>2, <1>4, <1>5 DEF Kept, Videos
<1> QED BY <1>1, <1>2, <1>3, <1>5, StepSafe DEF Step

LEMMA EndSafe ==
  ASSUME SafeInv, NEW r \in Runs,
         List(r) \/ MakePlan(r) \/ Denied(r) \/ Refuse(r) \/ CopyFails(r)
  PROVE  RunsOK' /\ CopyOK' /\ VideosKept'
<1> USE DEF SafeInv
<1>1. UNCHANGED <<downloaded, staging, lib, overlapped, copied>>
  BY DEF List, MakePlan, Denied, Refuse, CopyFails, Others, Disk, History
<1>2. run[r].pc # "idle"
  BY DEF List, MakePlan, Denied, Refuse, CopyFails
<1>3. CASE List(r) \/ MakePlan(r)
  BY <1>1, <1>2, <1>3, Listed, PlanMade, DiskAlone DEF Step
<1>4. CASE Denied(r)
  <2>1. run[r].moves # <<>> /\ NextMove(r)
    BY <1>4 DEF Denied, Shape, RunOK
  <2> QED BY <1>1, <1>2, <1>4, <2>1, Onward, DiskAlone DEF Step
<1>5. CASE Refuse(r) \/ CopyFails(r)
  <2>1. run' = [run EXCEPT ![r] = Idle]
    BY <1>5 DEF Refuse, CopyFails, Fail
  <2>2. run'[r].pc # "copying"
    BY <1>1, <2>1, Ended DEF Idle
  <2> QED BY <1>1, <1>2, <1>5, <2>2, DiskAlone DEF Step
<1> QED BY <1>3, <1>4, <1>5

\* A crash, locks, and steps that stutter.
LEMMA AloneSafe ==
  ASSUME SafeInv, UNCHANGED <<downloaded, staging, lib, overlapped, copied>>,
         run' = run \/ run' = [r \in Runs |-> Idle]
  PROVE  RunsOK' /\ CopyOK' /\ VideosKept'
<1> USE DEF SafeInv
<1>1. VideosKept'
  BY DEF VideosKept, Videos, Torn
<1>2. CASE run' = run
  BY <1>1, <1>2 DEF RunsOK, CopyOK, Torn, Dest, Src
<1>3. CASE run' = [r \in Runs |-> Idle]
  <2>1. \A r \in Runs : run'[r] = Idle
    BY <1>3
  <2>2. Idle.pc = "idle"
    BY DEF Idle
  <2> QED BY <1>1, <2>1, <2>2 DEF RunsOK, CopyOK
<1> QED BY <1>2, <1>3

LEMMA NextSafe ==
  ASSUME PlansAgree, SafeInv, [Next]_vars
  PROVE  SafeInv'
<1>1. ASSUME NEW r \in Runs, Step(r) PROVE RunsOK' /\ CopyOK' /\ VideosKept'
  BY <1>1, StartSafe, EndSafe, SkipSafe, ClearSafe, RenameSafe, CopyStartsSafe,
     CopyEndsSafe, SourceVanishedSafe, FinishSafe DEF Step
<1>2. ASSUME NEW f \in Files, Lock(f) \/ Unlock(f)
      PROVE  RunsOK' /\ CopyOK' /\ VideosKept'
  BY <1>2, AloneSafe DEF Lock, Unlock, Disk, History
<1>3. ASSUME Crash PROVE RunsOK' /\ CopyOK' /\ VideosKept'
  <2>1. /\ UNCHANGED <<downloaded, staging, lib, overlapped, copied>>
        /\ run' = [r \in Runs |-> Idle]
    BY <1>3 DEF Crash, Disk, History
  <2> QED BY <2>1, AloneSafe
<1>4. ASSUME UNCHANGED vars PROVE RunsOK' /\ CopyOK' /\ VideosKept'
  <2>1. UNCHANGED <<downloaded, staging, lib, overlapped, copied, run>>
    BY <1>4 DEF vars
  <2> QED BY <2>1, AloneSafe
<1> QED BY <1>1, <1>2, <1>3, <1>4, NextShape DEF Next, SafeInv

\* A placement whose plans agree loses no video (apply_plan and _step_rename): whatever is
\* locked, broken off, crashed and planned again, a video of the download is in its folder
\* or whole in the library, unless two runs at once had to copy.
THEOREM NoVideoIsLost ==
  ASSUME PlansAgree
  PROVE  Spec => []VideosKept
<1>1. SafeInv /\ [Next]_vars => SafeInv'
  BY NextSafe
<1>2. SafeInv => VideosKept
  BY DEF SafeInv
<1> QED BY <1>1, <1>2, InitSafe, PTL DEF Spec

\* The folder of a placed job is gone, so each video stands whole somewhere it was
\* planned; and that is where the plan of the download has it.
LEMMA PlacedThere ==
  ASSUME PlansAgree, PlacesStay, SafeInv
  PROVE  PlacedAsFirstPlanned
<1> SUFFICES ASSUME status = "SCAN", ~Torn, NEW m \in Range(Plan(downloaded)),
                    Info[m.src].video
             PROVE  lib[m.dest] = Copy(m.src, TRUE)
  BY DEF PlacedAsFirstPlanned
<1>1. downloaded \in SUBSET Files /\ staging = {}
  BY DEF SafeInv, Shape, RestOK, FolderOK
<1>2. m \in MovesFor(downloaded) /\ m \in Moves
  BY <1>1, PlanOrdersItsMoves DEF Moves
<1>3. m.src \in Videos(downloaded)
  BY <1>1, <1>2, MoveFiles DEF Videos
<1>4. PICK d \in Dests : lib[d] = Copy(m.src, TRUE)
  BY <1>1, <1>3 DEF SafeInv, VideosKept
<1>5. Planned(m.src, d)
  BY <1>4 DEF SafeInv, Shape, LibOK, Copy, Nothing
<1>6. d = m.dest
  BY <1>2, <1>5 DEF Planned, PlacesStay
<1> QED BY <1>4, <1>6

\* When plans agree and no video's place depends on what is left, a placed job's videos
\* stand where the plan of the whole download put them, however often the step was broken
\* off and planned anew (plan_rename is called again by every retry of _step_rename).
THEOREM PlacedWhereFirstPlanned ==
  ASSUME PlansAgree, PlacesStay
  PROVE  Spec => []PlacedAsFirstPlanned
<1>1. SafeInv /\ [Next]_vars => SafeInv'
  BY NextSafe
<1>2. SafeInv => PlacedAsFirstPlanned
  BY PlacedThere
<1> QED BY <1>1, <1>2, InitSafe, PTL DEF Spec

\* A pack whose names tell its files apart, and a movie with one video, lose no video and
\* are placed as first planned: of such a download nothing else is asked of the plans.
THEOREM ToldApartIsPlaced ==
  ASSUME ToldApart
  PROVE  Spec => [](VideosKept /\ PlacedAsFirstPlanned)
<1>1. PlansAgree /\ PlacesStay
  BY PlansOfTheToldApart
<1>2. Spec => []VideosKept
  BY <1>1, NoVideoIsLost
<1>3. Spec => []PlacedAsFirstPlanned
  BY <1>1, PlacedWhereFirstPlanned
<1> QED BY <1>2, <1>3, PTL
=============================================================================
