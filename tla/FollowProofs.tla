---------------------------- MODULE FollowProofs ----------------------------
(***************************************************************************)
(* What holds of a followed show for any number of episodes, seasons, jobs *)
(* and checks at once: an episode is fetched once, once more for every     *)
(* time its submission was cleared or checks overlapped, and a decision of *)
(* the user's is kept where they did not.                                  *)
(***************************************************************************)
EXTENDS FollowPoll, FiniteSetTheorems, SequenceTheorems, TLAPS

USE FollowAssumption DEF FollowAssumption

-----------------------------------------------------------------------------
(* The work of a check. *)

Scoped(c, i) == checks[c].work[i].scope

\* A check's work names no episode twice.
NamesOnce(work) ==
  \A i, k \in 1 .. Len(work) : i # k => work[i].scope \cap work[k].scope = {}

\* What a check holds, by where it is.
CheckOK(k) ==
  /\ k.pc = "idle" => k = Idle
  /\ k.pc \in {"library", "jobs", "submissions"} => k.work = <<>>
  /\ k.pc \in {"pick", "download"} => k.free = {}
  /\ k.pc = "download" => k.work # <<>> /\ k.count < Cap
  /\ NamesOnce(k.work)

ChecksOK == \A c \in Checks : CheckOK(checks[c])

LEMMA WorkTypes ==
  /\ \A s \in Seasons : Pack(s) \in Works /\ Pack(s).scope # {}
  /\ \A e \in Episodes : Single(e) \in Works /\ SeasonOf[e] \in Seasons
BY DEF Works, Pack, Single, Seasons, EpisodesOf, Episodes

LEMMA WorkScopes ==
  \A w \in Works : w.scope \subseteq Episodes /\ (w.pack => w.season \in Seasons)
BY DEF Works, Pack, Single, EpisodesOf

LEMMA WorksFinite == IsFiniteSet(Works)
<1>1. IsFiniteSet(Episodes)
  BY FS_Interval DEF Episodes
<1>2. IsFiniteSet({Single(e) : e \in Episodes})
  <2> DEFINE f == [e \in Episodes |-> Single(e)]
  <2>1. f \in Surjection(Episodes, {Single(e) : e \in Episodes})
    BY DEF Surjection
  <2> QED BY <1>1, <2>1, FS_Surjection
<1>3. IsFiniteSet(Seasons)
  <2>1. SeasonOf \in Surjection(Episodes, Seasons)
    BY DEF Surjection, Seasons, Episodes
  <2> QED BY <1>1, <2>1, FS_Surjection
<1>4. IsFiniteSet({Pack(s) : s \in Seasons})
  <2> DEFINE f == [s \in Seasons |-> Pack(s)]
  <2>1. f \in Surjection(Seasons, {Pack(s) : s \in Seasons})
    BY DEF Surjection
  <2> QED BY <1>3, <2>1, FS_Surjection
<1> QED BY <1>2, <1>4, FS_Union DEF Works

\* The work is made of what is free, packs only of seasons searched as such.
LEMMA WorkSetOf ==
  ASSUME NEW free \in SUBSET Episodes, NEW wanted \in SUBSET free
  PROVE  /\ WorkSet(wanted, free) \subseteq Works
         /\ \A w \in WorkSet(wanted, free) :
              /\ w.scope \subseteq free
              /\ w.pack => modes[w.season] \in PackSearchModes
         /\ \A v, w \in WorkSet(wanted, free) : v # w => v.scope \cap w.scope = {}
<1>1. \A w \in WorkSet(wanted, free) :
        \/ \E e \in wanted : PackNow(SeasonOf[e], free) /\ w = Pack(SeasonOf[e])
        \/ \E e \in wanted : ~PackNow(SeasonOf[e], free) /\ w = Single(e)
  BY DEF WorkSet
<1>2. \A e \in wanted : e \in Episodes /\ SeasonOf[e] \in Seasons
  BY WorkTypes
<1>3. WorkSet(wanted, free) \subseteq Works
  BY <1>1, <1>2, WorkTypes
<1>4. \A w \in WorkSet(wanted, free) :
        /\ w.scope \subseteq free
        /\ w.pack => modes[w.season] \in PackSearchModes
  BY <1>1 DEF Pack, Single, PackNow
<1>5. ASSUME NEW v \in WorkSet(wanted, free), NEW w \in WorkSet(wanted, free), v # w
      PROVE  v.scope \cap w.scope = {}
  <2> DEFINE Packed(u, r) == u = Pack(r) /\ PackNow(r, free)
             Alone(u, e) == u = Single(e) /\ ~PackNow(SeasonOf[e], free)
  <2>1. \A u \in {v, w} : \/ \E r \in Seasons : Packed(u, r)
                          \/ \E e \in wanted : Alone(u, e)
    BY <1>1, <1>2
  <2>2. ASSUME NEW r \in Seasons, NEW t \in Seasons, Packed(v, r), Packed(w, t)
        PROVE  v.scope \cap w.scope = {}
    <3>1. r # t
      BY <1>5, <2>2
    <3> QED BY <2>2, <3>1 DEF Pack, EpisodesOf
  <2>3. ASSUME NEW r \in Seasons, NEW e \in wanted, Packed(v, r), Alone(w, e)
        PROVE  v.scope \cap w.scope = {}
    BY <2>3 DEF Pack, Single, EpisodesOf
  <2>4. ASSUME NEW e \in wanted, NEW r \in Seasons, Alone(v, e), Packed(w, r)
        PROVE  v.scope \cap w.scope = {}
    BY <2>4 DEF Pack, Single, EpisodesOf
  <2>5. ASSUME NEW e \in wanted, NEW d \in wanted, Alone(v, e), Alone(w, d)
        PROVE  v.scope \cap w.scope = {}
    BY <1>5, <2>5 DEF Single
  <2> QED BY <2>1, <2>2, <2>3, <2>4, <2>5
<1> QED BY <1>3, <1>4, <1>5

LEMMA WorkSequence ==
  ASSUME NEW free \in SUBSET Episodes, NEW wanted \in SUBSET free,
         NEW work \in SetToSeqs(WorkSet(wanted, free))
  PROVE  /\ work \in Seq(Works)
         /\ NamesOnce(work)
         /\ \A i \in 1 .. Len(work) :
              /\ work[i].scope \subseteq free
              /\ work[i].pack => modes[work[i].season] \in PackSearchModes
<1> DEFINE S == WorkSet(wanted, free)
<1>1. IsFiniteSet(S)
  <2>1. S \subseteq Works
    BY WorkSetOf
  <2> HIDE DEF S
  <2> QED BY <2>1, WorksFinite, FS_Subset
<1>2. Cardinality(S) \in Nat
  BY <1>1, FS_CardinalityType
<1>3. /\ work \in [1 .. Cardinality(S) -> S]
      /\ \A i, k \in 1 .. Cardinality(S) : i # k => work[i] # work[k]
  BY DEF SetToSeqs
<1>4. work \in Seq(S) /\ Len(work) = Cardinality(S)
  BY <1>2, <1>3
<1>5. \A i \in 1 .. Len(work) : work[i] \in S
  BY <1>3, <1>4
<1>6. work \in Seq(Works)
  <2>1. S \subseteq Works
    BY WorkSetOf
  <2> HIDE DEF S
  <2> QED BY <1>2, <1>3, <2>1
<1>7. NamesOnce(work)
  <2>1. \A v, w \in S : v # w => v.scope \cap w.scope = {}
    BY WorkSetOf
  <2> HIDE DEF S
  <2> QED BY <1>3, <1>4, <2>1 DEF NamesOnce
<1> QED BY <1>5, <1>6, <1>7, WorkSetOf

-----------------------------------------------------------------------------
(* Types, and the shape of a check. *)

LEMMA IdleType == Idle \in Check /\ CheckOK(Idle)
<1>1. Idle \in Check
  BY DEF Idle, Check, Episodes
<1>2. NamesOnce(<<>>)
  BY DEF NamesOnce
<1> QED BY <1>1, <1>2 DEF CheckOK, Idle

\* A step of check c, up to what it does elsewhere.
LEMMA OneCheckMoves ==
  ASSUME TypeOK, ChecksOK, NEW c \in Checks, NEW k \in Check, CheckOK(k),
         checks' = [checks EXCEPT ![c] = k]
  PROVE  checks' \in [Checks -> Check] /\ ChecksOK'
BY DEF TypeOK, ChecksOK

\* The work that is left after the current piece.
LEMMA RestOfWork ==
  ASSUME TypeOK, ChecksOK, NEW c \in Checks, checks[c].work # <<>>
  PROVE  LET rest == Tail(checks[c].work) IN
         /\ rest \in Seq(Works) /\ NamesOnce(rest)
         /\ Current(c) \in Works /\ Current(c) = checks[c].work[1]
         /\ \A i \in 1 .. Len(rest) :
              /\ i + 1 \in 1 .. Len(checks[c].work)
              /\ rest[i] = checks[c].work[i + 1]
              /\ rest[i].scope \cap Current(c).scope = {}
<1> DEFINE work == checks[c].work
           rest == Tail(work)
<1>1. work \in Seq(Works) /\ NamesOnce(work)
  BY DEF TypeOK, Check, ChecksOK, CheckOK
<1>2. /\ rest \in Seq(Works) /\ Head(work) \in Works /\ Head(work) = work[1]
      /\ Len(rest) = Len(work) - 1 /\ Len(work) \in Nat /\ Len(work) >= 1
      /\ \A i \in 1 .. Len(rest) : rest[i] = work[i + 1]
  BY <1>1
<1> HIDE DEF work, rest
<1>3. \A i \in 1 .. Len(rest) : i + 1 \in 1 .. Len(work) /\ i + 1 # 1
  BY <1>2
<1>4. ASSUME NEW i \in 1 .. Len(rest)
      PROVE  /\ rest[i].scope \cap work[1].scope = {}
             /\ \A k \in 1 .. Len(rest) : i # k => rest[i].scope \cap rest[k].scope = {}
  <2>1. 1 \in 1 .. Len(work)
    BY <1>2
  <2>2. \A m \in 1 .. Len(work) : m # i + 1 => work[i + 1].scope \cap work[m].scope = {}
    BY <1>1, <1>3 DEF NamesOnce
  <2>3. \A k \in 1 .. Len(rest) : i # k => work[i + 1].scope \cap work[k + 1].scope = {}
    BY <1>3, <2>2
  <2> QED BY <1>2, <1>3, <2>1, <2>2, <2>3
<1>5. NamesOnce(rest)
  BY <1>4 DEF NamesOnce
<1> QED BY <1>2, <1>3, <1>4, <1>5 DEF work, rest, Current

\* What a check's own step does to it, and to the rest of the system.
LEMMA CheckMoves ==
  ASSUME TypeOK, ChecksOK, NEW c \in Checks, StartCheck(c) \/ CheckStep(c)
  PROVE  checks' \in [Checks -> Check] /\ ChecksOK'
<1>0. checks[c] \in Check /\ CheckOK(checks[c]) /\ checks \in [Checks -> Check]
  BY DEF TypeOK, ChecksOK
<1>1. CASE StartCheck(c)
  <2> DEFINE k == [Idle EXCEPT !.pc = "library", !.start = start, !.free = aired]
  <2>1. k \in Check /\ CheckOK(k)
    <3>1. k \in Check
      BY IdleType DEF Check, TypeOK
    <3>2. k.pc = "library" /\ k.work = <<>>
      BY DEF Idle
    <3>3. NamesOnce(<<>>)
      BY DEF NamesOnce
    <3> QED BY <3>1, <3>2, <3>3 DEF CheckOK
  <2> QED BY <1>1, <2>1, OneCheckMoves DEF StartCheck
<1>2. CASE BrowseFails(c) \/ EndCheck(c) \/ SubmitFails(c)
  BY <1>2, IdleType, OneCheckMoves DEF BrowseFails, EndCheck, SubmitFails, Stop
<1>3. CASE ReadLibrary(c)
  <2>1. PICK seen : checks' = [checks EXCEPT ![c].pc = "jobs", ![c].free = @ \ seen]
    BY <1>3 DEF ReadLibrary
  <2> DEFINE k == [checks[c] EXCEPT !.pc = "jobs", !.free = @ \ seen]
  <2>2. checks' = [checks EXCEPT ![c] = k]
    BY <1>0, <2>1
  <2>3. k \in Check /\ CheckOK(k)
    BY <1>0, <1>3 DEF ReadLibrary, Check, CheckOK
  <2> QED BY <2>2, <2>3, OneCheckMoves
<1>4. CASE ReadJobs(c)
  <2> DEFINE k == [checks[c] EXCEPT !.pc = "submissions", !.free = @ \ Queued]
  <2>1. checks' = [checks EXCEPT ![c] = k]
    BY <1>0, <1>4 DEF ReadJobs
  <2>2. k \in Check /\ CheckOK(k)
    BY <1>0, <1>4 DEF ReadJobs, Check, CheckOK
  <2> QED BY <2>1, <2>2, OneCheckMoves
<1>5. CASE ReadSubmissions(c)
  <2> DEFINE free == checks[c].free \ recorded
             wanted == {e \in free : e >= checks[c].start}
  <2>1. PICK work \in SetToSeqs(WorkSet(wanted, free)) :
           checks' = [checks EXCEPT ![c].pc = "pick", ![c].start = 1, ![c].free = {},
                                   ![c].work = work]
    BY <1>5 DEF ReadSubmissions
  <2> DEFINE k == [checks[c] EXCEPT !.pc = "pick", !.start = 1, !.free = {}, !.work = work]
  <2>2. checks' = [checks EXCEPT ![c] = k]
    BY <1>0, <2>1
  <2>3. work \in Seq(Works) /\ NamesOnce(work)
    <3>1. free \in SUBSET Episodes /\ wanted \in SUBSET free
      BY <1>0 DEF Check
    <3> HIDE DEF free, wanted
    <3> QED BY <3>1, WorkSequence
  <2>4. k \in Check /\ CheckOK(k)
    <3>1. k.pc = "pick" /\ k.free = {} /\ k.work = work
      BY <1>0 DEF Check
    <3>2. k \in Check
      <4>1. 1 \in Episodes
        BY DEF Episodes
      <4> HIDE DEF free, wanted
      <4> QED BY <1>0, <2>3, <4>1 DEF Check
    <3> HIDE DEF k
    <3> QED BY <2>3, <3>1, <3>2 DEF CheckOK
  <2> QED BY <2>2, <2>4, OneCheckMoves
<1>6. CASE PickFound(c)
  <2> DEFINE k == [checks[c] EXCEPT !.pc = "download"]
  <2>1. checks' = [checks EXCEPT ![c] = k]
    BY <1>0, <1>6 DEF PickFound
  <2>2. k \in Check /\ CheckOK(k)
    BY <1>0, <1>6 DEF PickFound, More, Check, CheckOK
  <2> QED BY <2>1, <2>2, OneCheckMoves
<1>7. CASE PickNone(c) \/ Submitted(c)
  <2>1. checks[c].work # <<>> /\ checks[c].count < Cap /\ checks[c].free = {}
    BY <1>0, <1>7 DEF PickNone, Submitted, More, CheckOK
  <2>2. Tail(checks[c].work) \in Seq(Works) /\ NamesOnce(Tail(checks[c].work))
    BY <2>1, RestOfWork
  <2> DEFINE k(n) == [checks[c] EXCEPT !.pc = "pick", !.work = Tail(@), !.count = n]
  <2>3. PICK n \in {checks[c].count, checks[c].count + 1} :
           checks' = [checks EXCEPT ![c] = k(n)]
    BY <1>0, <1>7 DEF PickNone, NextWork, Submitted, Check
  <2>4. k(n) \in Check /\ CheckOK(k(n))
    <3>1. /\ k(n).pc = "pick" /\ k(n).free = {}
          /\ k(n).work = Tail(checks[c].work)
      BY <1>0, <2>1 DEF Check
    <3>2. n \in 0 .. Cap
      BY <1>0, <2>1 DEF Check
    <3>3. k(n) \in Check
      BY <1>0, <2>2, <3>2 DEF Check
    <3> HIDE DEF k
    <3> QED BY <2>2, <3>1, <3>3 DEF CheckOK
  <2> QED BY <2>3, <2>4, OneCheckMoves
<1> QED BY <1>1, <1>2, <1>3, <1>4, <1>5, <1>6, <1>7 DEF CheckStep

\* What everyone but the checks leaves alone.
LEMMA OthersFrame ==
  ASSUME \/ SaveTitle \/ RemoveTitle \/ FollowShow \/ UnfollowShow \/ SetPaused
         \/ \E s \in Seasons : Decide(s)
         \/ \E e \in Episodes : ClearSubmission(e) \/ Air(e)
         \/ Download
         \/ \E j \in JobIds : Finish(j) \/ Delete(j) \/ Flag(j) \/ Dismiss(j)
  PROVE  /\ UNCHANGED <<checks, fetches, overlaps>>
         /\ \/ UNCHANGED <<recorded, cleared>>
            \/ \E e \in Episodes : ClearSubmission(e)
         /\ \/ UNCHANGED modes \/ modes' = NoModes
            \/ \E s \in Seasons : Decide(s)
BY DEF SaveTitle, RemoveTitle, FollowShow, UnfollowShow, SetPaused, Decide, ClearSubmission,
       Air, Download, Finish, Delete, Flag, Dismiss, Becomes, Elsewhere, followVars, history

LEMMA NextShape == TypeOK /\ ChecksOK /\ [Next]_vars => TypeOK' /\ ChecksOK'
<1> SUFFICES ASSUME TypeOK, ChecksOK, [Next]_vars PROVE TypeOK' /\ ChecksOK' OBVIOUS
<1>1. CASE UNCHANGED vars
  BY <1>1 DEF vars, followVars, history, TypeOK, ChecksOK
<1>2. ASSUME NEW c \in Checks, StartCheck(c) \/ CheckStep(c) PROVE TypeOK' /\ ChecksOK'
  <2> USE DEF TypeOK
  <2>0. checks' \in [Checks -> Check] /\ ChecksOK'
    BY <1>2, CheckMoves
  <2>1. CASE StartCheck(c)
    <3>1. overlaps' \in 0 .. MaxOverlaps
      BY <2>1 DEF StartCheck
    <3> QED BY <2>0, <2>1, <3>1 DEF StartCheck, followVars
  <2>2. CASE ReadLibrary(c) \/ ReadJobs(c) \/ BrowseFails(c) \/ ReadSubmissions(c)
             \/ EndCheck(c) \/ SubmitFails(c)
    BY <2>0, <2>2 DEF ReadLibrary, ReadJobs, BrowseFails, ReadSubmissions, EndCheck,
                      SubmitFails, Unread, followVars, history
  <2>3. checks[c].work # <<>> =>
          /\ Current(c).scope \subseteq Episodes
          /\ Current(c).pack => Current(c).season \in Seasons
    <3> SUFFICES ASSUME checks[c].work # <<>>
                 PROVE  /\ Current(c).scope \subseteq Episodes
                        /\ Current(c).pack => Current(c).season \in Seasons
      OBVIOUS
    <3>1. Current(c) \in Works
      BY <1>2, RestOfWork
    <3> QED BY <3>1, WorkScopes
  <2>4. CASE PickNone(c)
    <3>1. modes' \in [Seasons -> Mode]
      BY <2>3, <2>4 DEF PickNone, More, Mode
    <3> QED BY <2>0, <2>4, <3>1 DEF PickNone, history
  <2>5. CASE PickFound(c)
    <3>1. jobs' \in [JobIds -> [state : JobState, scope : SUBSET Episodes]]
      BY <2>3, <2>5 DEF PickFound, More, JobState
    <3> QED BY <2>0, <2>5, <3>1 DEF PickFound, followVars, history
  <2>6. CASE Submitted(c)
    <3>1. checks[c].work # <<>>
      BY <2>6 DEF Submitted, ChecksOK, CheckOK
    <3>2. modes' \in [Seasons -> Mode]
      BY <2>3, <2>6, <3>1 DEF Submitted, Mode
    <3>3. recorded' \subseteq Episodes /\ fetches' \in [Episodes -> Nat]
      BY <2>3, <2>6, <3>1 DEF Submitted
    <3> QED BY <2>0, <2>6, <3>2, <3>3 DEF Submitted
  <2> QED BY <1>2, <2>1, <2>2, <2>4, <2>5, <2>6 DEF CheckStep
<1>3. CASE SaveTitle \/ RemoveTitle \/ FollowShow \/ UnfollowShow \/ SetPaused
           \/ \E s \in Seasons : Decide(s)
  <2>1. modes' \in [Seasons -> Mode]
    BY <1>3 DEF SaveTitle, RemoveTitle, FollowShow, UnfollowShow, SetPaused, Decide, NoModes,
                Mode, TypeOK
  <2>2. start' \in Episodes
    BY <1>3 DEF SaveTitle, RemoveTitle, FollowShow, UnfollowShow, SetPaused, Decide, TypeOK,
                Episodes
  <2>3. kind' \in {"none", "saved", "following"} /\ paused' \in BOOLEAN
    BY <1>3 DEF SaveTitle, RemoveTitle, FollowShow, UnfollowShow, SetPaused, Decide, TypeOK
  <2>4. UNCHANGED <<recorded, jobs, library, aired, checks, fetches, cleared, overlaps>>
    BY <1>3 DEF SaveTitle, RemoveTitle, FollowShow, UnfollowShow, SetPaused, Decide,
                Elsewhere, history
  <2> QED BY <2>1, <2>2, <2>3, <2>4 DEF TypeOK, ChecksOK
<1>4. ASSUME NEW e \in Episodes, ClearSubmission(e) \/ Air(e) PROVE TypeOK' /\ ChecksOK'
  <2> USE DEF TypeOK, ChecksOK
  <2>1. CASE ClearSubmission(e)
    BY <2>1 DEF ClearSubmission
  <2>2. CASE Air(e)
    BY <2>2 DEF Air, followVars, history
  <2> QED BY <1>4, <2>1, <2>2
<1>5. CASE Download
  <2>1. jobs' \in [JobIds -> [state : JobState, scope : SUBSET Episodes]]
    BY <1>5 DEF Download, TypeOK, JobState, Works, Pack, Single, EpisodesOf
  <2> QED BY <1>5, <2>1 DEF Download, followVars, history, TypeOK, ChecksOK
<1>6. ASSUME NEW j \in JobIds, Finish(j) \/ Delete(j) \/ Flag(j) \/ Dismiss(j)
      PROVE  TypeOK' /\ ChecksOK'
  <2>1. jobs' \in [JobIds -> [state : JobState, scope : SUBSET Episodes]]
    <3> USE DEF TypeOK, JobState
    <3>1. Over \in [state : JobState, scope : SUBSET Episodes]
      BY DEF Over
    <3>2. CASE Finish(j) \/ Delete(j)
      BY <3>1, <3>2 DEF Finish, Delete
    <3>3. ASSUME NEW state \in JobState, Becomes(j, state)
          PROVE  jobs' \in [JobIds -> [state : JobState, scope : SUBSET Episodes]]
      <4>1. [jobs[j] EXCEPT !.state = state] \in [state : JobState, scope : SUBSET Episodes]
        OBVIOUS
      <4>2. jobs' = [jobs EXCEPT ![j] = [jobs[j] EXCEPT !.state = state]]
        BY <3>3 DEF Becomes
      <4> QED BY <4>1, <4>2
    <3> QED BY <1>6, <3>2, <3>3 DEF Flag, Dismiss
  <2>2. library' \subseteq Episodes /\ kind' \in {"none", "saved", "following"}
    BY <1>6 DEF Finish, Delete, Flag, Dismiss, Becomes, TypeOK, followVars
  <2>3. UNCHANGED <<paused, start, modes, recorded, aired, checks, fetches, cleared, overlaps>>
    BY <1>6 DEF Finish, Delete, Flag, Dismiss, Becomes, followVars, history
  <2> QED BY <2>1, <2>2, <2>3 DEF TypeOK, ChecksOK
<1> QED BY <1>1, <1>2, <1>3, <1>4, <1>5, <1>6 DEF Next

LEMMA InitShape == Init => TypeOK /\ ChecksOK
<1> SUFFICES ASSUME Init PROVE TypeOK /\ ChecksOK OBVIOUS
<1>1. ChecksOK
  BY IdleType DEF Init, ChecksOK
<1>2. 1 \in Episodes
  BY DEF Episodes
<1>3. checks \in [Checks -> Check] /\ overlaps \in 0 .. MaxOverlaps
  BY IdleType DEF Init
<1>4. /\ modes \in [Seasons -> Mode]
      /\ jobs \in [JobIds -> [state : JobState, scope : SUBSET Episodes]]
  BY DEF Init, Mode, JobState
<1>5. fetches \in [Episodes -> Nat] /\ cleared \in [Episodes -> Nat]
  BY DEF Init
<1> QED BY <1>1, <1>2, <1>3, <1>4, <1>5 DEF Init, TypeOK

\* Types, and never more than `Cap` submissions in a check (FollowPoller.check_show).
THEOREM FollowTypes == Spec => []TypeOK
<1>1. TypeOK /\ ChecksOK /\ [Next]_vars => (TypeOK /\ ChecksOK)'
  BY NextShape
<1> QED BY <1>1, InitShape, PTL DEF Spec

-----------------------------------------------------------------------------
(* An episode is fetched once. *)

Working(c) == UNION {Scoped(c, i) : i \in 1 .. Len(checks[c].work)}
Holding(c) == checks[c].free \cup Working(c)

Workers(e) == {c \in Checks : e \in Working(c)}
Holders(e) == {c \in Checks : e \in Holding(c)}

\* The submissions an episode has had, and those the checks that hold it may still make.
FetchOK(e) ==
  /\ e \in recorded =>
       fetches[e] + Cardinality(Workers(e)) <= cleared[e] + overlaps + 1
  /\ fetches[e] + Cardinality(Holders(e)) <=
       cleared[e] + overlaps + (IF Holders(e) # {} THEN 1 ELSE 0)
                             + (IF e \in recorded THEN 1 ELSE 0)

FetchInv == \A e \in Episodes : FetchOK(e)

LEMMA ChecksFinite ==
  /\ IsFiniteSet(Checks)
  /\ \A S \in SUBSET Checks :
       /\ IsFiniteSet(S) /\ Cardinality(S) \in Nat
       /\ S # {} => Cardinality(S) >= 1
       /\ \A T \in SUBSET S : T = S \/ Cardinality(T) < Cardinality(S)
       /\ \A c \in Checks \ S : Cardinality(S \cup {c}) = Cardinality(S) + 1
       /\ \A c \in S : Cardinality(S \ {c}) = Cardinality(S) - 1
<1>1. IsFiniteSet(Checks)
  BY FS_Singleton, FS_Union DEF Checks
<1>2. ASSUME NEW S \in SUBSET Checks
      PROVE  /\ IsFiniteSet(S) /\ Cardinality(S) \in Nat
             /\ S # {} => Cardinality(S) >= 1
             /\ \A T \in SUBSET S : T = S \/ Cardinality(T) < Cardinality(S)
             /\ \A c \in Checks \ S : Cardinality(S \cup {c}) = Cardinality(S) + 1
             /\ \A c \in S : Cardinality(S \ {c}) = Cardinality(S) - 1
  <2>1. IsFiniteSet(S)
    BY <1>1, FS_Subset
  <2>2. Cardinality(S) \in Nat
    BY <2>1, FS_CardinalityType
  <2>3. S # {} => Cardinality(S) >= 1
    BY <2>1, <2>2, FS_EmptySet
  <2>4. ASSUME NEW T \in SUBSET S PROVE T = S \/ Cardinality(T) < Cardinality(S)
    <3>1. IsFiniteSet(T) /\ Cardinality(T) <= Cardinality(S)
          /\ (Cardinality(S) = Cardinality(T) => S = T)
      BY <2>1, FS_Subset
    <3> QED BY <2>2, <3>1, FS_CardinalityType
  <2>5. ASSUME NEW c \in Checks \ S PROVE Cardinality(S \cup {c}) = Cardinality(S) + 1
    BY <2>1, FS_AddElement
  <2>6. ASSUME NEW c \in S PROVE Cardinality(S \ {c}) = Cardinality(S) - 1
    BY <2>1, FS_RemoveElement
  <2> QED BY <2>1, <2>2, <2>3, <2>4, <2>5, <2>6
<1> QED BY <1>1, <1>2

\* Where no check comes to hold an episode, and nothing is counted.
LEMMA FewerHolders ==
  ASSUME TypeOK, NEW e \in Episodes, FetchOK(e), Holders(e)' \subseteq Holders(e),
         e \in recorded' => Workers(e)' \subseteq Workers(e),
         e \in recorded' <=> e \in recorded,
         fetches'[e] = fetches[e], UNCHANGED <<cleared, overlaps>>
  PROVE  FetchOK(e)'
<1>1. /\ fetches[e] \in Nat /\ cleared[e] \in Nat /\ overlaps \in Nat
  BY DEF TypeOK
<1>2. Holders(e) \in SUBSET Checks /\ Workers(e) \in SUBSET Checks
  BY DEF Holders, Workers
<1>3. /\ Cardinality(Holders(e)) \in Nat /\ Cardinality(Workers(e)) \in Nat
      /\ Cardinality(Holders(e)') \in Nat
      /\ Holders(e)' = Holders(e) \/ Cardinality(Holders(e)') < Cardinality(Holders(e))
  BY <1>2, ChecksFinite
<1>4. e \in recorded' => /\ Cardinality(Workers(e)') \in Nat
                         /\ Cardinality(Workers(e)') <= Cardinality(Workers(e))
  <2> SUFFICES ASSUME e \in recorded' PROVE /\ Cardinality(Workers(e)') \in Nat
                         /\ Cardinality(Workers(e)') <= Cardinality(Workers(e))
    OBVIOUS
  <2>1. Workers(e)' \in SUBSET Workers(e) /\ Workers(e)' \in SUBSET Checks
    BY <1>2
  <2>2. Workers(e)' = Workers(e) \/ Cardinality(Workers(e)') < Cardinality(Workers(e))
    BY <1>2, <2>1, ChecksFinite
  <2> QED BY <1>3, <2>1, <2>2, ChecksFinite
<1> HIDE DEF FollowAssumption
<1> QED BY <1>1, <1>3, <1>4 DEF FetchOK

\* Only the check that steps comes to hold or to leave an episode.
LEMMA OneHolds ==
  ASSUME NEW c \in Checks, \A d \in Checks \ {c} : checks'[d] = checks[d], NEW e
  PROVE  /\ Holders(e)' \ {c} = Holders(e) \ {c}
         /\ Workers(e)' \ {c} = Workers(e) \ {c}
<1>1. \A d \in Checks \ {c} : Working(d)' = Working(d) /\ Holding(d)' = Holding(d)
  BY DEF Working, Holding, Scoped
<1> HIDE DEF Working, Holding
<1> QED BY <1>1 DEF Holders, Workers

LEMMA OnlyOneSteps ==
  ASSUME TypeOK, NEW c \in Checks, StartCheck(c) \/ CheckStep(c)
  PROVE  \A d \in Checks \ {c} : checks'[d] = checks[d]
BY DEF TypeOK, StartCheck, CheckStep, ReadLibrary, ReadJobs, BrowseFails, ReadSubmissions,
       EndCheck, PickNone, PickFound, Submitted, SubmitFails, NextWork, Stop

LEMMA IdleHolds ==
  ASSUME NEW c \in Checks, checks[c] = Idle
  PROVE  Holding(c) = {} /\ Working(c) = {}
BY DEF Holding, Working, Scoped, Idle

\* What a check still holds once it is done with its current piece of work.
LEMMA RestHolds ==
  ASSUME TypeOK, ChecksOK, NEW c \in Checks, checks[c].work # <<>>, checks[c].free = {},
         checks'[c].free = {}, checks'[c].work = Tail(checks[c].work)
  PROVE  /\ Holding(c)' = Working(c)' /\ Working(c)' \subseteq Working(c)
         /\ Current(c).scope \subseteq Working(c)
         /\ Current(c).scope \cap Holding(c)' = {}
<1>1. Holding(c)' = Working(c)'
  BY DEF Holding
<1>2. Working(c)' \subseteq Working(c) /\ Current(c).scope \cap Working(c)' = {}
  BY RestOfWork DEF Working, Scoped
<1>3. Current(c).scope \subseteq Working(c)
  <2>1. Len(checks[c].work) \in Nat /\ Len(checks[c].work) >= 1
    BY DEF TypeOK, Check
  <2> QED BY <2>1, RestOfWork DEF Working, Scoped
<1> QED BY <1>1, <1>2, <1>3

\* A step of a check gives it no episode, and no work on an episode that is recorded.
LEMMA CheckDrops ==
  ASSUME TypeOK, ChecksOK, NEW c \in Checks, CheckStep(c)
  PROVE  /\ Holding(c)' \subseteq Holding(c)
         /\ Working(c)' \cap recorded \subseteq Working(c)
<1>0. checks[c] \in Check /\ CheckOK(checks[c]) /\ checks \in [Checks -> Check]
  BY DEF TypeOK, ChecksOK
<1>1. CASE BrowseFails(c) \/ EndCheck(c) \/ SubmitFails(c)
  <2>1. checks'[c] = Idle
    BY <1>0, <1>1 DEF BrowseFails, EndCheck, SubmitFails, Stop
  <2>2. Holding(c)' = {} /\ Working(c)' = {}
    BY <2>1 DEF Holding, Working, Scoped, Idle
  <2> QED BY <2>2
<1>2. CASE ReadLibrary(c) \/ ReadJobs(c)
  <2>1. checks'[c].free \subseteq checks[c].free /\ checks'[c].work = checks[c].work
    BY <1>0, <1>2 DEF ReadLibrary, ReadJobs, Check
  <2> QED BY <2>1 DEF Holding, Working, Scoped
<1>3. CASE ReadSubmissions(c)
  <2> DEFINE free == checks[c].free \ recorded
             wanted == {e \in free : e >= checks[c].start}
  <2>1. PICK work \in SetToSeqs(WorkSet(wanted, free)) :
           checks' = [checks EXCEPT ![c].pc = "pick", ![c].start = 1, ![c].free = {},
                                   ![c].work = work]
    BY <1>3 DEF ReadSubmissions
  <2>2. checks'[c].free = {} /\ checks'[c].work = work
    BY <1>0, <2>1 DEF Check
  <2>3. free \in SUBSET Episodes /\ wanted \in SUBSET free
    BY <1>0 DEF Check
  <2> HIDE DEF free, wanted
  <2>4. \A i \in 1 .. Len(work) : work[i].scope \subseteq free
    BY <2>3, WorkSequence
  <2>5. Working(c)' \subseteq free /\ Holding(c)' \subseteq free
    BY <2>2, <2>4 DEF Holding, Working, Scoped
  <2> QED BY <2>5 DEF free, Holding
<1>4. CASE PickFound(c)
  <2>1. checks'[c].free = checks[c].free /\ checks'[c].work = checks[c].work
    BY <1>0, <1>4 DEF PickFound, Check
  <2> QED BY <2>1 DEF Holding, Working, Scoped
<1>5. CASE PickNone(c) \/ Submitted(c)
  <2>1. checks[c].work # <<>> /\ checks[c].free = {}
    BY <1>0, <1>5 DEF PickNone, Submitted, More, CheckOK
  <2>2. checks'[c].free = {} /\ checks'[c].work = Tail(checks[c].work)
    BY <1>0, <1>5, <2>1 DEF PickNone, Submitted, NextWork, Check
  <2>3. Holding(c)' = Working(c)' /\ Working(c)' \subseteq Working(c)
    BY <2>1, <2>2, RestHolds
  <2> QED BY <2>3 DEF Holding
<1> QED BY <1>1, <1>2, <1>3, <1>4, <1>5 DEF CheckStep

\* A check that begins takes an episode nobody holds, or counts as an overlap.
LEMMA StartFetches ==
  ASSUME TypeOK, ChecksOK, NEW c \in Checks, StartCheck(c), NEW e \in Episodes, FetchOK(e)
  PROVE  FetchOK(e)'
<1>1. Holding(c) = {} /\ Working(c) = {}
  BY IdleHolds DEF StartCheck
<1>2. Working(c)' = {}
  BY DEF StartCheck, Working, Scoped, Idle, TypeOK
<1>3. /\ Holders(e)' \ {c} = Holders(e) \ {c}
      /\ Workers(e)' \ {c} = Workers(e) \ {c}
  BY OnlyOneSteps, OneHolds
<1>4. c \notin Holders(e) /\ c \notin Workers(e) /\ c \notin Workers(e)'
  BY <1>1, <1>2 DEF Holders, Workers
<1>5. /\ Holders(e) \in SUBSET Checks /\ Holders(e)' \in SUBSET Checks
      /\ Workers(e) \in SUBSET Checks
  BY DEF Holders, Workers
<1>6. Workers(e)' = Workers(e) /\ (Holders(e)' = Holders(e) \/ Holders(e)' = Holders(e) \cup {c})
  <2>1. \A S, T : T \ {c} = S \ {c} /\ c \notin S =>
          /\ c \notin T => \A x : x \in T <=> x \in S
          /\ c \in T => \A x : x \in T <=> x \in S \cup {c}
    OBVIOUS
  <2>2. Workers(e)' = Workers(e)
    BY <1>3, <1>4, <2>1 DEF Workers
  <2>3. c \in Holders(e)' => Holders(e)' = Holders(e) \cup {c}
    BY <1>3, <1>4, <2>1 DEF Holders
  <2>4. c \notin Holders(e)' => Holders(e)' = Holders(e)
    BY <1>3, <1>4, <2>1 DEF Holders
  <2> QED BY <2>2, <2>3, <2>4
<1>7. /\ fetches[e] \in Nat /\ cleared[e] \in Nat /\ overlaps \in Nat
      /\ Cardinality(Holders(e)) \in Nat /\ Cardinality(Workers(e)) \in Nat
      /\ Cardinality(Holders(e) \cup {c}) = Cardinality(Holders(e)) + 1
      /\ Holders(e) = {} => Cardinality(Holders(e)) = 0
  BY <1>4, <1>5, ChecksFinite, FS_EmptySet DEF TypeOK
<1>8. /\ overlaps' \in {overlaps, overlaps + 1}
      /\ Holders(e) # {} => overlaps' = overlaps + 1
      /\ UNCHANGED <<fetches, cleared, recorded>>
  <2>1. Holders(e) # {} => \E d \in Checks : checks[d] # Idle
    BY IdleHolds DEF Holders
  <2> QED BY <1>7, <2>1 DEF StartCheck, followVars
<1>9. e \in recorded' <=> e \in recorded
  BY <1>8
<1>10. fetches'[e] = fetches[e] /\ cleared'[e] = cleared[e]
  BY <1>8
<1> HIDE DEF FollowAssumption
<1>11. CASE Holders(e)' = Holders(e)
  BY <1>6, <1>7, <1>8, <1>9, <1>10, <1>11 DEF FetchOK
<1>12. CASE Holders(e)' = Holders(e) \cup {c}
  <2>1. Holders(e)' # {}
    BY <1>12
  <2>2. Cardinality(Holders(e)') = Cardinality(Holders(e)) + 1
    BY <1>7, <1>12
  <2>3. Cardinality(Workers(e)') = Cardinality(Workers(e))
    BY <1>6
  <2> QED BY <1>7, <1>8, <1>9, <1>10, <2>1, <2>2, <2>3 DEF FetchOK
<1> QED BY <1>6, <1>11, <1>12

\* A submission is one more fetch, of a check that no longer holds the episode.
LEMMA SubmissionFetches ==
  ASSUME TypeOK, ChecksOK, NEW c \in Checks, Submitted(c), NEW e \in Episodes, FetchOK(e)
  PROVE  FetchOK(e)'
<1>0. checks[c] \in Check /\ CheckOK(checks[c]) /\ checks \in [Checks -> Check]
  BY DEF TypeOK, ChecksOK
<1>1. checks[c].work # <<>> /\ checks[c].free = {}
  BY <1>0 DEF Submitted, CheckOK
<1>2. checks'[c].free = {} /\ checks'[c].work = Tail(checks[c].work)
  BY <1>0, <1>1 DEF Submitted, Check
<1>3. /\ Holding(c)' = Working(c)' /\ Working(c)' \subseteq Working(c)
      /\ Current(c).scope \subseteq Working(c)
      /\ Current(c).scope \cap Holding(c)' = {}
  BY <1>1, <1>2, RestHolds
<1>4. /\ Holders(e)' \ {c} = Holders(e) \ {c}
      /\ Workers(e)' \ {c} = Workers(e) \ {c}
  BY OnlyOneSteps, OneHolds DEF CheckStep
<1>5. /\ Holders(e) \in SUBSET Checks /\ Workers(e) \in SUBSET Checks
      /\ Workers(e) \in SUBSET Holders(e)
  BY DEF Holders, Workers, Holding
<1>6. /\ fetches[e] \in Nat /\ cleared[e] \in Nat /\ overlaps \in Nat
      /\ Cardinality(Holders(e)) \in Nat /\ Cardinality(Workers(e)) \in Nat
      /\ UNCHANGED <<cleared, overlaps>>
  BY <1>5, ChecksFinite DEF TypeOK, Submitted
<1>7. CASE e \in Current(c).scope
  <2>1. c \in Workers(e) /\ c \in Holders(e) /\ c \notin Holders(e)' /\ c \notin Workers(e)'
    BY <1>3, <1>7 DEF Holders, Workers, Holding
  <2>2. Holders(e)' = Holders(e) \ {c} /\ Workers(e)' = Workers(e) \ {c}
    BY <1>4, <2>1
  <2>3. /\ Cardinality(Holders(e)') = Cardinality(Holders(e)) - 1
        /\ Cardinality(Workers(e)') = Cardinality(Workers(e)) - 1
    BY <1>5, <2>1, <2>2, ChecksFinite
  <2>4. /\ Cardinality(Workers(e)) <= Cardinality(Holders(e))
        /\ Cardinality(Workers(e)) >= 1
        /\ Holders(e)' = {} => Cardinality(Workers(e)) = Cardinality(Holders(e))
    <3>1. Workers(e) = Holders(e) \/ Cardinality(Workers(e)) < Cardinality(Holders(e))
      BY <1>5, ChecksFinite
    <3>2. Holders(e)' = {} => Workers(e) = Holders(e)
      BY <1>5, <2>1, <2>2
    <3> QED BY <1>5, <1>6, <2>1, <3>1, <3>2, ChecksFinite
  <2>5. e \in recorded' /\ fetches'[e] = fetches[e] + 1
    BY <1>7 DEF Submitted
  <2>6. Holders(e) # {}
    BY <2>1
  <2> HIDE DEF FollowAssumption
  <2> QED BY <1>6, <2>3, <2>4, <2>5, <2>6 DEF FetchOK
<1>8. CASE e \notin Current(c).scope
  <2>1. e \in recorded' <=> e \in recorded
    BY <1>8 DEF Submitted
  <2>2. fetches'[e] = fetches[e] + 0
    BY <1>8 DEF Submitted
  <2>3. Holders(e)' \subseteq Holders(e) /\ Workers(e)' \subseteq Workers(e)
    BY <1>3, <1>4 DEF Holders, Workers, Holding
  <2> QED BY <1>6, <2>1, <2>2, <2>3, FewerHolders
<1> QED BY <1>7, <1>8

LEMMA FetchNext ==
  ASSUME TypeOK, ChecksOK, FetchInv, [Next]_vars PROVE FetchInv'
<1> SUFFICES ASSUME NEW e \in Episodes PROVE FetchOK(e)'
  BY DEF FetchInv, Episodes
<1>0. FetchOK(e)
  BY DEF FetchInv
<1>1. ASSUME UNCHANGED <<checks, recorded, fetches, cleared, overlaps>> PROVE FetchOK(e)'
  BY <1>0, <1>1 DEF FetchOK, Holders, Workers, Holding, Working, Scoped
<1>2. CASE UNCHANGED vars
  BY <1>1, <1>2 DEF vars, followVars, history
<1>3. ASSUME NEW c \in Checks, StartCheck(c) PROVE FetchOK(e)'
  BY <1>0, <1>3, StartFetches
<1>4. ASSUME NEW c \in Checks, Submitted(c) PROVE FetchOK(e)'
  BY <1>0, <1>4, SubmissionFetches
<1>5. ASSUME NEW c \in Checks, CheckStep(c), ~Submitted(c) PROVE FetchOK(e)'
  <2>1. UNCHANGED <<recorded, fetches, cleared, overlaps>>
    BY <1>5 DEF CheckStep, ReadLibrary, ReadJobs, BrowseFails, ReadSubmissions, EndCheck,
                PickNone, PickFound, SubmitFails, Unread, followVars, history
  <2>2. /\ Holders(e)' \ {c} = Holders(e) \ {c}
        /\ Workers(e)' \ {c} = Workers(e) \ {c}
    BY <1>5, OnlyOneSteps, OneHolds
  <2>3. Holding(c)' \subseteq Holding(c) /\ Working(c)' \cap recorded \subseteq Working(c)
    BY <1>5, CheckDrops
  <2>4. Holders(e)' \subseteq Holders(e)
    BY <2>2, <2>3 DEF Holders
  <2>5. e \in recorded' => Workers(e)' \subseteq Workers(e)
    BY <2>1, <2>2, <2>3 DEF Workers
  <2> QED BY <1>0, <2>1, <2>4, <2>5, FewerHolders
<1>6. ASSUME NEW d \in Episodes, ClearSubmission(d) PROVE FetchOK(e)'
  <2>1. Holders(e)' = Holders(e) /\ Workers(e)' = Workers(e)
    BY <1>6 DEF ClearSubmission, Holders, Workers, Holding, Working, Scoped
  <2>2. CASE d # e
    <3>1. (e \in recorded' <=> e \in recorded) /\ cleared'[e] = cleared[e]
          /\ UNCHANGED <<fetches, overlaps>>
      BY <1>6, <2>2 DEF ClearSubmission, TypeOK
    <3> QED BY <1>0, <2>1, <3>1 DEF FetchOK
  <2>3. CASE d = e
    <3>1. e \in recorded /\ e \notin recorded' /\ cleared'[e] = cleared[e] + 1
          /\ UNCHANGED <<fetches, overlaps>>
      BY <1>6, <2>3 DEF ClearSubmission, TypeOK
    <3>2. /\ fetches[e] \in Nat /\ cleared[e] \in Nat /\ overlaps \in Nat
          /\ Cardinality(Holders(e)) \in Nat
      BY ChecksFinite DEF TypeOK, Holders
    <3> HIDE DEF FollowAssumption
    <3> QED BY <1>0, <2>1, <3>1, <3>2 DEF FetchOK
  <2> QED BY <2>2, <2>3
<1>7. CASE \/ SaveTitle \/ RemoveTitle \/ FollowShow \/ UnfollowShow \/ SetPaused
           \/ \E s \in Seasons : Decide(s)
           \/ \E d \in Episodes : ClearSubmission(d) \/ Air(d)
           \/ Download
           \/ \E j \in JobIds : Finish(j) \/ Delete(j) \/ Flag(j) \/ Dismiss(j)
  BY <1>1, <1>6, <1>7, OthersFrame
<1> QED BY <1>2, <1>3, <1>4, <1>5, <1>7 DEF Next

\* The follow records an episode once, and once more at most for every time a user
\* cleared its submission and every check that began while another was under way
\* (FollowPoller._submit; "a job later deleted, failed or replaced" is not fetched again).
THEOREM EpisodesAreFetchedOnce == Spec => []FetchedOnce
<1>1. Init => FetchInv
  <2> SUFFICES ASSUME Init, NEW e \in Episodes PROVE FetchOK(e)
    BY DEF FetchInv
  <2>1. \A c \in Checks : Holding(c) = {} /\ Working(c) = {}
    BY IdleHolds DEF Init
  <2>2. Cardinality(Holders(e)) = 0 /\ Cardinality(Workers(e)) = 0
    BY <2>1, FS_EmptySet DEF Holders, Workers
  <2> HIDE DEF FollowAssumption
  <2> QED BY <2>2 DEF Init, FetchOK
<1>2. (TypeOK /\ ChecksOK /\ FetchInv) /\ [Next]_vars => (TypeOK /\ ChecksOK /\ FetchInv)'
  BY NextShape, FetchNext
<1>3. TypeOK /\ FetchInv => FetchedOnce
  <2> SUFFICES ASSUME TypeOK, FetchInv, NEW e \in Episodes
               PROVE  fetches[e] <= 1 + cleared[e] + overlaps
    BY DEF FetchedOnce
  <2>1. FetchOK(e)
    BY DEF FetchInv
  <2>2. Holders(e) \in SUBSET Checks
    BY DEF Holders
  <2>3. /\ Cardinality(Holders(e)) \in Nat
        /\ Holders(e) # {} => Cardinality(Holders(e)) >= 1
    BY <2>2, ChecksFinite
  <2>4. fetches[e] \in Nat /\ cleared[e] \in Nat /\ overlaps \in Nat
    BY DEF TypeOK
  <2> HIDE DEF FollowAssumption
  <2> QED BY <2>1, <2>3, <2>4 DEF FetchOK
<1> QED BY <1>1, <1>2, <1>3, InitShape, PTL DEF Spec

-----------------------------------------------------------------------------
(* A decision is kept. *)

\* Nobody has the pack of s to fetch.
NoPack(s) ==
  \A c \in Checks : \A i \in 1 .. Len(checks[c].work) :
    ~(checks[c].work[i].pack /\ checks[c].work[i].season = s)

\* While no check overlapped another, one is under way at most, and it has no pack to
\* fetch of a season that waits for a decision or is fetched by episodes.
DecisionInv ==
  overlaps = 0 =>
    /\ \A c, d \in Checks : c # d => checks[c] = Idle \/ checks[d] = Idle
    /\ \A s \in Seasons : modes[s] \in {"parked", "episodes"} => NoPack(s)

\* The pack at hand is of no other piece of work.
LEMMA OnePackPerSeason ==
  ASSUME TypeOK, ChecksOK, NEW c \in Checks, checks[c].work # <<>>, Current(c).pack
  PROVE  \A i \in 1 .. Len(Tail(checks[c].work)) :
           ~(Tail(checks[c].work)[i].pack
               /\ Tail(checks[c].work)[i].season = Current(c).season)
<1> SUFFICES ASSUME NEW i \in 1 .. Len(Tail(checks[c].work)),
                    Tail(checks[c].work)[i].pack,
                    Tail(checks[c].work)[i].season = Current(c).season
             PROVE  FALSE
  OBVIOUS
<1> DEFINE w == Tail(checks[c].work)[i]
<1>1. Current(c) \in Works /\ w \in Works /\ w.scope \cap Current(c).scope = {}
  BY RestOfWork
<1>2. \A v \in Works : v.pack => v.season \in Seasons /\ v = Pack(v.season)
  BY DEF Works, Pack, Single
<1>3. w = Current(c) /\ w.scope # {}
  BY <1>1, <1>2, WorkTypes
<1> QED BY <1>1, <1>3

\* A step of a check, up to the season modes.
LEMMA CheckPacks ==
  ASSUME TypeOK, ChecksOK, DecisionInv, NEW c \in Checks, StartCheck(c) \/ CheckStep(c),
         overlaps' = 0
  PROVE  /\ \A d \in Checks \ {c} : checks'[d] = Idle
         /\ \A s \in Seasons : modes[s] \in {"parked", "episodes"} => NoPack(s)'
<1>0. checks[c] \in Check /\ CheckOK(checks[c]) /\ checks \in [Checks -> Check]
  BY DEF TypeOK, ChecksOK
<1>1. overlaps \in Nat /\ (StartCheck(c) => overlaps' >= overlaps)
  BY DEF TypeOK, StartCheck
<1>2. overlaps = 0
  BY <1>1 DEF CheckStep, ReadLibrary, ReadJobs, BrowseFails, ReadSubmissions, EndCheck,
              PickNone, PickFound, Submitted, SubmitFails, Unread, history
<1>3. \A d \in Checks \ {c} : checks[d] = Idle
  <2>1. CASE StartCheck(c)
    BY <1>2, <2>1 DEF StartCheck
  <2>2. CASE CheckStep(c)
    <3>1. checks[c].pc # "idle"
      BY <2>2 DEF CheckStep, ReadLibrary, ReadJobs, BrowseFails, ReadSubmissions, EndCheck,
                  PickNone, PickFound, Submitted, SubmitFails
    <3>2. checks[c] # Idle
      BY <3>1 DEF Idle
    <3> QED BY <1>2, <3>2 DEF DecisionInv
  <2> QED BY <2>1, <2>2
<1>4. \A d \in Checks \ {c} : checks'[d] = Idle
  BY <1>3, OnlyOneSteps
<1>5. ASSUME NEW s \in Seasons, modes[s] \in {"parked", "episodes"},
             NEW i \in 1 .. Len(checks'[c].work)
      PROVE  ~(checks'[c].work[i].pack /\ checks'[c].work[i].season = s)
  <2>1. \A k \in 1 .. Len(checks[c].work) :
          ~(checks[c].work[k].pack /\ checks[c].work[k].season = s)
    BY <1>2, <1>5 DEF DecisionInv, NoPack
  <2>2. CASE StartCheck(c) \/ BrowseFails(c) \/ EndCheck(c) \/ SubmitFails(c)
    <3>1. checks'[c].work = <<>>
      <4>1. CASE StartCheck(c)
        BY <1>0, <4>1 DEF StartCheck, Idle
      <4>2. CASE BrowseFails(c) \/ EndCheck(c) \/ SubmitFails(c)
        BY <1>0, <4>2 DEF BrowseFails, EndCheck, SubmitFails, Stop, Idle
      <4> QED BY <2>2, <4>1, <4>2
    <3> QED BY <1>5, <3>1
  <2>3. CASE ReadLibrary(c) \/ ReadJobs(c) \/ PickFound(c)
    <3>1. checks'[c].work = checks[c].work
      BY <1>0, <2>3 DEF ReadLibrary, ReadJobs, PickFound, Check
    <3> QED BY <1>5, <2>1, <3>1
  <2>4. CASE PickNone(c) \/ Submitted(c)
    <3>1. checks[c].work # <<>> /\ checks'[c].work = Tail(checks[c].work)
      BY <1>0, <2>4 DEF PickNone, Submitted, NextWork, More, Check, CheckOK
    <3> QED BY <1>5, <2>1, <3>1, RestOfWork
  <2>5. CASE ReadSubmissions(c)
    <3> DEFINE free == checks[c].free \ recorded
               wanted == {e \in free : e >= checks[c].start}
    <3>1. PICK work \in SetToSeqs(WorkSet(wanted, free)) :
             checks' = [checks EXCEPT ![c].pc = "pick", ![c].start = 1, ![c].free = {},
                                     ![c].work = work]
      BY <2>5 DEF ReadSubmissions
    <3>2. checks'[c].work = work
      BY <1>0, <3>1 DEF Check
    <3>3. free \in SUBSET Episodes /\ wanted \in SUBSET free
      BY <1>0 DEF Check
    <3> HIDE DEF free, wanted
    <3>4. \A k \in 1 .. Len(work) : work[k].pack => modes[work[k].season] \in PackSearchModes
      BY <3>3, WorkSequence
    <3> QED BY <1>5, <3>2, <3>4 DEF PackSearchModes
  <2> QED BY <2>2, <2>3, <2>4, <2>5 DEF CheckStep
<1>6. ASSUME NEW d \in Checks \ {c} PROVE Len(checks'[d].work) = 0
  BY <1>4 DEF Idle
<1> QED BY <1>4, <1>5, <1>6 DEF NoPack

\* What a check does to the season modes: it parks or resets the season of its pack.
LEMMA CheckModes ==
  ASSUME TypeOK, ChecksOK, NEW c \in Checks, StartCheck(c) \/ CheckStep(c), NEW s \in Seasons
  PROVE  \/ modes'[s] = modes[s]
         \/ /\ checks[c].work # <<>> /\ Current(c).pack /\ Current(c).season = s
            /\ checks'[c].work = Tail(checks[c].work)
<1>0. checks[c] \in Check /\ CheckOK(checks[c]) /\ checks \in [Checks -> Check]
      /\ modes \in [Seasons -> Mode]
  BY DEF TypeOK, ChecksOK
<1>1. CASE PickNone(c) \/ Submitted(c)
  <2>1. checks[c].work # <<>> /\ checks'[c].work = Tail(checks[c].work)
    BY <1>0, <1>1 DEF PickNone, Submitted, NextWork, More, Check, CheckOK
  <2>2. modes'[s] = modes[s] \/ (Current(c).pack /\ Current(c).season = s)
    BY <1>0, <1>1 DEF PickNone, Submitted
  <2> QED BY <2>1, <2>2
<1>2. CASE ~(PickNone(c) \/ Submitted(c))
  BY <1>2 DEF StartCheck, CheckStep, ReadLibrary, ReadJobs, BrowseFails, ReadSubmissions,
              EndCheck, PickFound, SubmitFails, Unread, followVars
<1> QED BY <1>1, <1>2

LEMMA DecisionNext ==
  ASSUME TypeOK, ChecksOK, DecisionInv, [Next]_vars
  PROVE  /\ DecisionInv'
         /\ \A s \in Seasons : modes[s] = "episodes" /\ overlaps = 0 =>
              modes'[s] \in {"episodes", "none"}
<1> DEFINE Kept == \A s \in Seasons : modes[s] = "episodes" /\ overlaps = 0 =>
                     modes'[s] \in {"episodes", "none"}
<1>1. CASE UNCHANGED vars
  BY <1>1 DEF vars, followVars, history, DecisionInv, NoPack
<1>2. ASSUME NEW c \in Checks, StartCheck(c) \/ CheckStep(c) PROVE DecisionInv' /\ Kept
  <2>1. Kept
    <3> SUFFICES ASSUME NEW s \in Seasons, modes[s] = "episodes", overlaps = 0
                 PROVE  modes'[s] = modes[s]
      OBVIOUS
    <3>1. ~(checks[c].work # <<>> /\ Current(c).pack /\ Current(c).season = s)
      <4> SUFFICES ASSUME checks[c].work # <<>>
                   PROVE  ~(Current(c).pack /\ Current(c).season = s)
        OBVIOUS
      <4>1. 1 \in 1 .. Len(checks[c].work)
        BY DEF TypeOK, Check
      <4> QED BY <4>1, RestOfWork DEF DecisionInv, NoPack
    <3> QED BY <1>2, <3>1, CheckModes
  <2>2. DecisionInv'
    <3> SUFFICES ASSUME overlaps' = 0
                 PROVE  /\ \A d, b \in Checks :
                             d # b => checks'[d] = Idle \/ checks'[b] = Idle
                        /\ \A s \in Seasons :
                             modes'[s] \in {"parked", "episodes"} => NoPack(s)'
      BY DEF DecisionInv, Seasons, Episodes
    <3>1. /\ \A d \in Checks \ {c} : checks'[d] = Idle
          /\ \A s \in Seasons : modes[s] \in {"parked", "episodes"} => NoPack(s)'
      BY <1>2, CheckPacks
    <3>2. ASSUME NEW s \in Seasons, modes'[s] \in {"parked", "episodes"} PROVE NoPack(s)'
      <4>1. CASE modes'[s] = modes[s]
        BY <3>1, <3>2, <4>1
      <4>2. CASE /\ checks[c].work # <<>> /\ Current(c).pack /\ Current(c).season = s
                 /\ checks'[c].work = Tail(checks[c].work)
        <5>1. \A d \in Checks \ {c} : Len(checks'[d].work) = 0
          BY <3>1 DEF Idle
        <5>2. \A i \in 1 .. Len(checks'[c].work) :
                ~(checks'[c].work[i].pack /\ checks'[c].work[i].season = s)
          BY <4>2, OnePackPerSeason
        <5> QED BY <5>1, <5>2 DEF NoPack
      <4> QED BY <1>2, <4>1, <4>2, CheckModes
    <3> QED BY <3>1, <3>2
  <2> QED BY <2>1, <2>2
<1>3. CASE \/ SaveTitle \/ RemoveTitle \/ FollowShow \/ UnfollowShow \/ SetPaused
           \/ \E s \in Seasons : Decide(s)
           \/ \E d \in Episodes : ClearSubmission(d) \/ Air(d)
           \/ Download
           \/ \E j \in JobIds : Finish(j) \/ Delete(j) \/ Flag(j) \/ Dismiss(j)
  <2>1. UNCHANGED <<checks, overlaps>>
    BY <1>3, OthersFrame
  <2>2. UNCHANGED modes \/ modes' = NoModes \/ \E s \in Seasons : Decide(s)
    BY <1>3, OthersFrame
  <2>3. ASSUME NEW s \in Seasons
        PROVE  /\ modes[s] = "episodes" => modes'[s] \in {"episodes", "none"}
               /\ modes'[s] \in {"parked", "episodes"} => modes[s] \in {"parked", "episodes"}
    <3>1. CASE UNCHANGED modes \/ modes' = NoModes
      BY <3>1 DEF NoModes
    <3>2. ASSUME NEW r \in Seasons, Decide(r)
          PROVE  /\ modes[s] = "episodes" => modes'[s] \in {"episodes", "none"}
                 /\ modes'[s] \in {"parked", "episodes"} =>
                      modes[s] \in {"parked", "episodes"}
      BY <3>2 DEF Decide, TypeOK
    <3> QED BY <2>2, <3>1, <3>2
  <2>4. \A s : NoPack(s)' <=> NoPack(s)
    BY <2>1 DEF NoPack
  <2>5. Seasons' = Seasons
    BY DEF Seasons, Episodes
  <2> HIDE DEF FollowAssumption
  <2> QED BY <2>1, <2>3, <2>4, <2>5 DEF DecisionInv
<1> QED BY <1>1, <1>2, <1>3 DEF Next

\* A season the user had continue episode by episode is not parked again or set back to
\* PACK by the follow, for any number of seasons, episodes and checks, as long as no check
\* began while another was under way (decide_season against FollowPoller._try_pack).
THEOREM DecisionIsKept == Spec => DecisionKept
<1>1. Init => DecisionInv
  BY DEF Init, DecisionInv
<1>2. (TypeOK /\ ChecksOK /\ DecisionInv) /\ [Next]_vars
        => (TypeOK /\ ChecksOK /\ DecisionInv)'
  BY NextShape, DecisionNext
<1>3. (TypeOK /\ ChecksOK /\ DecisionInv) /\ [Next]_vars =>
        [\A s \in Seasons : modes[s] = "episodes" /\ overlaps = 0 =>
           modes'[s] \in {"episodes", "none"}]_vars
  BY DecisionNext
<1> QED BY <1>1, <1>2, <1>3, InitShape, PTL DEF Spec, DecisionKept
=============================================================================
