---------------------------- MODULE MCFollowPoll ---------------------------
(***************************************************************************)
(* An instance of FollowPoll for TLC: one season of two episodes.          *)
(***************************************************************************)
EXTENDS FollowPoll

OneSeason == <<1, 1>>

\* No operation tells one row of the job table from another.
AnyRows == Permutations(JobIds)
=============================================================================
