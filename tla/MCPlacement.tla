---------------------------- MODULE MCPlacement ----------------------------
(***************************************************************************)
(* Instances of Placement for TLC.                                         *)
(***************************************************************************)
EXTENDS Placement

PackFiles == 1 .. 3
FeatureFiles == 1 .. 2

\* A pack: an episode named by its file, its subtitle, and one named by its folder.
Pack ==
  << [video |-> TRUE, size |-> 2, code |-> "E1", fallback |-> NoCode, ext |-> "mkv",
      name |-> "a", of |-> {}],
     [video |-> FALSE, size |-> 1, code |-> NoCode, fallback |-> NoCode, ext |-> "en.srt",
      name |-> "b", of |-> {1}],
     [video |-> TRUE, size |-> 2, code |-> NoCode, fallback |-> "E2", ext |-> "mkv",
      name |-> "c", of |-> {}] >>

\* A movie and its sample.
Feature ==
  << [video |-> TRUE, size |-> 2, code |-> NoCode, fallback |-> NoCode, ext |-> "mkv",
      name |-> "a", of |-> {}],
     [video |-> TRUE, size |-> 1, code |-> NoCode, fallback |-> NoCode, ext |-> "mkv",
      name |-> "b", of |-> {}] >>

\* A pack whose names tell its files apart keeps every file's place, whatever part of
\* it is planned; a movie with extras does not.
ASSUME PlansAssumption ==
  /\ \A S \in SUBSET Files : Plan(S) \in Seq(Moves) /\ Range(Plan(S)) = MovesFor(S)
  /\ ToldApart <=> Media = "SHOW"
  /\ PlansAgree <=> Media = "SHOW"
  /\ PlacesStay <=> Media = "SHOW"
=============================================================================
