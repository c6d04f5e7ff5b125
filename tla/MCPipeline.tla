----------------------------- MODULE MCPipeline -----------------------------
(***************************************************************************)
(* Instances of Pipeline for TLC.  One torrent is enough for the races:    *)
(* jobs only meet over a hash, over a redo, and in the library over the    *)
(* title.                                                                  *)
(***************************************************************************)
EXTENDS Pipeline

\* Values of MediaOf.
Movies == [h \in Hashes |-> "MOVIE"]
Shows == [h \in Hashes |-> "SHOW"]

=============================================================================
