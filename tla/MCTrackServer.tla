--------------------------- MODULE MCTrackServer ----------------------------
(* TrackServer, with interchangeable requests and track days. *)
EXTENDS TrackServer, TLC

Symmetry == Permutations(Reqs) \cup Permutations(Tracks)
=============================================================================
