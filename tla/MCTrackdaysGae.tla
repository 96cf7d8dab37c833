--------------------------- MODULE MCTrackdaysGae ---------------------------
(* TrackdaysGae with a few POSTs.                                          *)
EXTENDS TrackdaysGae, TLC

Symmetry == Permutations(Posts)
=============================================================================
