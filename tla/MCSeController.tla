--------------------------- MODULE MCSeController ---------------------------
EXTENDS SeController, TLC

HandlerSymmetry == Permutations(Handlers) \cup Permutations(Ses)
=============================================================================
