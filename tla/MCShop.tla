------------------------------- MODULE MCShop -------------------------------
(* Shop on small sets of requests, shoppers and products.                  *)
EXTENDS Shop, TLC

Symmetry == Permutations(Reqs) \cup Permutations(Browsers) \cup Permutations(Products)
=============================================================================
