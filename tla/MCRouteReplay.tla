---------------------------- MODULE MCRouteReplay ----------------------------
(* Constants of the model-checking runs of RouteReplay.                      *)
EXTENDS RouteReplay, TLC

CONSTANTS k1, k2

Symmetry == Permutations(Keys)
=============================================================================
