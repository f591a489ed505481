--------------------------------- MODULE MCTrellis ---------------------------------
(* Three names and two sessions that may stand for each other.             *)
EXTENDS Trellis, TLC
Symmetry == Permutations(Tasks) \union Permutations(Sessions)
================================================================================
