--------------------------------- MODULE MCAuth ---------------------------------
(* Auth with interchangeable tokens and requests.                          *)
EXTENDS Auth, TLC

Symmetric == Permutations(Sids) \union Permutations(Threads)
================================================================================
