------------------------------- MODULE MCKeyProbe -------------------------------
(* KeyProbe with interchangeable threads.                                  *)
EXTENDS KeyProbe, TLC

Symmetric == Permutations(Threads)
================================================================================
