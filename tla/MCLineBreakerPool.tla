-------------------------- MODULE MCLineBreakerPool --------------------------
(* Two WordBreakers, three locales and a pool of two: the pool fills up,   *)
(* and a pooled breaker is wanted by both.  Six addresses are enough for   *)
(* two pooled breakers and two with each WordBreaker.  *)
EXTENDS LineBreakerPool, TLC
Symmetry == Permutations(Breaker) \cup Permutations(WordBreaker)
=============================================================================
