------------------------- MODULE MCL4SInterceptor -------------------------
(***************************************************************************)
(* L4SInterceptor for TLC: the goroutines that write are interchangeable.  *)
(***************************************************************************)
EXTENDS L4SInterceptor, TLC

Symmetry == Permutations(Writers)
=============================================================================
