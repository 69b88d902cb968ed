-------------------------------- MODULE Sums --------------------------------
(***************************************************************************)
(* Totals over a finite set, of a function rather than of an operator, so  *)
(* that they can be reasoned about as well as evaluated.                   *)
(***************************************************************************)
EXTENDS Integers, FiniteSetsExt

SumOf(g, S) == MapThenSumSet(LAMBDA x : g[x], S)
=============================================================================
