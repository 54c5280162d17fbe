-------------------------------- MODULE Sums --------------------------------
(***************************************************************************)
(* The totals the shop's ledgers are made of: the sum of the natural       *)
(* numbers f[x] for the x of a finite set.  It is counted rather than      *)
(* defined by recursion, so that what a sum becomes when an element joins  *)
(* the set follows from what is known of cardinalities.                    *)
(***************************************************************************)
EXTENDS Naturals, FiniteSets

\* What x contributes: f[x] elements that no other x contributes.
Units(x, f) == {x} \X (1 .. f[x])

SumOver(S, f) == Cardinality(UNION {Units(x, f) : x \in S})
=============================================================================
