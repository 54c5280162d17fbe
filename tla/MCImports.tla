----------------------------- MODULE MCImports ------------------------------
(* Uploads of one file, and what two mappings make of its rows, for TLC.     *)
EXTENDS Imports, TLC

\* One mapping reads the whole file, the other misses the second row.
MCReadable == [m \in Mappings |-> IF m = "whole" THEN RowNumbers ELSE {1, NumRows}]

MCSymmetry == Permutations(Jobs) \union Permutations(Calls)
=============================================================================
