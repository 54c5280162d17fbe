-------------------------- MODULE MCStockTransfer --------------------------
(* Two branches and two requests at a time, for TLC. *)
EXTENDS StockTransfer, TLC

\* Handsets, branches and clients are interchangeable.
MCSymmetry == Permutations(Devices) \union Permutations(Branches) \union Permutations(Clients)
=============================================================================
