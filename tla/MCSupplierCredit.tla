-------------------------- MODULE MCSupplierCredit --------------------------
(* Two purchases from one supplier, which one payment settles together,    *)
(* only the older one of counted goods; the other supplier is paid on      *)
(* account.  Three requests are what a ring through purchase, shelf and    *)
(* drawer takes.                                                           *)
EXTENDS SupplierCredit, TLC

MCSupplierOf == (1 :> "one") @@ (2 :> "one")
MCTotal == (1 :> 1) @@ (2 :> 2)
MCPieces == (1 :> 2) @@ (2 :> 0)
MCSymmetry == Permutations(Clients) \union Permutations(Payments)
=============================================================================
