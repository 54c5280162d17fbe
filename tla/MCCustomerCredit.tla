-------------------------- MODULE MCCustomerCredit --------------------------
(* Two bills: an older one of two pieces for three, so that half of it is  *)
(* rounded, and a newer one of one piece for one.                          *)
EXTENDS CustomerCredit, TLC

MCTotal == (1 :> 3) @@ (2 :> 1)
MCPieces == (1 :> 2) @@ (2 :> 1)
MCValue == [t \in TradeIns |-> 1]
MCPlans == {(1 :> 1) @@ (2 :> 1)}
MCSymmetry == Permutations(Clients) \union Permutations(Receipts)
=============================================================================
