------------------------ MODULE MCIdentifierClaims ------------------------
(* Handsets, numbers, purchases and clients are interchangeable.           *)
EXTENDS IdentifierClaims, TLC

MCSymmetry ==
    Permutations(Devices) \union Permutations(Numbers) \union Permutations(Purchases)
        \union Permutations(Clients)
=============================================================================
