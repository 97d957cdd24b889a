--------------------------- MODULE MCMarketplaceCache ---------------------------
(***************************************************************************)
(* Small instances of MarketplaceCache for TLC.                            *)
(***************************************************************************)
EXTENDS MarketplaceCache, TLC

CONSTANTS c1, c2

\* Clients are interchangeable.
Simetria == Permutations(Peticion)
=============================================================================
