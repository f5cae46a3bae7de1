---------------------------- MODULE MCMarketplace ----------------------------
(***************************************************************************)
(* Marketplace for TLC.  Requests and proposals are interchangeable: no    *)
(* definition names one of them.                                           *)
(***************************************************************************)
EXTENDS MarketplaceClaims, TLC

Symmetry == Permutations(Requests) \cup Permutations(Proposals)
=============================================================================
