------------------------------ MODULE MCTokens ------------------------------
(***************************************************************************)
(* Instances of RefreshTokens for TLC.                                     *)
(***************************************************************************)
EXTENDS RefreshTokens, TLC

\* Safety runs only: token ids and request slots are interchangeable.
Symmetry == Permutations(Tokens) \union Permutations(Requests)
=============================================================================
