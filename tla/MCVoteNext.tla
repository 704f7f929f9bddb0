----------------------------- MODULE MCVoteNext -----------------------------
(***************************************************************************)
(* Small rooms for TLC.  All but the GameMaster are interchangeable.        *)
(***************************************************************************)
EXTENDS VoteNext, TLC

Symmetry == Permutations(Player \ {GM})
=============================================================================
