------------------------- MODULE MCFollowupSequence -------------------------
(* Small instances of FollowupSequence for TLC.                            *)
EXTENDS FollowupSequence, TLC

CONSTANTS s1, s2

Symmetry == Permutations(Sweeps)
=============================================================================
