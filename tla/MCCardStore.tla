---------------------------- MODULE MCCardStore ----------------------------
(* Instances of CardStore for TLC; cards and removals are interchangeable. *)
EXTENDS CardStore, TLC

MCSymmetry == Permutations(Cards) \cup Permutations(Removals)
=============================================================================
