----------------------------- MODULE MCCheckout -----------------------------
(* Instances of Checkout for TLC; calls and pages are interchangeable.     *)
EXTENDS Checkout, TLC

MCSymmetry == Permutations(Calls) \cup Permutations(Pages) \cup Permutations(Deeds)
=============================================================================
