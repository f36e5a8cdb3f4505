----------------------------- MODULE MCAccountFlow -----------------------------
(* Instances of AccountFlow for TLC. *)
EXTENDS AccountFlow, TLC

\* Phones and apartments are interchangeable; no property names one.
Symmetry == Permutations(Phones) \cup Permutations(Apartments)
=============================================================================
