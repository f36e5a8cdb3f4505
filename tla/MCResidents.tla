------------------------------ MODULE MCResidents ------------------------------
(* Instances of Residents for TLC. *)
EXTENDS Residents, TLC

\* Phones, apartments and workers are interchangeable; no property names one.
Symmetry == Permutations(Phones) \cup Permutations(Apartments) \cup Permutations(Workers)
=============================================================================
