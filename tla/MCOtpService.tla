----------------------------- MODULE MCOtpService -----------------------------
(* Instances of OtpService for TLC. *)
EXTENDS OtpService, TLC

\* Workers, codes and phones are interchangeable; no property names one.
Symmetry == Permutations(Workers) \cup Permutations(Codes) \cup Permutations(Phones)
=============================================================================
