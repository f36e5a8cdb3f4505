---------------------------- MODULE MCVotingService ----------------------------
(* Instances of VotingService for TLC. *)
EXTENDS VotingService, TLC

CONSTANTS anon, ident, a1, a2, i1, i2

\* Options a1, a2 belong to the anonymous topic, i1, i2 to the identified one.
MCTopicOf == [o \in Options |-> IF o \in {a1, a2} THEN anon ELSE ident]
MCMode == [t \in Topics |-> IF t = anon THEN "anonymous" ELSE "identified"]

MCNoWindow == [t \in Topics |-> NULL]

\* Voting ends with the first instant.
MCFirstInstant == [t \in Topics |-> 0]

\* Residents and workers are interchangeable; no property names one.
Symmetry == Permutations(Users) \cup Permutations(Workers)
=============================================================================
