----------------------------- MODULE MCTopicAdmin -----------------------------
(* Instances of TopicAdmin for TLC. *)
EXTENDS TopicAdmin, FiniteSets, TLC

CONSTANTS anon, a1, a2

MCTopicOf == [o \in Options |-> anon]
MCMode == [t \in Topics |-> "anonymous"]
\* Open at the instant 1 only, by its window.
MCWindow == [t \in Topics |-> 1]

\* No guard reads the audit rows or the history told, and no property checked here
\* mentions them: states that differ only there need one visit.
View == <<now, status, authorised, votes, vote_tracking, pc, req, late, rvars, avars, viewer,
          rights>>

\* Residents, options and administrators are interchangeable; no property names one.
Symmetry == Permutations(Users) \cup Permutations(Options) \cup Permutations(Admins)

\* A deployment with two processes: at most two requests are under way.
TwoProcesses ==
    Cardinality({w \in Workers : pc[w] # "idle"}) + Cardinality({a \in Admins : saving[a] # NoSave})
    + Cardinality({r \in Readers : rpc[r] # "idle" \/ viewer[r] # NoViewer}) <= 2
=============================================================================
