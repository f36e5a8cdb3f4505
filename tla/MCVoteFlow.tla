------------------------------ MODULE MCVoteFlow ------------------------------
(* Instances of VoteFlow for TLC. *)
EXTENDS VoteFlow, TLC

CONSTANTS t1, t2, o1, o2

MCTopicOf == [o \in Options |-> IF o = o1 THEN t1 ELSE t2]
MCMode == [t \in Topics |-> "anonymous"]
MCNoWindow == [t \in Topics |-> NULL]

\* No guard of the flow reads the audit rows or the histories told and late, the choice
\* left in a session at the list, or the choice of a request for another OTP, and no
\* property here depends on them: states that differ only there need one visit.
Shown(z) == IF z.step = "list" THEN [z EXCEPT !.topic = NULL, !.option = NULL] ELSE z

Served(r) ==
    IF r # NULL /\ r.ask.kind = "resend"
    THEN [r EXCEPT !.ask.topic = NULL, !.ask.option = NULL]
    ELSE r

View == <<now, status, authorised, votes, vote_tracking, pc, req, desk, picked, handed, vouchers,
          [s \in Sessions |-> Shown(wizard[s])], [w \in Workers |-> Served(serving[w])]>>

\* Residents and workers are interchangeable, and so are the topics with their options;
\* no property names one.
SwapTopics == (t1 :> t2) @@ (t2 :> t1) @@ (o1 :> o2) @@ (o2 :> o1)
Symmetry == Permutations(Users) \cup Permutations(Workers) \cup {SwapTopics}

\* Two residents and two topics make four choices: three are made, or one and a log-in
\* over the session that holds it (the steps that pass the bound are still checked).
FewChoices == Cardinality(picked) + 2 * Cardinality(handed) <= 3
=============================================================================
