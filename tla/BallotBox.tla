------------------------------- MODULE BallotBox -------------------------------
(***************************************************************************)
(* What the voting backend promises, without workers, tables or clocks: a  *)
(* box of ballots that only grows, one ballot per voter and topic, and     *)
(* answers to voters that never contradict the box.                        *)
(***************************************************************************)
CONSTANTS Users, Topics, Options, TopicOf

VARIABLES
    ballots,    \* the ballots in the box
    told        \* the answers given: <<"recorded", ballot>> and <<"already", user, topic>>

Ballot == [user : Users, topic : Topics, option : Options]

HasBallot(u, t) == \E b \in ballots : b.user = u /\ b.topic = t

Init == ballots = {} /\ told = {}

\* A ballot for an option of the topic, from somebody who has none there yet.
Cast(b) ==
    /\ TopicOf[b.option] = b.topic
    /\ ~HasBallot(b.user, b.topic)
    /\ ballots' = ballots \cup {b}
    /\ UNCHANGED told

\* "Your vote has been recorded": said of a ballot that is in the box.
Confirm(b) ==
    /\ b \in ballots
    /\ told' = told \cup {<<"recorded", b>>}
    /\ UNCHANGED ballots

\* "You have already voted": said only to somebody who has.
Deny(u, t) ==
    /\ HasBallot(u, t)
    /\ told' = told \cup {<<"already", u, t>>}
    /\ UNCHANGED ballots

Next ==
    \/ \E b \in Ballot : Cast(b) \/ Confirm(b)
    \/ \E u \in Users, t \in Topics : Deny(u, t)

Spec == Init /\ [][Next]_<<ballots, told>>
=============================================================================
